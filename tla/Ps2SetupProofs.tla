---------------------------- MODULE Ps2SetupProofs ----------------------------
(***************************************************************************)
(* The setup of the PS/2 controller, for any firmware, any devices and any *)
(* bytes a user may send into it: a setup that reports devices has left    *)
(* the controller configured for them, and unless a key was pressed or an  *)
(* answer was late it reports the devices that are there.                  *)
(***************************************************************************)
EXTENDS Ps2Setup, SequenceTheorems, TLAPS

-----------------------------------------------------------------------------
(* The inductive invariants                                                 *)

Ending == {"handle", "mouse", "mouse2", "mousewait", "install", "done", "aborted"}
Resetting == {"reset", "reset2", "ack", "bat", "id3", "id4"}
Labels == DOMAIN CommandAt \cup DOMAIN AfterData \cup Answers \cup {"flush"}
          \cup Resetting \cup Ending

\* From here on the configuration byte is one that the driver has written.
Configured ==
  {"self", "gotself", "on2", "cfg7", "got7", "off2b", "cfg7b", "got7b", "put7", "data7",
   "test1", "gott1", "test2", "gott2", "en1", "en2", "cfg9", "got9", "put9", "data9"}
  \cup Resetting

BusTypes ==
  /\ ports \in {1, 2} /\ device \in [Port -> Devices]
  /\ ports = 1 => device[2] = "none"
  /\ config \in Byte
  /\ out \in Byte \cup {None} /\ ctl \in Byte \cup {None}
  /\ target \in {"config", "port1", "port2"}
  /\ queue \in [Port -> Seq(Byte)]
  /\ typed \in Nat

Types ==
  /\ BusTypes
  /\ pc \in Labels /\ byte \in Byte /\ supported \in BOOLEAN /\ port \in Port
  /\ found \in [Port -> {"none", "ancient", "keyboard", "mouse"}]
  /\ late \in BOOLEAN

\* A setup has a result when it has ended, and goes on only with a good one.
Results ==
  /\ status \in {"running"} \cup Working \cup Failed
  /\ status = "running" <=> pc \notin Ending
  /\ pc \in {"mouse", "mouse2", "mousewait", "install", "aborted"} => status \in Working

\* The next data byte goes to the configuration only where the driver means it.
Targets ==
  /\ status = "running" => (target = "config" <=> pc \in DOMAIN AfterData)
  /\ status \in Working => target # "config"

\* A configuration byte that passes the driver's check.  It is neither the
\* answer of a passed test nor an acknowledgement.
Checked(b) == Bit(b, PassedPost) /\ ~Bit(b, Zero1)

\* What was written is always a byte that was checked.
Writes ==
  /\ ports = 1 => Bit(config, ClockOff(2))
  /\ pc \in {"put5", "data5", "put7", "data7", "put9", "data9"} => Checked(byte)
  /\ pc \in Configured => Checked(config)
  /\ pc \in {"put5", "data5"} => ~Bit(byte, Translation)

\* The controller's answer to a request for the configuration byte.
Answered == ctl = config \/ (ctl = None /\ out = config)

\* A byte was taken for such an answer, and the answer is still to be read.
Behind == \/ ctl # None /\ Checked(ctl)
          \/ ctl = None /\ out # None /\ Checked(out)

\* The byte that is read next is such an answer.
NextIsConfig == out # None /\ Checked(out)

SecondPort == supported => ports = 2
Clocks(b) == ~Bit(b, ClockOff(1)) /\ (ports = 2 => ~Bit(b, ClockOff(2)))
Interrupts(b) == Bit(b, IrqOn(1)) /\ Bit(b, IrqOn(2))
NoTranslation(b) == ~Bit(b, Translation)

\* What PortsReady says of a setup that reports devices.
Ready == SecondPort /\ Clocks(config) /\ Interrupts(config) /\ NoTranslation(config)

\* Steps 5 to 8: a byte that was taken for the configuration leaves the driver
\* one answer behind, and the next test fails.
Step7Inv ==
  /\ pc \in {"self", "gotself", "on2", "cfg7", "got7", "off2b", "cfg7b", "got7b", "put7",
             "data7"} => NoTranslation(config)
  /\ pc = "got7" => Answered
  /\ pc \in {"off2b", "cfg7b"} => Behind \/ SecondPort
  /\ pc = "got7b" => Answered /\ (SecondPort \/ (ctl = config /\ out # None))
  /\ pc \in {"put7", "data7"} => Behind \/ (SecondPort /\ NoTranslation(byte))
  /\ pc = "test1" => Behind \/ (SecondPort /\ NoTranslation(config))
  /\ pc = "gott1" => NextIsConfig \/ (SecondPort /\ NoTranslation(config))

\* Steps 8 to 10: the same for the byte of step 9, and the first reset fails.
Step9Inv ==
  /\ pc \in {"test2", "gott2", "en1", "en2", "cfg9", "got9"} =>
       SecondPort /\ NoTranslation(config)
  /\ pc = "en2" => ~Bit(config, ClockOff(1))
  /\ pc = "cfg9" => Clocks(config)
  /\ pc = "got9" => Clocks(config) /\ Answered
  /\ pc \in {"put9", "data9"} =>
       Behind \/ (SecondPort /\ Clocks(byte) /\ Interrupts(byte) /\ NoTranslation(byte))

ResetInv ==
  /\ pc \notin Resetting \cup Ending => port = 1
  /\ pc = "reset" /\ port = 1 => Behind \/ Ready
  /\ pc = "ack" /\ port = 1 => NextIsConfig \/ Ready
  /\ pc \in {"bat", "id3", "id4"} => Ready
  /\ pc \in Resetting /\ port = 2 => Ready /\ supported
  /\ pc = "reset2" => port = 2
  /\ status \in Working => Ready

PortsInv == Types /\ Results /\ Targets /\ Writes /\ Step7Inv /\ Step9Inv /\ ResetInv

\* Nothing was pressed, and nothing came late.
Quiet == typed = 0 /\ ~late

Empty(S) == \A p \in S : queue[p] = <<>>
Other == Port \ {port}

\* The driver and the controller are in step: one answer for each question.
InStep ==
  /\ pc \notin Resetting \cup Ending => Empty(Port)
  /\ pc \in {"off1", "off2", "flush"} => ctl = None
  /\ pc \in (DOMAIN CommandAt \cup DOMAIN AfterData) \ {"off1", "off2"} => out = None /\ ctl = None
  /\ pc \in Answers => out = None \/ ctl = None
  /\ pc \in {"got5", "got7", "got7b", "got9"} => Answered
  /\ pc \in {"cfg7", "got7"} => (Bit(config, ClockOff(2)) <=> ports = 1)
  /\ pc \in {"off2b", "cfg7b", "got7b", "put7", "data7", "test1", "gott1", "test2", "gott2",
             "en1", "en2", "cfg9", "got9", "put9", "data9"} \cup Resetting
       => supported = (ports = 2)

\* What the device under reset still has to send.
ToCome(s) == \/ out = None /\ queue[port] = s
             \/ s # <<>> /\ out = Head(s) /\ queue[port] = Tail(s)

\* What is left of a device's answer to a reset, once it has acknowledged it.
RestToCome ==
  LET d == device[port]
  IN
  /\ pc = "bat" => d # "none" /\ ToCome(<<SelfTestPassed>> \o Identity(d))
  /\ pc = "id3" => d # "none" /\ ToCome(Identity(d))
  /\ pc = "id4" => d = "keyboard" /\ ToCome(<<131>>)

InReset ==
  LET d == device[port]
  IN
  /\ pc \in Resetting => ctl = None /\ Empty(Other)
  /\ pc \in Resetting => target = IF pc = "reset2" THEN "port2" ELSE "port1"
  /\ pc \in {"reset", "reset2"} => out = None /\ Empty(Port)
  /\ pc = "ack" => IF d = "none" THEN ToCome(<<>>)
                   ELSE ToCome(<<Acknowledged, SelfTestPassed>> \o Identity(d))
  /\ RestToCome

\* What was found so far is what is there.
FoundSoFar ==
  /\ status = "running" /\ port = 1 => found = [p \in Port |-> "none"]
  /\ status = "running" /\ port = 2 =>
       found = [p \in Port |-> IF p = 1 THEN device[1] ELSE "none"]
  /\ status \in Working =>
       /\ supported = (ports = 2)
       /\ found = [p \in Port |-> IF p = 2 /\ ports = 1 THEN "none" ELSE device[p]]

DevicesInv == Quiet => InStep /\ InReset /\ FoundSoFar

-----------------------------------------------------------------------------
(* Bytes and their bits                                                     *)

\* The bits of the configuration byte.
LEMMA Powers ==
  /\ 2^0 = 1 /\ 2^1 = 2 /\ 2^2 = 4 /\ 2^3 = 8
  /\ 2^4 = 16 /\ 2^5 = 32 /\ 2^6 = 64 /\ 2^7 = 128
OBVIOUS

\* Setting a bit sets that bit and no other.
LEMMA SetBitIs ==
  ASSUME NEW b \in Byte, NEW k \in 0..7
  PROVE  SetBit(b, k) \in Byte /\ \A j \in 0..7 : Bit(SetBit(b, k), j) <=> j = k \/ Bit(b, j)
<1>1. k = 0 \/ k = 1 \/ k = 2 \/ k = 3 \/ k = 4 \/ k = 5 \/ k = 6 \/ k = 7
  OBVIOUS
<1>2. \A j \in 0..7 : j = 0 \/ j = 1 \/ j = 2 \/ j = 3 \/ j = 4 \/ j = 5 \/ j = 6 \/ j = 7
  OBVIOUS
<1>3. CASE k = 0
  <2>1. 2^k = 1
    BY <1>3, Powers
  <2>2. CASE Bit(b, k)
    BY <1>2, <1>3, <2>1, <2>2, Powers DEF SetBit, Bit, Byte
  <2>3. CASE ~Bit(b, k)
    BY <1>2, <1>3, <2>1, <2>3, Powers DEF SetBit, Bit, Byte
  <2> QED BY <2>2, <2>3
<1>4. CASE k = 1
  <2>1. 2^k = 2
    BY <1>4, Powers
  <2>2. CASE Bit(b, k)
    BY <1>2, <1>4, <2>1, <2>2, Powers DEF SetBit, Bit, Byte
  <2>3. CASE ~Bit(b, k)
    BY <1>2, <1>4, <2>1, <2>3, Powers DEF SetBit, Bit, Byte
  <2> QED BY <2>2, <2>3
<1>5. CASE k = 2
  <2>1. 2^k = 4
    BY <1>5, Powers
  <2>2. CASE Bit(b, k)
    BY <1>2, <1>5, <2>1, <2>2, Powers DEF SetBit, Bit, Byte
  <2>3. CASE ~Bit(b, k)
    BY <1>2, <1>5, <2>1, <2>3, Powers DEF SetBit, Bit, Byte
  <2> QED BY <2>2, <2>3
<1>6. CASE k = 3
  <2>1. 2^k = 8
    BY <1>6, Powers
  <2>2. CASE Bit(b, k)
    BY <1>2, <1>6, <2>1, <2>2, Powers DEF SetBit, Bit, Byte
  <2>3. CASE ~Bit(b, k)
    BY <1>2, <1>6, <2>1, <2>3, Powers DEF SetBit, Bit, Byte
  <2> QED BY <2>2, <2>3
<1>7. CASE k = 4
  <2>1. 2^k = 16
    BY <1>7, Powers
  <2>2. CASE Bit(b, k)
    BY <1>2, <1>7, <2>1, <2>2, Powers DEF SetBit, Bit, Byte
  <2>3. CASE ~Bit(b, k)
    BY <1>2, <1>7, <2>1, <2>3, Powers DEF SetBit, Bit, Byte
  <2> QED BY <2>2, <2>3
<1>8. CASE k = 5
  <2>1. 2^k = 32
    BY <1>8, Powers
  <2>2. CASE Bit(b, k)
    BY <1>2, <1>8, <2>1, <2>2, Powers DEF SetBit, Bit, Byte
  <2>3. CASE ~Bit(b, k)
    BY <1>2, <1>8, <2>1, <2>3, Powers DEF SetBit, Bit, Byte
  <2> QED BY <2>2, <2>3
<1>9. CASE k = 6
  <2>1. 2^k = 64
    BY <1>9, Powers
  <2>2. CASE Bit(b, k)
    BY <1>2, <1>9, <2>1, <2>2, Powers DEF SetBit, Bit, Byte
  <2>3. CASE ~Bit(b, k)
    BY <1>2, <1>9, <2>1, <2>3, Powers DEF SetBit, Bit, Byte
  <2> QED BY <2>2, <2>3
<1>10. CASE k = 7
  <2>1. 2^k = 128
    BY <1>10, Powers
  <2>2. CASE Bit(b, k)
    BY <1>2, <1>10, <2>1, <2>2, Powers DEF SetBit, Bit, Byte
  <2>3. CASE ~Bit(b, k)
    BY <1>2, <1>10, <2>1, <2>3, Powers DEF SetBit, Bit, Byte
  <2> QED BY <2>2, <2>3
<1> QED BY <1>1, <1>3, <1>4, <1>5, <1>6, <1>7, <1>8, <1>9, <1>10

\* Clearing a bit clears that bit and no other.
LEMMA ClearBitIs ==
  ASSUME NEW b \in Byte, NEW k \in 0..7
  PROVE  ClearBit(b, k) \in Byte /\ \A j \in 0..7 : Bit(ClearBit(b, k), j) <=> j # k /\ Bit(b, j)
<1>1. k = 0 \/ k = 1 \/ k = 2 \/ k = 3 \/ k = 4 \/ k = 5 \/ k = 6 \/ k = 7
  OBVIOUS
<1>2. \A j \in 0..7 : j = 0 \/ j = 1 \/ j = 2 \/ j = 3 \/ j = 4 \/ j = 5 \/ j = 6 \/ j = 7
  OBVIOUS
<1>3. CASE k = 0
  <2>1. 2^k = 1
    BY <1>3, Powers
  <2>2. CASE Bit(b, k)
    BY <1>2, <1>3, <2>1, <2>2, Powers DEF ClearBit, Bit, Byte
  <2>3. CASE ~Bit(b, k)
    BY <1>2, <1>3, <2>1, <2>3, Powers DEF ClearBit, Bit, Byte
  <2> QED BY <2>2, <2>3
<1>4. CASE k = 1
  <2>1. 2^k = 2
    BY <1>4, Powers
  <2>2. CASE Bit(b, k)
    BY <1>2, <1>4, <2>1, <2>2, Powers DEF ClearBit, Bit, Byte
  <2>3. CASE ~Bit(b, k)
    BY <1>2, <1>4, <2>1, <2>3, Powers DEF ClearBit, Bit, Byte
  <2> QED BY <2>2, <2>3
<1>5. CASE k = 2
  <2>1. 2^k = 4
    BY <1>5, Powers
  <2>2. CASE Bit(b, k)
    BY <1>2, <1>5, <2>1, <2>2, Powers DEF ClearBit, Bit, Byte
  <2>3. CASE ~Bit(b, k)
    BY <1>2, <1>5, <2>1, <2>3, Powers DEF ClearBit, Bit, Byte
  <2> QED BY <2>2, <2>3
<1>6. CASE k = 3
  <2>1. 2^k = 8
    BY <1>6, Powers
  <2>2. CASE Bit(b, k)
    BY <1>2, <1>6, <2>1, <2>2, Powers DEF ClearBit, Bit, Byte
  <2>3. CASE ~Bit(b, k)
    BY <1>2, <1>6, <2>1, <2>3, Powers DEF ClearBit, Bit, Byte
  <2> QED BY <2>2, <2>3
<1>7. CASE k = 4
  <2>1. 2^k = 16
    BY <1>7, Powers
  <2>2. CASE Bit(b, k)
    BY <1>2, <1>7, <2>1, <2>2, Powers DEF ClearBit, Bit, Byte
  <2>3. CASE ~Bit(b, k)
    BY <1>2, <1>7, <2>1, <2>3, Powers DEF ClearBit, Bit, Byte
  <2> QED BY <2>2, <2>3
<1>8. CASE k = 5
  <2>1. 2^k = 32
    BY <1>8, Powers
  <2>2. CASE Bit(b, k)
    BY <1>2, <1>8, <2>1, <2>2, Powers DEF ClearBit, Bit, Byte
  <2>3. CASE ~Bit(b, k)
    BY <1>2, <1>8, <2>1, <2>3, Powers DEF ClearBit, Bit, Byte
  <2> QED BY <2>2, <2>3
<1>9. CASE k = 6
  <2>1. 2^k = 64
    BY <1>9, Powers
  <2>2. CASE Bit(b, k)
    BY <1>2, <1>9, <2>1, <2>2, Powers DEF ClearBit, Bit, Byte
  <2>3. CASE ~Bit(b, k)
    BY <1>2, <1>9, <2>1, <2>3, Powers DEF ClearBit, Bit, Byte
  <2> QED BY <2>2, <2>3
<1>10. CASE k = 7
  <2>1. 2^k = 128
    BY <1>10, Powers
  <2>2. CASE Bit(b, k)
    BY <1>2, <1>10, <2>1, <2>2, Powers DEF ClearBit, Bit, Byte
  <2>3. CASE ~Bit(b, k)
    BY <1>2, <1>10, <2>1, <2>3, Powers DEF ClearBit, Bit, Byte
  <2> QED BY <2>2, <2>3
<1> QED BY <1>1, <1>3, <1>4, <1>5, <1>6, <1>7, <1>8, <1>9, <1>10

\* A checked configuration byte is no answer that the driver goes on with.
LEMMA CheckedIs ==
  ASSUME NEW b \in Byte, Checked(b) PROVE b # PS2_TPR.passed /\ b # Acknowledged
<1>1. ~Bit(0, 2) /\ Bit(250, 3)
  BY Powers DEF Bit
<1> QED BY <1>1 DEF Checked, PassedPost, Zero1, PS2_TPR, Acknowledged

\* What the commands that stop and start the ports' clocks do to the byte.
LEMMA ClockBits ==
  ASSUME NEW b \in Byte, NEW p \in Port
  PROVE  /\ SetBit(b, ClockOff(p)) \in Byte /\ ClearBit(b, ClockOff(p)) \in Byte
         /\ Bit(SetBit(b, ClockOff(p)), ClockOff(p))
         /\ ~Bit(ClearBit(b, ClockOff(p)), ClockOff(p))
         /\ \A q \in Port \ {p} :
              /\ Bit(SetBit(b, ClockOff(p)), ClockOff(q)) <=> Bit(b, ClockOff(q))
              /\ Bit(ClearBit(b, ClockOff(p)), ClockOff(q)) <=> Bit(b, ClockOff(q))
         /\ \A q \in Port :
              /\ Bit(SetBit(b, ClockOff(p)), IrqOn(q)) <=> Bit(b, IrqOn(q))
              /\ Bit(ClearBit(b, ClockOff(p)), IrqOn(q)) <=> Bit(b, IrqOn(q))
         /\ NoTranslation(SetBit(b, ClockOff(p))) <=> NoTranslation(b)
         /\ NoTranslation(ClearBit(b, ClockOff(p))) <=> NoTranslation(b)
         /\ Checked(SetBit(b, ClockOff(p))) <=> Checked(b)
         /\ Checked(ClearBit(b, ClockOff(p))) <=> Checked(b)
<1>1. ClockOff(p) \in 0..7 /\ ClockOff(p) \in {4, 5}
  BY DEF ClockOff, Port
<1>2. /\ \A q \in Port \ {p} : ClockOff(q) \in 0..7 /\ ClockOff(q) # ClockOff(p)
      /\ \A q \in Port : IrqOn(q) \in 0..7 /\ IrqOn(q) # ClockOff(p)
      /\ Translation \in 0..7 /\ Translation # ClockOff(p)
      /\ PassedPost \in 0..7 /\ PassedPost # ClockOff(p)
      /\ Zero1 \in 0..7 /\ Zero1 # ClockOff(p)
  BY DEF ClockOff, IrqOn, Translation, PassedPost, Zero1, Port
<1> QED BY <1>1, <1>2, SetBitIs, ClearBitIs DEF NoTranslation, Checked

\* What the driver makes of a byte that passed its check.
LEMMA Step5Is ==
  ASSUME NEW b \in Byte, ~Bit(b, Zero1), Bit(b, PassedPost) \/ QEMU
  PROVE  Step5(b) \in Byte /\ Checked(Step5(b)) /\ NoTranslation(Step5(b))
<1> DEFINE c1 == ClearBit(b, IrqOn(1))
           c2 == ClearBit(c1, Translation)
           c3 == ClearBit(c2, ClockOff(1))
<1>1. IrqOn(1) = 0 /\ Translation = 6 /\ ClockOff(1) = 4 /\ PassedPost = 2 /\ Zero1 = 3
  BY DEF IrqOn, Translation, ClockOff, PassedPost, Zero1
<1>2. c1 \in Byte /\ ~Bit(c1, 3) /\ (Bit(c1, 2) <=> Bit(b, 2))
  BY <1>1, ClearBitIs
<1> HIDE DEF c1
<1>3. c2 \in Byte /\ ~Bit(c2, 3) /\ (Bit(c2, 2) <=> Bit(b, 2)) /\ ~Bit(c2, 6)
  BY <1>1, <1>2, ClearBitIs
<1> HIDE DEF c2
<1>4. c3 \in Byte /\ ~Bit(c3, 3) /\ (Bit(c3, 2) <=> Bit(b, 2)) /\ ~Bit(c3, 6)
  BY <1>1, <1>3, ClearBitIs
<1> HIDE DEF c3
<1>5. LET c == SetBit(c3, 2) IN c \in Byte /\ ~Bit(c, 3) /\ Bit(c, 2) /\ ~Bit(c, 6)
  BY <1>4, SetBitIs
<1>6. Step5(b) = IF QEMU THEN SetBit(c3, 2) ELSE c3
  BY <1>1 DEF Step5, c1, c2, c3
<1> QED BY <1>1, <1>4, <1>5, <1>6 DEF Checked, NoTranslation

\* What the second change of the configuration byte leaves of it.
LEMMA Step7Is ==
  ASSUME NEW b \in Byte, Checked(b)
  PROVE  /\ Step7(b) \in Byte /\ Checked(Step7(b))
         /\ NoTranslation(b) => NoTranslation(Step7(b))
<1> DEFINE c1 == ClearBit(b, ClockOff(2))
<1>1. IrqOn(2) = 1 /\ Translation = 6 /\ ClockOff(2) = 5 /\ PassedPost = 2 /\ Zero1 = 3
  BY DEF IrqOn, Translation, ClockOff, PassedPost, Zero1
<1>2. c1 \in Byte /\ (Bit(c1, 3) <=> Bit(b, 3)) /\ (Bit(c1, 2) <=> Bit(b, 2))
      /\ (Bit(c1, 6) <=> Bit(b, 6))
  BY <1>1, ClearBitIs
<1> HIDE DEF c1
<1>3. LET c == ClearBit(c1, 1) IN c \in Byte /\ (Bit(c, 3) <=> Bit(b, 3))
        /\ (Bit(c, 2) <=> Bit(b, 2)) /\ (Bit(c, 6) <=> Bit(b, 6))
  BY <1>2, ClearBitIs
<1>4. Step7(b) = ClearBit(c1, 1)
  BY <1>1 DEF Step7, c1
<1> QED BY <1>1, <1>3, <1>4 DEF Checked, NoTranslation

\* The last change turns the interrupts on and leaves translation and clocks.
LEMMA Step9Is ==
  ASSUME NEW b \in Byte, Checked(b)
  PROVE  /\ Step9(b) \in Byte /\ Checked(Step9(b)) /\ Interrupts(Step9(b))
         /\ NoTranslation(b) => NoTranslation(Step9(b))
         /\ Clocks(b) => Clocks(Step9(b))
<1> DEFINE c1 == SetBit(b, IrqOn(1))
<1>1. /\ IrqOn(1) = 0 /\ IrqOn(2) = 1 /\ Translation = 6 /\ ClockOff(1) = 4 /\ ClockOff(2) = 5
      /\ PassedPost = 2 /\ Zero1 = 3
  BY DEF IrqOn, Translation, ClockOff, PassedPost, Zero1
<1>2. c1 \in Byte /\ Bit(c1, 0) /\ \A j \in 2..6 : Bit(c1, j) <=> Bit(b, j)
  BY <1>1, SetBitIs
<1> HIDE DEF c1
<1>3. LET c == SetBit(c1, 1) IN
        c \in Byte /\ Bit(c, 0) /\ Bit(c, 1) /\ \A j \in 2..6 : Bit(c, j) <=> Bit(b, j)
  BY <1>2, SetBitIs
<1>4. Step9(b) = SetBit(c1, 1)
  BY <1>1 DEF Step9, c1
<1> QED BY <1>1, <1>3, <1>4 DEF Checked, NoTranslation, Interrupts, Clocks

-----------------------------------------------------------------------------
(* What the commands do                                                     *)

\* The effect of each command on the controller, and where the driver goes on.
Effect(label, next, newConfig, newCtl, newTarget) ==
  /\ pc = label /\ pc' = next
  /\ config' = newConfig /\ ctl' \in newCtl /\ target' = newTarget

CommandEffects ==
  \/ Effect("off1", "off2", SetBit(config, ClockOff(1)), {None}, "port1")
  \/ Effect("off2", "flush", SetBit(config, ClockOff(2)), {None}, "port1")
  \/ Effect("cfg5", "got5", config, {config}, "port1")
  \/ Effect("put5", "data5", config, {None}, "config")
  \/ Effect("self", "gotself", config, {85, 252}, "port1")
  \/ Effect("on2", "cfg7", IF ports = 2 THEN ClearBit(config, ClockOff(2)) ELSE config,
            {None}, "port1")
  \/ Effect("cfg7", "got7", config, {config}, "port1")
  \/ Effect("off2b", IF supported THEN "cfg7b" ELSE "test1", SetBit(config, ClockOff(2)),
            {None}, "port1")
  \/ Effect("cfg7b", "got7b", config, {config}, "port1")
  \/ Effect("put7", "data7", config, {None}, "config")
  \/ Effect("test1", "gott1", config, {0, 4}, "port1")
  \/ Effect("test2", "gott2", config, IF ports = 2 THEN {0, 4} ELSE AbsentTest, "port1")
  \/ Effect("en1", "en2", ClearBit(config, ClockOff(1)), {None}, "port1")
  \/ Effect("en2", "cfg9", IF ports = 2 THEN ClearBit(config, ClockOff(2)) ELSE config,
            {None}, "port1")
  \/ Effect("cfg9", "got9", config, {config}, "port1")
  \/ Effect("put9", "data9", config, {None}, "config")

\* The steps that send a command, and those that send its data.
LEMMA CommandLabels ==
  DOMAIN CommandAt = {"off1", "off2", "cfg5", "put5", "self", "on2", "cfg7", "off2b", "cfg7b",
                      "put7", "test1", "test2", "en1", "en2", "cfg9", "put9"}
  /\ DOMAIN AfterData = {"data5", "data7", "data9"}
BY DEF CommandAt, AfterData

\* Sending a command changes the controller and nothing else.
LEMMA Commands ==
  ASSUME SendCommand, ports \in {1, 2}
  PROVE  /\ CommandEffects
         /\ ctl = None
         /\ UNCHANGED <<ports, device, out, queue, reporting, typed, driverVars>>
<1>1. /\ ctl = None
      /\ UNCHANGED <<ports, device, out, queue, reporting, typed, driverVars>>
  BY DEF SendCommand, ControllerTakes
<1> SUFFICES CommandEffects
  BY <1>1
<1>2. ControllerTakes(CommandAt[pc]) /\ pc' = AfterCommand[pc]
  BY DEF SendCommand
<1>3. pc \in {"off1", "off2", "cfg5", "put5", "self", "on2", "cfg7", "off2b", "cfg7b",
              "put7", "test1", "test2", "en1", "en2", "cfg9", "put9"}
  BY CommandLabels DEF SendCommand
<1>4. CASE pc = "off1"
  <2>1. ControllerTakes(173)
    BY <1>2, <1>4 DEF CommandAt, PS2_CB
  <2>2. Effect("off1", "off2", SetBit(config, ClockOff(1)), {None}, "port1")
    BY <1>2, <1>4, <2>1 DEF Effect, ControllerTakes, AfterCommand
  <2> QED BY <2>2 DEF CommandEffects
<1>5. CASE pc = "off2"
  <2>1. ControllerTakes(167)
    BY <1>2, <1>5 DEF CommandAt, PS2_CB
  <2>2. Effect("off2", "flush", SetBit(config, ClockOff(2)), {None}, "port1")
    BY <1>2, <1>5, <2>1 DEF Effect, ControllerTakes, AfterCommand
  <2> QED BY <2>2 DEF CommandEffects
<1>6. CASE pc = "cfg5"
  <2>1. ControllerTakes(32)
    BY <1>2, <1>6 DEF CommandAt, PS2_CB
  <2>2. Effect("cfg5", "got5", config, {config}, "port1")
    BY <1>2, <1>6, <2>1 DEF Effect, ControllerTakes, AfterCommand
  <2> QED BY <2>2 DEF CommandEffects
<1>7. CASE pc = "put5"
  <2>1. ControllerTakes(96)
    BY <1>2, <1>7 DEF CommandAt, PS2_CB
  <2>2. Effect("put5", "data5", config, {None}, "config")
    BY <1>2, <1>7, <2>1 DEF Effect, ControllerTakes, AfterCommand
  <2> QED BY <2>2 DEF CommandEffects
<1>8. CASE pc = "self"
  <2>1. ControllerTakes(170)
    BY <1>2, <1>8 DEF CommandAt, PS2_CB
  <2>2. Effect("self", "gotself", config, {85, 252}, "port1")
    BY <1>2, <1>8, <2>1 DEF Effect, ControllerTakes, AfterCommand
  <2> QED BY <2>2 DEF CommandEffects
<1>9. CASE pc = "on2"
  <2>1. ControllerTakes(168)
    BY <1>2, <1>9 DEF CommandAt, PS2_CB
  <2>2. Effect("on2", "cfg7", IF ports = 2 THEN ClearBit(config, ClockOff(2)) ELSE config,
              {None}, "port1")
    BY <1>2, <1>9, <2>1 DEF Effect, ControllerTakes, AfterCommand
  <2> QED BY <2>2 DEF CommandEffects
<1>10. CASE pc = "cfg7"
  <2>1. ControllerTakes(32)
    BY <1>2, <1>10 DEF CommandAt, PS2_CB
  <2>2. Effect("cfg7", "got7", config, {config}, "port1")
    BY <1>2, <1>10, <2>1 DEF Effect, ControllerTakes, AfterCommand
  <2> QED BY <2>2 DEF CommandEffects
<1>11. CASE pc = "off2b"
  <2>1. ControllerTakes(167)
    BY <1>2, <1>11 DEF CommandAt, PS2_CB
  <2>2. Effect("off2b", IF supported THEN "cfg7b" ELSE "test1",
              SetBit(config, ClockOff(2)),
              {None}, "port1")
    BY <1>2, <1>11, <2>1 DEF Effect, ControllerTakes, AfterCommand
  <2> QED BY <2>2 DEF CommandEffects
<1>12. CASE pc = "cfg7b"
  <2>1. ControllerTakes(32)
    BY <1>2, <1>12 DEF CommandAt, PS2_CB
  <2>2. Effect("cfg7b", "got7b", config, {config}, "port1")
    BY <1>2, <1>12, <2>1 DEF Effect, ControllerTakes, AfterCommand
  <2> QED BY <2>2 DEF CommandEffects
<1>13. CASE pc = "put7"
  <2>1. ControllerTakes(96)
    BY <1>2, <1>13 DEF CommandAt, PS2_CB
  <2>2. Effect("put7", "data7", config, {None}, "config")
    BY <1>2, <1>13, <2>1 DEF Effect, ControllerTakes, AfterCommand
  <2> QED BY <2>2 DEF CommandEffects
<1>14. CASE pc = "test1"
  <2>1. ControllerTakes(171)
    BY <1>2, <1>14 DEF CommandAt, PS2_CB
  <2>2. Effect("test1", "gott1", config, {0, 4}, "port1")
    BY <1>2, <1>14, <2>1 DEF Effect, ControllerTakes, AfterCommand
  <2> QED BY <2>2 DEF CommandEffects
<1>15. CASE pc = "test2"
  <2>1. ControllerTakes(169)
    BY <1>2, <1>15 DEF CommandAt, PS2_CB
  <2>2. Effect("test2", "gott2", config,
              IF ports = 2 THEN {0, 4} ELSE AbsentTest, "port1")
    BY <1>2, <1>15, <2>1 DEF Effect, ControllerTakes, AfterCommand
  <2> QED BY <2>2 DEF CommandEffects
<1>16. CASE pc = "en1"
  <2>1. ControllerTakes(174)
    BY <1>2, <1>16 DEF CommandAt, PS2_CB
  <2>2. Effect("en1", "en2", ClearBit(config, ClockOff(1)), {None}, "port1")
    BY <1>2, <1>16, <2>1 DEF Effect, ControllerTakes, AfterCommand
  <2> QED BY <2>2 DEF CommandEffects
<1>17. CASE pc = "en2"
  <2>1. ControllerTakes(168)
    BY <1>2, <1>17 DEF CommandAt, PS2_CB
  <2>2. Effect("en2", "cfg9", IF ports = 2 THEN ClearBit(config, ClockOff(2)) ELSE config,
              {None}, "port1")
    BY <1>2, <1>17, <2>1 DEF Effect, ControllerTakes, AfterCommand
  <2> QED BY <2>2 DEF CommandEffects
<1>18. CASE pc = "cfg9"
  <2>1. ControllerTakes(32)
    BY <1>2, <1>18 DEF CommandAt, PS2_CB
  <2>2. Effect("cfg9", "got9", config, {config}, "port1")
    BY <1>2, <1>18, <2>1 DEF Effect, ControllerTakes, AfterCommand
  <2> QED BY <2>2 DEF CommandEffects
<1>19. CASE pc = "put9"
  <2>1. ControllerTakes(96)
    BY <1>2, <1>19 DEF CommandAt, PS2_CB
  <2>2. Effect("put9", "data9", config, {None}, "config")
    BY <1>2, <1>19, <2>1 DEF Effect, ControllerTakes, AfterCommand
  <2> QED BY <2>2 DEF CommandEffects
<1> QED BY <1>3, <1>4, <1>5, <1>6, <1>7, <1>8, <1>9, <1>10, <1>11, <1>12, <1>13, <1>14, <1>15, <1>16, <1>17, <1>18, <1>19

-----------------------------------------------------------------------------
(* A setup that reports devices left the ports ready                        *)

\* The invariant of the ports holds at first.
LEMMA PortsStart == Init => PortsInv
<1> SUFFICES ASSUME Init PROVE PortsInv
  OBVIOUS
<1>1. PICK b \in BiosConfigs : config = IF ports = 1 THEN SetBit(b, ClockOff(2)) ELSE b
  BY DEF Init, InitBus
<1>2. b \in Byte /\ 2 \in Port
  BY I8042Assumption DEF Port
<1>3. config \in Byte /\ (ports = 1 => Bit(config, ClockOff(2)))
  BY <1>1, <1>2, ClockBits
<1>4. queue \in [Port -> Seq(Byte)] /\ found \in [Port -> {"none", "ancient", "keyboard", "mouse"}]
  BY DEF Init, InitBus
<1>5. BusTypes
  BY <1>3, <1>4, I8042Assumption DEF Init, InitBus, BusTypes
<1>6. pc \in Labels /\ pc = "off1"
  BY CommandLabels DEF Labels, Init
<1>7. Types
  <2>1. byte \in Byte /\ port \in Port
    BY DEF Init, Byte, Port
  <2>2. supported \in BOOLEAN /\ late \in BOOLEAN
    BY DEF Init
  <2> QED BY <1>4, <1>5, <1>6, <2>1, <2>2 DEF Types
<1>8. Results /\ Targets /\ Writes
  BY <1>3, <1>6, CommandLabels
     DEF Results, Targets, Writes, Init, InitBus, Ending, Configured, Resetting, Working, Failed
<1>9. Step7Inv /\ Step9Inv /\ ResetInv
  BY <1>6 DEF Step7Inv, Step9Inv, ResetInv, Init, Resetting, Ending, Working
<1> QED BY <1>7, <1>8, <1>9 DEF PortsInv

\* The labels of the setup.
LEMMA LabelsAre ==
  Labels = {"off1", "off2", "flush", "cfg5", "got5", "put5", "data5", "self", "gotself", "on2",
            "cfg7", "got7", "off2b", "cfg7b", "got7b", "put7", "data7", "test1", "gott1",
            "test2", "gott2", "en1", "en2", "cfg9", "got9", "put9", "data9", "reset", "reset2",
            "ack", "bat", "id3", "id4", "handle", "mouse", "mouse2", "mousewait", "install",
            "done", "aborted"}
BY CommandLabels DEF Labels, Answers, Resetting, Ending

\* The setup is over with an error.
LEMMA FailingKeeps ==
  ASSUME PortsInv, BusTypes', late' \in BOOLEAN, ports' = ports,
         ports = 1 => Bit(config', ClockOff(2)),
         NEW st \in Failed, Fails(st)
  PROVE  PortsInv'
<1>1. pc' = "handle" /\ status' = st
  BY DEF Fails
<1>2. Types'
  BY <1>1, LabelsAre DEF PortsInv, Types, Fails
<1>3. status' \in Failed /\ status' # "running" /\ status' \notin Working
  BY <1>1 DEF Failed, Working
<1>4. Results' /\ Targets' /\ Writes'
  BY <1>1, <1>3 DEF Results, Targets, Writes, Ending, Configured, Resetting
<1>5. Step7Inv' /\ Step9Inv' /\ ResetInv'
  BY <1>1, <1>3 DEF Step7Inv, Step9Inv, ResetInv, Resetting, Ending
<1> QED BY <1>2, <1>4, <1>5 DEF PortsInv

\* What the controller and the devices do changes neither the configuration
\* nor what the driver is about to read.
LEMMA HardwareKeepsPorts ==
  ASSUME PortsInv, Hardware, UNCHANGED <<pc, driverVars>>
  PROVE  PortsInv'
<1>1. /\ UNCHANGED <<ports, device, config, target>>
      /\ UNCHANGED <<pc, byte, supported, port, found, status, late>>
  BY DEF Hardware, ControllerAnswers, DeviceSends, UserActs, driverVars
<1>2. \/ out = None /\ ctl # None /\ out' = ctl /\ ctl' = None
      \/ ctl' = ctl /\ (out' = out \/ out = None)
  BY DEF Hardware, ControllerAnswers, DeviceSends, UserActs
<1>3. BusTypes'
  <2>1. CASE ControllerAnswers
    BY <2>1 DEF ControllerAnswers, PortsInv, Types, BusTypes
  <2>2. ASSUME NEW p \in Port, DeviceSends(p) PROVE BusTypes'
    <3>1. queue[p] \in Seq(Byte) /\ queue[p] # <<>>
      BY <2>2 DEF DeviceSends, PortsInv, Types, BusTypes
    <3>2. Head(queue[p]) \in Byte /\ Tail(queue[p]) \in Seq(Byte)
      BY <3>1, HeadTailProperties
    <3> QED BY <2>2, <3>2 DEF DeviceSends, PortsInv, Types, BusTypes
  <2>3. ASSUME NEW p \in Port, UserActs(p) PROVE BusTypes'
    <3>1. PICK b \in KeyBytes : queue' = [queue EXCEPT ![p] = <<b>>]
      BY <2>3 DEF UserActs
    <3>2. <<b>> \in Seq(Byte)
      BY I8042Assumption
    <3> QED BY <2>3, <3>1, <3>2 DEF UserActs, PortsInv, Types, BusTypes
  <2> QED BY <2>1, <2>2, <2>3 DEF Hardware
<1>4. Types'
  BY <1>1, <1>3 DEF PortsInv, Types
<1>5. Results' /\ Targets'
  BY <1>1 DEF PortsInv, Results, Targets
<1>6. Writes'
  BY <1>1 DEF PortsInv, Writes, Checked, NoTranslation
<1>7. config # None
  BY I8042Assumption DEF PortsInv, Types, BusTypes
<1>8. (Answered => Answered') /\ (Behind => Behind') /\ (NextIsConfig => NextIsConfig')
  BY <1>1, <1>2, <1>7 DEF Answered, Behind, NextIsConfig, Checked
<1>9. Step7Inv'
  BY <1>1, <1>2, <1>7, <1>8 DEF PortsInv, Step7Inv, SecondPort, NoTranslation
<1>10. Step9Inv'
  BY <1>1, <1>8 DEF PortsInv, Step9Inv, SecondPort, NoTranslation, Clocks, Interrupts
<1>11. ResetInv'
  BY <1>1, <1>8
     DEF PortsInv, ResetInv, Ready, SecondPort, NoTranslation, Clocks, Interrupts
<1> QED BY <1>4, <1>5, <1>6, <1>9, <1>10, <1>11 DEF PortsInv

\* The value the controller's answers have.
LEMMA AnswersAre ==
  ASSUME BusTypes
  PROVE  {85, 252} \cup {0, 4} \cup AbsentTest \cup {config} \subseteq Byte \cup {None}
<1>1. {85, 252} \cup {0, 4} \subseteq Byte
  BY DEF Byte
<1> QED BY <1>1, I8042Assumption DEF BusTypes

\* Where a command leaves the driver.
LEMMA CommandKeepsPorts ==
  ASSUME PortsInv, SendCommand
  PROVE  PortsInv'
<1>1. BusTypes /\ ports \in {1, 2} /\ config \in Byte
  BY DEF PortsInv, Types, BusTypes
<1>2. /\ CommandEffects /\ ctl = None
      /\ UNCHANGED <<ports, device, out, queue, typed>>
      /\ UNCHANGED <<byte, supported, port, found, status, late>>
  BY <1>1, Commands DEF driverVars
<1>3. 1 \in Port /\ 2 \in Port /\ 1 # 2
  BY DEF Port
<1> DEFINE S1 == SetBit(config, ClockOff(1))
           S2 == SetBit(config, ClockOff(2))
           C1 == ClearBit(config, ClockOff(1))
           C2 == ClearBit(config, ClockOff(2))
<1>4. {S1, S2, C1, C2} \subseteq Byte
  BY <1>1, <1>3, ClockBits
<1>5. config' \in {config, S1, S2, C1, C2}
  BY <1>2 DEF CommandEffects, Effect
<1>6. /\ Checked(config) => Checked(config')
      /\ NoTranslation(config) => NoTranslation(config')
  BY <1>1, <1>3, <1>5, ClockBits
<1>7. ports = 1 => Bit(config', ClockOff(2))
  <2>1. ports = 1 => Bit(config, ClockOff(2))
    BY DEF PortsInv, Writes
  <2>2. ports = 1 => config' \in {config, S1, S2, C1}
    BY <1>2 DEF CommandEffects, Effect
  <2> QED BY <1>1, <1>3, <2>1, <2>2, ClockBits
<1>8. BusTypes'
  <2>1. ctl' \in Byte \cup {None} /\ target' \in {"config", "port1", "port2"}
    BY <1>1, <1>2, AnswersAre DEF CommandEffects, Effect
  <2> QED BY <1>1, <1>2, <1>4, <1>5, <2>1 DEF BusTypes
<1>9. pc' \in Labels
  BY <1>2, LabelsAre DEF CommandEffects, Effect
<1>10. Types'
  BY <1>2, <1>8, <1>9 DEF PortsInv, Types
<1>11. Results'
  BY <1>2 DEF PortsInv, Results, CommandEffects, Effect, Ending
<1>12. Targets'
  BY <1>2, CommandLabels DEF PortsInv, Results, Targets, CommandEffects, Effect, Ending, Working, Failed
<1>13. Writes'
  BY <1>2, <1>6, <1>7 DEF PortsInv, Writes, CommandEffects, Effect, Configured, Resetting, Checked
<1>14. Step7Inv'
  BY <1>1, <1>2, <1>6
     DEF PortsInv, Writes, Configured, Step7Inv, CommandEffects, Effect, Answered, Behind,
         NextIsConfig, SecondPort, NoTranslation, Checked
<1>15. Step9Inv'
  <2>2. pc = "en1" => ~Bit(config', ClockOff(1))
    BY <1>1, <1>2, <1>3, ClockBits DEF CommandEffects, Effect
  <2>3. pc = "en2" => Clocks(config')
    BY <1>1, <1>2, <1>3, ClockBits DEF CommandEffects, Effect, Clocks, PortsInv, Step9Inv
  <2> QED BY <1>1, <1>2, <1>6, <2>2, <2>3
     DEF PortsInv, Step9Inv, CommandEffects, Effect, Answered, Behind, Interrupts, Clocks,
         SecondPort, NoTranslation, Checked
<1>16. ResetInv'
  BY <1>2 DEF PortsInv, Results, ResetInv, CommandEffects, Effect, Resetting, Ending, Working
<1> QED BY <1>10, <1>11, <1>12, <1>13, <1>14, <1>15, <1>16 DEF PortsInv

\* A configuration byte is written: it has been read and checked.
LEMMA ConfigKeepsPorts ==
  ASSUME PortsInv, SendConfig
  PROVE  PortsInv'
<1>1. /\ BusTypes /\ ports \in {1, 2} /\ config \in Byte /\ byte \in Byte /\ Checked(byte)
      /\ status = "running" /\ target = "config" /\ pc \in {"data5", "data7", "data9"}
  BY CommandLabels
     DEF PortsInv, Types, BusTypes, Results, Targets, Writes, SendConfig, Ending
<1>2. /\ ctl = None /\ target' = "port1"
      /\ config' = IF ports = 1 THEN SetBit(byte, ClockOff(2)) ELSE byte
      /\ UNCHANGED <<ports, device, out, ctl, queue, typed>>
      /\ UNCHANGED <<byte, supported, port, found, status, late>>
      /\ pc' = AfterData[pc]
  BY <1>1 DEF SendConfig, DataTaken, driverVars
<1>3. \/ pc = "data5" /\ pc' = "self"
      \/ pc = "data7" /\ pc' = "test1"
      \/ pc = "data9" /\ pc' = "reset"
  BY <1>1, <1>2 DEF AfterData
<1>4. /\ config' \in Byte /\ Checked(config')
      /\ NoTranslation(byte) => NoTranslation(config')
      /\ ports = 1 => Bit(config', ClockOff(2))
      /\ Clocks(byte) => Clocks(config')
      /\ Interrupts(byte) => Interrupts(config')
  <2>1. 1 \in Port /\ 2 \in Port /\ 1 # 2
    BY DEF Port
  <2> QED BY <1>1, <1>2, <2>1, ClockBits DEF Clocks, Interrupts
<1>5. Types'
  BY <1>1, <1>2, <1>3, <1>4, LabelsAre DEF PortsInv, Types, BusTypes
<1>6. Results' /\ Targets'
  BY <1>1, <1>2, <1>3, CommandLabels DEF PortsInv, Results, Targets, Ending, Working
<1>7. Writes'
  BY <1>2, <1>3, <1>4 DEF Writes, Configured, Resetting, Checked
<1>8. Step7Inv'
  <2>1. pc = "data5" => NoTranslation(byte)
    BY DEF PortsInv, Writes, NoTranslation
  <2>2. pc = "data7" => Behind \/ (SecondPort /\ NoTranslation(byte))
    BY DEF PortsInv, Step7Inv
  <2>3. pc = "data7" => Behind' \/ (SecondPort /\ NoTranslation(byte))'
    BY <1>2, <2>2 DEF Behind, Checked, SecondPort, NoTranslation
  <2> QED BY <1>2, <1>3, <1>4, <2>1, <2>3 DEF Step7Inv, NoTranslation
<1>9. Step9Inv'
  BY <1>3 DEF Step9Inv
<1>10. ResetInv'
  <2>1. pc = "data9" => Behind \/ (SecondPort /\ Clocks(byte) /\ Interrupts(byte) /\ NoTranslation(byte))
    BY DEF PortsInv, Step9Inv
  <2>2. pc = "data9" => Behind' \/ Ready'
    BY <1>2, <1>4, <2>1
       DEF Behind, Checked, SecondPort, NoTranslation, Ready, Clocks, Interrupts
  <2>3. port = 1
    BY <1>1 DEF PortsInv, ResetInv, Resetting, Ending
  <2> QED BY <1>1, <1>2, <1>3, <2>2, <2>3 DEF ResetInv, Resetting, Working
<1> QED BY <1>5, <1>6, <1>7, <1>8, <1>9, <1>10 DEF PortsInv

\* Reading a byte changes nothing but the output buffer.
LEMMA Reading ==
  ASSUME PortsInv, NEW b \in Byte, Receive(b)
  PROVE  /\ out # None /\ b = out /\ out' = None
         /\ UNCHANGED <<ports, device, config, ctl, target, queue, typed>>
         /\ BusTypes'
         /\ ports = 1 => Bit(config', ClockOff(2))
BY DEF Receive, PortsInv, Types, BusTypes, Writes

\* Step 4, and the waits that give up.
LEMMA FlushKeepsPorts ==
  ASSUME PortsInv, Flush
  PROVE  PortsInv'
<1>1. /\ UNCHANGED <<ports, device, config, ctl, target, queue, typed>> /\ out' = None
      /\ UNCHANGED <<byte, supported, port, found, status, late>>
      /\ pc = "flush" /\ pc' = "cfg5"
  BY DEF Flush, driverVars
<1>2. Types'
  BY <1>1, LabelsAre DEF PortsInv, Types, BusTypes
<1>3. Results' /\ Targets' /\ Writes'
  BY <1>1, CommandLabels
     DEF PortsInv, Results, Targets, Writes, Ending, Configured, Resetting, Working
<1>4. Step7Inv' /\ Step9Inv' /\ ResetInv'
  BY <1>1 DEF PortsInv, Results, Step7Inv, Step9Inv, ResetInv, Resetting, Ending, Working
<1> QED BY <1>2, <1>3, <1>4 DEF PortsInv

\* An exchange that fails ends the set-up or drops the device.
LEMMA TimeoutsKeepPorts ==
  ASSUME PortsInv, SendFails \/ NoAnswer \/ ResetFails
  PROVE  PortsInv'
<1>1. UNCHANGED busVars /\ late' \in BOOLEAN
  BY DEF PortsInv, Types, SendFails, NoAnswer, ResetFails
<1>2. ports' = ports /\ BusTypes' /\ (ports = 1 => Bit(config', ClockOff(2)))
  BY <1>1 DEF busVars, PortsInv, Types, BusTypes, Writes
<1>3. PICK st \in Failed : Fails(st)
  BY DEF SendFails, NoAnswer, ResetFails, Failed
<1> QED BY <1>1, <1>2, <1>3, FailingKeeps

\* The configuration byte that was read, or another byte in its place.
LEMMA GotConfigKeepsPorts ==
  ASSUME PortsInv, GotConfig
  PROVE  PortsInv'
<1>1. PICK b \in Byte :
        /\ Receive(b)
        /\ \/ /\ Valid(b)
              /\ byte' = Changed(b)
              /\ supported' = IF pc = "got7" THEN ~Bit(b, ClockOff(2)) ELSE supported
              /\ pc' = CASE pc = "got5" -> "put5" [] pc = "got7" -> "off2b"
                         [] pc = "got7b" -> "put7" [] pc = "got9" -> "put9"
              /\ UNCHANGED <<port, found, status, handler, unmasked>>
           \/ ~Valid(b) /\ Fails("could_not_init")
  BY DEF GotConfig
<1>2. /\ out # None /\ b = out /\ out' = None
      /\ UNCHANGED <<ports, device, config, ctl, target, queue, typed>>
      /\ BusTypes'
      /\ ports = 1 => Bit(config', ClockOff(2))
  BY <1>1, Reading
<1>3. pc \in {"got5", "got7", "got7b", "got9"} /\ late' = late /\ late' \in BOOLEAN
  BY DEF GotConfig, PortsInv, Types
<1>4. CASE Fails("could_not_init")
  BY <1>2, <1>3, <1>4, FailingKeeps DEF Failed
<1>5. CASE Valid(b) /\ ~Fails("could_not_init")
  <2>1. /\ byte' = Changed(b)
        /\ supported' = IF pc = "got7" THEN ~Bit(b, ClockOff(2)) ELSE supported
        /\ UNCHANGED <<port, found, status>>
    BY <1>1, <1>5
  <2>2. \/ pc = "got5" /\ pc' = "put5" /\ byte' = Step5(b)
        \/ pc = "got7" /\ pc' = "off2b" /\ byte' = b
        \/ pc = "got7b" /\ pc' = "put7" /\ byte' = Step7(b)
        \/ pc = "got9" /\ pc' = "put9" /\ byte' = Step9(b)
    BY <1>1, <1>3, <1>5, <2>1 DEF Changed
  <2>3. ~Bit(b, Zero1) /\ (Bit(b, PassedPost) \/ (QEMU /\ pc = "got5"))
    BY <1>5 DEF Valid
  <2>4. pc # "got5" => Checked(b)
    BY <2>3 DEF Checked
  <2>5. byte' \in Byte /\ (pc # "got7" => Checked(byte'))
    BY <2>2, <2>3, <2>4, Step5Is, Step7Is, Step9Is
  <2>6. pc = "got5" => NoTranslation(byte')
    BY <2>2, <2>3, Step5Is
  <2>7. Types'
    BY <1>2, <1>3, <2>1, <2>2, <2>5, LabelsAre DEF PortsInv, Types
  <2>8. status = "running"
    BY <1>3 DEF PortsInv, Results, Ending
  <2>9. Results' /\ Targets'
    BY <1>2, <1>3, <2>1, <2>2, <2>8, CommandLabels
       DEF PortsInv, Results, Targets, Ending, Working
  <2>10. Writes'
    BY <1>2, <1>3, <2>2, <2>5, <2>6
       DEF PortsInv, Writes, Configured, Resetting, Checked, NoTranslation
  \* Was it the controller's answer, or is that still to come?
  <2>11. pc # "got5" => Behind' \/ b = config
    <3>1. pc # "got5" => Checked(config) /\ Answered
      BY <1>3 DEF PortsInv, Writes, Configured, Step7Inv, Step9Inv
    <3> QED BY <1>2, <3>1, I8042Assumption DEF Answered, Behind, Checked, PortsInv, Types, BusTypes
  <2>12. Step7Inv'
    <3>1. pc \in {"got7", "got7b"} => NoTranslation(config)
      BY DEF PortsInv, Step7Inv
    <3>2. pc = "got7" /\ b = config => SecondPort'
      BY <1>2, <2>1 DEF SecondPort, PortsInv, Types, BusTypes, Writes
    <3>3. pc = "got7b" /\ ~Behind' => SecondPort' /\ NoTranslation(byte')
      <4>1. pc = "got7b" /\ ~Behind' => b = config /\ SecondPort
        BY <1>2, <2>11, I8042Assumption
           DEF PortsInv, Step7Inv, Writes, Configured, Behind, Checked, Types, BusTypes
      <4> QED BY <1>2, <2>1, <2>2, <2>4, <3>1, <4>1, Step7Is DEF SecondPort
    <3> QED BY <1>2, <2>2, <2>11, <3>1, <3>2, <3>3 DEF Step7Inv, NoTranslation, SecondPort, Behind
  <2>13. Step9Inv'
    <3>1. pc = "got9" => SecondPort /\ NoTranslation(config) /\ Clocks(config)
      BY DEF PortsInv, Step9Inv
    <3>2. pc = "got9" /\ b = config =>
            Clocks(byte') /\ Interrupts(byte') /\ NoTranslation(byte')
      BY <2>2, <2>4, <3>1, Step9Is
    <3> QED BY <1>2, <2>1, <2>2, <2>11, <3>1, <3>2
       DEF Step9Inv, SecondPort, Clocks, Interrupts, NoTranslation
  <2>14. ResetInv'
    BY <1>2, <1>3, <2>1, <2>2, <2>8 DEF PortsInv, ResetInv, Resetting, Ending, Working
  <2> QED BY <2>7, <2>9, <2>10, <2>12, <2>13, <2>14 DEF PortsInv
<1> QED BY <1>1, <1>4, <1>5

\* The tests of the controller and of the ports.
LEMMA TestsKeepPorts ==
  ASSUME PortsInv, GotSelfTest \/ GotPortTest
  PROVE  PortsInv'
<1>1. PICK b \in Byte :
        /\ Receive(b)
        /\ \/ /\ pc = "gotself" /\ pc' = "on2" /\ UNCHANGED locals
           \/ /\ pc = "gott1" /\ pc' = "test2" /\ UNCHANGED locals /\ b = PS2_TPR.passed
           \/ /\ pc = "gott2" /\ pc' = "en1" /\ UNCHANGED locals
           \/ \E st \in Failed : Fails(st)
  BY DEF GotSelfTest, GotPortTest, Failed
<1>2. /\ out # None /\ b = out /\ out' = None
      /\ UNCHANGED <<ports, device, config, ctl, target, queue, typed>>
      /\ BusTypes'
      /\ ports = 1 => Bit(config', ClockOff(2))
  BY <1>1, Reading
<1>3. late' = late /\ late' \in BOOLEAN /\ pc \in {"gotself", "gott1", "gott2"}
  BY DEF GotSelfTest, GotPortTest, PortsInv, Types
<1>4. CASE \E st \in Failed : Fails(st)
  BY <1>2, <1>3, <1>4, FailingKeeps
<1>5. CASE ~\E st \in Failed : Fails(st)
  <2>1. /\ UNCHANGED <<byte, supported, port, found, status>>
        /\ \/ pc = "gotself" /\ pc' = "on2"
           \/ pc = "gott1" /\ pc' = "test2" /\ b = PS2_TPR.passed
           \/ pc = "gott2" /\ pc' = "en1"
    BY <1>1, <1>5 DEF locals
  <2>2. Types'
    BY <1>2, <1>3, <2>1, LabelsAre DEF PortsInv, Types
  <2>3. Results' /\ Targets' /\ Writes'
    BY <1>2, <2>1, CommandLabels
       DEF PortsInv, Results, Targets, Writes, Ending, Configured, Resetting, Working, Checked
  <2>4. pc = "gott1" => SecondPort /\ NoTranslation(config)
    <3>1. pc = "gott1" => ~NextIsConfig
      BY <1>2, <2>1, CheckedIs DEF NextIsConfig
    <3> QED BY <3>1 DEF PortsInv, Step7Inv
  <2>5. Step7Inv' /\ Step9Inv'
    BY <1>2, <2>1, <2>4 DEF PortsInv, Step7Inv, Step9Inv, SecondPort, NoTranslation
  <2>6. ResetInv'
    BY <1>2, <2>1 DEF PortsInv, Results, ResetInv, Resetting, Ending, Working
  <2> QED BY <2>2, <2>3, <2>5, <2>6 DEF PortsInv
<1> QED BY <1>4, <1>5

\* A data byte for a device.
LEMMA DeviceGets ==
  ASSUME BusTypes, NEW b \in Byte, DataTaken(b), target # "config"
  PROVE  /\ ctl = None /\ target' = "port1"
         /\ UNCHANGED <<ports, device, config, out, ctl, typed>>
         /\ BusTypes'
<1>1. PICK p \in Port : DeviceTakes(p, b) /\ config' = config
  BY DEF DataTaken, Port
<1>2. queue' \in [Port -> Seq(Byte)]
  <2>1. <<Acknowledged, SelfTestPassed>> \o Identity(device[p]) \in Seq(Byte)
    <3>1. <<Acknowledged, SelfTestPassed>> \in Seq(Byte)
      BY DEF Acknowledged, SelfTestPassed, Byte
    <3>2. Identity(device[p]) \in Seq(Byte)
      <4>1. /\ <<0>> \in Seq(Byte) /\ <<Len4Prefix, 131>> \in Seq(Byte)
            /\ <<127>> \in Seq(Byte) /\ <<>> \in Seq(Byte)
        BY DEF Byte, Len4Prefix
      <4> QED BY <4>1 DEF Identity
    <3> QED BY <3>1, <3>2, ConcatProperties
  <2>2. queue[p] \in Seq(Byte) /\ Append(queue[p], Acknowledged) \in Seq(Byte)
    <3>1. Acknowledged \in Byte /\ queue[p] \in Seq(Byte)
      BY DEF Acknowledged, Byte, BusTypes
    <3> QED BY <3>1, AppendProperties
  <2> DEFINE new == CASE device[p] = "none" -> queue[p]
                      [] device[p] # "none" /\ b = ResetDevice ->
                           <<Acknowledged, SelfTestPassed>> \o Identity(device[p])
                      [] OTHER -> Append(queue[p], Acknowledged)
  <2>3. new \in Seq(Byte)
    BY <2>1, <2>2
  <2>4. queue' = [queue EXCEPT ![p] = new]
    BY <1>1 DEF DeviceTakes
  <2> HIDE DEF new
  <2> QED BY <2>3, <2>4 DEF BusTypes
<1>3. ctl = None /\ target' = "port1" /\ UNCHANGED <<ports, device, config, out, ctl, typed>>
  BY <1>1 DEF DataTaken
<1> QED BY <1>2, <1>3 DEF BusTypes

\* A command for the second port changes nothing but the target.
LEMMA Addressing ==
  ASSUME ControllerTakes(PS2_CB.write_second_input)
  PROVE  /\ ctl = None /\ ctl' = None /\ target' = "port2"
         /\ UNCHANGED <<ports, device, config, out, queue, typed>>
<1>1. PS2_CB.write_second_input = 212
  BY DEF PS2_CB
<1> QED BY <1>1 DEF ControllerTakes

\* Step 10: the reset of the device.
LEMMA SendResetKeepsPorts ==
  ASSUME PortsInv, SendReset
  PROVE  PortsInv'
<1>1. /\ BusTypes /\ ResetDevice \in Byte /\ status = "running" /\ target # "config"
      /\ pc \in {"reset", "reset2"} /\ port \in Port
  BY CommandLabels
     DEF SendReset, PortsInv, Types, Results, Targets, ResetDevice, Byte, Ending
<1>2. UNCHANGED <<byte, supported, port, found, status, late>>
  BY DEF SendReset, driverVars
<1>3. /\ ctl = None /\ UNCHANGED <<ports, device, config, out, ctl, typed>> /\ BusTypes'
      /\ target' # "config"
      /\ \/ pc' = "ack"
         \/ pc' = "reset2" /\ port = 2
  <2>1. CASE pc = "reset" /\ port = 2 /\ ControllerTakes(PS2_CB.write_second_input) /\ pc' = "reset2"
    BY <1>1, <2>1, Addressing DEF BusTypes
  <2>2. CASE DataTaken(ResetDevice) /\ pc' = "ack"
    BY <1>1, <2>2, DeviceGets
  <2> QED BY <2>1, <2>2 DEF SendReset
<1>4. Types'
  BY <1>2, <1>3, LabelsAre DEF PortsInv, Types
<1>5. Results' /\ Targets' /\ Writes'
  BY <1>1, <1>2, <1>3, CommandLabels
     DEF PortsInv, Results, Targets, Writes, Ending, Configured, Resetting, Working, Checked
<1>6. Step7Inv' /\ Step9Inv'
  BY <1>3 DEF Step7Inv, Step9Inv
<1>7. Ready => Ready'
  BY <1>2, <1>3 DEF Ready, SecondPort, Clocks, Interrupts, NoTranslation
<1>8. port = 1 => NextIsConfig' \/ Ready'
  BY <1>1, <1>3, <1>7 DEF PortsInv, ResetInv, Behind, NextIsConfig, Checked
<1>9. port = 2 => Ready' /\ supported'
  BY <1>1, <1>2, <1>7 DEF PortsInv, ResetInv, Resetting
<1>10. ResetInv'
  BY <1>1, <1>2, <1>3, <1>8, <1>9 DEF ResetInv, Resetting, Ending, Working, Port
<1> QED BY <1>4, <1>5, <1>6, <1>10 DEF PortsInv

\* The device on a port is known.
LEMMA FoundKeepsPorts ==
  ASSUME PortsInv, BusTypes', UNCHANGED <<ports, config, target>>, late' \in BOOLEAN,
         NEW d \in {"ancient", "keyboard", "mouse"}, pc \in {"id3", "id4"}, Found(d)
  PROVE  PortsInv'
<1> DEFINE last == port = 2 \/ ~supported
<1>1. /\ UNCHANGED <<byte, supported>> /\ found' = [found EXCEPT ![port] = d]
      /\ port' = IF last THEN port ELSE 2
      /\ pc' = IF last THEN "handle" ELSE "reset"
      /\ ~last => status' = status
      /\ last => status' \in Working
  <2> DEFINE kinds == {Super([found EXCEPT ![port] = d][p]) : p \in Port}
             result == CASE kinds = {"keyboard"} -> "two_keyboard"
                         [] kinds = {"mouse"} -> "two_mouse"
                         [] OTHER -> "none"
  <2>1. /\ UNCHANGED <<byte, supported>> /\ found' = [found EXCEPT ![port] = d]
        /\ port' = IF last THEN port ELSE 2
        /\ pc' = IF last THEN "handle" ELSE "reset"
        /\ status' = IF ~last THEN status ELSE IF ~supported THEN "no_second_port" ELSE result
    BY DEF Found
  <2> HIDE DEF kinds
  <2>2. result \in {"two_keyboard", "two_mouse", "none"}
    OBVIOUS
  <2> HIDE DEF result
  <2> QED BY <2>1, <2>2 DEF Working
<1>2. /\ status = "running" /\ port \in Port /\ target # "config"
      /\ Ready /\ found \in [Port -> {"none", "ancient", "keyboard", "mouse"}]
  BY CommandLabels DEF PortsInv, Types, Results, Targets, ResetInv, Ending
<1>3. Types'
  <2>1. found' \in [Port -> {"none", "ancient", "keyboard", "mouse"}] /\ port' \in Port
    BY <1>1, <1>2 DEF Port
  <2>2. pc' \in Labels
    BY <1>1, LabelsAre
  <2> QED BY <1>1, <2>1, <2>2 DEF PortsInv, Types
<1>4. Ready'
  BY <1>1, <1>2 DEF Ready, SecondPort, Clocks, Interrupts, NoTranslation
<1>5. Results'
  BY <1>1, <1>2 DEF Results, Ending, Working
<1>6. Targets'
  BY <1>1, <1>2, CommandLabels DEF Targets, Working
<1>7. Writes'
  BY <1>1 DEF PortsInv, Writes, Configured, Resetting, Checked
<1>8. Step7Inv' /\ Step9Inv'
  BY <1>1 DEF Step7Inv, Step9Inv
<1>9. ResetInv'
  BY <1>1, <1>2, <1>4 DEF ResetInv, Resetting, Ending, Working
<1> QED BY <1>3, <1>5, <1>6, <1>7, <1>8, <1>9 DEF PortsInv

\* The answers of the device under reset.  An acknowledgement is not a
\* configuration byte: from here on the driver is in step.
LEMMA DeviceKeepsPorts ==
  ASSUME PortsInv, GotAck \/ GotSelfTestOfDevice \/ GotIdentity \/ GotKeyboard
  PROVE  PortsInv'
<1>1. PICK b \in Byte :
        /\ Receive(b)
        /\ \/ /\ pc = "ack" /\ b = Acknowledged /\ pc' = "bat" /\ UNCHANGED locals
           \/ /\ pc = "bat" /\ pc' = "id3" /\ UNCHANGED locals
           \/ /\ pc = "id3" /\ pc' = "id4" /\ UNCHANGED locals
           \/ /\ pc \in {"id3", "id4"} /\ \E d \in {"ancient", "keyboard", "mouse"} : Found(d)
           \/ \E st \in Failed : Fails(st)
  BY DEF GotAck, GotSelfTestOfDevice, GotIdentity, GotKeyboard, Failed
<1>2. /\ out # None /\ b = out /\ out' = None
      /\ UNCHANGED <<ports, device, config, ctl, target, queue, typed>>
      /\ BusTypes'
      /\ ports = 1 => Bit(config', ClockOff(2))
  BY <1>1, Reading
<1>3. late' = late /\ late' \in BOOLEAN /\ pc \in {"ack", "bat", "id3", "id4"}
  BY DEF GotAck, GotSelfTestOfDevice, GotIdentity, GotKeyboard, PortsInv, Types
<1>4. CASE \E st \in Failed : Fails(st)
  BY <1>2, <1>3, <1>4, FailingKeeps
<1>5. CASE pc \in {"id3", "id4"} /\ \E d \in {"ancient", "keyboard", "mouse"} : Found(d)
  BY <1>2, <1>3, <1>5, FoundKeepsPorts
<1>6. CASE /\ UNCHANGED locals
           /\ \/ pc = "ack" /\ b = Acknowledged /\ pc' = "bat"
              \/ pc = "bat" /\ pc' = "id3"
              \/ pc = "id3" /\ pc' = "id4"
  <2>1. UNCHANGED <<byte, supported, port, found, status>>
    BY <1>6 DEF locals
  <2>2. Types'
    BY <1>2, <1>3, <1>6, <2>1, LabelsAre DEF PortsInv, Types
  <2>3. Results' /\ Targets' /\ Writes'
    BY <1>2, <1>6, <2>1, CommandLabels
       DEF PortsInv, Results, Targets, Writes, Ending, Configured, Resetting, Working, Checked
  <2>4. Step7Inv' /\ Step9Inv'
    BY <1>6 DEF Step7Inv, Step9Inv
  <2>5. Ready
    <3>1. pc = "ack" => ~NextIsConfig
      BY <1>2, <1>6, CheckedIs DEF NextIsConfig
    <3>2. port = 1 \/ port = 2
      BY DEF PortsInv, Types, Port
    <3> QED BY <1>3, <3>1, <3>2 DEF PortsInv, ResetInv, Resetting
  <2>6. Ready'
    BY <1>2, <2>1, <2>5 DEF Ready, SecondPort, Clocks, Interrupts, NoTranslation
  <2>7. pc \in Resetting
    BY <1>3 DEF Resetting
  <2>8. ResetInv'
    BY <1>2, <1>6, <2>1, <2>6, <2>7 DEF PortsInv, Results, ResetInv, Resetting, Ending, Working
  <2> QED BY <2>2, <2>3, <2>4, <2>8 DEF PortsInv
<1> QED BY <1>1, <1>4, <1>5, <1>6

\* A device that sends no identity.
LEMMA NoIdentityKeepsPorts ==
  ASSUME PortsInv, NoIdentity
  PROVE  PortsInv'
<1>1. UNCHANGED busVars /\ late' \in BOOLEAN /\ pc \in {"id3", "id4"} /\ Found("ancient")
  BY DEF NoIdentity, PortsInv, Types
<1>2. BusTypes' /\ UNCHANGED <<ports, config, target>>
  BY <1>1 DEF busVars, PortsInv, Types, BusTypes
<1> QED BY <1>1, <1>2, FoundKeepsPorts

\* The end of the setup leaves the configuration alone.
LEMMA EndKeepsPorts ==
  ASSUME PortsInv, pc \in Ending, pc' \in Ending,
         pc' \in {"mouse", "mouse2", "mousewait", "install", "aborted"} => status \in Working,
         BusTypes', UNCHANGED <<ports, device, config>>,
         target' # "config" \/ target' = target,
         byte' \in Byte, UNCHANGED <<supported, port, found, status, late>>
  PROVE  PortsInv'
<1>1. Types'
  BY DEF PortsInv, Types, Labels
<1>2. Results' /\ Targets'
  BY DEF PortsInv, Results, Targets
<1>3. pc' \notin {"put5", "data5", "put7", "data7", "put9", "data9"} \cup Configured
  BY DEF Ending, Configured, Resetting
<1>4. Writes'
  BY <1>3 DEF PortsInv, Writes
<1>5. Step7Inv' /\ Step9Inv'
  BY DEF Step7Inv, Step9Inv, Ending
<1>6. Ready => Ready'
  BY DEF Ready, SecondPort, Clocks, Interrupts, NoTranslation
<1>7. ResetInv'
  BY <1>6 DEF PortsInv, ResetInv, Resetting, Ending
<1> QED BY <1>1, <1>2, <1>4, <1>5, <1>7 DEF PortsInv

\* The devices found are handed on; no port changes.
LEMMA HandlingKeepsPorts ==
  ASSUME PortsInv, Handle \/ EnableMouse \/ MouseAnswers \/ Install
  PROVE  PortsInv'
<1>1. BusTypes /\ byte \in Byte /\ pc \in Labels
  BY DEF PortsInv, Types
<1>2. CASE Handle
  <2>1. UNCHANGED busVars /\ UNCHANGED driverVars /\ pc = "handle"
        /\ status \in Working \cup Failed
    BY <1>2 DEF Handle, PortsInv, Results, Ending
  <2>2. pc' \in {"mouse", "install", "done"} /\ (pc' # "done" => status \in Working)
    BY <1>2, <2>1 DEF Handle, Working, Failed
  <2> QED BY <1>1, <2>1, <2>2, EndKeepsPorts DEF busVars, driverVars, BusTypes, Ending
<1>3. CASE EnableMouse
  <2>1. UNCHANGED <<byte, supported, port, found, status, late>> /\ pc \in {"mouse", "mouse2"}
        /\ status \in Working /\ target # "config" /\ pc' \in {"mouse2", "mousewait"}
    BY <1>3 DEF EnableMouse, driverVars, PortsInv, Results, Targets
  <2>2. BusTypes' /\ UNCHANGED <<ports, device, config>> /\ (target' # "config" \/ target' = target)
    <3>1. CASE ControllerTakes(PS2_CB.write_second_input)
      BY <1>1, <3>1, Addressing DEF BusTypes
    <3>2. CASE DataTaken(EnableReporting)
      <4>1. EnableReporting \in Byte
        BY DEF EnableReporting, Byte
      <4> QED BY <1>1, <2>1, <3>2, <4>1, DeviceGets
    <3>3. CASE UNCHANGED busVars
      BY <1>1, <3>3 DEF busVars, BusTypes
    <3> QED BY <1>3, <3>1, <3>2, <3>3 DEF EnableMouse
  <2> QED BY <1>1, <2>1, <2>2, EndKeepsPorts DEF Ending
<1>4. CASE MouseAnswers
  <2>1. UNCHANGED <<supported, port, found, status, late>> /\ pc = "mousewait"
        /\ status \in Working /\ pc' \in {"aborted", "install"}
    BY <1>4 DEF MouseAnswers, driverVars, PortsInv, Results
  <2>2. BusTypes' /\ UNCHANGED <<ports, device, config, target>> /\ byte' \in Byte
    <3>1. CASE \E b \in Byte : Receive(b) /\ byte' = b
      BY <3>1, Reading
    <3>2. CASE UNCHANGED <<busVars, driverVars>>
      BY <1>1, <3>2 DEF busVars, driverVars, BusTypes
    <3> QED BY <1>4, <3>1, <3>2 DEF MouseAnswers
  <2> QED BY <2>1, <2>2, EndKeepsPorts DEF Ending
<1>5. CASE Install
  <2>1. /\ UNCHANGED busVars /\ UNCHANGED <<byte, supported, port, found, status, late>>
        /\ pc = "install" /\ pc' = "done"
    BY <1>5 DEF Install, Installs, handle_ps2_setup_one_keyboard_one_mouse,
                handle_ps2_setup_one_port_only, handle_ps2_setup_two_keyboard,
                handle_ps2_setup_two_mouse
  <2> QED BY <1>1, <2>1, EndKeepsPorts DEF busVars, BusTypes, Ending
<1> QED BY <1>2, <1>3, <1>4, <1>5

\* Every step keeps the invariant of the ports.
LEMMA PortsStay ==
  ASSUME PortsInv, [Next]_vars
  PROVE  PortsInv'
<1>1. CASE UNCHANGED vars
  BY <1>1 DEF vars, busVars, driverVars, PortsInv, Types, BusTypes, Results, Targets, Writes,
              Checked, Step7Inv, Step9Inv, ResetInv, Answered, Behind, NextIsConfig, Ready,
              SecondPort, Clocks, Interrupts, NoTranslation
<1>2. CASE Hardware /\ UNCHANGED <<pc, driverVars>>
  BY <1>2, HardwareKeepsPorts
<1>3. CASE Driver
  BY <1>3, CommandKeepsPorts, ConfigKeepsPorts, FlushKeepsPorts, TimeoutsKeepPorts,
     GotConfigKeepsPorts, TestsKeepPorts, SendResetKeepsPorts, DeviceKeepsPorts,
     NoIdentityKeepsPorts, HandlingKeepsPorts DEF Driver
<1> QED BY <1>1, <1>2, <1>3 DEF Next

\* It holds always.
LEMMA PortsInvariant == Spec => []PortsInv
<1>1. Init => PortsInv
  BY PortsStart
<1>2. PortsInv /\ [Next]_vars => PortsInv'
  BY PortsStay
<1> QED BY <1>1, <1>2, PTL DEF Spec

\* A setup that reports devices has left the controller configured for them:
\* clocks and interrupts on, translation off, whatever the firmware left and
\* whatever bytes the user's keys put in the way of the answers.
THEOREM PortsAreReady == Spec => []PortsReady
<1>1. PortsInv => PortsReady
  <2> SUFFICES ASSUME PortsInv, status \in Working PROVE PortsReady
    BY DEF PortsReady
  <2>1. Ready
    BY DEF PortsInv, ResetInv
  <2> QED BY <2>1 DEF PortsReady, Ready, SecondPort, Clocks, Interrupts, NoTranslation, Port
<1> QED BY <1>1, PortsInvariant, PTL

-----------------------------------------------------------------------------
(* An undisturbed setup reports the devices that are there                  *)

\* The invariant of the reports holds at first.
LEMMA DevicesStart == Init => DevicesInv
<1> SUFFICES ASSUME Init PROVE DevicesInv
  OBVIOUS
<1>1. pc = "off1" /\ ctl = None /\ queue = [p \in Port |-> <<>>] /\ port = 1
      /\ status = "running" /\ found = [p \in Port |-> "none"]
  BY DEF Init, InitBus
<1>2. InStep
  BY <1>1, CommandLabels DEF InStep, Answers, Resetting, Ending, Empty
<1>3. InReset /\ FoundSoFar
  BY <1>1 DEF InReset, RestToCome, FoundSoFar, Resetting, Working
<1> QED BY <1>2, <1>3 DEF DevicesInv

\* A setup that has failed reports nothing.
LEMMA FailingReports ==
  ASSUME NEW st \in Failed, Fails(st) PROVE DevicesInv'
<1>1. pc' = "handle" /\ status' = st /\ status' \notin Working /\ status' # "running"
  BY DEF Fails, Failed, Working
<1>2. pc' \notin DOMAIN CommandAt \cup DOMAIN AfterData \cup Answers
  BY <1>1, CommandLabels DEF Answers
<1>3. InStep'
  BY <1>1, <1>2 DEF InStep, Resetting, Ending
<1>4. InReset' /\ FoundSoFar'
  BY <1>1 DEF InReset, RestToCome, FoundSoFar, Resetting
<1> QED BY <1>3, <1>4 DEF DevicesInv

\* Before the resets nothing is found and no device sends.
LEMMA BeforeResets ==
  ASSUME PortsInv, DevicesInv, Quiet, pc \notin Resetting \cup Ending,
         pc' \notin Resetting \cup Ending,
         UNCHANGED <<device, queue, port, found, status>>,
         InStep'
  PROVE  DevicesInv'
<1>1. InReset'
  BY DEF InReset, RestToCome, Resetting
<1>2. status = "running" /\ port = 1
  BY DEF PortsInv, Results, ResetInv
<1>3. FoundSoFar'
  BY <1>2 DEF DevicesInv, FoundSoFar, Working
<1> QED BY <1>1, <1>3 DEF DevicesInv

\* A command is sent: its answer is the next byte.
LEMMA CommandReports ==
  ASSUME PortsInv, DevicesInv, Quiet, SendCommand
  PROVE  DevicesInv'
<1>1. BusTypes /\ ports \in {1, 2} /\ config \in Byte /\ None \notin Byte
  BY I8042Assumption DEF PortsInv, Types, BusTypes
<1>2. /\ CommandEffects /\ ctl = None
      /\ UNCHANGED <<ports, device, out, queue, typed>>
      /\ UNCHANGED <<byte, supported, port, found, status, late>>
  BY <1>1, Commands DEF driverVars
<1>3. pc \notin Resetting \cup Ending /\ pc' \notin Resetting \cup Ending
  BY <1>2 DEF CommandEffects, Effect, Resetting, Ending
<1>4. InStep
  BY DEF DevicesInv
<1>5. InStep'
  <2>1. (pc \notin Resetting \cup Ending => Empty(Port))'
    BY <1>2, <1>3, <1>4 DEF InStep, Empty
  <2>2. (pc \in {"off1", "off2", "flush"} => ctl = None)'
    BY <1>2 DEF CommandEffects, Effect
  <2>3. pc \notin {"off1", "off2"} => out = None
    BY <1>4 DEF InStep, SendCommand
  <2>4. (pc \in (DOMAIN CommandAt \cup DOMAIN AfterData) \ {"off1", "off2"} =>
           out = None /\ ctl = None)'
    BY <1>2, <2>3, CommandLabels DEF CommandEffects, Effect
  <2>5. (pc \in Answers => out = None \/ ctl = None)'
    BY <1>2, <2>3 DEF CommandEffects, Effect, Answers
  <2>6. (pc \in {"got5", "got7", "got7b", "got9"} => Answered)'
    BY <1>2 DEF CommandEffects, Effect, Answered
  <2>7. (pc \in {"cfg7", "got7"} => (Bit(config, ClockOff(2)) <=> ports = 1))'
    <3>1. pc = "on2" => (Bit(config', ClockOff(2)) <=> ports = 1)
      <4>1. ports = 1 => Bit(config, ClockOff(2))
        BY DEF PortsInv, Writes
      <4>2. 2 \in Port /\ ~Bit(ClearBit(config, ClockOff(2)), ClockOff(2))
        BY <1>1, ClockBits DEF Port
      <4> QED BY <1>1, <1>2, <4>1, <4>2 DEF CommandEffects, Effect
    <3>2. pc = "cfg7" => (Bit(config', ClockOff(2)) <=> ports = 1)
      BY <1>2, <1>4 DEF InStep, CommandEffects, Effect
    <3> QED BY <1>2, <3>1, <3>2 DEF CommandEffects, Effect
  <2>8. (pc \in {"off2b", "cfg7b", "got7b", "put7", "data7", "test1", "gott1", "test2", "gott2",
             "en1", "en2", "cfg9", "got9", "put9", "data9"} => supported = (ports = 2))'
    BY <1>2, <1>4 DEF InStep, CommandEffects, Effect
  <2> QED BY <1>3, <2>1, <2>2, <2>4, <2>5, <2>6, <2>7, <2>8 DEF InStep
<1> QED BY <1>2, <1>3, <1>5, BeforeResets

\* A configuration byte is written: no device is concerned.
LEMMA ConfigReports ==
  ASSUME PortsInv, PortsInv', DevicesInv, Quiet, SendConfig
  PROVE  DevicesInv'
<1>1. /\ target = "config" /\ pc \in {"data5", "data7", "data9"} /\ status = "running" /\ port = 1
  BY CommandLabels
     DEF PortsInv, Results, Targets, SendConfig, Ending, ResetInv, Resetting
<1>2. /\ ctl = None /\ target' = "port1"
      /\ UNCHANGED <<ports, device, out, ctl, queue, typed>>
      /\ UNCHANGED <<byte, supported, port, found, status, late>>
      /\ pc' = AfterData[pc]
  BY <1>1 DEF SendConfig, DataTaken, driverVars
<1>3. \/ pc = "data5" /\ pc' = "self"
      \/ pc = "data7" /\ pc' = "test1"
      \/ pc = "data9" /\ pc' = "reset"
  BY <1>1, <1>2 DEF AfterData
<1>4. InStep /\ out = None /\ Empty(Port)
  BY <1>1, CommandLabels DEF DevicesInv, InStep, Resetting, Ending
<1>5. Empty(Port)' /\ out' = None /\ ctl' = None
  BY <1>2, <1>4 DEF Empty
<1>6. InStep'
  BY <1>2, <1>3, <1>4, <1>5 DEF InStep, Answers, Resetting
<1>7. InReset'
  BY <1>2, <1>3, <1>5 DEF InReset, RestToCome, Resetting, Empty, Other
<1>8. FoundSoFar'
  BY <1>1, <1>2 DEF DevicesInv, FoundSoFar, Working
<1> QED BY <1>6, <1>7, <1>8 DEF DevicesInv

\* What was in the buffer before is thrown away.
LEMMA FlushReports ==
  ASSUME PortsInv, DevicesInv, Quiet, Flush
  PROVE  DevicesInv'
<1>1. /\ UNCHANGED <<ports, device, config, ctl, target, queue, typed>> /\ out' = None
      /\ UNCHANGED <<byte, supported, port, found, status, late>>
      /\ pc = "flush" /\ pc' = "cfg5"
  BY DEF Flush, driverVars
<1>2. pc \notin Resetting \cup Ending /\ pc' \notin Resetting \cup Ending
  BY <1>1 DEF Resetting, Ending
<1>3. Empty(Port) /\ ctl = None
  BY <1>1, <1>2 DEF DevicesInv, InStep
<1>4. InStep'
  BY <1>1, <1>2, <1>3 DEF InStep, Answers, Empty, Resetting
<1> QED BY <1>1, <1>2, <1>4, BeforeResets

\* The configuration byte is the answer read.
LEMMA GotConfigReports ==
  ASSUME PortsInv, DevicesInv, Quiet, GotConfig
  PROVE  DevicesInv'
<1>1. PICK b \in Byte :
        /\ Receive(b)
        /\ \/ /\ supported' = IF pc = "got7" THEN ~Bit(b, ClockOff(2)) ELSE supported
              /\ pc' = CASE pc = "got5" -> "put5" [] pc = "got7" -> "off2b"
                         [] pc = "got7b" -> "put7" [] pc = "got9" -> "put9"
              /\ UNCHANGED <<port, found, status, handler, unmasked>>
           \/ Fails("could_not_init")
  BY DEF GotConfig
<1>2. /\ out # None /\ b = out /\ out' = None
      /\ UNCHANGED <<ports, device, config, ctl, target, queue, typed>>
  BY <1>1, Reading
<1>3. pc \in {"got5", "got7", "got7b", "got9"} /\ pc \in Answers
  BY DEF GotConfig, Answers
<1>4. CASE Fails("could_not_init")
  BY <1>4, FailingReports DEF Failed
<1>5. CASE ~Fails("could_not_init")
  <2>1. /\ supported' = IF pc = "got7" THEN ~Bit(b, ClockOff(2)) ELSE supported
        /\ UNCHANGED <<port, found, status>>
    BY <1>1, <1>5
  <2>2. \/ pc = "got5" /\ pc' = "put5"
        \/ pc = "got7" /\ pc' = "off2b"
        \/ pc = "got7b" /\ pc' = "put7"
        \/ pc = "got9" /\ pc' = "put9"
    BY <1>1, <1>3, <1>5
  <2>3. pc \notin Resetting \cup Ending /\ pc' \notin Resetting \cup Ending
    BY <2>2 DEF Resetting, Ending
  <2>4. InStep /\ ctl = None /\ b = config /\ Empty(Port)
    <3>1. InStep /\ ctl = None /\ Answered /\ Empty(Port)
      BY <1>2, <1>3, <2>3 DEF DevicesInv, InStep
    <3>2. config # None
      BY I8042Assumption DEF PortsInv, Types, BusTypes
    <3> QED BY <1>2, <3>1, <3>2 DEF Answered
  <2>5. pc = "got7" => supported' = (ports = 2)
    <3>1. pc = "got7" => (~Bit(config, ClockOff(2)) <=> ports = 2)
      BY <2>4 DEF InStep, PortsInv, Types, BusTypes
    <3>2. pc = "got7" => supported' = ~Bit(config, ClockOff(2))
      BY <2>1, <2>4
    <3> QED BY <3>1, <3>2, Zenon DEF Bit
  <2>6. InStep'
    BY <1>2, <2>1, <2>2, <2>3, <2>4, <2>5 DEF InStep, Empty, Answers, Resetting
  <2> QED BY <1>2, <2>1, <2>3, <2>6, BeforeResets
<1> QED BY <1>4, <1>5

\* The tests of the controller and of the ports answer as the hardware is.
LEMMA TestsReport ==
  ASSUME PortsInv, DevicesInv, Quiet, GotSelfTest \/ GotPortTest
  PROVE  DevicesInv'
<1>1. PICK b \in Byte :
        /\ Receive(b)
        /\ \/ pc = "gotself" /\ pc' = "on2" /\ UNCHANGED locals
           \/ pc = "gott1" /\ pc' = "test2" /\ UNCHANGED locals
           \/ pc = "gott2" /\ pc' = "en1" /\ UNCHANGED locals
           \/ \E st \in Failed : Fails(st)
  BY DEF GotSelfTest, GotPortTest, Failed
<1>2. /\ out # None /\ b = out /\ out' = None
      /\ UNCHANGED <<ports, device, config, ctl, target, queue, typed>>
  BY <1>1, Reading
<1>3. CASE \E st \in Failed : Fails(st)
  BY <1>3, FailingReports
<1>4. CASE ~\E st \in Failed : Fails(st)
  <2>1. /\ UNCHANGED <<byte, supported, port, found, status>>
        /\ \/ pc = "gotself" /\ pc' = "on2"
           \/ pc = "gott1" /\ pc' = "test2"
           \/ pc = "gott2" /\ pc' = "en1"
    BY <1>1, <1>4 DEF locals
  <2>2. pc \notin Resetting \cup Ending /\ pc' \notin Resetting \cup Ending /\ pc \in Answers
    BY <2>1 DEF Resetting, Ending, Answers
  <2>3. InStep /\ ctl = None /\ Empty(Port)
    BY <1>2, <2>2 DEF DevicesInv, InStep
  <2>4. InStep'
    BY <1>2, <2>1, <2>2, <2>3 DEF InStep, Empty, Answers, Resetting
  <2> QED BY <1>2, <2>1, <2>2, <2>4, BeforeResets
<1> QED BY <1>3, <1>4

-----------------------------------------------------------------------------
(* The resets                                                               *)

\* What each device sends.
LEMMA IdentityIs ==
  /\ Identity("mouse") = <<0>> /\ Identity("keyboard") = <<171, 131>>
  /\ Identity("odd") = <<127>> /\ Identity("ancient") = <<>>
  /\ \A d : Identity(d) \in Seq(Byte)
<1>1. /\ Identity("mouse") = <<0>> /\ Identity("keyboard") = <<171, 131>>
      /\ Identity("odd") = <<127>> /\ Identity("ancient") = <<>>
  BY DEF Identity, Len4Prefix
<1>2. /\ <<0>> \in Seq(Byte) /\ <<Len4Prefix, 131>> \in Seq(Byte)
      /\ <<127>> \in Seq(Byte) /\ <<>> \in Seq(Byte)
  BY DEF Byte, Len4Prefix
<1>3. \A d : Identity(d) \in Seq(Byte)
  BY <1>2 DEF Identity
<1> QED BY <1>1, <1>3

\* Taking the first byte off a sequence that is put in front of another.
LEMMA FirstOff ==
  ASSUME NEW s \in Seq(Byte), NEW x \in Byte
  PROVE  /\ <<x>> \o s # <<>> /\ Head(<<x>> \o s) = x /\ Tail(<<x>> \o s) = s
         /\ <<x>> \o s \in Seq(Byte)
<1>1. <<x>> \in Seq(Byte) /\ Len(<<x>>) = 1 /\ <<x>>[1] = x
  OBVIOUS
<1>2. /\ <<x>> \o s \in Seq(Byte) /\ Len(<<x>> \o s) = 1 + Len(s)
      /\ (<<x>> \o s)[1] = x
      /\ \A i \in 1..Len(s) : (<<x>> \o s)[i + 1] = s[i]
  BY <1>1, ConcatProperties
<1> DEFINE t == <<x>> \o s
<1>3. t # <<>> /\ Head(t) = x
  BY <1>2, EmptySeq, HeadTailProperties
<1>4. Tail(t) \in Seq(Byte) /\ Len(Tail(t)) = Len(s) /\ \A i \in 1..Len(s) : Tail(t)[i] = s[i]
  BY <1>2, <1>3, HeadTailProperties
<1>5. Tail(t) = s
  BY <1>4, SeqEqual
<1> QED BY <1>2, <1>3, <1>5

\* Two bytes under way.
LEMMA PairIs ==
  ASSUME NEW x \in Byte, NEW y \in Byte
  PROVE  <<x, y>> = <<x>> \o <<y>>
<1>1. <<x>> \in Seq(Byte) /\ <<y>> \in Seq(Byte) /\ <<x, y>> \in Seq(Byte)
      /\ Len(<<x>>) = 1 /\ Len(<<y>>) = 1 /\ Len(<<x, y>>) = 2
  OBVIOUS
<1>2. /\ <<x>> \o <<y>> \in Seq(Byte) /\ Len(<<x>> \o <<y>>) = 2
      /\ \A i \in 1..2 : (<<x>> \o <<y>>)[i] = <<x, y>>[i]
  BY <1>1, ConcatProperties
<1> QED BY <1>1, <1>2, SeqEqual

\* The driver reads the next byte that is to come.
LEMMA NextByte ==
  ASSUME PortsInv, NEW x \in Byte, NEW s \in Seq(Byte), ToCome(<<x>> \o s),
         NEW b \in Byte, Receive(b), port' = port
  PROVE  b = x /\ ToCome(s)'
<1>1. /\ out # None /\ b = out /\ out' = None /\ queue' = queue
  BY DEF Receive
<1>2. Head(<<x>> \o s) = x /\ Tail(<<x>> \o s) = s
  BY FirstOff
<1> QED BY <1>1, <1>2 DEF ToCome

\* Hardware brings it closer.
LEMMA HardwareReports ==
  ASSUME PortsInv, DevicesInv, Quiet, Quiet', Hardware, UNCHANGED <<pc, driverVars>>
  PROVE  DevicesInv'
<1>1. /\ UNCHANGED <<ports, device, config, target>>
      /\ UNCHANGED <<pc, byte, supported, port, found, status, late>>
  BY DEF Hardware, ControllerAnswers, DeviceSends, UserActs, driverVars
<1>2. InStep /\ InReset /\ FoundSoFar /\ port \in Port
  BY DEF DevicesInv, PortsInv, Types
<1>3. FoundSoFar'
  BY <1>1, <1>2 DEF FoundSoFar
<1>4. CASE ControllerAnswers
  <2>1. out = None /\ ctl # None /\ out' = ctl /\ ctl' = None /\ queue' = queue
    BY <1>4 DEF ControllerAnswers
  <2>2. pc \notin Resetting
    BY <1>2, <2>1 DEF InReset, RestToCome
  <2>3. InReset'
    BY <1>1, <2>2 DEF InReset, RestToCome, Resetting
  <2>4. pc \notin {"off1", "off2", "flush"} \cup DOMAIN CommandAt \cup DOMAIN AfterData
    BY <1>2, <2>1 DEF InStep
  <2>5. Answered => Answered'
    <3>1. config # None
      BY I8042Assumption DEF PortsInv, Types, BusTypes
    <3> QED BY <1>1, <2>1, <3>1 DEF Answered
  <2>6. InStep'
    BY <1>1, <1>2, <2>1, <2>4, <2>5 DEF InStep, Empty
  <2> QED BY <1>3, <2>3, <2>6 DEF DevicesInv
<1>5. ASSUME NEW p \in Port, DeviceSends(p) PROVE DevicesInv'
  <2>1. /\ out = None /\ queue[p] # <<>> /\ out' = Head(queue[p])
        /\ queue' = [queue EXCEPT ![p] = Tail(queue[p])] /\ ctl' = ctl
    BY <1>5 DEF DeviceSends
  <2>2. CASE pc \in Ending
    <3>1. InStep'
      BY <1>1, <2>2, CommandLabels DEF InStep, Ending, Answers, Resetting
    <3>2. InReset'
      BY <1>1, <2>2 DEF InReset, RestToCome, Ending, Resetting
    <3> QED BY <1>3, <3>1, <3>2 DEF DevicesInv
  <2>3. CASE pc \notin Ending
    <3>1. pc \in Resetting
      BY <1>2, <2>1, <2>3 DEF InStep, Empty
    <3>2. p = port /\ pc \notin {"reset", "reset2"}
      BY <1>2, <2>1, <3>1 DEF InReset, RestToCome, Empty, Other
    <3>3. queue'[port] = Tail(queue[port]) /\ \A q \in Port \ {port} : queue'[q] = queue[q]
      BY <2>1, <3>2 DEF PortsInv, Types, BusTypes
    <3>4. ASSUME NEW s \in Seq(Byte), ToCome(s) PROVE ToCome(s)'
      <4>1. s # <<>> => Head(s) # None
        BY HeadTailProperties, I8042Assumption
      <4> QED BY <1>1, <2>1, <3>2, <3>3, <3>4, <4>1 DEF ToCome
    <3> DEFINE id == Identity(device[port])
    <3>5. /\ id \in Seq(Byte) /\ <<SelfTestPassed>> \o id \in Seq(Byte)
          /\ <<Acknowledged, SelfTestPassed>> \o id \in Seq(Byte)
          /\ <<131>> \in Seq(Byte) /\ <<>> \in Seq(Byte)
      <4>1. id \in Seq(Byte)
        BY IdentityIs
      <4> HIDE DEF id
      <4>2. /\ <<SelfTestPassed>> \in Seq(Byte) /\ <<Acknowledged, SelfTestPassed>> \in Seq(Byte)
            /\ <<131>> \in Seq(Byte) /\ <<>> \in Seq(Byte)
        BY DEF SelfTestPassed, Acknowledged, Byte
      <4> QED BY <4>1, <4>2, ConcatProperties
    <3>6. InReset'
      <4>1. pc \in {"ack", "bat", "id3", "id4"}
        BY <3>1, <3>2 DEF Resetting
      <4>2. ctl' = None /\ Empty(Other)'
        BY <1>1, <1>2, <2>1, <3>1, <3>3 DEF InReset, RestToCome, Empty, Other
      <4>3. (pc = "ack" => IF device[port] = "none" THEN ToCome(<<>>)
                   ELSE ToCome(<<Acknowledged, SelfTestPassed>> \o Identity(device[port])))'
        BY <1>1, <1>2, <3>4, <3>5 DEF InReset, RestToCome
      <4>4. (pc = "bat" => device[port] # "none" /\ ToCome(<<SelfTestPassed>> \o Identity(device[port])))'
        BY <1>1, <1>2, <3>4, <3>5 DEF InReset, RestToCome
      <4>5. (pc = "id3" => device[port] # "none" /\ ToCome(Identity(device[port])))'
        BY <1>1, <1>2, <3>4, <3>5 DEF InReset, RestToCome
      <4>6. (pc = "id4" => device[port] = "keyboard" /\ ToCome(<<131>>))'
        BY <1>1, <1>2, <3>4, <3>5 DEF InReset, RestToCome
      <4>7. (pc \in Resetting => target = IF pc = "reset2" THEN "port2" ELSE "port1")'
        BY <1>1, <1>2 DEF InReset, RestToCome
      <4> QED BY <1>1, <4>1, <4>2, <4>3, <4>4, <4>5, <4>6, <4>7 DEF InReset, RestToCome
    <3>7. InStep'
      BY <1>1, <1>2, <3>1, CommandLabels DEF InStep, Resetting, Answers
    <3> QED BY <1>3, <3>6, <3>7 DEF DevicesInv
  <2> QED BY <2>2, <2>3
<1>6. ASSUME NEW p \in Port, UserActs(p) PROVE FALSE
  <2>1. typed' = typed + 1
    BY <1>6 DEF UserActs
  <2> QED BY <2>1 DEF Quiet
<1> QED BY <1>4, <1>5, <1>6 DEF Hardware

\* While a device is reset, the steps before do not matter.
LEMMA DuringResets ==
  ASSUME pc' \in Resetting, supported' = (ports' = 2)
  PROVE  InStep'
<1>1. pc' \notin DOMAIN CommandAt \cup DOMAIN AfterData \cup Answers
         \cup {"off1", "off2", "flush", "cfg7"}
  BY CommandLabels DEF Resetting, Answers
<1> QED BY <1>1 DEF InStep, Answers

\* A device is reset: its answers are the next bytes.
LEMMA SendResetReports ==
  ASSUME PortsInv, DevicesInv, Quiet, SendReset
  PROVE  DevicesInv'
<1>1. UNCHANGED <<byte, supported, port, found, status, late>> /\ pc \in {"reset", "reset2"}
      /\ pc \in Resetting /\ port \in Port
  BY DEF SendReset, driverVars, Resetting, PortsInv, Types
<1>2. InReset /\ FoundSoFar /\ supported = (ports = 2) /\ ctl = None /\ out = None /\ Empty(Port)
  BY <1>1 DEF DevicesInv, InStep, InReset, RestToCome
<1>3. CASE pc = "reset" /\ port = 2 /\ ControllerTakes(PS2_CB.write_second_input) /\ pc' = "reset2"
  <2>1. /\ ctl' = None /\ target' = "port2"
        /\ UNCHANGED <<ports, device, config, out, queue, typed>>
    BY <1>3, Addressing
  <2>2. pc' \in Resetting /\ InStep'
    BY <1>1, <1>2, <1>3, <2>1, DuringResets DEF Resetting
  <2>3. InReset'
    BY <1>1, <1>2, <1>3, <2>1 DEF InReset, RestToCome, Empty, Other, Resetting
  <2>4. FoundSoFar'
    BY <1>1, <1>2, <2>1 DEF FoundSoFar
  <2> QED BY <2>2, <2>3, <2>4 DEF DevicesInv
<1>4. CASE /\ pc = "reset2" \/ (pc = "reset" /\ port = 1)
           /\ DataTaken(ResetDevice) /\ pc' = "ack"
  <2>1. target = IF port = 1 THEN "port1" ELSE "port2"
    BY <1>1, <1>2, <1>4 DEF InReset, RestToCome, PortsInv, ResetInv, Port
  <2>2. DeviceTakes(port, ResetDevice)
    BY <1>1, <1>4, <2>1 DEF DataTaken, Port
  <2>3. /\ ctl' = None /\ target' = "port1" /\ out' = None
        /\ UNCHANGED <<ports, device, typed>>
    BY <1>2, <1>4, <2>1 DEF DataTaken
  <2>4. pc' \in Resetting /\ InStep'
    BY <1>1, <1>2, <1>4, <2>3, DuringResets DEF Resetting
  <2>5. /\ \A q \in Port \ {port} : queue'[q] = <<>>
        /\ device[port] = "none" => queue'[port] = <<>>
        /\ device[port] # "none" =>
             queue'[port] = <<Acknowledged, SelfTestPassed>> \o Identity(device[port])
    <3> DEFINE new == CASE device[port] = "none" -> queue[port]
                        [] device[port] # "none" /\ ResetDevice = ResetDevice ->
                             <<Acknowledged, SelfTestPassed>> \o Identity(device[port])
                        [] OTHER -> Append(queue[port], Acknowledged)
    <3>1. queue' = [queue EXCEPT ![port] = new]
      BY <2>2 DEF DeviceTakes
    <3>2. /\ device[port] = "none" => new = <<>>
          /\ device[port] # "none" =>
               new = <<Acknowledged, SelfTestPassed>> \o Identity(device[port])
      <4>1. queue[port] = <<>>
        BY <1>1, <1>2 DEF Empty
      <4> QED BY <4>1
    <3> HIDE DEF new
    <3>3. queue \in [Port -> Seq(Byte)]
      BY DEF PortsInv, Types, BusTypes
    <3>4. queue'[port] = new /\ \A q \in Port \ {port} : queue'[q] = queue[q]
      BY <1>1, <3>1, <3>3
    <3> QED BY <1>2, <3>2, <3>4 DEF Empty
  <2>6. InReset'
    BY <1>1, <1>4, <2>3, <2>5 DEF InReset, RestToCome, ToCome, Empty, Other, Resetting
  <2>7. FoundSoFar'
    BY <1>1, <1>2, <2>3 DEF FoundSoFar
  <2> QED BY <2>4, <2>6, <2>7 DEF DevicesInv
<1> QED BY <1>3, <1>4 DEF SendReset

\* The device on the port is known, and nothing else was to come.
LEMMA FoundReports ==
  ASSUME PortsInv, DevicesInv, Quiet, pc \in {"id3", "id4"}, Found(device[port]),
         UNCHANGED <<ports, device, target, ctl, queue>>, out' = None, queue[port] = <<>>
  PROVE  DevicesInv'
<1> DEFINE last == port = 2 \/ ~supported
<1>1. /\ supported' = supported /\ found' = [found EXCEPT ![port] = device[port]]
      /\ port' = IF last THEN port ELSE 2
      /\ pc' = IF last THEN "handle" ELSE "reset"
      /\ ~last => status' = status
      /\ last => status' # "running"
  <2> DEFINE kinds == {Super([found EXCEPT ![port] = device[port]][p]) : p \in Port}
             result == CASE kinds = {"keyboard"} -> "two_keyboard"
                         [] kinds = {"mouse"} -> "two_mouse"
                         [] OTHER -> "none"
  <2>1. /\ supported' = supported /\ found' = [found EXCEPT ![port] = device[port]]
        /\ port' = IF last THEN port ELSE 2
        /\ pc' = IF last THEN "handle" ELSE "reset"
        /\ status' = IF ~last THEN status ELSE IF ~supported THEN "no_second_port" ELSE result
    BY DEF Found
  <2> HIDE DEF kinds
  <2>2. result \in {"two_keyboard", "two_mouse", "none"}
    OBVIOUS
  <2> HIDE DEF result
  <2> QED BY <2>1, <2>2
<1>2. /\ port \in Port /\ status = "running" /\ pc \in Resetting
      /\ found \in [Port -> {"none", "ancient", "keyboard", "mouse"}] /\ ports \in {1, 2}
      /\ InReset /\ FoundSoFar /\ supported = (ports = 2)
  BY DEF PortsInv, Types, BusTypes, Results, Ending, Resetting, DevicesInv, InStep
<1>3. ctl = None /\ Empty(Port) /\ target = "port1"
  BY <1>2 DEF InReset, RestToCome, Empty, Other
<1>4. /\ port = 1 => found = [p \in Port |-> "none"]
      /\ port = 2 => found = [p \in Port |-> IF p = 1 THEN device[1] ELSE "none"]
  BY <1>2 DEF FoundSoFar
<1>5. CASE last
  <2>1. pc' = "handle" /\ status' # "running" /\ port' = port
    BY <1>1, <1>5
  <2>2. InStep'
    BY <2>1, CommandLabels DEF InStep, Resetting, Ending, Answers
  <2>3. InReset'
    BY <2>1 DEF InReset, RestToCome, Resetting
  <2>4. ports = 1 <=> port = 1
    <3>1. port = 2 => ports = 2
      BY <1>2 DEF PortsInv, ResetInv, Ready, SecondPort
    <3>2. port = 1 => ports # 2
      <4>1. port = 1 => ~supported
        BY <1>5
      <4> QED BY <1>2, <4>1, Zenon
    <3> QED BY <1>2, <3>1, <3>2 DEF Port
  <2>5. found' = [p \in Port |-> IF p = 2 /\ ports = 1 THEN "none" ELSE device[p]]
    <3>1. CASE port = 1
      BY <1>1, <1>4, <2>4, <3>1 DEF Port
    <3>2. CASE port = 2
      BY <1>1, <1>4, <2>4, <3>2 DEF Port
    <3> QED BY <1>2, <3>1, <3>2 DEF Port
  <2>6. FoundSoFar'
    BY <1>1, <1>2, <2>1, <2>5 DEF FoundSoFar
  <2> QED BY <2>2, <2>3, <2>6 DEF DevicesInv
<1>6. CASE ~last
  <2>1. pc' = "reset" /\ status' = "running" /\ port' = 2 /\ port = 1
    BY <1>1, <1>2, <1>6 DEF Port
  <2>2. InStep'
    BY <1>1, <1>2, <2>1, DuringResets DEF Resetting
  <2>3. InReset'
    BY <1>3, <2>1 DEF InReset, RestToCome, Resetting, Empty, Other
  <2>4. found' = [p \in Port |-> IF p = 1 THEN device[1] ELSE "none"]
    BY <1>1, <1>4, <2>1 DEF Port
  <2>5. FoundSoFar'
    BY <2>1, <2>4 DEF FoundSoFar, Working
  <2> QED BY <2>2, <2>3, <2>5 DEF DevicesInv
<1> QED BY <1>5, <1>6

\* The device's answers, one after the other.
LEMMA AnswersReport ==
  ASSUME PortsInv, DevicesInv, Quiet, pc' \in {"bat", "id3", "id4"}, UNCHANGED locals,
         NEW b \in Byte, Receive(b), pc \in Resetting,
         RestToCome', pc # "reset2"
  PROVE  DevicesInv'
<1>1. UNCHANGED <<supported, port, found, status, ports, device, ctl, target, queue>>
  BY DEF locals, Receive
<1>2. InReset /\ FoundSoFar /\ supported = (ports = 2)
  BY DEF DevicesInv, InStep
<1>3. pc' \in Resetting /\ InStep'
  BY <1>1, <1>2, DuringResets DEF Resetting
<1>4. InReset'
  BY <1>1, <1>2 DEF InReset, RestToCome, Empty, Other, Resetting
<1>5. FoundSoFar'
  BY <1>1, <1>2 DEF FoundSoFar
<1> QED BY <1>3, <1>4, <1>5 DEF DevicesInv

\* The reset is acknowledged, by a device that is there.
LEMMA GotAckReports ==
  ASSUME PortsInv, DevicesInv, Quiet, GotAck
  PROVE  DevicesInv'
<1>1. PICK b \in Byte :
        /\ Receive(b)
        /\ \/ pc = "ack" /\ pc' = "bat" /\ UNCHANGED locals
           \/ \E st \in Failed : Fails(st)
  BY DEF GotAck, Failed
<1>2. CASE \E st \in Failed : Fails(st)
  BY <1>2, FailingReports
<1>3. CASE pc = "ack" /\ pc' = "bat" /\ UNCHANGED locals
  <2> DEFINE id == Identity(device[port])
  <2>1. id \in Seq(Byte) /\ Acknowledged \in Byte /\ SelfTestPassed \in Byte
    BY IdentityIs DEF Acknowledged, SelfTestPassed, Byte
  <2>2. <<SelfTestPassed>> \o id \in Seq(Byte)
    BY <2>1, FirstOff
  <2>3. <<Acknowledged, SelfTestPassed>> \o id = <<Acknowledged>> \o (<<SelfTestPassed>> \o id)
    <3>1. <<Acknowledged, SelfTestPassed>> = <<Acknowledged>> \o <<SelfTestPassed>>
      BY <2>1, PairIs
    <3>2. <<Acknowledged>> \in Seq(Byte) /\ <<SelfTestPassed>> \in Seq(Byte)
      BY <2>1
    <3> HIDE DEF id
    <3> QED BY <2>1, <3>1, <3>2, ConcatAssociative
  <2>4. InReset /\ out # None /\ port' = port /\ device' = device /\ pc \in Resetting
    BY <1>1, <1>3 DEF DevicesInv, Receive, locals, Resetting
  <2>5. device[port] # "none"
    BY <1>3, <2>4 DEF InReset, RestToCome, ToCome
  <2>6. ToCome(<<Acknowledged>> \o (<<SelfTestPassed>> \o id))
    BY <1>3, <2>3, <2>4, <2>5 DEF InReset, RestToCome
  <2>7. ToCome(<<SelfTestPassed>> \o id)'
    <3> HIDE DEF id
    <3>1. ASSUME NEW s \in Seq(Byte), s = <<SelfTestPassed>> \o id PROVE ToCome(s)'
      BY <1>1, <2>1, <2>4, <2>6, <3>1, NextByte
    <3>2. id' = id
      BY <2>4 DEF id
    <3> QED BY <2>2, <3>1, <3>2 DEF ToCome
  <2> QED BY <1>1, <1>3, <2>4, <2>5, <2>7, AnswersReport DEF RestToCome
<1> QED BY <1>1, <1>2, <1>3

\* The device's test is read.
LEMMA SelfTestReports ==
  ASSUME PortsInv, DevicesInv, Quiet, GotSelfTestOfDevice
  PROVE  DevicesInv'
<1>1. PICK b \in Byte :
        /\ Receive(b)
        /\ \/ pc = "bat" /\ pc' = "id3" /\ UNCHANGED locals
           \/ \E st \in Failed : Fails(st)
  BY DEF GotSelfTestOfDevice, Failed
<1>2. CASE \E st \in Failed : Fails(st)
  BY <1>2, FailingReports
<1>3. CASE pc = "bat" /\ pc' = "id3" /\ UNCHANGED locals
  <2> DEFINE id == Identity(device[port])
  <2>1. id \in Seq(Byte) /\ SelfTestPassed \in Byte
    BY IdentityIs DEF SelfTestPassed, Byte
  <2>2. /\ device[port] # "none" /\ ToCome(<<SelfTestPassed>> \o id)
        /\ port' = port /\ device' = device /\ pc \in Resetting
    BY <1>1, <1>3 DEF DevicesInv, InReset, RestToCome, Receive, locals, Resetting
  <2>3. ToCome(id)'
    <3> HIDE DEF id
    <3>1. ASSUME NEW s \in Seq(Byte), s = id PROVE ToCome(s)'
      BY <1>1, <2>1, <2>2, <3>1, NextByte
    <3>2. id' = id
      BY <2>2 DEF id
    <3> QED BY <2>1, <3>1, <3>2 DEF ToCome
  <2> QED BY <1>1, <1>3, <2>2, <2>3, AnswersReport DEF RestToCome
<1> QED BY <1>1, <1>2, <1>3

\* The first byte of a device's identity tells mice from keyboards.
LEMMA GotIdentityReports ==
  ASSUME PortsInv, DevicesInv, Quiet, GotIdentity
  PROVE  DevicesInv'
<1>1. PICK b \in Byte :
        /\ Receive(b)
        /\ \/ b = Len4Prefix /\ pc' = "id4" /\ UNCHANGED locals
           \/ b \in {0, 3, 4} /\ Found("mouse")
           \/ \E st \in Failed : Fails(st)
  BY DEF GotIdentity, Failed
<1>2. /\ out # None /\ b = out /\ out' = None /\ pc = "id3"
      /\ UNCHANGED <<ports, device, ctl, target, queue>>
  BY <1>1 DEF GotIdentity, Receive
<1>3. CASE \E st \in Failed : Fails(st)
  BY <1>3, FailingReports
<1> DEFINE d == device[port]
<1>4. /\ d \in {"ancient", "keyboard", "mouse", "odd"}
      /\ Identity(d) # <<>> /\ b = Head(Identity(d)) /\ queue[port] = Tail(Identity(d))
  BY <1>2, I8042Assumption DEF DevicesInv, InReset, RestToCome, ToCome, PortsInv, Types, BusTypes
<1> HIDE DEF d
<1>5. \/ d = "mouse" /\ b = 0 /\ queue[port] = <<>>
      \/ d = "keyboard" /\ b = 171 /\ queue[port] = <<131>>
      \/ d = "odd" /\ b = 127
  <2>1. CASE d = "mouse"
    <3>1. Identity(d) = <<0>>
      BY <2>1, IdentityIs, Zenon
    <3>2. Head(<<0>>) = 0 /\ Tail(<<0>>) = <<>>
      OBVIOUS
    <3>3. b = 0 /\ queue[port] = <<>>
      BY <1>4, <3>1, <3>2, Zenon
    <3> QED BY <2>1, <3>3
  <2>2. CASE d = "keyboard"
    <3>1. 171 \in Byte /\ 131 \in Byte /\ <<131>> \in Seq(Byte)
      BY DEF Byte
    <3>2. <<171, 131>> = <<171>> \o <<131>>
      BY <3>1, PairIs
    <3>3. Head(<<171, 131>>) = 171 /\ Tail(<<171, 131>>) = <<131>>
      BY <3>1, <3>2, FirstOff
    <3>4. Identity(d) = <<171, 131>>
      BY <2>2, IdentityIs, Zenon
    <3>5. b = 171 /\ queue[port] = <<131>>
      BY <1>4, <3>3, <3>4, Zenon
    <3> QED BY <2>2, <3>5
  <2>3. CASE d = "odd"
    <3>1. Identity(d) = <<127>>
      BY <2>3, IdentityIs, Zenon
    <3>2. Head(<<127>>) = 127
      OBVIOUS
    <3>3. b = 127
      BY <1>4, <3>1, <3>2, Zenon
    <3> QED BY <2>3, <3>3
  <2>4. CASE d = "ancient"
    BY <1>4, <2>4, IdentityIs, Zenon
  <2> QED BY <1>4, <2>1, <2>2, <2>3, <2>4
<1>6. CASE b \in {0, 3, 4} /\ Found("mouse")
  <2>1. d = "mouse" /\ queue[port] = <<>>
    BY <1>5, <1>6
  <2> QED BY <1>2, <1>6, <2>1, FoundReports DEF d
<1>7. CASE b = Len4Prefix /\ pc' = "id4" /\ UNCHANGED locals
  <2>1. d = "keyboard" /\ queue[port] = <<131>>
    BY <1>5, <1>7 DEF Len4Prefix
  <2>2. (device[port] = "keyboard" /\ ToCome(<<131>>))'
    BY <1>2, <1>7, <2>1 DEF locals, ToCome, d
  <2>3. pc \in Resetting
    BY <1>2 DEF Resetting
  <2> QED BY <1>1, <1>2, <1>7, <2>2, <2>3, AnswersReport DEF RestToCome
<1> QED BY <1>1, <1>3, <1>6, <1>7

\* The last byte of a keyboard's identity is read.
LEMMA GotKeyboardReports ==
  ASSUME PortsInv, DevicesInv, Quiet, GotKeyboard
  PROVE  DevicesInv'
<1>1. PICK b \in Byte :
        /\ Receive(b)
        /\ \/ Found("keyboard")
           \/ \E st \in Failed : Fails(st)
  BY DEF GotKeyboard, Failed
<1>2. /\ out # None /\ out' = None /\ pc = "id4"
      /\ UNCHANGED <<ports, device, ctl, target, queue>>
  BY <1>1 DEF GotKeyboard, Receive
<1>3. device[port] = "keyboard" /\ queue[port] = Tail(<<131>>)
  BY <1>2 DEF DevicesInv, InReset, RestToCome, ToCome
<1>4. queue[port] = <<>>
  BY <1>3
<1> QED BY <1>1, <1>2, <1>3, <1>4, FailingReports, FoundReports

\* No third byte within the wait: unless one is late, none will come.
LEMMA NoIdentityReports ==
  ASSUME PortsInv, DevicesInv, Quiet, Quiet', NoIdentity
  PROVE  DevicesInv'
<1>1. pc = "id3" /\ UNCHANGED busVars /\ Found("ancient") /\ ~Coming
  BY DEF NoIdentity, Quiet
<1>2. out = None
  <2>1. FALSE \in Errors
    BY DEF Errors
  <2> DEFINE st == [output_buffer_full_not_empty |-> out # None,
                    input_buffer_full_not_empty |-> ctl # None,
                    timeout_error |-> FALSE, parity_error |-> FALSE]
  <2>2. st \in PS2_StatusRegister
    BY <2>1 DEF PS2_StatusRegister
  <2>3. ~st.output_buffer_full_not_empty
    BY <2>2 DEF NoIdentity, NoResponse, is_ps2_controller_ready_for_response
  <2> QED BY <2>3
<1>3. port \in Port /\ ~Bit(config, ClockOff(port))
  <2>1. /\ port \in Port /\ Ready /\ (port = 2 => supported)
    BY <1>1 DEF PortsInv, Types, ResetInv, Resetting
  <2> QED BY <2>1 DEF Ready, Clocks, SecondPort, Port
<1>4. queue[port] = <<>>
  BY <1>1, <1>3 DEF Coming
<1>5. device[port] # "none" /\ Identity(device[port]) = <<>>
  <2>1. device[port] # "none" /\ ToCome(Identity(device[port]))
    BY <1>1 DEF DevicesInv, InReset, RestToCome
  <2>2. Identity(device[port]) # <<>> => Head(Identity(device[port])) # None
    BY IdentityIs, HeadTailProperties, I8042Assumption
  <2> QED BY <1>2, <1>4, <2>1, <2>2 DEF ToCome
<1>6. device[port] = "ancient"
  <2>1. device[port] \in {"none", "ancient", "keyboard", "mouse", "odd"}
    BY <1>3, I8042Assumption DEF PortsInv, Types, BusTypes
  <2>2. <<0>> # <<>> /\ <<171, 131>> # <<>> /\ <<127>> # <<>>
    OBVIOUS
  <2> QED BY <1>5, <2>1, <2>2, IdentityIs
<1>7. Found(device[port]) /\ pc \in {"id3", "id4"} /\ out' = None
      /\ UNCHANGED <<ports, device, target, ctl, queue>>
  BY <1>1, <1>2, <1>6 DEF busVars
<1> QED BY <1>4, <1>7, FoundReports

\* The end changes nothing of what was found.
LEMMA EndReports ==
  ASSUME DevicesInv, Quiet, pc' \in Ending,
         UNCHANGED <<ports, device, supported, port, found, status>>
  PROVE  DevicesInv'
<1>1. InStep'
  BY CommandLabels DEF InStep, Resetting, Ending, Answers
<1>2. InReset'
  BY DEF InReset, RestToCome, Resetting, Ending
<1>3. FoundSoFar'
  BY DEF DevicesInv, FoundSoFar
<1> QED BY <1>1, <1>2, <1>3 DEF DevicesInv

\* The report is complete; it is not changed any more.
LEMMA HandlingReports ==
  ASSUME PortsInv, PortsInv', DevicesInv, Quiet, Handle \/ EnableMouse \/ MouseAnswers \/ Install
  PROVE  DevicesInv'
<1>1. UNCHANGED <<ports, device, supported, port, found, status>>
  <2>1. UNCHANGED <<supported, port, found, status>>
    BY DEF Handle, EnableMouse, MouseAnswers, Install, Installs, driverVars,
           handle_ps2_setup_one_keyboard_one_mouse, handle_ps2_setup_one_port_only,
           handle_ps2_setup_two_keyboard, handle_ps2_setup_two_mouse
  <2>2. UNCHANGED <<ports, device>>
    BY DEF Handle, EnableMouse, MouseAnswers, Install, Installs, busVars, ControllerTakes,
           DataTaken, Receive,
           handle_ps2_setup_one_keyboard_one_mouse, handle_ps2_setup_one_port_only,
           handle_ps2_setup_two_keyboard, handle_ps2_setup_two_mouse
  <2> QED BY <2>1, <2>2
<1>2. pc \in Ending
  BY DEF Handle, EnableMouse, MouseAnswers, Install, Installs, Ending,
         handle_ps2_setup_one_keyboard_one_mouse, handle_ps2_setup_one_port_only,
         handle_ps2_setup_two_keyboard, handle_ps2_setup_two_mouse
<1>3. pc' \in Ending
  BY <1>1, <1>2 DEF PortsInv, Results
<1> QED BY <1>1, <1>3, EndReports

\* Every step keeps the invariant of the reports.
LEMMA ReportsStay ==
  ASSUME PortsInv, PortsInv', DevicesInv, [Next]_vars
  PROVE  DevicesInv'
<1> SUFFICES ASSUME Quiet' PROVE DevicesInv'
  BY DEF DevicesInv
<1>1. typed' = typed \/ typed' = typed + 1
  BY DEF Next, vars, busVars, Driver, SendCommand, ControllerTakes, SendConfig, DataTaken,
         SendFails, Flush, NoAnswer, GotConfig, GotSelfTest, GotPortTest, SendReset, ResetFails,
         GotAck, GotSelfTestOfDevice, NoIdentity, GotIdentity, GotKeyboard, Handle, EnableMouse,
         MouseAnswers, Install, Installs, Receive, Hardware, ControllerAnswers, DeviceSends,
         UserActs, handle_ps2_setup_one_keyboard_one_mouse, handle_ps2_setup_one_port_only,
         handle_ps2_setup_two_keyboard, handle_ps2_setup_two_mouse
<1>2. ~late' => ~late
  BY DEF Next, vars, driverVars, Driver, SendCommand, SendConfig,
         SendFails, Flush, NoAnswer, GotConfig, GotSelfTest, GotPortTest, SendReset, ResetFails,
         GotAck, GotSelfTestOfDevice, NoIdentity, GotIdentity, GotKeyboard, Handle, EnableMouse,
         MouseAnswers, Install, Installs, handle_ps2_setup_one_keyboard_one_mouse,
         handle_ps2_setup_one_port_only, handle_ps2_setup_two_keyboard, handle_ps2_setup_two_mouse
<1>3. Quiet
  BY <1>1, <1>2 DEF Quiet, PortsInv, Types, BusTypes
<1>4. CASE UNCHANGED vars
  <2>1. InStep /\ InReset /\ FoundSoFar
    BY <1>3 DEF DevicesInv
  <2>2. InStep' /\ FoundSoFar'
    BY <1>4, <2>1 DEF vars, busVars, driverVars, InStep, FoundSoFar, Empty, Answered
  <2>3. InReset'
    BY <1>4, <2>1 DEF vars, busVars, driverVars, InReset, RestToCome, Empty, Other, ToCome
  <2> QED BY <2>2, <2>3 DEF DevicesInv
<1>5. CASE Hardware /\ UNCHANGED <<pc, driverVars>>
  BY <1>3, <1>5, HardwareReports
<1>6. CASE SendFails \/ NoAnswer \/ ResetFails
  <2>1. PICK st \in Failed : Fails(st)
    BY <1>6 DEF SendFails, NoAnswer, ResetFails, Failed
  <2> QED BY <2>1, FailingReports
<1>7. CASE Driver /\ ~(SendFails \/ NoAnswer \/ ResetFails)
  BY <1>3, <1>7, CommandReports, ConfigReports, FlushReports, GotConfigReports, TestsReport,
     SendResetReports, GotAckReports, SelfTestReports, NoIdentityReports, GotIdentityReports,
     GotKeyboardReports, HandlingReports DEF Driver
<1> QED BY <1>4, <1>5, <1>6, <1>7 DEF Next

\* Unless a key was pressed or an answer came too late, the setup reports as
\* many ports as there are and the device on each: an ancient keyboard is told
\* from one that is slow, and no byte is taken for the answer to another
\* question.
THEOREM DevicesAreReported == Spec => []ReportsTheDevices
<1>1. PortsInv /\ DevicesInv /\ PortsInv' /\ [Next]_vars => DevicesInv'
  BY ReportsStay
<1>2. DevicesInv => ReportsTheDevices
  BY DEF DevicesInv, ReportsTheDevices, Quiet, FoundSoFar
<1> QED BY <1>1, <1>2, DevicesStart, PortsInvariant, PTL DEF Spec
=============================================================================
