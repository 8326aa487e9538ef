----------------------------- MODULE InputProofs -----------------------------
(***************************************************************************)
(* The keyboard and the mouse on their one output buffer, for any keys,    *)
(* any movements and any number of them: whose bytes a handler reads, the  *)
(* bounds of the key decoder's index, what the cursor leaves behind, where *)
(* it is, the lines it draws, and the order in which strokes are reported. *)
(***************************************************************************)
EXTENDS Input, SequenceTheorems, WellFoundedInduction, TLAPS

-----------------------------------------------------------------------------
(* Streams of bytes from a keyboard                                         *)

\* Pause's sequence begins at position i of s.
Starts(s, i) == i + 5 <= Len(s) /\ \A j \in 0..5 : s[i + j] = PausePressed[j + 1]

\* The first n bytes of s are the last n of pause's sequence.
Ends(s, n) == n <= Len(s) /\ \A j \in 1..n : s[j] = PausePressed[6 - n + j]

\* After the first n bytes of s, 0xE1 occurs only in whole sequences of pause.
Whole(s, n) ==
  \A i \in n + 1..Len(s) : s[i] = 225 => Starts(s, i) \/ (i - 3 > n /\ Starts(s, i - 3))

\* The six bytes of pause.
LEMMA PauseBytes ==
  /\ PausePressed[1] = 225 /\ PausePressed[2] = 29 /\ PausePressed[3] = 69
  /\ PausePressed[4] = 225 /\ PausePressed[5] = 157 /\ PausePressed[6] = 197
  /\ Len(PausePressed) = 6 /\ PausePressed \in Seq(Int)
BY DEF PausePressed

\* The bytes after the first.
LEMMA TailIs ==
  ASSUME NEW s \in Seq(Int), s # <<>>
  PROVE  /\ Len(s) \in Nat \ {0} /\ Tail(s) \in Seq(Int) /\ Len(Tail(s)) = Len(s) - 1
         /\ \A i \in 1..Len(s) - 1 : Tail(s)[i] = s[i + 1]
         /\ s[1] \in Int
BY HeadTailProperties, EmptySeq, ElementOfSeq

\* A sequence that begins after the first byte.
LEMMA StartsTail ==
  ASSUME NEW s \in Seq(Int), s # <<>>, NEW m \in 1..Len(s) - 1, Starts(s, m + 1)
  PROVE  Starts(Tail(s), m)
<1>1. /\ Len(s) \in Nat /\ Len(Tail(s)) = Len(s) - 1
      /\ \A i \in 1..Len(s) - 1 : Tail(s)[i] = s[i + 1]
  BY TailIs
<1>2. m + 5 <= Len(s) - 1
  BY <1>1 DEF Starts
<1>3. ASSUME NEW j \in 0..5 PROVE Tail(s)[m + j] = PausePressed[j + 1]
  <2>1. m + j \in 1..Len(s) - 1 /\ m + j + 1 = m + 1 + j
    BY <1>1, <1>2
  <2> QED BY <1>1, <2>1 DEF Starts
<1> QED BY <1>1, <1>2, <1>3 DEF Starts

\* Reading a byte inside pause's sequence.
LEMMA TailInside ==
  ASSUME NEW s \in Seq(Int), NEW n \in 1..5, Ends(s, n), Whole(s, n)
  PROVE  s # <<>> /\ s[1] = PausePressed[7 - n] /\ Ends(Tail(s), n - 1) /\ Whole(Tail(s), n - 1)
<1>1. s # <<>> /\ s[1] = PausePressed[7 - n]
  <2>1. Len(s) >= 1 /\ 1 \in 1..n /\ 6 - n + 1 = 7 - n
    BY DEF Ends
  <2> QED BY <2>1 DEF Ends
<1> DEFINE t == Tail(s)
<1>2. /\ Len(s) \in Nat /\ Len(t) = Len(s) - 1
      /\ \A i \in 1..Len(s) - 1 : t[i] = s[i + 1]
  BY <1>1, TailIs
<1> HIDE DEF t
<1>3. Ends(t, n - 1)
  <2>1. n - 1 <= Len(t)
    BY <1>2 DEF Ends
  <2>2. ASSUME NEW j \in 1..n - 1 PROVE t[j] = PausePressed[6 - (n - 1) + j]
    <3>1. j + 1 \in 1..n /\ j \in 1..Len(s) - 1 /\ 6 - n + (j + 1) = 6 - (n - 1) + j
      BY <1>2, <2>1
    <3>2. t[j] = s[j + 1] /\ s[j + 1] = PausePressed[6 - n + (j + 1)]
      BY <1>2, <3>1 DEF Ends
    <3> QED BY <3>1, <3>2
  <2> QED BY <2>1, <2>2 DEF Ends
<1>4. Whole(t, n - 1)
  <2> SUFFICES ASSUME NEW i \in n..Len(t), t[i] = 225
               PROVE  Starts(t, i) \/ (i - 3 > n - 1 /\ Starts(t, i - 3))
    BY DEF Whole
  <2>1. i + 1 \in n + 1..Len(s) /\ i \in 1..Len(s) - 1 /\ s[i + 1] = 225
    BY <1>2
  <2>2. Starts(s, i + 1) \/ (i + 1 - 3 > n /\ Starts(s, i + 1 - 3))
    BY <2>1 DEF Whole
  <2>3. ASSUME NEW m \in 1..Len(s) - 1, Starts(s, m + 1) PROVE Starts(t, m)
    BY <1>2, <2>3, StartsTail DEF t
  <2> QED BY <2>1, <2>2, <2>3
<1> QED BY <1>1, <1>3, <1>4 DEF t

\* Reading a byte outside pause's sequence; 0xE1 enters one.
LEMMA TailOutside ==
  ASSUME NEW s \in Seq(Int), s # <<>>, Whole(s, 0)
  PROVE  /\ s[1] # 225 => Whole(Tail(s), 0)
         /\ s[1] = 225 => Ends(Tail(s), 5) /\ Whole(Tail(s), 5)
<1> DEFINE t == Tail(s)
<1>1. /\ Len(s) \in Nat \ {0} /\ Len(t) = Len(s) - 1
      /\ \A i \in 1..Len(s) - 1 : t[i] = s[i + 1]
  BY TailIs
<1>2. ASSUME NEW m \in 1..Len(s) - 1, Starts(s, m + 1) PROVE Starts(t, m)
  BY <1>2, StartsTail
<1>3. ASSUME NEW i \in 1..Len(t), t[i] = 225
      PROVE  Starts(s, i + 1) \/ (i > 2 /\ Starts(s, i - 2))
  <2>1. i + 1 \in 1..Len(s) /\ i \in 1..Len(s) - 1 /\ s[i + 1] = 225 /\ i + 1 - 3 = i - 2
    BY <1>1, <1>3
  <2>2. Starts(s, i + 1) \/ (i - 2 > 0 /\ Starts(s, i - 2))
    BY <2>1 DEF Whole
  <2> QED BY <2>1, <2>2
<1> HIDE DEF t
<1>4. ASSUME s[1] # 225 PROVE Whole(t, 0)
  <2> SUFFICES ASSUME NEW i \in 1..Len(t), t[i] = 225
               PROVE  Starts(t, i) \/ (i - 3 > 0 /\ Starts(t, i - 3))
    BY DEF Whole
  <2>1. CASE Starts(s, i + 1)
    BY <1>1, <1>2, <2>1
  <2>2. CASE i > 2 /\ Starts(s, i - 2)
    <3>1. i # 3
      <4>1. i = 3 => s[1 + 0] = PausePressed[0 + 1]
        BY <2>2 DEF Starts
      <4> QED BY <1>4, <4>1, PauseBytes
    <3>2. i - 3 \in 1..Len(s) - 1 /\ i - 3 + 1 = i - 2
      BY <1>1, <2>2, <3>1
    <3> QED BY <1>2, <2>2, <3>2
  <2> QED BY <1>3, <2>1, <2>2
<1>5. ASSUME s[1] = 225 PROVE Ends(t, 5) /\ Whole(t, 5)
  <2>1. Starts(s, 1)
    <3>1. 1 \in 1..Len(s) /\ ~(1 - 3 > 0)
      BY <1>1
    <3> QED BY <1>5, <3>1 DEF Whole
  <2>2. /\ 6 <= Len(s) /\ s[2] = 29 /\ s[3] = 69 /\ s[4] = 225 /\ s[5] = 157 /\ s[6] = 197
    <3>1. /\ 1 + 5 <= Len(s) /\ s[1 + 1] = PausePressed[1 + 1] /\ s[1 + 2] = PausePressed[2 + 1]
          /\ s[1 + 3] = PausePressed[3 + 1] /\ s[1 + 4] = PausePressed[4 + 1]
          /\ s[1 + 5] = PausePressed[5 + 1]
      BY <2>1 DEF Starts
    <3> QED BY <3>1, PauseBytes
  <2>3. Ends(t, 5)
    <3> SUFFICES ASSUME NEW j \in 1..5 PROVE t[j] = PausePressed[6 - 5 + j]
      BY <1>1, <2>2 DEF Ends
    <3>1. t[j] = s[j + 1] /\ j + 1 = 1 + j /\ 6 - 5 + j = j + 1 /\ j \in 0..5
      BY <1>1, <2>2
    <3>2. s[1 + j] = PausePressed[j + 1]
      BY <2>1, <3>1 DEF Starts
    <3> QED BY <3>1, <3>2
  <2>4. Whole(t, 5)
    <3> SUFFICES ASSUME NEW i \in 6..Len(t), t[i] = 225
                 PROVE  Starts(t, i) \/ (i - 3 > 5 /\ Starts(t, i - 3))
      BY DEF Whole
    <3>1. i \in 1..Len(t)
      OBVIOUS
    <3>2. CASE Starts(s, i + 1)
      BY <1>1, <1>2, <3>1, <3>2
    <3>3. CASE i > 2 /\ Starts(s, i - 2)
      <4>1. s[i - 2 + 0] = PausePressed[0 + 1] /\ s[i - 2 + 1] = PausePressed[1 + 1]
        BY <3>3 DEF Starts
      <4>2. s[i - 2] = 225 /\ s[i - 1] = 29
        BY <4>1, PauseBytes
      <4>3. i # 6 /\ i # 7 /\ i # 8
        <5>1. i = 6 => s[5] = 29
          BY <4>2
        <5>2. i = 7 => s[5] = 225
          BY <4>2
        <5>3. i = 8 => s[6] = 225
          BY <4>2
        <5> QED BY <2>2, <5>1, <5>2, <5>3
      <4>4. i - 3 > 5 /\ i - 3 \in 1..Len(s) - 1 /\ i - 3 + 1 = i - 2
        BY <1>1, <4>3
      <4> QED BY <1>2, <3>3, <4>4
    <3> QED BY <1>3, <3>1, <3>2, <3>3
  <2> QED BY <2>3, <2>4
<1> QED BY <1>4, <1>5 DEF t

\* Sending more bytes.
LEMMA Longer ==
  ASSUME NEW s \in Seq(Int), NEW n \in 0..5, Ends(s, n), Whole(s, n),
         NEW t \in Seq(Int), Whole(t, 0)
  PROVE  /\ s \o t \in Seq(Int) /\ Len(s) <= Len(s \o t)
         /\ \A i \in 1..Len(s) : (s \o t)[i] = s[i]
         /\ Ends(s \o t, n) /\ Whole(s \o t, n)
<1> DEFINE u == s \o t
<1>1. /\ u \in Seq(Int) /\ Len(u) = Len(s) + Len(t) /\ Len(s) \in Nat /\ Len(t) \in Nat
      /\ \A i \in 1..Len(s) : u[i] = s[i]
      /\ \A i \in 1..Len(t) : u[Len(s) + i] = t[i]
  BY ConcatProperties, LenProperties
<1> HIDE DEF u
<1>0. Len(s) \in Nat /\ Len(t) \in Nat /\ Len(u) = Len(s) + Len(t)
  BY <1>1
<1>a. ASSUME NEW i \in Int, NEW m \in 1..Len(t), i = Len(s) + m PROVE u[i] = t[m]
  BY <1>1, <1>a
<1>2. Ends(u, n)
  BY <1>1 DEF Ends
<1>3. ASSUME NEW m \in 1..Len(s), Starts(s, m) PROVE Starts(u, m)
  <2>1. m + 5 <= Len(s)
    BY <1>3 DEF Starts
  <2>2. \A j \in 0..5 : m + j \in 1..Len(s)
    BY <1>1, <2>1, SMTT(30)
  <2> QED BY <1>1, <1>3, <2>1, <2>2 DEF Starts
<1>4. ASSUME NEW m \in 1..Len(t), Starts(t, m) PROVE Starts(u, Len(s) + m)
  <2>1. m + 5 <= Len(t)
    BY <1>4 DEF Starts
  <2>2. ASSUME NEW j \in 0..5 PROVE u[Len(s) + m + j] = PausePressed[j + 1]
    <3>1. m + j \in 1..Len(t)
      BY <1>0, <2>1
    <3>2. Len(s) + m + j \in Int /\ Len(s) + m + j = Len(s) + (m + j)
      BY <1>0
    <3>3. u[Len(s) + m + j] = t[m + j] /\ t[m + j] = PausePressed[j + 1]
      BY <1>a, <1>4, <3>1, <3>2 DEF Starts
    <3> QED BY <3>3
  <2>3. Len(s) + m + 5 <= Len(u)
    BY <1>1, <2>1
  <2> QED BY <2>2, <2>3 DEF Starts
<1>5. Whole(u, n)
  <2> SUFFICES ASSUME NEW i \in n + 1..Len(u), u[i] = 225
               PROVE  Starts(u, i) \/ (i - 3 > n /\ Starts(u, i - 3))
    BY DEF Whole
  <2>1. CASE i <= Len(s)
    <3>1. i \in n + 1..Len(s) /\ s[i] = 225
      BY <1>1, <2>1
    <3>2. Starts(s, i) \/ (i - 3 > n /\ Starts(s, i - 3))
      BY <3>1 DEF Whole
    <3> QED BY <1>3, <3>1, <3>2
  <2>2. CASE i > Len(s)
    <3>0. i \in Int /\ i - Len(s) \in 1..Len(t) /\ i = Len(s) + (i - Len(s))
      BY <1>1, <2>2
    <3>a. u[i] = t[i - Len(s)]
      BY <1>a, <3>0, SMTT(30)
    <3>1. i - Len(s) \in 1..Len(t) /\ t[i - Len(s)] = 225
      BY <3>0, <3>a
    <3>2. Starts(t, i - Len(s)) \/ (i - Len(s) - 3 > 0 /\ Starts(t, i - Len(s) - 3))
      BY <3>1 DEF Whole
    <3>3. CASE Starts(t, i - Len(s))
      BY <1>1, <1>4, <3>1, <3>3
    <3>4. CASE i - Len(s) - 3 > 0 /\ Starts(t, i - Len(s) - 3)
      <4>1. i - Len(s) - 3 \in 1..Len(t) /\ Len(s) + (i - Len(s) - 3) = i - 3 /\ i - 3 > n
        <5>1. i - Len(s) - 3 > 0
          BY <3>4
        <5>2. n <= Len(s)
          BY DEF Ends
        <5> QED BY <1>0, <3>0, <5>1, <5>2
      <4>2. Starts(u, Len(s) + (i - Len(s) - 3))
        BY <1>4, <3>4, <4>1
      <4> QED BY <4>1, <4>2
    <3> QED BY <3>2, <3>3, <3>4
  <2> QED BY <1>1, <2>1, <2>2
<1> QED BY <1>1, <1>2, <1>5 DEF u

\* The bytes outside of pause's sequence.
Outside == Int \ {225}

LEMMA NoPauseInside ==
  ASSUME NEW s \in Seq(Outside) PROVE s \in Seq(Int) /\ Whole(s, 0)
<1>1. \A i \in 1..Len(s) : s[i] \in Outside
  BY ElementOfSeq
<1>2. s \in Seq(Int)
  BY <1>1, SeqDef, LenProperties DEF Outside
<1> QED BY <1>1, <1>2 DEF Outside, Whole

\* The bytes of a stroke by itself: pause's, or none of pause's.
LEMMA KeyBytes ==
  ASSUME NEW k \in Keys
  PROVE  /\ Bytes(k) \in Seq(Int) /\ Whole(Bytes(k), 0)
         /\ k.kind # "pause" => Bytes(k) \in Seq(Outside)
<1> DEFINE final == IF k.press THEN k.code ELSE k.code + 128
<1>1. k.kind \in Kinds /\ final \in Outside /\ 224 \in Outside
  BY KeyAssumption DEF Outside
<1>2. CASE k.kind = "plain"
  <2>1. Bytes(k) = <<final>>
    BY <1>2 DEF Bytes
  <2> HIDE DEF final
  <2>2. <<final>> \in Seq(Outside)
    BY <1>1
  <2> QED BY <2>1, <2>2, NoPauseInside
<1>3. CASE k.kind = "extended"
  <2>1. Bytes(k) = <<224, final>>
    BY <1>3 DEF Bytes, Prefix
  <2> HIDE DEF final
  <2>2. <<224, final>> \in Seq(Outside)
    BY <1>1
  <2> QED BY <2>1, <2>2, NoPauseInside
<1>4. CASE k.kind = "print"
  <2>1. \A a, b, c, d \in Outside : <<a, b, c, d>> \in Seq(Outside)
    OBVIOUS
  <2>2. {224, 42, 55, 183, 170} \subseteq Outside
    BY DEF Outside
  <2> DEFINE make == <<224, 42, 224, 55>>
             break == <<224, 183, 224, 170>>
  <2>3. Bytes(k) = make \/ Bytes(k) = break
    BY <1>4 DEF Bytes, PrintPressed, PrintReleased
  <2>4. make \in Seq(Outside) /\ break \in Seq(Outside)
    BY <2>1, <2>2
  <2> HIDE DEF make, break
  <2>5. Bytes(k) \in Seq(Outside)
    BY <2>3, <2>4
  <2> QED BY <2>5, NoPauseInside
<1>5. CASE k.kind = "pause"
  <2>1. Bytes(k) = PausePressed
    BY <1>5 DEF Bytes
  <2>2. Starts(PausePressed, 1)
    BY PauseBytes DEF Starts
  <2> QED BY <1>5, <2>1, <2>2, PauseBytes DEF Whole
<1> QED BY <1>1, <1>2, <1>3, <1>4, <1>5 DEF Kinds

\* The bytes of a stroke in any of its forms.
LEMMA FormBytes ==
  ASSUME NEW k \in Keys, NEW s \in Forms(k)
  PROVE  s \in Seq(Int) /\ Whole(s, 0)
<1> DEFINE b == Bytes(k)
           Out == Seq(Outside)
           shift == <<224, 42>>
           unshift == <<224, 170>>
           altPrint == <<84>>
           altPrintUp == <<212>>
           sysRq == <<224, 55>>
           sysRqUp == <<224, 183>>
           break == <<224, 70, 224, 198>>
<1>1. b \in Seq(Int) /\ Whole(b, 0) /\ (k.kind # "pause" => b \in Out)
  BY KeyBytes
<1>2. /\ shift \in Out /\ unshift \in Out /\ altPrint \in Out /\ altPrintUp \in Out
      /\ sysRq \in Out /\ sysRqUp \in Out /\ break \in Out
  BY DEF Outside
<1>3. \A t, u \in Out : t \o u \in Out
  BY ConcatProperties
<1>4. \A t \in Out : t \in Seq(Int) /\ Whole(t, 0)
  BY NoPauseInside
<1>5. \/ s = b
      \/ k.kind # "pause" /\ (s = shift \o b \/ s = unshift \o b)
      \/ k.kind # "pause" /\ (s = b \o shift \/ s = b \o unshift)
      \/ s = altPrint \/ s = altPrintUp \/ s = sysRq \/ s = sysRqUp \/ s = break
  BY DEF Forms, Prefix
<1> HIDE DEF b, Out, shift, unshift, altPrint, altPrintUp, sysRq, sysRqUp, break
<1>6. CASE k.kind # "pause" /\ (s = shift \o b \/ s = unshift \o b)
  BY <1>1, <1>2, <1>3, <1>4, <1>6, Zenon
<1>7. CASE k.kind # "pause" /\ (s = b \o shift \/ s = b \o unshift)
  BY <1>1, <1>2, <1>3, <1>4, <1>7, Zenon
<1>8. CASE s = altPrint \/ s = altPrintUp \/ s = sysRq \/ s = sysRqUp \/ s = break
  BY <1>2, <1>4, <1>8, Zenon
<1> QED BY <1>1, <1>5, <1>6, <1>7, <1>8, Zenon

\* An answer is no part of a key's sequence.
LEMMA AnswerBytes ==
  ASSUME NEW r \in Answers
  PROVE  <<r>> \in Seq(Int) /\ Whole(<<r>>, 0)
BY DEF Answers, Whole

-----------------------------------------------------------------------------
(* The inductive invariant of the keyboard                                  *)

\* The bytes the keyboard's handler has yet to read, if all goes well.
Coming == IF buffer.device = "keyboard" THEN <<buffer.byte>> \o queue["keyboard"]
          ELSE queue["keyboard"]

Queues ==
  /\ queue = [d \in Devices |-> queue[d]] /\ queue["keyboard"] \in Seq(Int)
  /\ buffer = Empty \/ buffer.device \in Devices
  /\ buffer.device = "keyboard" => buffer.byte \in Int

Types ==
  /\ Queues
  /\ astray \in BOOLEAN /\ polled \in BOOLEAN
  /\ prev \in BOOLEAN /\ four \in BOOLEAN /\ six \in BOOLEAN /\ len \in Nat
  /\ plan \in Plans

\* Until set_leds polls, an interrupt is pending exactly for the byte in the
\* buffer.
Own == ~polled => /\ ~astray /\ mode # "read"
                  /\ pending = IF buffer = Empty THEN {} ELSE {buffer.device}

\* Print screen's sequence, and the LED exchange outside of any sequence.
Printing == /\ four => len \in {2, 3}
            /\ mode # "idle" => ~four /\ ~prev

\* Where the decoder can be in pause's sequence when n bytes of one come next:
\* it may miss the beginning and take up the rest at the second 0xE1.
PausePlace(n, l) ==
  \/ n = 5 /\ l \in 0..4
  \/ n = 4 /\ l \in {0, 2, 3, 4}
  \/ n = 3 /\ l \in {0, 3, 4}
  \/ n = 2 /\ l \in {1, 4, 5}
  \/ n = 1 /\ l \in {1, 5}
  \/ n = 0 /\ l \in 0..3

\* The first n bytes to come are the rest of pause's sequence.
Along(n) ==
  /\ Ends(Coming, n) /\ Whole(Coming, n)
  /\ four => n = 0
  /\ ~four => PausePlace(n, len) /\ (len > 0 => six)

\* What is to come agrees with where the decoder is, as long as every byte goes
\* to its own reader.
Clean == \E n \in 0..5 : Along(n)

KeyInv == Types /\ Own /\ Printing /\ (~astray => Clean)

\* What a byte b does to the decoder, leaving out the keys it reports.
Decodes(b) ==
  \/ /\ four /\ ~prev'
     /\ \/ ~four' /\ len' = 0
        \/ b = 224 /\ four' /\ len = 2 /\ len' = 3
  \/ ~four /\ prev /\ b \in {42, 183} /\ four' /\ len' = 2 /\ ~prev'
  \/ ~four /\ b = 225 /\ ~four' /\ six' /\ len' = len + 1 /\ ~prev'
  \/ /\ ~four /\ b # 225 /\ six /\ (len \in 0..5 => b = PausePressed[len + 1])
     /\ ~four' /\ six' /\ ~prev'
     /\ \/ len = 5 /\ len' = 0
        \/ len # 5 /\ len' = len + 1
  \/ /\ ~four /\ b # 225 /\ ~(prev /\ b \in {42, 183})
     /\ ~(six /\ len \in 0..5 /\ b = PausePressed[len + 1])
     /\ ~four' /\ six' = six /\ len' = len /\ (prev' <=> b = 224)

-----------------------------------------------------------------------------
(* The decoder                                                              *)

\* The bytes to come are numbers.
LEMMA KeyComing == Types => Coming \in Seq(Int)
<1> SUFFICES ASSUME Types PROVE Coming \in Seq(Int)
  OBVIOUS
<1>1. queue["keyboard"] \in Seq(Int) /\ (buffer.device = "keyboard" => <<buffer.byte>> \in Seq(Int))
  BY DEF Types, Queues
<1> QED BY <1>1, ConcatProperties DEF Coming

\* A byte of the keyboard's own, in its place.
LEMMA DecodesOwn ==
  ASSUME Types, Printing, Clean, Coming \in Seq(Int), Coming # <<>>, Decodes(Coming[1]),
         Coming' = Tail(Coming)
  PROVE  Clean'
<1> DEFINE s == Coming
           t == Tail(s)
           b == s[1]
<1>1. PICK n \in 0..5 : Along(n)
  BY DEF Clean
<1>2. /\ Ends(s, n) /\ Whole(s, n) /\ (four => n = 0) /\ len \in Nat
      /\ ~four => PausePlace(n, len) /\ (len > 0 => six)
  BY <1>1 DEF Along, Types
<1>3. s \in Seq(Int) /\ s # <<>> /\ Decodes(b) /\ t \in Seq(Int) /\ Len(t) \in Nat /\ Coming' = t
  BY TailIs, LenProperties
<1>4. ASSUME NEW m \in 0..5, Ends(t, m), Whole(t, m), four' => m = 0,
             ~four' => PausePlace(m, len') /\ (len' > 0 => six')
      PROVE  Clean'
  BY <1>3, <1>4 DEF Clean, Along
<1>5. CASE n = 0 /\ b # 225
  <2>1. Whole(t, 0) /\ Ends(t, 0)
    BY <1>2, <1>3, <1>5, TailOutside DEF Ends
  <2> HIDE DEF s, t, b
  <2>2. CASE four
    <3>1. ~four' => len' = 0
      BY <1>3, <2>2 DEF Decodes
    <3> QED BY <1>4, <2>1, <3>1 DEF PausePlace
  <2>3. CASE ~four
    <3>1. len \in 0..3 /\ (len > 0 => six)
      BY <1>2, <1>5, <2>3 DEF PausePlace
    <3>2. \/ four'
          \/ /\ six' /\ b = PausePressed[len + 1]
             /\ len' = len + 1
          \/ six' = six /\ len' = len
      BY <1>3, <1>5, <2>3, <3>1 DEF Decodes
    <3>3. b = PausePressed[len + 1] => len \in {1, 2}
      BY <1>5, <3>1, PauseBytes
    <3>4. ~four' => len' \in 0..3 /\ (len' > 0 => six')
      BY <3>1, <3>2, <3>3
    <3> QED BY <1>4, <2>1, <3>4 DEF PausePlace
  <2> QED BY <2>2, <2>3
<1>6. CASE n = 0 /\ b = 225
  <2>1. Whole(t, 5) /\ Ends(t, 5)
    BY <1>2, <1>3, <1>6, TailOutside
  <2> HIDE DEF s, t, b
  <2>2. CASE four
    <3>1. ~four' /\ len' = 0
      BY <1>3, <1>6, <2>2 DEF Decodes
    <3> QED BY <1>4, <2>1, <3>1 DEF PausePlace
  <2>3. CASE ~four
    <3>1. len \in 0..3
      BY <1>2, <1>6, <2>3 DEF PausePlace
    <3>2. ~four' /\ six' /\ len' = len + 1
      BY <1>3, <1>6, <2>3 DEF Decodes
    <3>3. len' \in 0..4
      BY <3>1, <3>2
    <3> QED BY <1>4, <2>1, <3>2, <3>3 DEF PausePlace
  <2> QED BY <2>2, <2>3
<1>7. CASE n # 0
  <2>1. n \in 1..5 /\ ~four /\ PausePlace(n, len) /\ (len > 0 => six)
    BY <1>2, <1>7
  <2>2. b = PausePressed[7 - n] /\ Ends(t, n - 1) /\ Whole(t, n - 1)
    BY <1>2, <1>3, <2>1, TailInside
  <2> HIDE DEF s, t, b
  <2>3. /\ n = 5 => b = 29
        /\ n = 4 => b = 69
        /\ n = 3 => b = 225
        /\ n = 2 => b = 157
        /\ n = 1 => b = 197
    BY <2>2, PauseBytes
  <2>4. b \notin {42, 183} /\ (b = 225 <=> n = 3)
    BY <2>1, <2>3
  <2>5. ~four' /\ (len > 0 => six')
    BY <1>3, <2>1, <2>4 DEF Decodes
  <2>6. \/ n = 3 /\ len' = len + 1 /\ six'
        \/ /\ n # 3 /\ six /\ b = PausePressed[len + 1]
           /\ len' = IF len = 5 THEN 0 ELSE len + 1
        \/ n # 3 /\ ~(six /\ b = PausePressed[len + 1]) /\ len' = len
    <3>1. len \in 0..5
      BY <2>1 DEF PausePlace
    <3> QED BY <1>3, <2>1, <2>4, <3>1 DEF Decodes
  <2>7. /\ len = 0 => PausePressed[len + 1] = 225
        /\ len = 1 => PausePressed[len + 1] = 29
        /\ len = 2 => PausePressed[len + 1] = 69
        /\ len = 3 => PausePressed[len + 1] = 225
        /\ len = 4 => PausePressed[len + 1] = 157
        /\ len = 5 => PausePressed[len + 1] = 197
    <3>1. /\ PausePressed[1] = 225 /\ PausePressed[2] = 29 /\ PausePressed[3] = 69
          /\ PausePressed[4] = 225 /\ PausePressed[5] = 157 /\ PausePressed[6] = 197
      BY PauseBytes
    <3> QED BY <3>1, SMTT(30)
  <2>8. PausePlace(n - 1, len') /\ (len' > 0 => six')
    <3>1. CASE n = 5
      BY <2>1, <2>3, <2>5, <2>6, <2>7, <3>1 DEF PausePlace
    <3>2. CASE n = 4
      BY <2>1, <2>3, <2>5, <2>6, <2>7, <3>2 DEF PausePlace
    <3>3. CASE n = 3
      BY <2>1, <2>3, <2>5, <2>6, <2>7, <3>3 DEF PausePlace
    <3>4. CASE n = 2
      BY <2>1, <2>3, <2>5, <2>6, <2>7, <3>4 DEF PausePlace
    <3>5. CASE n = 1
      BY <2>1, <2>3, <2>5, <2>6, <2>7, <3>5 DEF PausePlace
    <3> QED BY <2>1, <3>1, <3>2, <3>3, <3>4, <3>5
  <2>9. n - 1 \in 0..5
    BY <2>1
  <2> QED BY <1>4, <2>2, <2>5, <2>8, <2>9
<1> QED BY <1>5, <1>6, <1>7

\* An answer to a LED command that the handler finds in the port once more.
LEMMA DecodesAnswer ==
  ASSUME Types, Printing, Clean, NEW b \in Answers, Decodes(b), Coming' = Coming
  PROVE  Clean'
<1>1. b \notin {224, 225, 42, 183} /\ \A i \in 1..6 : b # PausePressed[i]
  <2>1. \A i \in 1..6 : i = 1 \/ i = 2 \/ i = 3 \/ i = 4 \/ i = 5 \/ i = 6
    OBVIOUS
  <2>2. b = 250 \/ b = 254
    BY DEF Answers
  <2>3. ASSUME NEW i \in 1..6 PROVE b # PausePressed[i]
    <3>1. PausePressed[i] \in {225, 29, 69, 157, 197}
      BY <2>1, PauseBytes
    <3> QED BY <2>2, <3>1
  <2> QED BY <2>2, <2>3
<1>2. PICK n \in 0..5 : Along(n)
  BY DEF Clean
<1>3. CASE four
  <2>1. n = 0 /\ (~four' => len' = 0)
    BY <1>2, <1>3 DEF Along, Decodes
  <2>2. Along(n)'
    BY <1>2, <2>1 DEF Along, PausePlace
  <2> QED BY <2>2 DEF Clean
<1>4. CASE ~four
  <2>1. PausePlace(n, len) /\ len \in 0..5 /\ len + 1 \in 1..6
    BY <1>2, <1>4 DEF Along, PausePlace
  <2>2. ~four' /\ six' = six /\ len' = len
    BY <1>1, <1>4, <2>1 DEF Decodes
  <2>3. Along(n)'
    BY <1>2, <1>4, <2>2 DEF Along
  <2> QED BY <2>3 DEF Clean
<1> QED BY <1>3, <1>4

-----------------------------------------------------------------------------
(* The port                                                                 *)

\* A byte in front of others is the first.
LEMMA ConsTail ==
  ASSUME NEW q \in Seq(Int), NEW b \in Int
  PROVE  /\ <<b>> \o q \in Seq(Int) /\ <<b>> \o q # <<>>
         /\ (<<b>> \o q)[1] = b /\ Tail(<<b>> \o q) = q
<1> DEFINE s == <<b>> \o q
<1>1. <<b>> \in Seq(Int) /\ Len(<<b>>) = 1 /\ <<b>>[1] = b /\ Len(q) \in Nat
  BY LenProperties
<1>2. /\ s \in Seq(Int) /\ Len(s) = 1 + Len(q)
      /\ \A i \in 1..1 + Len(q) : s[i] = IF i <= 1 THEN <<b>>[i] ELSE q[i - 1]
  BY <1>1, ConcatProperties
<1>3. s[1] = b
  <2>1. 1 \in 1..1 + Len(q) /\ 1 <= 1
    BY <1>1
  <2> QED BY <1>1, <1>2, <2>1
<1>4. s # <<>>
  <2>1. Len(s) # 0
    BY <1>1, <1>2
  <2> HIDE DEF s
  <2> QED BY <2>1
<1> HIDE DEF s
<1>5. /\ Tail(s) \in Seq(Int) /\ Len(Tail(s)) = Len(s) - 1
      /\ \A i \in 1..Len(s) - 1 : Tail(s)[i] = s[i + 1]
  BY <1>2, <1>4, TailIs
<1>6. Len(Tail(s)) = Len(q)
  BY <1>1, <1>2, <1>5
<1>7. ASSUME NEW i \in 1..Len(q) PROVE Tail(s)[i] = q[i]
  <2>1. /\ i \in 1..Len(s) - 1 /\ i + 1 \in 1..1 + Len(q) /\ ~(i + 1 <= 1) /\ i + 1 - 1 = i
    BY <1>1, <1>2
  <2>2. Tail(s)[i] = s[i + 1] /\ s[i + 1] = q[i + 1 - 1]
    BY <1>2, <1>5, <2>1, SMTT(30)
  <2> QED BY <2>1, <2>2
<1>8. Tail(s) = q
  BY <1>5, <1>6, <1>7, SeqEqual
<1> QED BY <1>2, <1>3, <1>4, <1>8 DEF s

\* The controller takes a byte out of a queue.
LEMMA HeadCons ==
  ASSUME NEW q \in Seq(Int), q # <<>>
  PROVE  Head(q) \in Int /\ Tail(q) \in Seq(Int) /\ <<Head(q)>> \o Tail(q) = q
<1>1. Head(q) \in Int /\ Tail(q) \in Seq(Int) /\ Len(q) \in Nat \ {0}
  BY HeadTailProperties, EmptySeq
<1> DEFINE s == <<Head(q)>> \o Tail(q)
<1>2. s \in Seq(Int) /\ s # <<>> /\ s[1] = Head(q) /\ Tail(s) = Tail(q)
  BY <1>1, ConsTail, SMTT(30)
<1>3. Len(s) = Len(q)
  <2>1. Len(s) \in Nat /\ Len(Tail(s)) = Len(s) - 1 /\ Len(Tail(q)) = Len(q) - 1
    BY <1>2, HeadTailProperties, LenProperties
  <2> HIDE DEF s
  <2>2. Len(s) - 1 = Len(q) - 1
    BY <1>2, <2>1
  <2> QED BY <1>1, <2>1, <2>2
<1> HIDE DEF s
<1>4. ASSUME NEW i \in 1..Len(s) PROVE s[i] = q[i]
  <2>1. CASE i = 1
    BY <1>2, <2>1
  <2>2. CASE i # 1
    <3>1. i - 1 \in 1..Len(s) - 1 /\ i - 1 \in 1..Len(q) - 1 /\ i - 1 + 1 = i
      BY <1>1, <1>3, <2>2
    <3>2. Tail(s)[i - 1] = s[i - 1 + 1]
      BY <1>2, <3>1, TailIs
    <3>3. Tail(q)[i - 1] = q[i - 1 + 1]
      BY <3>1, TailIs
    <3> QED BY <1>2, <3>1, <3>2, <3>3
  <2> QED BY <2>1, <2>2
<1>5. s = q
  BY <1>2, <1>3, <1>4, SeqEqual
<1> QED BY <1>1, <1>5 DEF s

\* Appending to what is to come.
LEMMA Associates == \A b, q, t \in Seq(Int) : (b \o q) \o t = b \o (q \o t)
BY ConcatAssociative, SMTT(30)

\* The keyboard sends bytes, a key's or an answer.
LEMMA KeyboardSends ==
  ASSUME Queues, NEW t \in Seq(Int), Sends("keyboard", t), buffer' = buffer
  PROVE  Queues' /\ Coming' = Coming \o t
<1>1. /\ queue' = [d \in Devices |-> queue'[d]] /\ queue'["keyboard"] = queue["keyboard"] \o t
  BY DEF Queues, Sends, Devices
<1>2. queue'["keyboard"] \in Seq(Int)
  BY <1>1, ConcatProperties DEF Queues
<1>3. Queues'
  BY <1>1, <1>2 DEF Queues
<1>4. CASE buffer.device = "keyboard"
  <2> DEFINE b == <<buffer.byte>>
             q == queue["keyboard"]
  <2>1. b \in Seq(Int) /\ q \in Seq(Int)
    BY <1>4 DEF Queues
  <2>2. Coming' = b \o (q \o t) /\ Coming = b \o q
    BY <1>1, <1>4 DEF Coming
  <2> HIDE DEF b, q
  <2>3. (b \o q) \o t = b \o (q \o t)
    BY <2>1, Associates
  <2> QED BY <1>3, <2>2, <2>3
<1>5. CASE buffer.device # "keyboard"
  BY <1>1, <1>3, <1>5 DEF Coming
<1> QED BY <1>4, <1>5

\* The mouse's bytes are none of the keyboard's.
LEMMA MouseSends ==
  ASSUME Queues, NEW t, Sends("mouse", t), buffer' = buffer
  PROVE  Queues' /\ Coming' = Coming
BY DEF Queues, Sends, Devices, Coming

\* A byte moved into the buffer is still to come.
LEMMA Transfers ==
  ASSUME Queues, NEW d \in Devices, Transfer(d)
  PROVE  Queues' /\ Coming' = Coming /\ buffer'.device = d /\ buffer' # Empty
<1>1. /\ buffer = Empty /\ buffer.device # "keyboard" /\ queue[d] # <<>>
      /\ buffer' = [device |-> d, byte |-> Head(queue[d])] /\ buffer' # Empty /\ buffer'.device = d
  BY DEF Transfer, Empty, Devices
<1>2. CASE d = "mouse"
  BY <1>1, <1>2 DEF Queues, Transfer, Devices, Coming
<1>3. CASE d = "keyboard"
  <2> DEFINE q == queue["keyboard"]
  <2>1. q \in Seq(Int) /\ q # <<>>
    BY <1>1, <1>3 DEF Queues
  <2>2. Head(q) \in Int /\ Tail(q) \in Seq(Int) /\ <<Head(q)>> \o Tail(q) = q
    BY <2>1, HeadCons
  <2>3. queue' = [e \in Devices |-> queue'[e]] /\ queue'["keyboard"] = Tail(q)
    BY <1>3 DEF Queues, Transfer, Devices
  <2>4. buffer'.device = "keyboard" /\ buffer'.byte = Head(q)
    BY <1>1, <1>3
  <2> HIDE DEF q
  <2>5. Queues'
    BY <2>2, <2>3, <2>4 DEF Queues, Devices
  <2>6. Coming' = q
    BY <2>2, <2>3, <2>4 DEF Coming
  <2>7. Coming = q
    BY <1>1 DEF Coming, q
  <2> QED BY <1>1, <2>5, <2>6, <2>7
<1> QED BY <1>2, <1>3 DEF Devices

\* A read takes the keyboard's byte, or none of the keyboard's.
LEMMA PortRead ==
  ASSUME Queues, ReadDataPort
  PROVE  /\ Queues' /\ buffer' = Empty
         /\ buffer.device # "keyboard" => Coming' = Coming
         /\ buffer.device = "keyboard" => /\ DataPort = buffer.byte /\ Coming \in Seq(Int)
                                          /\ Coming # <<>> /\ Coming[1] = buffer.byte
                                          /\ Coming' = Tail(Coming)
<1>1. Queues' /\ buffer' = Empty /\ Coming' = queue["keyboard"]
  BY DEF Queues, ReadDataPort, Empty, Coming
<1>2. ASSUME buffer.device # "keyboard" PROVE Coming' = Coming
  BY <1>1, <1>2 DEF Coming
<1>3. ASSUME buffer.device = "keyboard"
      PROVE  /\ DataPort = buffer.byte /\ Coming \in Seq(Int) /\ Coming # <<>>
             /\ Coming[1] = buffer.byte /\ Coming' = Tail(Coming)
  <2>1. DataPort = buffer.byte
    BY <1>3 DEF DataPort, Empty
  <2>2. queue["keyboard"] \in Seq(Int) /\ buffer.byte \in Int
    BY <1>3 DEF Queues
  <2>3. Coming = <<buffer.byte>> \o queue["keyboard"]
    BY <1>3 DEF Coming
  <2> QED BY <1>1, <2>1, <2>2, <2>3, ConsTail
<1> QED BY <1>1, <1>2, <1>3

-----------------------------------------------------------------------------
(* The steps                                                                *)

\* A step that leaves the decoder and its bytes alone.
LEMMA Untouched == Clean /\ UNCHANGED decoder /\ Coming' = Coming => Clean'
<1> SUFFICES ASSUME Clean, UNCHANGED decoder, Coming' = Coming PROVE Clean'
  OBVIOUS
<1>1. four' = four /\ six' = six /\ len' = len
  BY DEF decoder
<1>2. ASSUME NEW n \in 0..5, Along(n) PROVE Along(n)'
  BY <1>1, <1>2 DEF Along
<1> QED BY <1>2 DEF Clean

\* More bytes come.
LEMMA MoreComing ==
  ASSUME Types, Clean, UNCHANGED decoder,
         NEW t \in Seq(Int), Whole(t, 0), Coming' = Coming \o t
  PROVE  Clean'
<1>1. four' = four /\ six' = six /\ len' = len /\ Coming \in Seq(Int)
  BY KeyComing DEF decoder
<1>2. PICK n \in 0..5 : Along(n)
  BY DEF Clean
<1>3. Ends(Coming \o t, n) /\ Whole(Coming \o t, n)
  BY <1>1, <1>2, Longer DEF Along
<1>4. Along(n)'
  BY <1>1, <1>2, <1>3 DEF Along
<1> QED BY <1>4 DEF Clean

\* set_leds takes an answer.
LEMMA AnswerTaken ==
  ASSUME Types, Clean, UNCHANGED decoder,
         Coming # <<>>, Coming[1] \in Answers, Coming' = Tail(Coming)
  PROVE  Clean'
<1>1. four' = four /\ six' = six /\ len' = len /\ Coming \in Seq(Int)
  BY KeyComing DEF decoder
<1>2. PICK n \in 0..5 : Along(n)
  BY DEF Clean
<1>3. n = 0
  <2> SUFFICES ASSUME n # 0 PROVE FALSE
    OBVIOUS
  <2>1. n \in 1..5 /\ Coming[1] = PausePressed[7 - n]
    BY <1>1, <1>2, TailInside DEF Along
  <2>2. 7 - n \in {2, 3, 4, 5, 6}
    BY <2>1
  <2>3. PausePressed[7 - n] \in {225, 29, 69, 157, 197}
    BY <2>2, PauseBytes
  <2> QED BY <2>1, <2>3 DEF Answers
<1>4. Coming[1] # 225
  BY DEF Answers
<1>5. Whole(Tail(Coming), 0) /\ Ends(Tail(Coming), 0)
  <2>1. Len(Tail(Coming)) \in Nat
    BY <1>1, TailIs, LenProperties
  <2> QED BY <1>1, <1>2, <1>3, <1>4, <2>1, TailOutside DEF Along, Ends
<1>6. Along(n)'
  BY <1>1, <1>2, <1>3, <1>5 DEF Along
<1> QED BY <1>6 DEF Clean

\* The bytes the decoder tells apart.
LEMMA PrintBytes ==
  /\ PrintPressed[2] = 42 /\ PrintReleased[2] = 183
  /\ PrintPressed[3] = 224 /\ PrintReleased[3] = 224
  /\ PausePressed[1] = 225 /\ Prefix = 224
BY DEF PrintPressed, PrintReleased, PausePressed, Prefix

\* The keyboard's handler reads the port, and Decodes is what it does with the
\* byte; it starts set_leds for a lock key only.
LEMMA InterruptDecodes ==
  ASSUME Types, Printing, Interrupt
  PROVE  /\ HandlerReads("keyboard", DataPort) /\ mode = "idle" /\ Decodes(DataPort)
         /\ polled' = polled
         /\ prev' \in BOOLEAN /\ four' \in BOOLEAN /\ six' \in BOOLEAN /\ len' \in Nat
         /\ Printing' /\ mode' \in {"idle", "send"}
<1> DEFINE Result == /\ Decodes(DataPort) /\ polled' = polled
                     /\ prev' \in BOOLEAN /\ four' \in BOOLEAN /\ six' \in BOOLEAN
                     /\ len' \in Nat /\ mode' \in {"idle", "send"}
                     /\ four' => len' \in {2, 3}
                     /\ mode' # "idle" => ~four' /\ ~prev'
<1>0. prev \in BOOLEAN /\ four \in BOOLEAN /\ six \in BOOLEAN /\ len \in Nat
  BY DEF Types
<1>1. \A b : Reads(b) => mode = "idle" /\ b = DataPort /\ HandlerReads("keyboard", DataPort)
  BY DEF Reads, HandlerReads
<1>2. ASSUME Prelude PROVE HandlerReads("keyboard", DataPort) /\ mode = "idle" /\ Result
  <2>1. /\ HandlerReads("keyboard", DataPort) /\ mode = "idle" /\ DataPort = 224
    BY <1>1, <1>2, PrintBytes DEF Prelude
  <2>2. /\ ~four /\ ~six /\ prev' = TRUE /\ four' = four /\ six' = six /\ len' = len
        /\ mode' = mode /\ polled' = polled
    BY <1>2 DEF Prelude, leds
  <2>3. mode' = mode => mode' = "idle"
    BY <2>1
  <2> QED BY <1>0, <2>1, <2>2, <2>3 DEF Decodes
<1>3. ASSUME StartPrint PROVE HandlerReads("keyboard", DataPort) /\ mode = "idle" /\ Result
  <2>1. /\ HandlerReads("keyboard", DataPort) /\ mode = "idle" /\ DataPort \in {42, 183} /\ prev
    BY <1>1, <1>3, PrintBytes DEF StartPrint, StartsPrint
  <2>2. /\ ~four /\ prev' = FALSE /\ four' = TRUE /\ six' = six /\ len' = 2
        /\ mode' = mode /\ polled' = polled
    BY <1>3 DEF StartPrint, leds
  <2> QED BY <1>0, <2>1, <2>2 DEF Decodes
<1>4. ASSUME InPrint PROVE HandlerReads("keyboard", DataPort) /\ mode = "idle" /\ Result
  <2>1. /\ HandlerReads("keyboard", DataPort) /\ mode = "idle"
    BY <1>1, <1>4 DEF InPrint
  <2>2. /\ four /\ prev' = FALSE /\ six' = six /\ mode' = mode /\ polled' = polled
        /\ \/ four' = FALSE /\ len' = 0
           \/ /\ len # 3 /\ len' = len + 1 /\ four' = four
              /\ DataPort \in {PrintPressed[len + 1], PrintReleased[len + 1]}
    BY <1>4 DEF InPrint, leds
  <2>3. len \in {2, 3}
    BY <2>2 DEF Printing
  <2>4. \/ ~four' /\ len' = 0
        \/ DataPort = 224 /\ four' /\ len = 2 /\ len' = 3
    <3>1. (/\ len # 3 /\ len' = len + 1
           /\ DataPort \in {PrintPressed[len + 1], PrintReleased[len + 1]})
          => DataPort = 224 /\ len = 2 /\ len' = 3
      BY <2>3, PrintBytes
    <3> QED BY <2>2, <3>1, Zenon
  <2>5. Decodes(DataPort)
    BY <2>2, <2>4, Zenon DEF Decodes
  <2>6. len' = 0 \/ len' = 3
    BY <2>4
  <2>7. len' \in Nat
    BY <2>6
  <2>8. four' \in BOOLEAN /\ (four' => len' \in {2, 3})
    BY <1>0, <2>2, <2>4, Zenon
  <2> QED BY <1>0, <2>1, <2>2, <2>5, <2>7, <2>8, Zenon
<1>5. ASSUME StartPause PROVE HandlerReads("keyboard", DataPort) /\ mode = "idle" /\ Result
  <2>1. /\ HandlerReads("keyboard", DataPort) /\ mode = "idle" /\ DataPort = 225
    BY <1>1, <1>5, PrintBytes DEF StartPause
  <2>2. /\ ~four /\ prev' = FALSE /\ four' = four /\ six' = TRUE /\ len' = len + 1
        /\ mode' = mode /\ polled' = polled
    BY <1>5 DEF StartPause, leds
  <2>3. Decodes(DataPort)
    BY <2>1, <2>2, Zenon DEF Decodes
  <2>4. len' \in Nat
    BY <1>0, <2>2
  <2> QED BY <1>0, <2>1, <2>2, <2>3, <2>4, Zenon
<1>6. ASSUME InPause PROVE HandlerReads("keyboard", DataPort) /\ mode = "idle" /\ Result
  <2>1. /\ HandlerReads("keyboard", DataPort) /\ mode = "idle" /\ DataPort # 225
        /\ six /\ (len \in 0..5 => DataPort = PausePressed[len + 1])
    BY <1>1, <1>6, PrintBytes DEF InPause, FitsPause
  <2>2. /\ ~four /\ prev' = FALSE /\ four' = four /\ six' = six
        /\ \/ len = 5 /\ len' = 0
           \/ len # 5 /\ len' = len + 1
        /\ mode' = mode /\ polled' = polled
    BY <1>6 DEF InPause, leds
  <2>3. Decodes(DataPort)
    BY <2>1, <2>2, Zenon DEF Decodes
  <2>4. len' \in Nat
    BY <1>0, <2>2
  <2> QED BY <1>0, <2>1, <2>2, <2>3, <2>4, Zenon
<1>7. ASSUME Key PROVE HandlerReads("keyboard", DataPort) /\ mode = "idle" /\ Result
  <2>1. /\ HandlerReads("keyboard", DataPort) /\ mode = "idle" /\ DataPort # 225
        /\ ~(prev /\ DataPort \in {42, 183})
        /\ ~(six /\ len \in 0..5 /\ DataPort = PausePressed[len + 1])
    BY <1>1, <1>7, PrintBytes DEF Key, Single, StartsPrint
  <2>2. /\ ~four /\ prev' = (DataPort = 224) /\ four' = four /\ six' = six /\ len' = len
        /\ polled' = polled
    BY <1>7, PrintBytes DEF Key, Single, leds
  <2>3. \/ mode' = "send" /\ DataPort \in LockKeys
        \/ mode' = mode
    BY <1>7 DEF Key, Single, leds
  <2>4. DataPort \in LockKeys => DataPort # 224
    BY DEF LockKeys
  <2> QED BY <1>0, <2>1, <2>2, <2>3, <2>4 DEF Decodes
<1>8. HandlerReads("keyboard", DataPort) /\ mode = "idle" /\ Result
  BY <1>2, <1>3, <1>4, <1>5, <1>6, <1>7 DEF Interrupt
<1> QED BY <1>8 DEF Printing

\* The keyboard's handler.
LEMMA InterruptStep == KeyInv /\ Interrupt /\ UNCHANGED plan => KeyInv'
<1> SUFFICES ASSUME KeyInv, Interrupt, UNCHANGED plan PROVE KeyInv'
  OBVIOUS
<1>1. Types /\ Own /\ Printing /\ (~astray => Clean)
  BY DEF KeyInv
<1>2. /\ HandlerReads("keyboard", DataPort) /\ mode = "idle" /\ Decodes(DataPort)
      /\ polled' = polled
      /\ prev' \in BOOLEAN /\ four' \in BOOLEAN /\ six' \in BOOLEAN /\ len' \in Nat
      /\ Printing' /\ mode' \in {"idle", "send"}
  BY <1>1, InterruptDecodes
<1>3. /\ "keyboard" \in pending /\ pending' = pending \ {"keyboard"} /\ ReadDataPort
      /\ astray' = (astray \/ Foreign("keyboard"))
  BY <1>2 DEF HandlerReads
<1>4. /\ Queues' /\ buffer' = Empty
      /\ buffer.device # "keyboard" => Coming' = Coming
      /\ buffer.device = "keyboard" => /\ DataPort = buffer.byte /\ Coming \in Seq(Int)
                                       /\ Coming # <<>> /\ Coming[1] = buffer.byte
                                       /\ Coming' = Tail(Coming)
  BY <1>1, <1>3, PortRead DEF Types
<1>5. Types'
  BY <1>1, <1>2, <1>3, <1>4 DEF Types
<1>6. Own'
  <2> SUFFICES ASSUME ~polled PROVE ~astray' /\ mode' # "read" /\ pending' = {}
    BY <1>2, <1>4 DEF Own
  <2>1. ~astray /\ pending = IF buffer = Empty THEN {} ELSE {buffer.device}
    BY <1>1 DEF Own
  <2>2. buffer # Empty /\ buffer.device = "keyboard"
    BY <1>3, <2>1
  <2>3. ~Foreign("keyboard")
    BY <2>2 DEF Foreign
  <2>4. pending' = {}
    BY <1>3, <2>1, <2>2
  <2>5. mode' # "read"
    BY <1>2
  <2> QED BY <1>3, <2>1, <2>3, <2>4, <2>5
<1>7. ASSUME ~astray' PROVE Clean'
  <2>1. ~astray /\ ~Foreign("keyboard") /\ Clean
    BY <1>1, <1>3, <1>7
  <2>2. CASE buffer = Empty
    <3>1. last \in Answers /\ DataPort = last /\ buffer.device # "keyboard"
      BY <2>1, <2>2 DEF Foreign, DataPort, Empty
    <3>2. Coming' = Coming
      BY <1>4, <3>1
    <3> QED BY <1>1, <1>2, <2>1, <3>1, <3>2, DecodesAnswer
  <2>3. CASE buffer # Empty
    <3>1. buffer.device = "keyboard"
      BY <2>1, <2>3 DEF Foreign
    <3>2. Coming \in Seq(Int) /\ Coming # <<>> /\ Coming[1] = DataPort /\ Coming' = Tail(Coming)
      BY <1>4, <3>1
    <3>3. Decodes(Coming[1])
      BY <1>2, <3>2
    <3> QED BY <1>1, <2>1, <3>2, <3>3, DecodesOwn
  <2> QED BY <2>2, <2>3
<1> QED BY <1>2, <1>5, <1>6, <1>7 DEF KeyInv

\* set_leds.
LEMMA LedsStep == KeyInv /\ Leds /\ UNCHANGED plan => KeyInv'
<1> SUFFICES ASSUME KeyInv, Leds, UNCHANGED plan PROVE KeyInv'
  OBVIOUS
<1>1. Types /\ Own /\ Printing /\ (~astray => Clean) /\ Queues
  BY DEF KeyInv, Types
<1>2. UNCHANGED decoder /\ mode # "idle" /\ mode' \in {"idle", "send", "read"}
  BY DEF Leds, LedSend, LedRead, LedTimeout, Finish
<1>3. prev' = prev /\ four' = four /\ six' = six /\ len' = len
  BY <1>2 DEF decoder
<1>4. Printing'
  BY <1>1, <1>2, <1>3 DEF Printing
<1>5. CASE LedSend
  <2>1. PICK r \in Answers : Sends("keyboard", <<r>>)
    BY <1>5 DEF LedSend
  <2>2. buffer' = buffer /\ astray' = astray /\ polled' = TRUE
    BY <1>5 DEF LedSend
  <2>3. <<r>> \in Seq(Int) /\ Whole(<<r>>, 0)
    BY AnswerBytes
  <2>4. Queues' /\ Coming' = Coming \o <<r>>
    BY <1>1, <2>1, <2>2, <2>3, KeyboardSends
  <2>5. Types'
    BY <1>1, <1>3, <2>2, <2>4 DEF Types
  <2>6. ~astray' => Clean'
    BY <1>1, <1>2, <2>2, <2>3, <2>4, MoreComing
  <2> QED BY <1>4, <2>2, <2>5, <2>6 DEF KeyInv, Own
<1>6. CASE LedRead
  <2>1. /\ mode = "read" /\ ReadDataPort /\ polled' = polled
        /\ astray' = (astray \/ buffer.device # "keyboard" \/ buffer.byte \notin Answers)
    BY <1>6 DEF LedRead
  <2>2. /\ Queues' /\ buffer' = Empty
        /\ buffer.device = "keyboard" => /\ Coming # <<>> /\ Coming[1] = buffer.byte
                                         /\ Coming' = Tail(Coming)
    BY <1>1, <2>1, PortRead
  <2>3. Types'
    BY <1>1, <1>3, <2>1, <2>2 DEF Types
  <2>4. polled
    BY <1>1, <2>1 DEF Own
  <2>5. ASSUME ~astray' PROVE Clean'
    <3>1. ~astray /\ buffer.device = "keyboard" /\ buffer.byte \in Answers
      BY <2>1, <2>5
    <3>2. Coming # <<>> /\ Coming[1] \in Answers /\ Coming' = Tail(Coming)
      BY <2>2, <3>1
    <3> QED BY <1>1, <1>2, <3>1, <3>2, AnswerTaken
  <2> QED BY <1>4, <2>1, <2>3, <2>4, <2>5 DEF KeyInv, Own
<1>7. CASE LedTimeout
  <2>1. /\ queue' = queue /\ buffer' = buffer /\ pending' = pending /\ polled' = polled
        /\ mode' = "idle" /\ astray' = (astray \/ mode = "read")
    BY <1>7 DEF LedTimeout, Finish
  <2>2. Coming' = Coming /\ Queues'
    BY <1>1, <2>1 DEF Coming, Queues
  <2>3. Types'
    BY <1>1, <1>3, <2>1, <2>2 DEF Types
  <2>4. Own'
    BY <1>1, <2>1 DEF Own
  <2>5. ~astray' => Clean'
    BY <1>1, <1>2, <2>1, <2>2, Untouched
  <2> QED BY <1>4, <2>3, <2>4, <2>5 DEF KeyInv
<1> QED BY <1>5, <1>6, <1>7 DEF Leds

\* Steps that leave the keyboard's handler alone.
LEMMA OthersStep ==
  ASSUME KeyInv, User \/ Wire \/ MouseInterrupt \/ Loop \/ UNCHANGED vars, UNCHANGED plan
  PROVE  KeyInv'
<1>1. Types /\ Own /\ Printing /\ (~astray => Clean) /\ Queues
  BY DEF KeyInv, Types
<1>2. UNCHANGED <<decoder, leds>>
  BY DEF User, Stroke, Wire, MouseInterrupt, Loop, vars, keyVars
<1>3. /\ prev' = prev /\ four' = four /\ six' = six /\ len' = len
      /\ mode' = mode /\ polled' = polled /\ UNCHANGED decoder
  BY <1>2 DEF decoder, leds
<1>4. Printing'
  BY <1>1, <1>3 DEF Printing
<1>5. ASSUME NEW k \in Keys, Stroke(k) PROVE KeyInv'
  <2>0. buffer' = buffer /\ pending' = pending /\ astray' = astray
    BY <1>5 DEF Stroke
  <2>1. PICK s \in Forms(k) : Sends("keyboard", s)
    BY <1>5 DEF Stroke
  <2>2. s \in Seq(Int) /\ Whole(s, 0)
    BY FormBytes
  <2>3. Queues' /\ Coming' = Coming \o s
    BY <1>1, <2>0, <2>1, <2>2, KeyboardSends
  <2>4. ~astray' => Clean'
    BY <1>1, <1>3, <2>0, <2>1, <2>2, <2>3, MoreComing
  <2> QED BY <1>1, <1>3, <1>4, <2>0, <2>1, <2>3, <2>4 DEF KeyInv, Types, Own
<1>6. ASSUME NEW m, MoveMouse(m) PROVE KeyInv'
  <2>1. buffer' = buffer /\ pending' = pending /\ astray' = astray /\ Sends("mouse", Encode(m))
    BY <1>6 DEF MoveMouse
  <2>2. Queues' /\ Coming' = Coming
    BY <1>1, <2>1, MouseSends
  <2>3. ~astray' => Clean'
    BY <1>1, <1>3, <2>1, <2>2, Untouched
  <2> QED BY <1>1, <1>3, <1>4, <2>1, <2>2, <2>3 DEF KeyInv, Types, Own
<1>7. CASE User
  <2>1. plan.keys \subseteq Keys
    BY <1>1, InputAssumption DEF Types
  <2> QED BY <1>5, <1>6, <1>7, <2>1 DEF User
<1>8. CASE Wire
  <2>1. PICK d \in Devices : Transfer(d)
    BY <1>8 DEF Wire
  <2>2. Queues' /\ Coming' = Coming /\ buffer'.device = d /\ buffer' # Empty
    BY <1>1, <2>1, Transfers
  <2>3. buffer = Empty /\ pending' = pending \cup {d} /\ astray' = astray
    BY <2>1 DEF Transfer
  <2>4. Own'
    BY <1>1, <1>3, <2>2, <2>3 DEF Own
  <2>5. ~astray' => Clean'
    BY <1>1, <1>3, <2>2, <2>3, Untouched
  <2> QED BY <1>1, <1>3, <1>4, <2>2, <2>3, <2>4, <2>5 DEF KeyInv, Types
<1>9. CASE MouseInterrupt
  <2>1. /\ "mouse" \in pending /\ pending' = pending \ {"mouse"} /\ ReadDataPort
        /\ astray' = (astray \/ Foreign("mouse"))
    BY <1>9 DEF MouseInterrupt, mouse_handler, HandlerReads
  <2>2. Queues' /\ buffer' = Empty /\ (buffer.device # "keyboard" => Coming' = Coming)
    BY <1>1, <2>1, PortRead
  <2>3. Types'
    BY <1>1, <1>3, <2>1, <2>2 DEF Types
  <2>4. Own'
    <3> SUFFICES ASSUME ~polled PROVE ~astray' /\ mode' # "read" /\ pending' = {}
      BY <1>3, <2>2 DEF Own
    <3>1. /\ ~astray /\ mode # "read"
          /\ pending = IF buffer = Empty THEN {} ELSE {buffer.device}
      BY <1>1 DEF Own
    <3>2. buffer # Empty /\ buffer.device = "mouse"
      BY <2>1, <3>1
    <3>3. ~Foreign("mouse")
      BY <3>2 DEF Foreign
    <3> QED BY <1>3, <2>1, <3>1, <3>2, <3>3
  <2>5. ASSUME ~astray' PROVE Clean'
    <3>1. ~astray /\ ~Foreign("mouse")
      BY <2>1, <2>5
    <3>2. buffer.device # "keyboard"
      BY <3>1 DEF Foreign
    <3> QED BY <1>1, <1>3, <2>2, <3>1, <3>2, Untouched
  <2> QED BY <1>4, <2>3, <2>4, <2>5 DEF KeyInv
<1>10. CASE Loop \/ UNCHANGED vars
  <2>1. queue' = queue /\ buffer' = buffer /\ pending' = pending /\ astray' = astray
    BY <1>10 DEF Loop, cpp_event_loop, port, vars
  <2>2. Coming' = Coming /\ Queues'
    BY <1>1, <2>1 DEF Coming, Queues
  <2>3. ~astray' => Clean'
    BY <1>1, <1>3, <2>1, <2>2, Untouched
  <2> QED BY <1>1, <1>3, <1>4, <2>1, <2>2, <2>3 DEF KeyInv, Types, Own
<1> QED BY <1>7, <1>8, <1>9, <1>10

\* It holds at first.
LEMMA KeyInitially == Init => KeyInv
<1> SUFFICES ASSUME Init PROVE KeyInv
  OBVIOUS
<1>1. /\ queue = [d \in Devices |-> <<>>] /\ buffer = Empty /\ pending = {} /\ astray = FALSE
      /\ prev = FALSE /\ four = FALSE /\ six = FALSE /\ len = 0 /\ mode = "idle"
      /\ polled = FALSE /\ plan \in Plans
  BY DEF Init, PortInit, KeyInit
<1>2. Queues /\ Coming = <<>>
  BY <1>1 DEF Queues, Coming, Empty, Devices
<1>3. Types /\ Own /\ Printing
  BY <1>1, <1>2 DEF Types, Own, Printing
<1>4. Ends(<<>>, 0) /\ Whole(<<>>, 0)
  BY DEF Ends, Whole
<1>5. Along(0)
  BY <1>1, <1>2, <1>4 DEF Along, PausePlace
<1>6. Clean
  BY <1>5 DEF Clean
<1> QED BY <1>3, <1>6 DEF KeyInv

\* The inductive invariant of the keyboard.
THEOREM KeyInvariance == Spec => []KeyInv
<1>1. Init => KeyInv
  BY KeyInitially
<1>2. KeyInv /\ [Next]_vars => KeyInv'
  <2> SUFFICES ASSUME KeyInv, [Next]_vars PROVE KeyInv'
    OBVIOUS
  <2>1. UNCHANGED plan
    BY DEF Next, vars
  <2>2. CASE Keyboard
    BY <2>1, <2>2, InterruptStep, LedsStep DEF Keyboard
  <2>3. CASE User \/ Wire \/ MouseInterrupt \/ Loop \/ UNCHANGED vars
    BY <2>1, <2>3, OthersStep
  <2> QED BY <2>2, <2>3 DEF Next
<1> QED BY <1>1, <1>2, PTL DEF Spec

\* Until set_leds polls the port, each handler reads the bytes of its own
\* device, whatever the order in which both devices send them.
THEOREM HandlersReadTheirOwn == Spec => []OwnBytes
<1>1. KeyInv => OwnBytes
  BY DEF KeyInv, Own, OwnBytes
<1> QED BY <1>1, KeyInvariance, PTL

\* The key decoder indexes its sequences inside their bounds: print screen's
\* whatever bytes it reads, pause's as long as each byte goes to its reader.
THEOREM IndexStaysInside == Spec => []SequenceIndexInBounds
<1>1. KeyInv => SequenceIndexInBounds
  <2> SUFFICES ASSUME KeyInv
               PROVE  (four => len \in {2, 3}) /\ (six /\ ~astray => len \in 0..5)
    BY DEF SequenceIndexInBounds
  <2>1. four => len \in {2, 3}
    BY DEF KeyInv, Printing
  <2>2. ~astray /\ ~four => len \in 0..5
    BY DEF KeyInv, Clean, Along, PausePlace
  <2> QED BY <2>1, <2>2
<1> QED BY <1>1, KeyInvariance, PTL

-----------------------------------------------------------------------------
(* The cursor                                                               *)

Colors == [b : Nat, g : Nat, r : Nat, a : Nat]
Memory == [0..Pixels - 1 -> Nat]

\* A color read from memory is written back as the word it was.
LEMMA ColorIsKept ==
  ASSUME NEW hex \in Nat
  PROVE  Color(hex) \in Colors /\ Packed(Color(hex)) = hex
<1> DEFINE p == hex % 256
           q == hex \div 256
           u == q \div 256
           v == u \div 256
<1>0. ASSUME NEW n \in Nat
      PROVE  n \div 256 \in Nat /\ n % 256 \in 0..255 /\ n = 256 * (n \div 256) + (n % 256)
  OBVIOUS
<1>1. q \in Nat /\ p \in 0..255 /\ hex = 256 * q + p
  BY <1>0
<1>2. u \in Nat /\ q % 256 \in 0..255 /\ q = 256 * u + (q % 256)
  BY <1>0, <1>1
<1>3. v \in Nat /\ u % 256 \in 0..255 /\ u = 256 * v + (u % 256)
  BY <1>0, <1>2
<1>4. hex \div 65536 = u
  BY <1>1, <1>2
<1>5. hex \div 16777216 = v
  BY <1>1, <1>2, <1>3
<1>6. Color(hex) = [b |-> p, g |-> q % 256, r |-> u % 256, a |-> v]
  BY <1>4, <1>5 DEF Color
<1>7. Color(hex) \in Colors
  BY <1>1, <1>2, <1>3, <1>6 DEF Colors
<1>8. Packed(Color(hex)) = v * 16777216 + (u % 256) * 65536 + (q % 256) * 256 + p
  BY <1>6 DEF Packed
<1>9. v * 16777216 + (u % 256) * 65536 + (q % 256) * 256 + p = hex
  BY <1>1, <1>2, <1>3
<1> QED BY <1>7, <1>8, <1>9

\* A pixel's word is a number.
LEMMA PackedIsAWord == \A c \in Colors : Packed(c) \in Nat
BY DEF Colors, Packed

\* Painting and reading keep to words and colors.
LEMMA PaintsWords ==
  ASSUME NEW mem \in Memory, NEW points, NEW color \in Colors
  PROVE  Paint(mem, points, color) \in Memory
<1>1. Packed(color) \in Nat /\ DOMAIN mem = 0..Pixels - 1 /\ \A i \in 0..Pixels - 1 : mem[i] \in Nat
  BY PackedIsAWord DEF Memory
<1> QED BY <1>1 DEF Paint, Memory

\* What get_pixel returns is a colour.
LEMMA ReadsColors ==
  ASSUME NEW mem \in Memory, NEW px, NEW py
  PROVE  get_pixel(mem, px, py) \in Colors
<1>1. White \in Colors /\ White.a = 0
  BY ColorIsKept DEF White, Color
<1>2. Unknown \in Colors
  BY <1>1 DEF Unknown, Colors
<1>3. ASSUME Cell(px, py) \in DOMAIN mem PROVE Color(mem[Cell(px, py)]) \in Colors
  BY <1>3, ColorIsKept DEF Memory
<1> QED BY <1>2, <1>3 DEF get_pixel

\* The picture kernel_main draws.
LEMMA TestDrawsWords == \A mem \in Memory : do_test(mem) \in Memory
<1>1. ASSUME NEW mem \in Memory, NEW hex \in Nat, NEW points
      PROVE  Paint(mem, points, Color(hex)) \in Memory
  BY ColorIsKept, PaintsWords
<1> QED BY <1>1 DEF do_test, draw_rgb_lines, draw_horizontal_line, draw_vertical_line,
                   draw_rectangle

MouseTypes ==
  /\ memory \in Memory /\ picture \in Memory /\ at \in 1..7 /\ torn \in BOOLEAN
  /\ pen \in Colors /\ current_color \in Colors /\ old.color \in Colors
  /\ old = [x |-> old.x, y |-> old.y, color |-> old.color, first |-> old.first]

Under == IF old.first THEN -1 ELSE Cell(old.x, old.y)

\* Every pixel but one shows the picture, if no line crossed it under the cursor.
ShownBut(cell) == \A i \in (0..Pixels - 1) \ lost : i # cell => memory[i] = picture[i]

\* Where the event loop is, and what it holds there.
Shown ==
  /\ at = 1 => /\ ShownBut(Under)
               /\ Under \in (0..Pixels - 1) \ lost => old.color = Color(picture[Under])
  /\ at \in {2, 3, 4, 5} => ShownBut(-1)
  /\ at \in {3, 5} => read = x
  /\ at \in {4, 5, 6, 7} => (Cell(x, y) \notin lost => current_color = get_pixel(picture, x, y))
  /\ at \in {6, 7} => ShownBut(Cell(x, y))
  /\ at = 7 => old.x = x

MouseInv == MouseTypes /\ (~torn => Shown)

\* The steps of an iteration.
LEMMA Looping == Len(LoopOrder) = 7 /\ LoopOrder[1] = "restore" /\ LoopOrder[2] = "get x"
                 /\ LoopOrder[3] = "get y" /\ LoopOrder[4] = "set x" /\ LoopOrder[5] = "set y"
                 /\ LoopOrder[6] = "old x" /\ LoopOrder[7] = "old y"
BY DEF LoopOrder

\* Writing one pixel.
LEMMA SetsOne ==
  ASSUME NEW mem \in Memory, NEW px, NEW py, NEW color \in Colors
  PROVE  /\ set_pixel(mem, px, py, color) \in Memory
         /\ \A i \in 0..Pixels - 1 : i # Cell(px, py) => set_pixel(mem, px, py, color)[i] = mem[i]
         /\ Cell(px, py) \in 0..Pixels - 1 =>
              set_pixel(mem, px, py, color)[Cell(px, py)] = Packed(color)
<1>1. Packed(color) \in Nat /\ DOMAIN mem = 0..Pixels - 1
  BY PackedIsAWord DEF Memory
<1> QED BY <1>1 DEF set_pixel, Memory

\* A step of the event loop, the order of its pieces being what matters.
LEMMA LoopStep == MouseInv /\ cpp_event_loop => MouseInv'
<1> SUFFICES ASSUME MouseInv, cpp_event_loop PROVE MouseInv'
  OBVIOUS
<1> DEFINE now == LoopOrder[at]
<1>1. MouseTypes /\ (~torn => Shown)
  BY DEF MouseInv
<1>2. /\ x' = x /\ y' = y /\ pen' = pen /\ picture' = picture /\ lost' = lost /\ torn' = torn
  BY DEF cpp_event_loop, mouseData
<1>3. /\ at' = IF at = 7 THEN 1 ELSE at + 1
      /\ memory' = CASE now = "restore" /\ ~old.first -> set_pixel(memory, old.x, old.y, old.color)
                     [] now = "set y" -> set_pixel(memory, read, y, White)
                     [] OTHER -> memory
      /\ read' = IF now \in {"get x", "set x"} THEN x ELSE read
      /\ current_color' = IF now = "get y" THEN get_pixel(memory, read, y) ELSE current_color
      /\ old' = CASE now = "old x" -> [old EXCEPT !.x = x]
                  [] now = "old y" -> [x |-> old.x, y |-> y, color |-> current_color,
                                       first |-> FALSE]
                  [] OTHER -> old
  BY Looping DEF cpp_event_loop
<1> HIDE DEF now
<1>a. at' = IF at = 7 THEN 1 ELSE at + 1
  BY <1>3
<1>4. White \in Colors
  BY ColorIsKept DEF White
<1>5. /\ memory \in Memory /\ picture \in Memory /\ at \in 1..7 /\ torn \in BOOLEAN
      /\ pen \in Colors /\ current_color \in Colors /\ old.color \in Colors
      /\ old = [x |-> old.x, y |-> old.y, color |-> old.color, first |-> old.first]
  BY <1>1 DEF MouseTypes
<1>6. MouseTypes'
  <2>1. memory' \in Memory
    BY <1>3, <1>4, <1>5, SetsOne
  <2>2. at' \in 1..7
    BY <1>5, <1>a
  <2>3. current_color' \in Colors
    BY <1>3, <1>5, ReadsColors
  <2>4. /\ old' = [x |-> old'.x, y |-> old'.y, color |-> old'.color, first |-> old'.first]
        /\ old'.color \in Colors
    <3>1. CASE now = "old x"
      <4>1. old' = [old EXCEPT !.x = x]
        BY <1>3, <3>1
      <4>2. old' = [x |-> x, y |-> old.y, color |-> old.color, first |-> old.first]
        BY <1>5, <4>1
      <4> QED BY <1>5, <4>2
    <3>2. CASE now = "old y"
      <4>1. old' = [x |-> old.x, y |-> y, color |-> current_color, first |-> FALSE]
        BY <1>3, <3>2
      <4> QED BY <1>5, <4>1
    <3>3. CASE now \notin {"old x", "old y"}
      <4>1. old' = old
        BY <1>3, <3>3
      <4> QED BY <1>5, <4>1
    <3> QED BY <3>1, <3>2, <3>3
  <2> QED BY <1>2, <1>5, <2>1, <2>2, <2>3, <2>4 DEF MouseTypes
<1>7. ASSUME ~torn PROVE Shown'
  <2>1. /\ at = 1 => /\ ShownBut(Under)
                     /\ Under \in (0..Pixels - 1) \ lost => old.color = Color(picture[Under])
        /\ at \in {2, 3, 4, 5} => ShownBut(-1)
        /\ at \in {3, 5} => read = x
        /\ at \in {4, 5, 6, 7} =>
             (Cell(x, y) \notin lost => current_color = get_pixel(picture, x, y))
        /\ at \in {6, 7} => ShownBut(Cell(x, y))
        /\ at = 7 => old.x = x
    BY <1>1, <1>7 DEF Shown
  <2>2. CASE at = 1
    <3>a. now = "restore"
      BY <2>2, Looping DEF now
    <3>b. at' = 2
      BY <1>a, <2>2
    <3>1. now = "restore" /\ at' = 2
      BY <3>a, <3>b
    <3>2. memory' = IF ~old.first THEN set_pixel(memory, old.x, old.y, old.color) ELSE memory
      BY <1>3, <3>1
    <3>3. ASSUME NEW i \in (0..Pixels - 1) \ lost PROVE memory'[i] = picture[i]
      <4>1. CASE i # Under
        <5>1. memory[i] = picture[i]
          BY <2>1, <2>2, <4>1 DEF ShownBut
        <5>2. ~old.first => i # Cell(old.x, old.y)
          BY <4>1 DEF Under
        <5> QED BY <1>5, <3>2, <5>1, <5>2, SetsOne
      <4>2. CASE i = Under
        <5>1. ~old.first /\ Under = Cell(old.x, old.y)
          BY <4>2 DEF Under
        <5>2. memory'[i] = Packed(old.color)
          BY <1>5, <3>2, <4>2, <5>1, SetsOne
        <5>3. old.color = Color(picture[i]) /\ picture[i] \in Nat
          BY <1>5, <2>1, <2>2, <4>2 DEF Memory
        <5> QED BY <5>2, <5>3, ColorIsKept
      <4> QED BY <4>1, <4>2
    <3>4. ShownBut(-1)'
      BY <1>2, <3>3 DEF ShownBut
    <3> QED BY <3>1, <3>4 DEF Shown
  <2>3. CASE at = 2
    <3>a. now = "get x"
      BY <2>3, Looping DEF now
    <3>b. at' = 3
      BY <1>a, <2>3
    <3>1. now = "get x" /\ at' = 3
      BY <3>a, <3>b
    <3>2. memory' = memory /\ read' = x
      BY <1>3, <3>1
    <3>3. ShownBut(-1)' /\ read' = x'
      BY <1>2, <2>1, <2>3, <3>2 DEF ShownBut
    <3>c. at' # 1 /\ at' \notin {4, 5, 6, 7} /\ at' \notin {6, 7} /\ at' # 7
      BY <3>b
    <3> QED BY <3>3, <3>c, Zenon DEF Shown
  <2>4. CASE at = 3
    <3>a. now = "get y"
      BY <2>4, Looping DEF now
    <3>b. at' = 4
      BY <1>a, <2>4
    <3>1. now = "get y" /\ at' = 4
      BY <3>a, <3>b
    <3>2. memory' = memory /\ current_color' = get_pixel(memory, read, y)
      BY <1>3, <3>1
    <3>3. ShownBut(-1) /\ read = x
      BY <2>1, <2>4
    <3>d. Cell(x, y) \notin lost => get_pixel(memory, x, y) = get_pixel(picture, x, y)
      <4>1. DOMAIN memory = 0..Pixels - 1 /\ DOMAIN picture = 0..Pixels - 1 /\ Pixels \in Nat
        BY <1>5, FramebufferAssumption DEF Memory
      <4>2. Cell(x, y) \in (0..Pixels - 1) \ lost => memory[Cell(x, y)] = picture[Cell(x, y)]
        BY <3>3, <4>1 DEF ShownBut
      <4> QED BY <4>1, <4>2 DEF get_pixel
    <3>4. /\ ShownBut(-1)'
          /\ Cell(x', y') \notin lost' => current_color' = get_pixel(picture', x', y')
      BY <1>2, <3>2, <3>3, <3>d DEF ShownBut
    <3>c. at' # 1 /\ at' \notin {3, 5} /\ at' \notin {6, 7} /\ at' # 7
      BY <3>b
    <3> QED BY <3>4, <3>c, Zenon DEF Shown
  <2>5. CASE at = 4
    <3>a. now = "set x"
      BY <2>5, Looping DEF now
    <3>b. at' = 5
      BY <1>a, <2>5
    <3>1. now = "set x" /\ at' = 5
      BY <3>a, <3>b
    <3>2. memory' = memory /\ read' = x /\ current_color' = current_color
      BY <1>3, <3>1
    <3>3. /\ ShownBut(-1)' /\ read' = x'
          /\ Cell(x', y') \notin lost' => current_color' = get_pixel(picture', x', y')
      BY <1>2, <2>1, <2>5, <3>2 DEF ShownBut
    <3>c. at' # 1 /\ at' \notin {6, 7} /\ at' # 7
      BY <3>b
    <3> QED BY <3>3, <3>c, Zenon DEF Shown
  <2>6. CASE at = 5
    <3>a. now = "set y"
      BY <2>6, Looping DEF now
    <3>b. at' = 6
      BY <1>a, <2>6
    <3>1. now = "set y" /\ at' = 6
      BY <3>a, <3>b
    <3>2. memory' = set_pixel(memory, read, y, White) /\ current_color' = current_color
      BY <1>3, <3>1
    <3>3. /\ ShownBut(-1) /\ read = x
          /\ Cell(x', y') \notin lost' => current_color' = get_pixel(picture', x', y')
      BY <1>2, <2>1, <2>6, <3>2
    <3>4. ASSUME NEW i \in (0..Pixels - 1) \ lost, i # Cell(x, y) PROVE memory'[i] = picture[i]
      <4>1. memory[i] = picture[i]
        <5>1. i # -1
          BY FramebufferAssumption
        <5> QED BY <3>3, <5>1 DEF ShownBut
      <4> QED BY <1>4, <1>5, <3>2, <3>3, <3>4, <4>1, SetsOne
    <3>5. ShownBut(Cell(x, y))'
      BY <1>2, <3>4 DEF ShownBut, Cell
    <3>c. at' # 1 /\ at' \notin {2, 3, 4, 5} /\ at' \notin {3, 5} /\ at' # 7
      BY <3>b
    <3> QED BY <3>3, <3>5, <3>c, Zenon DEF Shown
  <2>7. CASE at = 6
    <3>a. now = "old x"
      BY <2>7, Looping DEF now
    <3>b. at' = 7
      BY <1>a, <2>7
    <3>1. now = "old x" /\ at' = 7
      BY <3>a, <3>b
    <3>2. memory' = memory /\ current_color' = current_color /\ old' = [old EXCEPT !.x = x]
      BY <1>3, <3>1
    <3>3. old'.x = x'
      BY <1>2, <1>5, <3>2
    <3>4. /\ Cell(x', y') \notin lost' => current_color' = get_pixel(picture', x', y')
          /\ ShownBut(Cell(x, y))
      BY <1>2, <2>1, <2>7, <3>2
    <3>5. ShownBut(Cell(x, y))'
      BY <1>2, <3>2, <3>4 DEF ShownBut, Cell
    <3>c. at' # 1 /\ at' \notin {2, 3, 4, 5} /\ at' \notin {3, 5}
      BY <3>b
    <3> QED BY <3>3, <3>4, <3>5, <3>c, Zenon DEF Shown
  <2>8. CASE at = 7
    <3>a. now = "old y"
      BY <2>8, Looping DEF now
    <3>b. at' = 1
      BY <1>a, <2>8
    <3>1. now = "old y" /\ at' = 1
      BY <3>a, <3>b
    <3>2. /\ memory' = memory
          /\ old' = [x |-> old.x, y |-> y, color |-> current_color, first |-> FALSE]
      BY <1>3, <3>1
    <3>3. /\ old.x = x /\ ShownBut(Cell(x, y))
          /\ Cell(x, y) \notin lost => current_color = get_pixel(picture, x, y)
      BY <2>1, <2>8
    <3>4. Under' = Cell(x, y) /\ old'.color = current_color
      BY <3>2, <3>3 DEF Under
    <3>5. ShownBut(Under)'
      BY <1>2, <3>2, <3>3, <3>4 DEF ShownBut
    <3>6. Under' \in (0..Pixels - 1) \ lost' => old'.color = Color(picture'[Under'])
      BY <1>2, <1>5, <3>3, <3>4 DEF get_pixel, Memory
    <3>c. /\ at' \notin {2, 3, 4, 5} /\ at' \notin {3, 5} /\ at' \notin {4, 5, 6, 7}
          /\ at' \notin {6, 7} /\ at' # 7
      BY <3>b
    <3> QED BY <3>5, <3>6, <3>c, Zenon DEF Shown
  <2> QED BY <1>5, <2>2, <2>3, <2>4, <2>5, <2>6, <2>7, <2>8
<1> QED BY <1>2, <1>6, <1>7 DEF MouseInv

\* The last byte of a packet: outside an iteration of the loop the handler
\* draws into memory and into the picture alike; what it draws over the cursor is
\* lost.
LEMMA PacketStep ==
  ASSUME MouseInv, NEW p, Complete(p), UNCHANGED loop
  PROVE  MouseInv'
<1> DEFINE from == [x |-> x, y |-> y]
           to == [x |-> x', y |-> y']
           points == IF Bit(p[1], 0) THEN draw_line_quick(from, to) ELSE <<>>
           drawn == {points[n] : n \in DOMAIN points}
           cells == {Cell(q.x, q.y) : q \in drawn}
<1>1. MouseTypes /\ (~torn => Shown)
  BY DEF MouseInv
<1>2. /\ memory \in Memory /\ picture \in Memory /\ at \in 1..7 /\ torn \in BOOLEAN
      /\ pen \in Colors /\ current_color \in Colors /\ old.color \in Colors
      /\ old = [x |-> old.x, y |-> old.y, color |-> old.color, first |-> old.first]
  BY <1>1 DEF MouseTypes
<1>3. at' = at /\ read' = read /\ current_color' = current_color /\ old' = old
  BY DEF loop
<1>4. /\ memory' = Paint(memory, drawn, pen)
      /\ pen' = IF Bit(p[1], 1) THEN get_pixel(memory', x' + 1, y') ELSE pen
      /\ picture' = Paint(picture, drawn, pen)
      /\ lost' = (lost \ (cells \ {Under}))
                   \cup {i \in {Under} \cap DOMAIN picture : picture'[i] # picture[i]}
      /\ torn' = (torn \/ at # 1)
  BY DEF Complete, Under
<1> HIDE DEF drawn
<1>5. memory' \in Memory /\ picture' \in Memory
  BY <1>2, <1>4, PaintsWords
<1>7. pen' \in Colors
  BY <1>2, <1>4, <1>5, ReadsColors
<1>8. MouseTypes'
  BY <1>2, <1>3, <1>4, <1>5, <1>7 DEF MouseTypes
<1>9. ASSUME ~torn' PROVE Shown'
  <2>1. ~torn /\ at = 1
    BY <1>4, <1>9
  <2>2. ShownBut(Under) /\ (Under \in (0..Pixels - 1) \ lost => old.color = Color(picture[Under]))
    BY <1>1, <2>1 DEF Shown
  <2>3. Under' = Under
    BY <1>3 DEF Under
  <2>4. ASSUME NEW i \in (0..Pixels - 1) \ lost', i # Under PROVE memory'[i] = picture'[i]
    <3>1. i \in DOMAIN memory /\ i \in DOMAIN picture
      BY <1>2 DEF Memory
    <3>2. CASE i \in cells
      <4>1. memory'[i] = Packed(pen) /\ picture'[i] = Packed(pen)
        BY <1>4, <3>1, <3>2 DEF Paint
      <4> QED BY <4>1
    <3>3. CASE i \notin cells
      <4>1. memory'[i] = memory[i] /\ picture'[i] = picture[i]
        BY <1>4, <3>1, <3>3 DEF Paint
      <4>2. i \notin lost
        BY <1>4, <2>4, <3>3
      <4> QED BY <2>2, <2>4, <4>1, <4>2 DEF ShownBut
    <3> QED BY <3>2, <3>3
  <2>5. ASSUME Under \in (0..Pixels - 1) \ lost' PROVE old'.color = Color(picture'[Under])
    <3>1. Under \in DOMAIN picture
      BY <1>2, <2>5 DEF Memory
    <3>2. Under \notin lost /\ picture'[Under] = picture[Under]
      BY <1>4, <2>5, <3>1
    <3> QED BY <1>3, <2>2, <2>5, <3>2
  <2>6. ShownBut(Under)'
    BY <2>3, <2>4 DEF ShownBut
  <2>7. Under' \in (0..Pixels - 1) \ lost' => old'.color = Color(picture'[Under'])
    BY <2>3, <2>5
  <2>8. /\ at' \notin {2, 3, 4, 5} /\ at' \notin {3, 5} /\ at' \notin {4, 5, 6, 7}
        /\ at' \notin {6, 7} /\ at' # 7
    BY <1>3, <2>1
  <2> QED BY <2>6, <2>7, <2>8, Zenon DEF Shown
<1> QED BY <1>8, <1>9 DEF MouseInv

\* Steps that leave the screen alone.
LEMMA ScreenKept ==
  ASSUME MouseInv, UNCHANGED <<x, y, pen, loop, screen>> PROVE MouseInv'
<1>1. /\ x' = x /\ y' = y /\ pen' = pen /\ memory' = memory /\ picture' = picture /\ torn' = torn
      /\ lost' = lost
      /\ at' = at /\ read' = read /\ current_color' = current_color /\ old' = old
  BY DEF loop, screen
<1>2. MouseTypes'
  BY <1>1 DEF MouseInv, MouseTypes
<1>3. Under' = Under /\ \A c : ShownBut(c)' <=> ShownBut(c)
  BY <1>1 DEF Under, ShownBut
<1>4. ~torn => Shown'
  BY <1>1, <1>3 DEF MouseInv, Shown, ShownBut, Under, get_pixel, Cell
<1> QED BY <1>1, <1>2, <1>4 DEF MouseInv

\* At first the screen shows the test picture.
LEMMA MouseInitially == Init => MouseInv
<1> SUFFICES ASSUME Init PROVE MouseInv
  OBVIOUS
<1>1. /\ memory = do_test([i \in 0..Pixels - 1 |-> i]) /\ picture = memory /\ pen = White
      /\ at = 1 /\ current_color = White /\ old = Nowhere /\ torn = FALSE
  BY DEF Init, MouseInit
<1>2. Pixels \in Nat /\ White \in Colors
  BY FramebufferAssumption, ColorIsKept DEF White
<1>3. [i \in 0..Pixels - 1 |-> i] \in Memory
  BY <1>2 DEF Memory
<1>4. memory \in Memory
  BY <1>1, <1>3, TestDrawsWords
<1>5. MouseTypes
  <2>1. /\ old.color = White
        /\ old = [x |-> old.x, y |-> old.y, color |-> old.color, first |-> old.first]
    BY <1>1 DEF Nowhere
  <2>2. pen \in Colors /\ current_color \in Colors /\ old.color \in Colors
    BY <1>1, <1>2, <2>1
  <2>3. at \in 1..7
    BY <1>1
  <2>4. torn \in BOOLEAN /\ picture \in Memory
    BY <1>1, <1>4
  <2> QED BY <1>4, <2>1, <2>2, <2>3, <2>4 DEF MouseTypes
<1>6. Under = -1 /\ -1 \notin 0..Pixels - 1
  BY <1>1, <1>2 DEF Under, Nowhere
<1>7. ShownBut(Under)
  BY <1>1 DEF ShownBut
<1>8. /\ at \notin {2, 3, 4, 5} /\ at \notin {3, 5} /\ at \notin {4, 5, 6, 7}
      /\ at \notin {6, 7} /\ at # 7
  BY <1>1
<1>9. Under \notin 0..Pixels - 1
  BY <1>6
<1>10. Shown
  BY <1>7, <1>8, <1>9, Zenon DEF Shown
<1> QED BY <1>5, <1>10 DEF MouseInv

\* The cursor leaves no trace: after each iteration of the event loop every
\* pixel but the cursor's shows what was drawn there, and the loop holds the
\* colour it will put back, however lines, pens and moves come between the
\* iterations.  Excepted are the pixels a line crossed under the cursor.
THEOREM NoTraceIsLeft == Spec => []CursorLeavesNoTrace
<1>1. Init => MouseInv
  BY MouseInitially
<1>2. MouseInv /\ [Next]_vars => MouseInv'
  <2> SUFFICES ASSUME MouseInv, [Next]_vars PROVE MouseInv'
    OBVIOUS
  <2>1. CASE Loop
    BY <2>1, LoopStep DEF Loop
  <2>2. CASE MouseInterrupt
    <3>1. UNCHANGED loop
      BY <2>2 DEF MouseInterrupt, mouse_handler
    <3>2. \/ \E p : Complete(p)
          \/ UNCHANGED <<x, y, pen, screen>>
      BY <2>2 DEF MouseInterrupt, mouse_handler
    <3> QED BY <3>1, <3>2, PacketStep, ScreenKept
  <2>3. CASE User \/ Wire \/ Keyboard \/ UNCHANGED vars
    <3>1. UNCHANGED <<x, y, pen, loop, screen>>
      BY <2>3 DEF User, MoveMouse, Wire, Keyboard, vars, mouseVars, mouseData
    <3> QED BY <3>1, ScreenKept
  <2> QED BY <2>1, <2>2, <2>3 DEF Next
<1>3. MouseInv => CursorLeavesNoTrace
  <2> SUFFICES ASSUME MouseInv, at = 1, ~torn
               PROVE  /\ \A i \in DOMAIN memory \ (lost \cup {Under}) : memory[i] = picture[i]
                      /\ Under \in DOMAIN memory \ lost => old.color = Color(picture[Under])
    BY DEF CursorLeavesNoTrace, Under
  <2>1. DOMAIN memory = 0..Pixels - 1
    BY DEF MouseInv, MouseTypes, Memory
  <2>2. ShownBut(Under) /\ (Under \in (0..Pixels - 1) \ lost => old.color = Color(picture[Under]))
    BY DEF MouseInv, Shown
  <2> QED BY <2>1, <2>2 DEF ShownBut
<1> QED BY <1>1, <1>2, <1>3, PTL DEF Spec

-----------------------------------------------------------------------------
(* Induction                                                                *)

\* A set of numbers has a least one.
LEMMA LeastNumber ==
  ASSUME NEW T, T \subseteq Nat, T # {}
  PROVE  \E least \in T : \A other \in T : least <= other
<1> DEFINE R == OpToRel(<, Nat)
<1>1. IsWellFoundedOn(R, Nat)
  BY NatLessThanWellFounded, Zenon
<1>2. \A a, b \in Nat : a < b => <<a, b>> \in R
  BY DEF OpToRel
<1> HIDE DEF R
<1>3. PICK a \in T : \A b \in T : ~ (<<b, a>> \in R)
  BY <1>1, WFMin, Zenon
<1>4. \A b \in T : ~(b < a)
  BY <1>2, <1>3
<1> QED BY <1>4

\* Induction, for a property that is given as the set of numbers that have it.
LEMMA NumberInduction ==
  ASSUME NEW S, 0 \in S, \A n \in Nat : n \in S => n + 1 \in S
  PROVE  Nat \subseteq S
<1> SUFFICES ASSUME ~(Nat \subseteq S) PROVE FALSE
  OBVIOUS
<1> DEFINE T == Nat \ S
<1>1. PICK a \in T : \A b \in T : a <= b
  <2>1. T \subseteq Nat /\ T # {}
    OBVIOUS
  <2> QED BY <2>1, LeastNumber
<1>2. a # 0 /\ a \in Nat
  OBVIOUS
<1>3. a - 1 \in S
  BY <1>1, <1>2
<1> QED BY <1>2, <1>3

-----------------------------------------------------------------------------
(* Functions that are defined from one number to the next                   *)

\* f starts with base and goes on with turn, up to n.
Unfolds(f, n, base, turn) ==
  f = [i \in 0..n |-> IF i = 0 THEN base ELSE turn[<<i, f[i - 1]>>]]

\* There is such a function.
LEMMA UnfoldExists ==
  ASSUME NEW V, NEW base \in V, NEW m \in Nat, NEW turn \in [(1..m) \X V -> V]
  PROVE  \A n \in 0..m : \E f \in [0..n -> V] : Unfolds(f, n, base, turn)
<1> DEFINE S == {n \in Nat : n <= m => \E f \in [0..n -> V] : Unfolds(f, n, base, turn)}
<1>1. 0 \in S
  <2> DEFINE f == [i \in 0..0 |-> base]
  <2>1. f \in [0..0 -> V] /\ \A i \in 0..0 : i = 0
    OBVIOUS
  <2>2. Unfolds(f, 0, base, turn)
    BY <2>1 DEF Unfolds
  <2> QED BY <2>1, <2>2
<1>2. ASSUME NEW n \in Nat, n \in S PROVE n + 1 \in S
  <2> SUFFICES ASSUME n + 1 <= m
               PROVE  \E f \in [0..n + 1 -> V] : Unfolds(f, n + 1, base, turn)
    OBVIOUS
  <2>1. PICK f \in [0..n -> V] : Unfolds(f, n, base, turn)
    BY <1>2
  <2> DEFINE g == [i \in 0..n + 1 |-> IF i <= n THEN f[i] ELSE turn[<<n + 1, f[n]>>]]
  <2>2. f[n] \in V /\ <<n + 1, f[n]>> \in (1..m) \X V
    OBVIOUS
  <2>3. turn[<<n + 1, f[n]>>] \in V
    BY <2>2
  <2>4. g \in [0..n + 1 -> V]
    BY <2>3
  <2>5. ASSUME NEW i \in 0..n + 1
        PROVE  g[i] = IF i = 0 THEN base ELSE turn[<<i, g[i - 1]>>]
    <3>1. CASE i = n + 1
      <4>1. n \in 0..n + 1 /\ n <= n /\ ~(n + 1 <= n) /\ n + 1 # 0 /\ i - 1 = n
        BY <3>1
      <4>2. g[n] = f[n] /\ g[n + 1] = turn[<<n + 1, f[n]>>]
        BY <4>1
      <4> QED BY <3>1, <4>1, <4>2
    <3>2. CASE i \in 0..n
      <4>1. f[i] = IF i = 0 THEN base ELSE turn[<<i, f[i - 1]>>]
        BY <2>1, <3>2 DEF Unfolds
      <4>2. g[i] = f[i] /\ (i # 0 => g[i - 1] = f[i - 1])
        BY <3>2
      <4> QED BY <4>1, <4>2
    <3> QED BY <3>1, <3>2
  <2>6. g = [i \in 0..n + 1 |-> IF i = 0 THEN base ELSE turn[<<i, g[i - 1]>>]]
    <3> HIDE DEF g
    <3> QED BY <2>4, <2>5
  <2>7. Unfolds(g, n + 1, base, turn)
    <3> HIDE DEF g
    <3> QED BY <2>6 DEF Unfolds
  <2> QED BY <2>4, <2>7
<1> HIDE DEF S
<1>3. Nat \subseteq S
  BY <1>1, <1>2, NumberInduction
<1>4. \A n \in 0..m : n \in S /\ n <= m
  BY <1>3
<1> QED BY <1>4 DEF S

\* Two of them agree as far as their steps do.
LEMMA UnfoldAgrees ==
  ASSUME NEW V, NEW base, NEW n \in Nat, NEW m \in Nat, NEW f \in [0..n -> V], NEW g,
         NEW turn, NEW other, Unfolds(f, n, base, turn), Unfolds(g, m, base, other),
         NEW k \in Nat, k <= n, k <= m, \A i \in 1..k, v \in V : turn[<<i, v>>] = other[<<i, v>>]
  PROVE  f[k] = g[k]
<1> DEFINE S == {i \in Nat : i <= k => f[i] = g[i]}
<1>1. 0 \in S
  <2>1. f[0] = base /\ g[0] = base
    BY DEF Unfolds
  <2> QED BY <2>1
<1>2. ASSUME NEW i \in Nat, i \in S PROVE i + 1 \in S
  <2> SUFFICES ASSUME i + 1 <= k PROVE f[i + 1] = g[i + 1]
    OBVIOUS
  <2>1. /\ i + 1 \in 0..n /\ i + 1 \in 0..m /\ i + 1 # 0 /\ i + 1 - 1 = i
        /\ i + 1 \in 1..k /\ f[i] = g[i] /\ f[i] \in V
    BY <1>2
  <2>2. f[i + 1] = turn[<<i + 1, f[i]>>] /\ g[i + 1] = other[<<i + 1, g[i]>>]
    BY <2>1 DEF Unfolds
  <2> QED BY <2>1, <2>2
<1> HIDE DEF S
<1>3. k \in S
  BY <1>1, <1>2, NumberInduction
<1> QED BY <1>3 DEF S

-----------------------------------------------------------------------------
(* Where the moves lead                                                     *)

Places == Nat \X Nat

\* What one move does to a place.
Follow(m, place) ==
  IF m.overflow THEN place
  ELSE <<NotBelowZero(place[1] + m.dx), NotBelowZero(place[2] - m.dy)>>

\* Walk of any moves, not only of the user's so far.
Led(mv, n) ==
  LET pos[i \in 0..n] ==
        IF i = 0 THEN <<0, 0>>
        ELSE IF mv[i].overflow THEN pos[i - 1]
        ELSE <<NotBelowZero(pos[i - 1][1] + mv[i].dx), NotBelowZero(pos[i - 1][2] - mv[i].dy)>>
  IN pos[n]

\* Walk is the same recursion over the movements made so far.
LEMMA WalkIsLed == \A n : Walk(n) = Led(moves, n)
BY DEF Walk, Led

\* The steps of the recursion as a function.
LedStep(mv, n) == [q \in (1..n) \X Places |-> Follow(mv[q[1]], q[2])]

\* A move leads from a place to a place.
LEMMA FollowsToPlace == \A m \in Moves, place \in Places : Follow(m, place) \in Places
<1> SUFFICES ASSUME NEW m \in Moves, NEW place \in Places PROVE Follow(m, place) \in Places
  OBVIOUS
<1>1. m.dx \in Int /\ m.dy \in Int
  BY MouseAssumption
<1>2. place[1] + m.dx \in Int /\ place[2] - m.dy \in Int
  BY <1>1 DEF Places
<1>3. \A v \in Int : NotBelowZero(v) \in Nat
  BY DEF NotBelowZero
<1> QED BY <1>2, <1>3 DEF Follow, Places

\* The recursion of Walk is one from number to number.
LEMMA LedUnfolds ==
  ASSUME NEW mv \in Seq(Moves), NEW n \in 0..Len(mv)
  PROVE  \E f \in [0..n -> Places] : Unfolds(f, n, <<0, 0>>, LedStep(mv, n)) /\ Led(mv, n) = f[n]
<1> DEFINE Is(f) == f = [i \in 0..n |->
             IF i = 0 THEN <<0, 0>>
             ELSE IF mv[i].overflow THEN f[i - 1]
             ELSE <<NotBelowZero(f[i - 1][1] + mv[i].dx), NotBelowZero(f[i - 1][2] - mv[i].dy)>>]
           pos == CHOOSE f : Is(f)
<1>1. n \in Nat /\ \A i \in 1..n : mv[i] \in Moves
  BY ElementOfSeq, LenProperties
<1>2. LedStep(mv, n) \in [(1..n) \X Places -> Places] /\ <<0, 0>> \in Places
  BY <1>1, FollowsToPlace DEF LedStep, Places
<1>3. PICK f \in [0..n -> Places] : Unfolds(f, n, <<0, 0>>, LedStep(mv, n))
  <2>1. n \in 0..n
    BY <1>1
  <2>2. \A i \in 0..n : \E f \in [0..i -> Places] : Unfolds(f, i, <<0, 0>>, LedStep(mv, n))
    BY <1>1, <1>2, UnfoldExists
  <2> QED BY <2>1, <2>2
<1>4. ASSUME NEW g, Unfolds(g, n, <<0, 0>>, LedStep(mv, n)), g \in [0..n -> Places] PROVE Is(g)
  <2>1. ASSUME NEW i \in 1..n PROVE LedStep(mv, n)[<<i, g[i - 1]>>] = Follow(mv[i], g[i - 1])
    <3>1. i - 1 \in 0..n
      BY <1>1
    <3> QED BY <1>4, <3>1 DEF LedStep
  <2>2. ASSUME NEW i \in 0..n
        PROVE  g[i] = IF i = 0 THEN <<0, 0>> ELSE Follow(mv[i], g[i - 1])
    <3>1. g[i] = IF i = 0 THEN <<0, 0>> ELSE LedStep(mv, n)[<<i, g[i - 1]>>]
      BY <1>4 DEF Unfolds
    <3>2. i # 0 => i \in 1..n
      BY <1>1
    <3> QED BY <2>1, <3>1, <3>2
  <2> QED BY <1>4, <2>2 DEF Follow
<1>5. Is(pos)
  BY <1>3, <1>4
<1>6. ASSUME NEW i \in 0..n
      PROVE  pos[i] = IF i = 0 THEN <<0, 0>> ELSE Follow(mv[i], pos[i - 1])
  <2> HIDE DEF pos
  <2> QED BY <1>5 DEF Follow
<1>7. Led(mv, n) = pos[n]
  BY DEF Led
<1> DEFINE S == {i \in Nat : i <= n => pos[i] \in Places}
<1> HIDE DEF pos
<1>8. 0 \in S
  <2>1. 0 \in 0..n
    BY <1>1
  <2>2. pos[0] = <<0, 0>>
    BY <1>6, <2>1
  <2> QED BY <1>2, <2>2
<1>9. ASSUME NEW i \in Nat, i \in S PROVE i + 1 \in S
  <2> SUFFICES ASSUME i + 1 <= n PROVE pos[i + 1] \in Places
    OBVIOUS
  <2>1. pos[i] \in Places /\ i + 1 \in 0..n /\ i + 1 \in 1..n /\ i + 1 - 1 = i /\ i + 1 # 0
    BY <1>1, <1>9
  <2>2. pos[i + 1] = Follow(mv[i + 1], pos[i])
    BY <1>6, <2>1
  <2> QED BY <1>1, <2>1, <2>2, FollowsToPlace
<1> HIDE DEF S
<1>10. Nat \subseteq S
  BY <1>8, <1>9, NumberInduction
<1>11. \A i \in 0..n : pos[i] \in Places
  <2>1. \A i \in 0..n : i \in S
    BY <1>1, <1>10
  <2> QED BY <2>1 DEF S
<1>12. pos \in [0..n -> Places]
  BY <1>5, <1>11
<1>13. Unfolds(pos, n, <<0, 0>>, LedStep(mv, n))
  <2>1. ASSUME NEW i \in 1..n PROVE LedStep(mv, n)[<<i, pos[i - 1]>>] = Follow(mv[i], pos[i - 1])
    <3>1. i - 1 \in 0..n
      BY <1>1
    <3> QED BY <1>11, <3>1 DEF LedStep
  <2>2. ASSUME NEW i \in 0..n
        PROVE  pos[i] = IF i = 0 THEN <<0, 0>> ELSE LedStep(mv, n)[<<i, pos[i - 1]>>]
    BY <1>1, <1>6, <2>1
  <2> QED BY <1>12, <2>2 DEF Unfolds
<1> QED BY <1>7, <1>12, <1>13

\* Before the first move, and after one more.
LEMMA LedFrom ==
  ASSUME NEW mv \in Seq(Moves)
  PROVE  /\ Led(mv, 0) = <<0, 0>>
         /\ \A n \in 0..Len(mv) - 1 : Led(mv, n + 1) = Follow(mv[n + 1], Led(mv, n))
<1>1. Led(mv, 0) = <<0, 0>>
  <2>1. PICK f \in [0..0 -> Places] : /\ Unfolds(f, 0, <<0, 0>>, LedStep(mv, 0))
                                      /\ Led(mv, 0) = f[0]
    <3>1. 0 \in 0..Len(mv)
      BY LenProperties
    <3> QED BY <3>1, LedUnfolds
  <2> QED BY <2>1 DEF Unfolds
<1>2. ASSUME NEW n \in 0..Len(mv) - 1 PROVE Led(mv, n + 1) = Follow(mv[n + 1], Led(mv, n))
  <2>1. n \in Nat /\ n \in 0..Len(mv) /\ n + 1 \in 0..Len(mv) /\ n + 1 - 1 = n
        /\ n + 1 \in 0..n + 1 /\ n + 1 # 0 /\ n \in 0..n + 1
    BY LenProperties
  <2>2. PICK f \in [0..n -> Places] : /\ Unfolds(f, n, <<0, 0>>, LedStep(mv, n))
                                      /\ Led(mv, n) = f[n]
    BY <2>1, LedUnfolds
  <2>3. PICK g \in [0..n + 1 -> Places] : /\ Unfolds(g, n + 1, <<0, 0>>, LedStep(mv, n + 1))
                                          /\ Led(mv, n + 1) = g[n + 1]
    BY <2>1, LedUnfolds
  <2>4. \A i \in 1..n, v \in Places : LedStep(mv, n)[<<i, v>>] = LedStep(mv, n + 1)[<<i, v>>]
    BY <2>1 DEF LedStep
  <2>5. f[n] = g[n]
    BY <2>1, <2>2, <2>3, <2>4, UnfoldAgrees
  <2>6. g[n + 1] = LedStep(mv, n + 1)[<<n + 1, g[n]>>] /\ g[n] \in Places
    BY <2>1, <2>3 DEF Unfolds
  <2>7. LedStep(mv, n + 1)[<<n + 1, g[n]>>] = Follow(mv[n + 1], g[n])
    BY <2>1, <2>6 DEF LedStep
  <2> QED BY <2>2, <2>3, <2>5, <2>6, <2>7
<1> QED BY <1>1, <1>2

\* Moves made later change nothing.
LEMMA LedAlike ==
  ASSUME NEW mv \in Seq(Moves), NEW m \in Moves, NEW n \in 0..Len(mv)
  PROVE  Led(Append(mv, m), n) = Led(mv, n)
<1> DEFINE more == Append(mv, m)
<1>1. /\ more \in Seq(Moves) /\ Len(more) = Len(mv) + 1 /\ Len(mv) \in Nat
      /\ \A i \in 1..Len(mv) : more[i] = mv[i]
  BY AppendProperties, LenProperties
<1> HIDE DEF more
<1>2. n \in Nat /\ n \in 0..Len(more)
  BY <1>1
<1>3. PICK f \in [0..n -> Places] : Unfolds(f, n, <<0, 0>>, LedStep(mv, n)) /\ Led(mv, n) = f[n]
  BY LedUnfolds
<1>4. PICK g \in [0..n -> Places] : /\ Unfolds(g, n, <<0, 0>>, LedStep(more, n))
                                    /\ Led(more, n) = g[n]
  BY <1>1, <1>2, LedUnfolds
<1>5. \A i \in 1..n, v \in Places : LedStep(mv, n)[<<i, v>>] = LedStep(more, n)[<<i, v>>]
  BY <1>1, <1>2 DEF LedStep
<1>6. f[n] = g[n]
  BY <1>2, <1>3, <1>4, <1>5, UnfoldAgrees
<1> QED BY <1>3, <1>4, <1>6 DEF more

-----------------------------------------------------------------------------
(* The packets of the mouse                                                 *)

Held == IF buffer.device = "mouse" THEN 1 ELSE 0

\* The c-th byte of the k-th packet is where it belongs, when d packets are done:
\* in the handler's packet, in the buffer, or in the queue.
InPlace(k, c, d) ==
  LET n == 3 * (k - 1) + c - 3 * d
      j == n - Len(packet) - Held
  IN /\ n \in 1..Len(packet) => packet[n] = Encode(moves[k])[c]
     /\ Held = 1 /\ n = Len(packet) + 1 => buffer.byte = Encode(moves[k])[c]
     /\ j \in 1..Len(queue["mouse"]) => queue["mouse"][j] = Encode(moves[k])[c]

\* The bytes of the packets done, in the handler's packet, in the buffer and in
\* the queue are those of the packets made.
Balance(d, part, held, queued, made) == 3 * d + part + held + queued = 3 * made

\* How far one packet and d packets can lead.
Span == -255..255
Far(d) == 0..255 * d

\* The handler has done d packets, and every byte of the others is on its way.
InStep(d) ==
  /\ packet \in Seq(Int) /\ queue["mouse"] \in Seq(Int) /\ Len(packet) <= 2
  /\ Balance(d, Len(packet), Held, Len(queue["mouse"]), Len(moves))
  /\ \A k \in 1..Len(moves), c \in 1..3 : InPlace(k, c, d)
  /\ <<x, y>> = Led(moves, d) /\ x \in Far(d) /\ y \in Far(d)

FollowInv ==
  /\ moves \in Seq(Moves) /\ Len(moves) <= MaxPackets
  /\ ~astray => \E d \in 0..Len(moves) : InStep(d)

\* A packet is made, a byte is taken into the buffer, or the handler reads it.
LEMMA Balances ==
  ASSUME NEW d \in Nat, NEW part \in Nat, NEW held \in Nat, NEW queued \in Nat, NEW made \in Nat,
         Balance(d, part, held, queued, made)
  PROVE  /\ Balance(d, part, held, queued + 3, made + 1)
         /\ held = 0 => Balance(d, part, 1, queued - 1, made)
         /\ held = 1 => Balance(d, part + 1, 0, queued, made)
         /\ held = 1 /\ part <= 2 => d + 1 <= made
         /\ held = 1 /\ part = 2 => Balance(d + 1, 0, 0, queued, made)
BY DEF Balance

\* The three bytes of a packet.
LEMMA EncodeBytes ==
  ASSUME NEW m \in Moves
  PROVE  /\ Encode(m) \in Seq(Int) /\ Len(Encode(m)) = 3
         /\ Encode(m)[1] = 8 + (IF m.left THEN 1 ELSE 0) + (IF m.right THEN 2 ELSE 0)
              + (IF m.dx < 0 THEN 16 ELSE 0) + (IF m.dy < 0 THEN 32 ELSE 0)
              + (IF m.overflow THEN 192 ELSE 0)
         /\ Encode(m)[2] = m.dx % 256 /\ Encode(m)[3] = m.dy % 256
<1>1. m.dx \in -255..255 /\ m.dy \in -255..255
  BY MouseAssumption
<1>2. 2^0 = 1 /\ 2^1 = 2 /\ 2^4 = 16 /\ 2^5 = 32 /\ 2^6 = 64 /\ 2^7 = 128
  BY SMT
<1> DEFINE e1 == 8 + Flag(m.left, 0) + Flag(m.right, 1) + Flag(m.dx < 0, 4) + Flag(m.dy < 0, 5)
                   + Flag(m.overflow, 6) + Flag(m.overflow, 7)
<1>4. e1 = 8 + (IF m.left THEN 1 ELSE 0) + (IF m.right THEN 2 ELSE 0)
              + (IF m.dx < 0 THEN 16 ELSE 0) + (IF m.dy < 0 THEN 32 ELSE 0)
              + (IF m.overflow THEN 192 ELSE 0)
  BY <1>2 DEF Flag
<1>5. e1 \in Int /\ m.dx % 256 \in Int /\ m.dy % 256 \in Int
  BY <1>1, <1>4, SMTT(30)
<1> HIDE DEF e1
<1>6. Encode(m) = <<e1, m.dx % 256, m.dy % 256>>
  BY DEF Encode, e1
<1> QED BY <1>4, <1>5, <1>6

\* The handler reads out of a packet what the user did.
LEMMA PacketMeans ==
  ASSUME NEW m \in Moves, NEW p, p[1] = Encode(m)[1], p[2] = Encode(m)[2], p[3] = Encode(m)[3]
  PROVE  /\ Bit(p[1], 6) <=> m.overflow
         /\ Bit(p[1], 7) <=> m.overflow
         /\ sign_extend(p[2], Bit(p[1], 4)) = m.dx
         /\ sign_extend(p[3], Bit(p[1], 5)) = m.dy
<1>1. /\ m.dx \in -255..255 /\ m.dy \in -255..255 /\ m.overflow \in BOOLEAN
      /\ m.left \in BOOLEAN /\ m.right \in BOOLEAN
  BY MouseAssumption
<1> DEFINE l == IF m.left THEN 1 ELSE 0
           r == IF m.right THEN 1 ELSE 0
           sx == IF m.dx < 0 THEN 1 ELSE 0
           sy == IF m.dy < 0 THEN 1 ELSE 0
           o == IF m.overflow THEN 1 ELSE 0
<1>2. l \in 0..1 /\ r \in 0..1 /\ sx \in 0..1 /\ sy \in 0..1 /\ o \in 0..1
  OBVIOUS
<1>3. p[1] = 8 + l + 2 * r + 16 * sx + 32 * sy + 192 * o /\ p[2] = m.dx % 256 /\ p[3] = m.dy % 256
  BY EncodeBytes
<1>4. (sx = 1 <=> m.dx < 0) /\ (sy = 1 <=> m.dy < 0) /\ (o = 1 <=> m.overflow)
  OBVIOUS
<1> HIDE DEF l, r, sx, sy, o
<1>5. 2^4 = 16 /\ 2^5 = 32 /\ 2^6 = 64 /\ 2^7 = 128
  BY SMT
<1>6. /\ (p[1] \div 64) % 2 = o /\ (p[1] \div 128) % 2 = o
      /\ (p[1] \div 16) % 2 = sx /\ (p[1] \div 32) % 2 = sy
  BY <1>2, <1>3
<1>7. /\ Bit(p[1], 6) <=> m.overflow
      /\ Bit(p[1], 7) <=> m.overflow
      /\ Bit(p[1], 4) <=> m.dx < 0
      /\ Bit(p[1], 5) <=> m.dy < 0
  BY <1>4, <1>5, <1>6 DEF Bit
<1>8. /\ m.dx < 0 => p[2] - 256 = m.dx
      /\ ~(m.dx < 0) => p[2] = m.dx
      /\ m.dy < 0 => p[3] - 256 = m.dy
      /\ ~(m.dy < 0) => p[3] = m.dy
  BY <1>1, <1>3, SMTT(30)
<1> QED BY <1>7, <1>8 DEF sign_extend

\* The steps that touch nothing of the mouse.
LEMMA InStepKept ==
  ASSUME NEW d, InStep(d), UNCHANGED <<moves, packet, x, y>>, queue'["mouse"] = queue["mouse"],
         \/ buffer' = buffer
         \/ buffer.device # "mouse" /\ buffer'.device # "mouse"
  PROVE  InStep(d)'
<1>1. Held' = Held /\ (Held = 1 => buffer' = buffer)
  BY DEF Held
<1>2. \A k, c : InPlace(k, c, d) => InPlace(k, c, d)'
  BY <1>1 DEF InPlace
<1> QED BY <1>1, <1>2 DEF InStep

\* The user moves the mouse.
LEMMA InStepMore ==
  ASSUME Queues, moves \in Seq(Moves), NEW d \in Nat, d <= Len(moves), InStep(d),
         NEW m \in Moves, MoveMouse(m)
  PROVE  InStep(d)'
<1> DEFINE q == queue["mouse"]
           e == Encode(m)
<1>1. /\ moves' = Append(moves, m) /\ moves' \in Seq(Moves) /\ Len(moves') = Len(moves) + 1
      /\ Len(moves) \in Nat
      /\ \A i \in 1..Len(moves) : moves'[i] = moves[i]
      /\ moves'[Len(moves) + 1] = m
  BY AppendProperties, LenProperties DEF MoveMouse
<1>2. packet' = packet /\ x' = x /\ y' = y /\ buffer' = buffer /\ Held' = Held
  BY DEF MoveMouse, Held
<1>3. /\ packet \in Seq(Int) /\ q \in Seq(Int) /\ Len(packet) <= 2
      /\ Balance(d, Len(packet), Held, Len(q), Len(moves))
  BY DEF InStep
<1>p. <<x, y>> = Led(moves, d) /\ x \in Far(d) /\ y \in Far(d) /\ d \in Nat
  BY DEF InStep
<1>4. e \in Seq(Int) /\ Len(e) = 3
  BY EncodeBytes
<1>5. queue'["mouse"] = q \o e
  BY DEF MoveMouse, Sends, Queues, Devices
<1> HIDE DEF q, e
<1>6. /\ q \o e \in Seq(Int) /\ Len(q \o e) = Len(q) + 3 /\ Len(q) \in Nat /\ Len(packet) \in Nat
      /\ \A i \in 1..Len(q) : (q \o e)[i] = q[i]
      /\ \A i \in 1..3 : (q \o e)[Len(q) + i] = e[i]
  <2>1. Len(q) \in Nat /\ Len(packet) \in Nat /\ Len(e) \in Nat
    BY <1>3, <1>4, LenProperties
  <2>2. /\ q \o e \in Seq(Int) /\ Len(q \o e) = Len(q) + Len(e)
        /\ \A i \in 1..Len(q) + Len(e) :
             (q \o e)[i] = IF i <= Len(q) THEN q[i] ELSE e[i - Len(q)]
    BY <1>3, <1>4, ConcatProperties, ZenonT(60)
  <2>3. ASSUME NEW i \in 1..3 PROVE (q \o e)[Len(q) + i] = e[i]
    <3>1. /\ Len(q) + i \in 1..Len(q) + Len(e) /\ ~(Len(q) + i <= Len(q))
          /\ Len(q) + i - Len(q) = i
      BY <1>4, <2>1
    <3> QED BY <2>2, <3>1
  <2> QED BY <1>4, <2>1, <2>2, <2>3
<1>b. /\ Held \in Nat /\ Held \in {0, 1}
      /\ Balance(d, Len(packet), Held, Len(q) + 3, Len(moves) + 1)
      /\ \A i \in Int : (3 * Len(moves) + i - 3 * d) - Len(packet) - Held = Len(q) + i
      /\ \A i \in 1..3, k \in 1..Len(moves) : (3 * (k - 1) + i - 3 * d) - Len(packet) - Held <= Len(q)
  <2>1. Held \in Nat /\ Held \in {0, 1}
    BY DEF Held
  <2>2. PICK part \in Nat, held \in Nat, queued \in Nat, made \in Nat :
          part = Len(packet) /\ held = Held /\ queued = Len(q) /\ made = Len(moves)
    BY <1>1, <1>6, <2>1
  <2>3. Balance(d, part, held, queued, made)
    BY <1>3, <2>2
  <2>4. Balance(d, part, held, queued + 3, made + 1)
    BY <2>3 DEF Balance
  <2>5. \A i \in Int : (3 * made + i - 3 * d) - part - held = queued + i
    BY <2>3 DEF Balance
  <2>6. \A i \in 1..3, k \in 1..made : (3 * (k - 1) + i - 3 * d) - part - held <= queued
    BY <2>3 DEF Balance
  <2> QED BY <2>1, <2>2, <2>4, <2>5, <2>6
<1>7. ASSUME NEW k \in 1..Len(moves) + 1, NEW c \in 1..3 PROVE InPlace(k, c, d)'
  <2> DEFINE n == 3 * (k - 1) + c - 3 * d
             j == n - Len(packet) - Held
  <2>0. k \in Int /\ c \in Int /\ n \in Int /\ Held \in {0, 1}
    BY DEF Held
  <2>1. CASE k \in 1..Len(moves)
    <3>1. /\ n \in 1..Len(packet) => packet[n] = Encode(moves[k])[c]
          /\ Held = 1 /\ n = Len(packet) + 1 => buffer.byte = Encode(moves[k])[c]
          /\ j \in 1..Len(q) => q[j] = Encode(moves[k])[c]
      <4>1. InPlace(k, c, d)
        BY <2>1 DEF InStep
      <4> QED BY <4>1 DEF InPlace, q
    <3>2. moves'[k] = moves[k]
      BY <1>1, <2>1
    <3>3. j <= Len(q)
      BY <1>b, <2>1
    <3>4. ASSUME j \in 1..Len(q) + 3 PROVE (q \o e)[j] = Encode(moves[k])[c]
      <4>1. j \in 1..Len(q)
        BY <1>6, <3>3, <3>4
      <4> QED BY <1>6, <3>1, <4>1
    <3> QED BY <1>2, <1>5, <1>6, <3>1, <3>2, <3>4 DEF InPlace
  <2>2. CASE k = Len(moves) + 1
    <3>0. 3 * (k - 1) = 3 * Len(moves) /\ Len(q) \in Nat /\ Len(packet) \in Nat
      BY <1>1, <1>6, <2>2
    <3>1. moves'[k] = m /\ j = Len(q) + c
      <4>1. n = 3 * Len(moves) + c - 3 * d
        BY <3>0
      <4>2. (3 * Len(moves) + c - 3 * d) - Len(packet) - Held = Len(q) + c
        BY <1>b, <2>0
      <4>3. j = Len(q) + c
        <5>1. k - 1 = Len(moves)
          BY <1>1, <2>2
        <5>2. (3 * (k - 1) + c - 3 * d) - Len(packet) - Held = Len(q) + c
          BY <4>2, <5>1
        <5> QED BY <5>2
      <4> QED BY <1>1, <2>2, <4>3
    <3>2. n > Len(packet) /\ (Held = 1 => n > Len(packet) + 1)
      BY <2>0, <3>0, <3>1
    <3>3. (q \o e)[j] = Encode(m)[c]
      BY <1>6, <3>1 DEF e
    <3>4. n \notin 1..Len(packet) /\ ~(Held = 1 /\ n = Len(packet) + 1)
      BY <2>0, <3>0, <3>2
    <3> QED BY <1>2, <1>5, <3>1, <3>3, <3>4 DEF InPlace
  <2> QED BY <1>1, <2>1, <2>2
<1>8. Led(moves', d) = Led(moves, d)
  BY <1>1, LedAlike
<1>9. Balance(d, Len(packet), Held, Len(q \o e), Len(moves'))
  BY <1>1, <1>6, <1>b
<1>10. packet' \in Seq(Int) /\ queue'["mouse"] \in Seq(Int) /\ Len(packet') <= 2
  BY <1>2, <1>3, <1>5, <1>6
<1>11. \A k \in 1..Len(moves'), c \in 1..3 : InPlace(k, c, d)'
  BY <1>1, <1>7
<1>12. <<x', y'>> = Led(moves', d) /\ x' \in Far(d) /\ y' \in Far(d)
  BY <1>2, <1>p, <1>8
<1> QED BY <1>2, <1>5, <1>9, <1>10, <1>11, <1>12 DEF InStep

\* The controller takes a byte of the mouse.
LEMMA InStepTaken ==
  ASSUME Queues, moves \in Seq(Moves), NEW d \in Nat, d <= Len(moves), InStep(d), Transfer("mouse"),
         UNCHANGED <<moves, packet, x, y>>
  PROVE  InStep(d)'
<1> DEFINE q == queue["mouse"]
<1>1. /\ buffer = Empty /\ q # <<>> /\ buffer' = [device |-> "mouse", byte |-> Head(q)]
      /\ queue'["mouse"] = Tail(q)
  BY DEF Transfer, Queues, Devices
<1>2. Held = 0 /\ Held' = 1 /\ buffer'.byte = Head(q)
  BY <1>1 DEF Held, Empty
<1>3. /\ packet \in Seq(Int) /\ q \in Seq(Int) /\ Len(packet) <= 2 /\ Len(packet) \in Nat
      /\ Balance(d, Len(packet), Held, Len(q), Len(moves)) /\ Len(moves) \in Nat
  BY LenProperties DEF InStep
<1>p. <<x, y>> = Led(moves, d) /\ x \in Far(d) /\ y \in Far(d) /\ d \in Nat
  BY DEF InStep
<1>4. /\ Len(q) \in Nat \ {0} /\ Tail(q) \in Seq(Int) /\ Len(Tail(q)) = Len(q) - 1
      /\ \A i \in 1..Len(q) - 1 : Tail(q)[i] = q[i + 1]
      /\ Head(q) = q[1]
  BY <1>1, <1>3, TailIs
<1> HIDE DEF q
<1>5. ASSUME NEW k \in 1..Len(moves), NEW c \in 1..3 PROVE InPlace(k, c, d)'
  <2> DEFINE n == 3 * (k - 1) + c - 3 * d
  <2>0. n \in Int
    OBVIOUS
  <2>1. /\ n \in 1..Len(packet) => packet[n] = Encode(moves[k])[c]
        /\ n - Len(packet) \in 1..Len(q) => q[n - Len(packet)] = Encode(moves[k])[c]
    <3>1. InPlace(k, c, d)
      BY DEF InStep
    <3>2. n - Len(packet) - 0 = n - Len(packet)
      BY <1>3
    <3> QED BY <1>2, <3>1, <3>2 DEF InPlace, q
  <2> HIDE DEF n
  <2>2. ASSUME n = Len(packet) + 1 PROVE Head(q) = Encode(moves[k])[c]
    <3>1. n - Len(packet) = 1 /\ 1 \in 1..Len(q)
      BY <1>3, <1>4, <2>2
    <3> QED BY <1>4, <2>1, <3>1
  <2>3. ASSUME n - Len(packet) - 1 \in 1..Len(q) - 1
        PROVE  Tail(q)[n - Len(packet) - 1] = Encode(moves[k])[c]
    <3>1. n - Len(packet) \in 1..Len(q) /\ n - Len(packet) - 1 + 1 = n - Len(packet)
      <4>1. \A a, i \in Int, b \in Nat :
              i - a - 1 \in 1..b - 1 => i - a \in 1..b /\ i - a - 1 + 1 = i - a
        OBVIOUS
      <4> QED BY <1>3, <1>4, <2>0, <2>3, <4>1
    <3> QED BY <1>4, <2>1, <2>3, <3>1
  <2> QED BY <1>1, <1>2, <1>4, <2>1, <2>2, <2>3 DEF InPlace, n
<1>6. Balance(d, Len(packet), 1, Len(Tail(q)), Len(moves))
  <2>1. Balance(d, Len(packet), 0, Len(q), Len(moves)) /\ Len(q) \in Nat
    BY <1>2, <1>3, <1>4
  <2>2. Balance(d, Len(packet), 1, Len(q) - 1, Len(moves))
    BY <1>3, <1>p, <2>1, Balances
  <2> QED BY <1>4, <2>2
<1>7. packet' \in Seq(Int) /\ queue'["mouse"] \in Seq(Int) /\ Len(packet') <= 2
  BY <1>1, <1>3, <1>4
<1>8. <<x', y'>> = Led(moves', d) /\ x' \in Far(d) /\ y' \in Far(d)
  BY <1>p
<1> QED BY <1>1, <1>2, <1>5, <1>6, <1>7, <1>8 DEF InStep

\* A movement of at most 255 after d packets of them stays in 16 bits.
LEMMA StaysIn16 ==
  ASSUME NEW d \in 0..127, NEW a \in Far(d), NEW move \in Span
  PROVE  /\ NotBelowZero(Int16(a)) = a /\ a \in Far(d + 1)
         /\ Int16(a + move) = a + move /\ NotBelowZero(a + move) \in Far(d + 1)
         /\ Int16(a - move) = a - move /\ NotBelowZero(a - move) \in Far(d + 1)
<1>1. PICK top \in Nat : top = 255 * d /\ top <= 32385
  OBVIOUS
<1>2. Far(d + 1) = 0..top + 255
  <2>1. 255 * (d + 1) = top + 255
    BY <1>1
  <2> QED BY <2>1 DEF Far
<1>3. PICK from \in Nat : from = a /\ from <= top
  BY <1>1 DEF Far
<1>4. \A v \in Int : -255 <= v /\ v <= 32640 => Int16(v) = v
  BY DEF Int16
<1>5. /\ from <= 32640 /\ from + move \in Int /\ -255 <= from + move /\ from + move <= 32640
      /\ from - move \in Int /\ -255 <= from - move /\ from - move <= 32640 /\ -255 <= from
  BY <1>1, <1>3 DEF Span
<1>6. /\ from \in 0..top + 255 /\ NotBelowZero(from) = from
      /\ NotBelowZero(from + move) \in 0..top + 255 /\ NotBelowZero(from - move) \in 0..top + 255
  BY <1>1, <1>3 DEF NotBelowZero, Span
<1>7. Int16(from) = from /\ Int16(from + move) = from + move /\ Int16(from - move) = from - move
  BY <1>4, <1>5
<1> QED BY <1>2, <1>3, <1>6, <1>7

\* The mouse's handler reads a byte of its own.
LEMMA InStepRead ==
  ASSUME MaxPackets <= 128, Queues, moves \in Seq(Moves), Len(moves) <= MaxPackets,
         NEW d \in Nat, d <= Len(moves), InStep(d), buffer.device = "mouse", mouse_handler
  PROVE  InStep(d)' \/ (d + 1 <= Len(moves) /\ InStep(d + 1)')
<1> DEFINE q == queue["mouse"]
           b == buffer.byte
           p == Append(packet, b)
<1>1. /\ DataPort = b /\ buffer' = Empty /\ queue' = queue /\ Held = 1 /\ Held' = 0
      /\ moves' = moves
  BY DEF mouse_handler, HandlerReads, ReadDataPort, DataPort, Empty, Held
<1>2. /\ packet \in Seq(Int) /\ q \in Seq(Int) /\ Len(packet) <= 2 /\ Len(packet) \in Nat
      /\ Balance(d, Len(packet), 1, Len(q), Len(moves)) /\ Len(moves) \in Nat /\ Len(q) \in Nat
  BY <1>1, LenProperties DEF InStep
<1>p. <<x, y>> = Led(moves, d) /\ x \in Far(d) /\ y \in Far(d) /\ d \in Nat
  BY DEF InStep
<1>3. d + 1 \in 1..Len(moves) /\ Len(packet) + 1 \in 1..3
  <2>1. d + 1 <= Len(moves)
    BY <1>2, <1>p, Balances
  <2> QED BY <1>2, <1>p, <2>1
<1>4. ASSUME NEW k \in 1..Len(moves), NEW c \in 1..3, NEW n, n = 3 * (k - 1) + c - 3 * d
      PROVE  /\ n \in 1..Len(packet) => packet[n] = Encode(moves[k])[c]
             /\ n = Len(packet) + 1 => b = Encode(moves[k])[c]
             /\ n - (Len(packet) + 1) \in 1..Len(q) =>
                  q[n - (Len(packet) + 1)] = Encode(moves[k])[c]
  <2>1. InPlace(k, c, d)
    BY DEF InStep
  <2>2. n \in Int /\ n - Len(packet) - 1 = n - (Len(packet) + 1)
    BY <1>2, <1>4
  <2> QED BY <1>1, <1>4, <2>1, <2>2 DEF InPlace
<1>5. \A k \in 1..Len(moves) : moves[k] \in Moves
  BY ElementOfSeq
<1>6. b \in Int
  <2>1. b = Encode(moves[d + 1])[Len(packet) + 1]
    BY <1>2, <1>3, <1>4
  <2>2. Encode(moves[d + 1]) \in Seq(Int) /\ Len(Encode(moves[d + 1])) = 3
    BY <1>3, <1>5, EncodeBytes
  <2> QED BY <1>3, <2>1, <2>2, ElementOfSeq
<1>7. /\ p \in Seq(Int) /\ Len(p) = Len(packet) + 1 /\ p[Len(packet) + 1] = b
      /\ \A i \in 1..Len(packet) : p[i] = packet[i]
  BY <1>2, <1>6, AppendProperties
<1> HIDE DEF q, b, p
<1>8. ASSUME NEW k \in 1..Len(moves), NEW c \in 1..3, NEW n, n = 3 * (k - 1) + c - 3 * d
      PROVE  /\ n \in 1..Len(p) => p[n] = Encode(moves[k])[c]
             /\ n - Len(p) \in 1..Len(q) => q[n - Len(p)] = Encode(moves[k])[c]
  <2>1. n \in 1..Len(p) => n \in 1..Len(packet) \/ n = Len(packet) + 1
    BY <1>2, <1>7
  <2>2. /\ n \in 1..Len(packet) => packet[n] = Encode(moves[k])[c]
        /\ n = Len(packet) + 1 => b = Encode(moves[k])[c]
        /\ n - (Len(packet) + 1) \in 1..Len(q) =>
             q[n - (Len(packet) + 1)] = Encode(moves[k])[c]
    BY <1>4, <1>8, ZenonT(60)
  <2> QED BY <1>7, <2>1, <2>2
<1>9. CASE Len(p) < 3 /\ packet' = p /\ UNCHANGED <<x, y>>
  <2>1. ASSUME NEW k \in 1..Len(moves), NEW c \in 1..3 PROVE InPlace(k, c, d)'
    <3> DEFINE n == 3 * (k - 1) + c - 3 * d
    <3>1. /\ n \in 1..Len(p) => p[n] = Encode(moves[k])[c]
          /\ n - Len(p) \in 1..Len(q) => q[n - Len(p)] = Encode(moves[k])[c]
      BY <1>8
    <3>2. n - Len(p) - 0 = n - Len(p)
      <4>1. n \in Int /\ Len(p) \in Int
        BY <1>2, <1>7, <1>p
      <4> HIDE DEF n
      <4> QED BY <4>1
    <3> HIDE DEF n
    <3>3. /\ n \in 1..Len(packet') => packet'[n] = Encode(moves'[k])[c]
          /\ ~(Held' = 1)
          /\ n - Len(packet') - Held' \in 1..Len(queue'["mouse"]) =>
               queue'["mouse"][n - Len(packet') - Held'] = Encode(moves'[k])[c]
      BY <1>1, <1>9, <3>1, <3>2 DEF q
    <3> QED BY <3>3 DEF InPlace, n
  <2>2. Balance(d, Len(p), 0, Len(q), Len(moves)) /\ Len(p) <= 2
    <3>1. Balance(d, Len(packet) + 1, 0, Len(q), Len(moves))
      BY <1>2, <1>p, Balances
    <3>2. Len(p) <= 2
      BY <1>2, <1>7, <1>9
    <3> QED BY <1>7, <3>1, <3>2
  <2>3. packet' \in Seq(Int) /\ queue'["mouse"] \in Seq(Int) /\ queue'["mouse"] = q
    BY <1>1, <1>2, <1>7, <1>9 DEF q
  <2>4. <<x', y'>> = Led(moves', d) /\ x' \in Far(d) /\ y' \in Far(d)
    BY <1>1, <1>p, <1>9
  <2> QED BY <1>1, <1>9, <2>1, <2>2, <2>3, <2>4 DEF InStep
<1>10. CASE Len(p) = 3 /\ Complete(p)
  <2> DEFINE m == moves[d + 1]
  <2>0. m \in Moves /\ d \in Nat /\ d <= 127
    <3>1. m \in Moves
      BY <1>3, <1>5
    <3>2. MaxPackets \in Nat
      BY MouseAssumption
    <3>3. d \in Nat /\ d <= 127
      <4> HIDE DEF m
      <4> QED BY <1>2, <1>3, <3>2
    <3> QED BY <3>1, <3>3
  <2>1. packet' = <<>>
    BY <1>10 DEF Complete
  <2>2. ASSUME NEW c \in 1..3 PROVE p[c] = Encode(m)[c]
    <3>1. c = 3 * (d + 1 - 1) + c - 3 * d /\ c \in 1..Len(p)
      BY <1>10
    <3>2. PICK k \in 1..Len(moves) : k = d + 1
      BY <1>3
    <3>3. c = 3 * (k - 1) + c - 3 * d
      BY <1>p, <3>2
    <3>4. c \in 1..Len(p) => p[c] = Encode(moves[k])[c]
      BY <1>8, <3>3
    <3> QED BY <3>1, <3>2, <3>4
  <2>3. /\ Bit(p[1], 6) <=> m.overflow
        /\ Bit(p[1], 7) <=> m.overflow
        /\ sign_extend(p[2], Bit(p[1], 4)) = m.dx
        /\ sign_extend(p[3], Bit(p[1], 5)) = m.dy
    <3>1. p[1] = Encode(m)[1] /\ p[2] = Encode(m)[2] /\ p[3] = Encode(m)[3]
      BY <2>2
    <3> HIDE DEF m
    <3> QED BY <2>0, <3>1, PacketMeans
  <2> HIDE DEF m
  <2>4. /\ x' = NotBelowZero(Int16(x + (IF m.overflow THEN 0 ELSE m.dx)))
        /\ y' = NotBelowZero(Int16(y - (IF m.overflow THEN 0 ELSE m.dy)))
    BY <1>10, <2>3 DEF Complete
  <2>5. m.dx \in -255..255 /\ m.dy \in -255..255 /\ d \in 0..127
    <3>1. m.dx \in -255..255 /\ m.dy \in -255..255
      BY <2>0, MouseAssumption
    <3> QED BY <2>0, <3>1
  <2>6. /\ NotBelowZero(Int16(x)) = x /\ x \in Far(d + 1)
        /\ Int16(x + m.dx) = x + m.dx /\ NotBelowZero(x + m.dx) \in Far(d + 1)
        /\ NotBelowZero(Int16(y)) = y /\ y \in Far(d + 1)
        /\ Int16(y - m.dy) = y - m.dy /\ NotBelowZero(y - m.dy) \in Far(d + 1)
    <3>1. m.dx \in Span /\ m.dy \in Span
      BY <2>5 DEF Span
    <3>2. \A a \in Far(d), move \in Span :
            /\ NotBelowZero(Int16(a)) = a /\ a \in Far(d + 1)
            /\ Int16(a + move) = a + move /\ NotBelowZero(a + move) \in Far(d + 1)
            /\ Int16(a - move) = a - move /\ NotBelowZero(a - move) \in Far(d + 1)
      BY <2>5, StaysIn16
    <3> QED BY <1>p, <3>1, <3>2, Zenon
  <2>7. <<x', y'>> = Follow(m, <<x, y>>) /\ x' \in Far(d + 1) /\ y' \in Far(d + 1)
    <3>1. CASE m.overflow
      <4>1. x + 0 = x /\ y - 0 = y
        BY <1>p DEF Far
      <4>2. x' = x /\ y' = y
        BY <2>4, <2>6, <3>1, <4>1, Zenon
      <4>3. <<x', y'>> = Follow(m, <<x, y>>)
        BY <3>1, <4>2 DEF Follow
      <4> QED BY <2>6, <4>2, <4>3, Zenon
    <3>2. CASE ~m.overflow
      <4>1. x' = NotBelowZero(x + m.dx) /\ y' = NotBelowZero(y - m.dy)
        BY <2>4, <2>6, <3>2, Zenon
      <4>2. <<x', y'>> = Follow(m, <<x, y>>)
        BY <3>2, <4>1 DEF Follow
      <4> QED BY <2>6, <4>1, <4>2, Zenon
    <3> QED BY <3>1, <3>2
  <2>8. <<x', y'>> = Led(moves', d + 1)
    <3>1. d \in 0..Len(moves) - 1
      BY <1>2, <1>3
    <3> QED BY <1>1, <1>p, <2>7, <3>1, LedFrom DEF m
  <2>9. ASSUME NEW k \in 1..Len(moves), NEW c \in 1..3 PROVE InPlace(k, c, d + 1)'
    <3> DEFINE n == 3 * (k - 1) + c - 3 * d
    <3>1. n - 3 \in 1..Len(q) => q[n - 3] = Encode(moves[k])[c]
      <4>1. n - Len(p) \in 1..Len(q) => q[n - Len(p)] = Encode(moves[k])[c]
        BY <1>8
      <4> QED BY <1>10, <4>1
    <3>2. 3 * (k - 1) + c - 3 * (d + 1) = n - 3 /\ n - 3 - 0 - 0 = n - 3 /\ n - 3 \in Int
      BY <2>0
    <3> HIDE DEF n
    <3>3. Len(packet') = 0 /\ n - 3 \notin 1..0 /\ queue'["mouse"] = q
      BY <1>1, <2>1, <3>2 DEF q
    <3> QED BY <1>1, <3>1, <3>2, <3>3 DEF InPlace
  <2>10. Balance(d + 1, Len(packet'), Held', Len(q), Len(moves)) /\ Len(packet') = 0
    <3>1. Len(packet') = 0 /\ Len(packet) = 2
      <4>1. \A i \in Nat : i + 1 = 3 => i = 2
        OBVIOUS
      <4>2. Len(packet') = 0
        BY <2>1
      <4> QED BY <1>2, <1>7, <1>10, <4>1, <4>2
    <3>2. Balance(d + 1, 0, 0, Len(q), Len(moves))
      BY <1>2, <1>p, <3>1, Balances
    <3> QED BY <1>1, <3>1, <3>2
  <2>11. packet' \in Seq(Int) /\ queue'["mouse"] \in Seq(Int) /\ queue'["mouse"] = q
    BY <1>1, <1>2, <2>1 DEF q
  <2> QED BY <1>1, <1>3, <2>7, <2>8, <2>9, <2>10, <2>11 DEF InStep
<1>11. \/ Len(p) = 3 /\ Complete(p)
       \/ Len(p) < 3 /\ packet' = p /\ UNCHANGED <<x, y>>
  BY <1>1 DEF mouse_handler, p
<1> QED BY <1>9, <1>10, <1>11

\* Every step keeps the mouse and its handler in step.
LEMMA FollowStep ==
  ASSUME MaxPackets <= 128, KeyInv, FollowInv, [Next]_vars
  PROVE  FollowInv'
<1>1. /\ Queues /\ plan \in Plans /\ moves \in Seq(Moves) /\ Len(moves) <= MaxPackets
      /\ ~astray => \E d \in 0..Len(moves) : InStep(d)
  BY DEF KeyInv, Types, FollowInv
<1>2. ASSUME UNCHANGED <<moves, packet, x, y>>, queue'["mouse"] = queue["mouse"],
             ~astray' => /\ ~astray
                         /\ \/ buffer' = buffer
                            \/ buffer.device # "mouse" /\ buffer'.device # "mouse"
      PROVE  FollowInv'
  BY <1>1, <1>2, InStepKept DEF FollowInv
<1>3. CASE UNCHANGED vars \/ Loop
  <2>1. UNCHANGED <<port, mouseData>>
    BY <1>3 DEF vars, mouseVars, Loop, cpp_event_loop
  <2>2. queue' = queue /\ buffer' = buffer /\ astray' = astray /\ UNCHANGED <<moves, packet, x, y>>
    BY <2>1 DEF port, mouseData
  <2> QED BY <1>2, <2>2
<1>4. CASE User
  <2>1. CASE \E k \in plan.keys : Stroke(k) /\ UNCHANGED mouseVars
    BY <1>1, <1>2, <2>1 DEF Stroke, mouseVars, mouseData, Sends, Queues, Devices
  <2>2. CASE \E m \in plan.moves : MoveMouse(m)
    <3>1. PICK m \in plan.moves : MoveMouse(m)
      BY <2>2
    <3>2. m \in Moves
      BY <1>1, InputAssumption
    <3>3. moves' = Append(moves, m) /\ Len(moves) < MaxPackets /\ astray' = astray
      BY <3>1 DEF MoveMouse
    <3>4. moves' \in Seq(Moves) /\ Len(moves') = Len(moves) + 1 /\ Len(moves) \in Nat
      BY <1>1, <3>2, <3>3, AppendProperties, LenProperties
    <3>5. Len(moves') <= MaxPackets
      BY <3>3, <3>4, MouseAssumption
    <3>6. ASSUME ~astray' PROVE \E d \in 0..Len(moves') : InStep(d)'
      <4>1. PICK d \in 0..Len(moves) : InStep(d)
        BY <1>1, <3>3, <3>6
      <4>2. InStep(d)'
        BY <1>1, <3>1, <3>2, <4>1, InStepMore
      <4>3. d \in 0..Len(moves')
        BY <3>4
      <4> QED BY <4>2, <4>3
    <3> QED BY <3>4, <3>5, <3>6 DEF FollowInv
  <2> QED BY <1>4, <2>1, <2>2 DEF User
<1>5. CASE Wire
  <2>1. PICK d \in Devices : Transfer(d)
    BY <1>5 DEF Wire
  <2>2. UNCHANGED <<moves, packet, x, y>> /\ astray' = astray
    BY <1>5, <2>1 DEF Wire, mouseVars, mouseData, Transfer
  <2>3. CASE d = "keyboard"
    BY <1>1, <1>2, <2>1, <2>2, <2>3 DEF Transfer, Queues, Devices, Empty
  <2>4. CASE d = "mouse"
    <3>1. ASSUME NEW e \in 0..Len(moves), InStep(e) PROVE InStep(e)'
      BY <1>1, <2>1, <2>2, <2>4, <3>1, InStepTaken
    <3> QED BY <1>1, <2>2, <3>1 DEF FollowInv
  <2> QED BY <2>3, <2>4 DEF Devices
<1>6. CASE MouseInterrupt
  <2>1. mouse_handler /\ moves' = moves /\ astray' = (astray \/ Foreign("mouse"))
    BY <1>6 DEF MouseInterrupt, mouse_handler, HandlerReads
  <2>2. ASSUME ~astray' PROVE \E d \in 0..Len(moves) : InStep(d)'
    <3>1. ~astray /\ buffer.device = "mouse"
      BY <2>1, <2>2 DEF Foreign
    <3>2. PICK d \in 0..Len(moves) : InStep(d)
      BY <1>1, <3>1
    <3>3. InStep(d)' \/ (d + 1 <= Len(moves) /\ InStep(d + 1)')
      BY <1>1, <2>1, <3>1, <3>2, InStepRead
    <3>4. d + 1 <= Len(moves) => d + 1 \in 0..Len(moves)
      OBVIOUS
    <3> QED BY <3>2, <3>3, <3>4
  <2> QED BY <1>1, <2>1, <2>2 DEF FollowInv
<1>7. CASE Keyboard
  <2>1. UNCHANGED <<moves, packet, x, y>>
    BY <1>7 DEF Keyboard, mouseVars, mouseData
  <2>2. CASE Interrupt
    <3>1. HandlerReads("keyboard", DataPort)
      BY <1>1, <2>2, InterruptDecodes DEF KeyInv, Types
    <3>2. /\ queue' = queue /\ buffer' = Empty /\ astray' = (astray \/ Foreign("keyboard"))
      BY <3>1 DEF HandlerReads, ReadDataPort
    <3>3. ~Foreign("keyboard") => buffer.device # "mouse"
      BY DEF Foreign, Empty
    <3> QED BY <1>2, <2>1, <3>2, <3>3 DEF Empty
  <2>3. CASE LedSend
    BY <1>1, <1>2, <2>1, <2>3 DEF LedSend, Sends, Queues, Devices
  <2>4. CASE LedRead
    BY <1>2, <2>1, <2>4 DEF LedRead, ReadDataPort, Empty
  <2>5. CASE LedTimeout
    BY <1>2, <2>1, <2>5 DEF LedTimeout
  <2> QED BY <1>7, <2>2, <2>3, <2>4, <2>5 DEF Keyboard, Leds
<1> QED BY <1>3, <1>4, <1>5, <1>6, <1>7 DEF Next

\* The cursor is where the user has moved it, whatever the order in which the
\* two devices' bytes and the handlers come, until a byte goes astray.  The
\* hypothesis keeps the position in the 16 bits the handler has for it: no 128
\* packets lead past 32640.
THEOREM CursorFollows ==
  ASSUME MaxPackets <= 128 PROVE Spec => []CursorFollowsMouse
<1>1. Init => FollowInv
  <2> SUFFICES ASSUME Init PROVE FollowInv
    OBVIOUS
  <2>1. /\ moves = <<>> /\ packet = <<>> /\ x = 0 /\ y = 0
        /\ queue["mouse"] = <<>> /\ buffer = Empty
    BY DEF Init, MouseInit, PortInit, Devices
  <2>2. moves \in Seq(Moves) /\ Len(moves) = 0 /\ Len(packet) = 0 /\ Len(queue["mouse"]) = 0
        /\ packet \in Seq(Int) /\ queue["mouse"] \in Seq(Int) /\ 0 <= MaxPackets
    BY <2>1, MouseAssumption
  <2>3. Held = 0 /\ <<x, y>> = Led(moves, 0)
    BY <2>1, <2>2, LedFrom DEF Held, Empty
  <2>4. InStep(0)
    <3>1. x \in Far(0) /\ y \in Far(0)
      BY <2>1 DEF Far
    <3>2. \A k \in 1..Len(moves), c \in 1..3 : InPlace(k, c, 0)
      BY <2>2
    <3>3. Balance(0, Len(packet), Held, Len(queue["mouse"]), Len(moves)) /\ Len(packet) <= 2
      BY <2>2, <2>3 DEF Balance
    <3> QED BY <2>2, <2>3, <3>1, <3>2, <3>3 DEF InStep
  <2> QED BY <2>2, <2>4 DEF FollowInv
<1>2. KeyInv /\ FollowInv /\ [Next]_vars => FollowInv'
  BY FollowStep
<1>3. FollowInv => CursorFollowsMouse
  <2> SUFFICES ASSUME FollowInv, ~astray
               PROVE  LET sent == 3 * Len(moves) - Len(queue["mouse"]) - Held
                      IN Len(packet) = sent % 3 /\ <<x, y>> = Walk(sent \div 3)
    BY DEF CursorFollowsMouse, Held
  <2>1. PICK d \in 0..Len(moves) : InStep(d)
    BY DEF FollowInv
  <2>2. /\ Len(packet) \in Nat /\ Len(packet) <= 2 /\ d \in Nat /\ Held \in Nat
        /\ Balance(d, Len(packet), Held, Len(queue["mouse"]), Len(moves))
        /\ Len(moves) \in Nat /\ Len(queue["mouse"]) \in Nat
    <3>1. moves \in Seq(Moves) /\ packet \in Seq(Int) /\ queue["mouse"] \in Seq(Int)
      BY <2>1 DEF InStep, FollowInv
    <3>2. Len(moves) \in Nat /\ Len(packet) \in Nat /\ Len(queue["mouse"]) \in Nat
      BY <3>1, LenProperties
    <3>3. Held \in Nat
      BY DEF Held
    <3>4. d \in Nat
      BY <3>2
    <3> QED BY <2>1, <3>2, <3>3, <3>4 DEF InStep
  <2>4. /\ (3 * Len(moves) - Len(queue["mouse"]) - Held) % 3 = Len(packet)
        /\ (3 * Len(moves) - Len(queue["mouse"]) - Held) \div 3 = d
    <3>1. PICK part \in Nat, held \in Nat, queued \in Nat, made \in Nat :
            /\ part = Len(packet) /\ held = Held
            /\ queued = Len(queue["mouse"]) /\ made = Len(moves)
      BY <2>2
    <3>2. Balance(d, part, held, queued, made) /\ part <= 2
      BY <2>2, <3>1
    <3>3. (3 * made - queued - held) % 3 = part /\ (3 * made - queued - held) \div 3 = d
      <4>1. d \in Nat
        BY <2>2
      <4>2. 3 * made - queued - held = 3 * d + part
        BY <3>2, <4>1 DEF Balance
      <4>3. \A e \in Nat : (3 * e + part) % 3 = part /\ (3 * e + part) \div 3 = e
        BY <3>2
      <4> QED BY <4>1, <4>2, <4>3
    <3> QED BY <3>1, <3>3
  <2>5. <<x, y>> = Walk(d)
    BY <2>1, WalkIsLed DEF InStep
  <2> QED BY <2>4, <2>5
<1> QED BY <1>1, <1>2, <1>3, KeyInvariance, PTL DEF Spec

-----------------------------------------------------------------------------
(* The lines of the handler                                                 *)

Dots == [x : Int, y : Int]
Pens == [x : Int, y : Int, err : Int]

\* One step of draw_line_quick.
Onward(p, dx, dy, sx, sy) ==
  [x |-> IF Advance(p, dx, dy).x THEN p.x + sx ELSE p.x,
   y |-> IF Advance(p, dx, dy).y THEN p.y + sy ELSE p.y,
   err |-> p.err - (IF Advance(p, dx, dy).x THEN dy ELSE 0)
                 + (IF Advance(p, dx, dy).y THEN dx ELSE 0)]

Sign(a, b) == IF a < b THEN 1 ELSE -1

\* f runs from a towards b.
Runs(f, a, b) ==
  LET dx == Distance(a.x, b.x)
      dy == Distance(a.y, b.y)
  IN /\ f \in [0..dx + dy -> Pens]
     /\ f[0] = [x |-> a.x, y |-> a.y, err |-> dx - dy]
     /\ \A n \in 1..dx + dy : f[n] = Onward(f[n - 1], dx, dy, Sign(a.x, b.x), Sign(a.y, b.y))

\* What draw_line_quick makes of the points it runs through.
Drawn(f, a, b) ==
  LET all == Distance(a.x, b.x) + Distance(a.y, b.y)
      ends == {n \in 0..all : f[n].x = b.x /\ f[n].y = b.y}
      count == IF ends = {} THEN all ELSE CHOOSE n \in ends : \A m \in ends : n <= m
  IN [n \in 1..count + 1 |-> [x |-> f[n - 1].x, y |-> f[n - 1].y]]

\* The distances are numbers.
LEMMA Distances ==
  ASSUME NEW a \in Int, NEW b \in Int
  PROVE  Distance(a, b) \in Nat /\ Sign(a, b) \in {1, -1} /\ a + Sign(a, b) * Distance(a, b) = b
BY DEF Distance, Sign

\* A step leads from a point to a point.
LEMMA OnwardIsPen ==
  ASSUME NEW p \in Pens, NEW dx \in Nat, NEW dy \in Nat, NEW sx \in Int, NEW sy \in Int
  PROVE  Onward(p, dx, dy, sx, sy) \in Pens
<1>1. p.x \in Int /\ p.y \in Int /\ p.err \in Int
  BY DEF Pens
<1>2. p.x + sx \in Int /\ p.y + sy \in Int
  BY <1>1
<1> DEFINE go == Advance(p, dx, dy)
<1>3. p.err - (IF go.x THEN dy ELSE 0) + (IF go.y THEN dx ELSE 0) \in Int
  <2>1. (IF go.x THEN dy ELSE 0) \in Int /\ (IF go.y THEN dx ELSE 0) \in Int
    OBVIOUS
  <2>2. \A b, c \in Int : p.err - b + c \in Int
    BY <1>1
  <2> HIDE DEF go
  <2> QED BY <2>1, <2>2
<1> HIDE DEF go
<1> QED BY <1>1, <1>2, <1>3 DEF Onward, Pens, go

\* draw_line_quick draws the points of such a run.
LEMMA DrawsARun ==
  ASSUME NEW a \in Dots, NEW b \in Dots
  PROVE  \E f : Runs(f, a, b) /\ draw_line_quick(a, b) = Drawn(f, a, b)
<1> DEFINE dx == Distance(a.x, b.x)
           dy == Distance(a.y, b.y)
           sx == Sign(a.x, b.x)
           sy == Sign(a.y, b.y)
           base == [x |-> a.x, y |-> a.y, err |-> dx - dy]
           turn == [q \in (1..dx + dy) \X Pens |-> Onward(q[2], dx, dy, sx, sy)]
           Is(f) == f = [n \in 0..dx + dy |->
                           IF n = 0 THEN base ELSE Onward(f[n - 1], dx, dy, sx, sy)]
           run == CHOOSE f : Is(f)
<1>1. a.x \in Int /\ a.y \in Int /\ b.x \in Int /\ b.y \in Int
  BY DEF Dots
<1>2. dx \in Nat /\ dy \in Nat /\ sx \in Int /\ sy \in Int
  <2>1. dx \in Nat /\ dy \in Nat /\ sx \in {1, -1} /\ sy \in {1, -1}
    BY <1>1, Distances
  <2> HIDE DEF dx, dy, sx, sy
  <2> QED BY <2>1
<1>3. draw_line_quick(a, b) = Drawn(run, a, b)
  BY DEF draw_line_quick, Drawn, Onward, Sign
<1> HIDE DEF dx, dy, sx, sy
<1>4. dx + dy \in Nat /\ base \in Pens /\ turn \in [(1..dx + dy) \X Pens -> Pens]
  BY <1>1, <1>2, OnwardIsPen DEF Pens
<1>5. PICK f \in [0..dx + dy -> Pens] : Unfolds(f, dx + dy, base, turn)
  <2>1. dx + dy \in 0..dx + dy
    BY <1>4
  <2> HIDE DEF base, turn
  <2> QED BY <1>4, <2>1, UnfoldExists
<1>6. \A v \in Pens : Onward(v, dx, dy, sx, sy) \in Pens
  BY <1>2, OnwardIsPen
<1>7. Is(f)
  <2>1. ASSUME NEW n \in 0..dx + dy
        PROVE  f[n] = IF n = 0 THEN base ELSE Onward(f[n - 1], dx, dy, sx, sy)
    <3>1. f[n] = IF n = 0 THEN base ELSE turn[<<n, f[n - 1]>>]
      <4> HIDE DEF base, turn
      <4> QED BY <1>5 DEF Unfolds
    <3>2. n # 0 => f[n - 1] \in Pens /\ n \in 1..dx + dy
      BY <1>4
    <3> HIDE DEF base
    <3> QED BY <3>1, <3>2
  <2> HIDE DEF base
  <2> QED BY <2>1
<1>8. Is(run)
  <2> HIDE DEF Is
  <2> QED BY <1>7
<1> HIDE DEF run
<1>9. ASSUME NEW n \in 0..dx + dy
      PROVE  run[n] = IF n = 0 THEN base ELSE Onward(run[n - 1], dx, dy, sx, sy)
  BY <1>8
<1> DEFINE S == {n \in Nat : n <= dx + dy => run[n] \in Pens}
<1>10. 0 \in S
  <2>1. 0 \in 0..dx + dy
    BY <1>4
  <2> HIDE DEF base
  <2> QED BY <1>4, <1>9, <2>1
<1>11. ASSUME NEW n \in Nat, n \in S PROVE n + 1 \in S
  <2> SUFFICES ASSUME n + 1 <= dx + dy PROVE run[n + 1] \in Pens
    OBVIOUS
  <2>1. run[n] \in Pens /\ n + 1 \in 0..dx + dy /\ n + 1 - 1 = n /\ n + 1 # 0
    BY <1>2, <1>11
  <2>2. run[n + 1] = Onward(run[n], dx, dy, sx, sy)
    <3> HIDE DEF base
    <3> QED BY <1>9, <2>1
  <2> QED BY <1>6, <2>1, <2>2
<1> HIDE DEF S
<1>12. Nat \subseteq S
  BY <1>10, <1>11, NumberInduction
<1>13. \A n \in 0..dx + dy : run[n] \in Pens
  <2>1. \A n \in 0..dx + dy : n \in S /\ n <= dx + dy
    BY <1>2, <1>12
  <2> QED BY <2>1 DEF S
<1>14. run \in [0..dx + dy -> Pens]
  BY <1>8, <1>13
<1>15. run[0] = base /\ \A n \in 1..dx + dy : run[n] = Onward(run[n - 1], dx, dy, sx, sy)
  <2>1. 0 \in 0..dx + dy /\ \A n \in 1..dx + dy : n \in 0..dx + dy /\ n # 0
    BY <1>2
  <2> HIDE DEF base
  <2> QED BY <1>9, <2>1
<1>16. Runs(run, a, b)
  BY <1>14, <1>15 DEF Runs, dx, dy, sx, sy
<1> QED BY <1>3, <1>16

\* The error after some steps along the longer axis: twice the error stays
\* within the longer distance, and the shorter axis is followed when it would not.
InHalf(E, long, short) == /\ E \in Int /\ -long < 2 * E /\ 2 * E <= long
                          /\ long = short => E = 0

\* The error of a line after one more step along its longer side, corrected when
\* it passes half.
LEMMA ErrorStep ==
  ASSUME NEW long \in Nat \ {0}, NEW short \in Nat, short <= long, NEW E, InHalf(E, long, short)
  PROVE  /\ 2 * (E + short) > long => InHalf(E + short - long, long, short)
         /\ ~(2 * (E + short) > long) => InHalf(E + short, long, short)
         /\ 2 * E < 2 * long - short
BY DEF InHalf

\* After n steps along the longer axis and k along the shorter one: where the
\* run is, and what err holds.
FlatAt(p, n, k, E, a, dx, dy, sx, sy) ==
  /\ k \in Int /\ E = n * dy - k * dx /\ InHalf(E, dx, dy)
  /\ p.x = a.x + sx * n /\ p.y = a.y + sy * k /\ p.err = dx - dy - E

SteepAt(p, n, k, E, a, dx, dy, sx, sy) ==
  /\ k \in Int /\ E = n * dx - k * dy /\ InHalf(E, dy, dx)
  /\ p.y = a.y + sy * n /\ p.x = a.x + sx * k /\ p.err = dx - dy + E

\* Products of the next numbers.
LEMMA NextProduct ==
  \A n, k, d, e \in Int : /\ (n + 1) * d = n * d + d
                          /\ (n + 1) * d - (k + 1) * e = (n * d - k * e) + d - e
                          /\ (n + 1) * d - k * e = (n * d - k * e) + d
OBVIOUS

\* A step of a run that is wider than high.
LEMMA FlatStep ==
  ASSUME NEW a \in Dots, NEW dx \in Nat \ {0}, NEW dy \in Nat, dy <= dx,
         NEW sx \in Int, NEW sy \in Int, NEW p \in Pens, NEW n \in Nat, NEW k \in Int, NEW E \in Int,
         FlatAt(p, n, k, E, a, dx, dy, sx, sy)
  PROVE  LET q == Onward(p, dx, dy, sx, sy)
         IN \/ FlatAt(q, n + 1, k, E + dy, a, dx, dy, sx, sy)
            \/ FlatAt(q, n + 1, k + 1, E + dy - dx, a, dx, dy, sx, sy)
<1> DEFINE q == Onward(p, dx, dy, sx, sy)
<1>1. a.x \in Int /\ a.y \in Int /\ p.x \in Int /\ p.y \in Int /\ p.err \in Int
  BY DEF Dots, Pens
<1>2. /\ E = n * dy - k * dx /\ InHalf(E, dx, dy)
      /\ p.x = a.x + sx * n /\ p.y = a.y + sy * k /\ p.err = dx - dy - E
  BY DEF FlatAt
<1>3. /\ 2 * (E + dy) > dx => InHalf(E + dy - dx, dx, dy)
      /\ ~(2 * (E + dy) > dx) => InHalf(E + dy, dx, dy)
      /\ 2 * E < 2 * dx - dy
  BY <1>2, ErrorStep
<1>4. 2 * p.err > -dy
  BY <1>1, <1>2, <1>3
<1>5. 2 * p.err < dx <=> 2 * (E + dy) > dx
  BY <1>1, <1>2
<1>6. /\ q.x = p.x + sx
      /\ q.y = IF 2 * (E + dy) > dx THEN p.y + sy ELSE p.y
      /\ q.err = p.err - dy + (IF 2 * (E + dy) > dx THEN dx ELSE 0)
  BY <1>4, <1>5 DEF Onward, Advance
<1> HIDE DEF q
<1>7. /\ sx * (n + 1) = sx * n + sx /\ sy * (k + 1) = sy * k + sy
      /\ (n + 1) * dy - (k + 1) * dx = (n * dy - k * dx) + dy - dx
      /\ (n + 1) * dy - k * dx = (n * dy - k * dx) + dy
      /\ sx * n \in Int /\ sy * k \in Int
  BY NextProduct
<1>8. CASE 2 * (E + dy) > dx
  <2>1. q.x = a.x + sx * (n + 1) /\ q.y = a.y + sy * (k + 1)
    BY <1>1, <1>2, <1>6, <1>7, <1>8
  <2>2. q.err = dx - dy - (E + dy - dx)
    BY <1>1, <1>2, <1>6, <1>8
  <2>3. E + dy - dx = (n + 1) * dy - (k + 1) * dx
    BY <1>2, <1>7
  <2> QED BY <1>3, <1>8, <2>1, <2>2, <2>3 DEF FlatAt, q
<1>9. CASE ~(2 * (E + dy) > dx)
  <2>1. q.x = a.x + sx * (n + 1) /\ q.y = a.y + sy * k
    BY <1>1, <1>2, <1>6, <1>7, <1>9
  <2>2. q.err = dx - dy - (E + dy)
    BY <1>1, <1>2, <1>6, <1>9
  <2>3. E + dy = (n + 1) * dy - k * dx
    BY <1>2, <1>7
  <2> QED BY <1>3, <1>9, <2>1, <2>2, <2>3 DEF FlatAt, q
<1> QED BY <1>8, <1>9

\* A step of a run that is higher than wide.
LEMMA SteepStep ==
  ASSUME NEW a \in Dots, NEW dx \in Nat, NEW dy \in Nat \ {0}, dx < dy,
         NEW sx \in Int, NEW sy \in Int, NEW p \in Pens, NEW n \in Nat, NEW k \in Int, NEW E \in Int,
         SteepAt(p, n, k, E, a, dx, dy, sx, sy)
  PROVE  LET q == Onward(p, dx, dy, sx, sy)
         IN \/ SteepAt(q, n + 1, k, E + dx, a, dx, dy, sx, sy)
            \/ SteepAt(q, n + 1, k + 1, E + dx - dy, a, dx, dy, sx, sy)
<1> DEFINE q == Onward(p, dx, dy, sx, sy)
<1>1. a.x \in Int /\ a.y \in Int /\ p.x \in Int /\ p.y \in Int /\ p.err \in Int
  BY DEF Dots, Pens
<1>2. /\ E = n * dx - k * dy /\ InHalf(E, dy, dx)
      /\ p.y = a.y + sy * n /\ p.x = a.x + sx * k /\ p.err = dx - dy + E
  BY DEF SteepAt
<1>3. /\ 2 * (E + dx) > dy => InHalf(E + dx - dy, dy, dx)
      /\ ~(2 * (E + dx) > dy) => InHalf(E + dx, dy, dx)
      /\ 2 * E < 2 * dy - dx
  BY <1>2, ErrorStep
<1>4. 2 * p.err < dx
  BY <1>1, <1>2, <1>3
<1>5. 2 * p.err > -dy <=> 2 * (E + dx) > dy
  BY <1>1, <1>2
<1>6. /\ q.y = p.y + sy
      /\ q.x = IF 2 * (E + dx) > dy THEN p.x + sx ELSE p.x
      /\ q.err = p.err - (IF 2 * (E + dx) > dy THEN dy ELSE 0) + dx
  BY <1>4, <1>5 DEF Onward, Advance
<1> HIDE DEF q
<1>7. /\ sy * (n + 1) = sy * n + sy /\ sx * (k + 1) = sx * k + sx
      /\ (n + 1) * dx - (k + 1) * dy = (n * dx - k * dy) + dx - dy
      /\ (n + 1) * dx - k * dy = (n * dx - k * dy) + dx
      /\ sy * n \in Int /\ sx * k \in Int
  BY NextProduct
<1>8. CASE 2 * (E + dx) > dy
  <2>1. q.y = a.y + sy * (n + 1) /\ q.x = a.x + sx * (k + 1)
    BY <1>1, <1>2, <1>6, <1>7, <1>8
  <2>2. q.err = dx - dy + (E + dx - dy)
    BY <1>1, <1>2, <1>6, <1>8
  <2>3. E + dx - dy = (n + 1) * dx - (k + 1) * dy
    BY <1>2, <1>7
  <2> QED BY <1>3, <1>8, <2>1, <2>2, <2>3 DEF SteepAt, q
<1>9. CASE ~(2 * (E + dx) > dy)
  <2>1. q.y = a.y + sy * (n + 1) /\ q.x = a.x + sx * k
    BY <1>1, <1>2, <1>6, <1>7, <1>9
  <2>2. q.err = dx - dy + (E + dx)
    BY <1>1, <1>2, <1>6, <1>9
  <2>3. E + dx = (n + 1) * dx - k * dy
    BY <1>2, <1>7
  <2> QED BY <1>3, <1>9, <2>1, <2>2, <2>3 DEF SteepAt, q
<1> QED BY <1>8, <1>9

\* What LineIsStraight says of the points ps of a line from a to b.
Straight(ps, a, b) ==
  LET DX == b.x - a.x
      DY == b.y - a.y
      longest == Larger(Distance(DX, 0), Distance(DY, 0))
  IN /\ ps[1] = a /\ ps[Len(ps)] = b /\ Len(ps) = longest + 1
     /\ \A n \in 1..Len(ps) - 1 : /\ Distance(ps[n].x, ps[n + 1].x) <= 1
                                  /\ Distance(ps[n].y, ps[n + 1].y) <= 1
     /\ \A n \in DOMAIN ps :
          2 * Distance((ps[n].x - a.x) * DY, (ps[n].y - a.y) * DX) <= longest

\* The line between two points, seen from its middle.
OffBy(p, a, b) == Distance((p.x - a.x) * (b.y - a.y), (p.y - a.y) * (b.x - a.x))

\* A run that reaches b after the longer of the two distances and not before,
\* never more than half a pixel away, is a straight line.
LEMMA StraightRun ==
  ASSUME NEW a \in Dots, NEW b \in Dots, NEW f, Runs(f, a, b), NEW c \in Nat,
         c = Larger(Distance(a.x, b.x), Distance(a.y, b.y)),
         f[c].x = b.x, f[c].y = b.y, \A n \in 0..c - 1 : ~(f[n].x = b.x /\ f[n].y = b.y),
         \A n \in 0..c : 2 * OffBy(f[n], a, b) <= c
  PROVE  Straight(Drawn(f, a, b), a, b)
<1> DEFINE dx == Distance(a.x, b.x)
           dy == Distance(a.y, b.y)
           sx == Sign(a.x, b.x)
           sy == Sign(a.y, b.y)
           ends == {n \in 0..dx + dy : f[n].x = b.x /\ f[n].y = b.y}
           ps == [n \in 1..c + 1 |-> [x |-> f[n - 1].x, y |-> f[n - 1].y]]
<1>1. a.x \in Int /\ a.y \in Int /\ b.x \in Int /\ b.y \in Int
      /\ a = [x |-> a.x, y |-> a.y] /\ b = [x |-> b.x, y |-> b.y]
  BY DEF Dots
<1>2. dx \in Nat /\ dy \in Nat /\ sx \in {1, -1} /\ sy \in {1, -1}
  BY <1>1, Distances
<1>3. /\ f \in [0..dx + dy -> Pens] /\ f[0] = [x |-> a.x, y |-> a.y, err |-> dx - dy]
      /\ \A n \in 1..dx + dy : f[n] = Onward(f[n - 1], dx, dy, sx, sy)
  BY DEF Runs
<1>4. c \in 0..dx + dy /\ c = Larger(dx, dy)
  <2> HIDE DEF dx, dy
  <2>1. c = Larger(dx, dy)
    BY DEF dx, dy
  <2> QED BY <1>2, <2>1 DEF Larger
<1>5. Drawn(f, a, b) = ps
  <2>1. c \in ends /\ \A m \in ends : c <= m
    <3>1. c \in ends
      BY <1>4
    <3>2. ASSUME NEW m \in ends PROVE c <= m
      <4>1. m \in Nat /\ f[m].x = b.x /\ f[m].y = b.y
        BY <1>2
      <4>2. m \notin 0..c - 1
        BY <4>1
      <4> QED BY <4>1, <4>2
    <3> QED BY <3>1, <3>2
  <2>2. (CHOOSE n \in ends : \A m \in ends : n <= m) = c
    <3>1. \A n \in ends : n \in Nat
      BY <1>2
    <3> HIDE DEF ends
    <3>2. \A n \in ends : (\A m \in ends : n <= m) => n = c
      BY <2>1, <3>1
    <3> QED BY <2>1, <3>2
  <2>3. ends # {}
    BY <2>1
  <2> QED BY <2>2, <2>3 DEF Drawn
<1> HIDE DEF dx, dy, sx, sy, ends
<1>6. /\ Len(ps) = c + 1 /\ DOMAIN ps = 1..c + 1
      /\ \A n \in 1..c + 1 : ps[n] = [x |-> f[n - 1].x, y |-> f[n - 1].y]
  OBVIOUS
<1> HIDE DEF ps
<1>7. ps[1] = a
  <2>1. 1 \in 1..c + 1 /\ 1 - 1 = 0
    OBVIOUS
  <2> QED BY <1>1, <1>3, <1>6, <2>1
<1>8. ps[Len(ps)] = b
  <2>1. c + 1 \in 1..c + 1 /\ c + 1 - 1 = c
    OBVIOUS
  <2> QED BY <1>1, <1>6, <2>1
<1>9. Larger(Distance(b.x - a.x, 0), Distance(b.y - a.y, 0)) = c
  <2>1. \A v, w \in Int : Distance(w - v, 0) = Distance(v, w)
    BY DEF Distance
  <2> QED BY <1>1, <1>4, <2>1 DEF dx, dy
<1>10. ASSUME NEW n \in 1..Len(ps) - 1
       PROVE  Distance(ps[n].x, ps[n + 1].x) <= 1 /\ Distance(ps[n].y, ps[n + 1].y) <= 1
  <2>1. /\ n \in 1..dx + dy /\ n - 1 \in 0..dx + dy /\ n \in 1..c + 1 /\ n + 1 \in 1..c + 1
        /\ n + 1 - 1 = n
    BY <1>2, <1>4, <1>6
  <2>2. PICK p : p = f[n - 1] /\ p \in Pens
    BY <1>3, <2>1
  <2>3. p.x \in Int /\ p.y \in Int
    BY <2>2 DEF Pens
  <2>4. f[n] = Onward(p, dx, dy, sx, sy)
    BY <1>3, <2>1, <2>2
  <2>5. f[n].x \in {p.x, p.x + sx} /\ f[n].y \in {p.y, p.y + sy}
    BY <2>4 DEF Onward
  <2>6. /\ ps[n].x = p.x /\ ps[n].y = p.y /\ ps[n + 1].x = f[n].x /\ ps[n + 1].y = f[n].y
    BY <1>6, <2>1, <2>2
  <2>7. \A v \in Int, s \in {1, -1} : Distance(v, v) <= 1 /\ Distance(v, v + s) <= 1
    BY DEF Distance
  <2> QED BY <1>2, <2>3, <2>5, <2>6, <2>7
<1>11. ASSUME NEW n \in 1..c + 1
       PROVE  2 * Distance((ps[n].x - a.x) * (b.y - a.y), (ps[n].y - a.y) * (b.x - a.x)) <= c
  <2>1. n - 1 \in 0..c /\ ps[n].x = f[n - 1].x /\ ps[n].y = f[n - 1].y
    BY <1>6
  <2>2. 2 * OffBy(f[n - 1], a, b) <= c
    BY <2>1
  <2> QED BY <2>1, <2>2 DEF OffBy
<1> QED BY <1>5, <1>6, <1>7, <1>8, <1>9, <1>10, <1>11 DEF Straight

\* A run that is off by E steps is off by as much in any direction.
LEMMA OffByError ==
  ASSUME NEW p, NEW a \in Dots, NEW b \in Dots, NEW dx \in Int, NEW dy \in Int,
         NEW sx \in {1, -1}, NEW sy \in {1, -1}, NEW i \in Int, NEW j \in Int, NEW E \in Int,
         E = i * dy - j * dx \/ -E = i * dy - j * dx,
         b.x = a.x + sx * dx, b.y = a.y + sy * dy, p.x = a.x + sx * i, p.y = a.y + sy * j,
         NEW c \in Nat, -c <= 2 * E, 2 * E <= c
  PROVE  2 * OffBy(p, a, b) <= c
<1>1. a.x \in Int /\ a.y \in Int
  BY DEF Dots
<1>2. /\ b.x - a.x = sx * dx /\ b.y - a.y = sy * dy
      /\ p.x - a.x = sx * i /\ p.y - a.y = sy * j
  <2>1. \A v, w \in Int : v + w - v = w
    OBVIOUS
  <2>2. sx * dx \in Int /\ sy * dy \in Int /\ sx * i \in Int /\ sy * j \in Int
    OBVIOUS
  <2> QED BY <1>1, <2>1, <2>2
<1>3. OffBy(p, a, b) = Distance((sx * i) * (sy * dy), (sy * j) * (sx * dx))
  BY <1>2 DEF OffBy
<1>4. PICK u \in Int, v \in Int : u = i * dy /\ v = j * dx
  OBVIOUS
<1>5. \/ (sx * i) * (sy * dy) = u /\ (sy * j) * (sx * dx) = v
      \/ (sx * i) * (sy * dy) = -u /\ (sy * j) * (sx * dx) = -v
  BY <1>4
<1>6. 2 * Distance(u, v) <= c /\ 2 * Distance(-u, -v) <= c
  BY <1>4 DEF Distance
<1> QED BY <1>3, <1>5, <1>6

\* A multiple of a number that is within half of it is zero.
LEMMA LessThanHalf ==
  ASSUME NEW l \in Nat \ {0}, NEW s \in Int, NEW m \in Int, NEW E,
         E = l * s - m * l, -l < 2 * E, 2 * E <= l
  PROVE  m = s
<1>1. l * s - m * l = l * (s - m)
  OBVIOUS
<1>2. PICK w \in Int : w = s - m
  OBVIOUS
<1>3. w >= 1 => l * w >= l
  OBVIOUS
<1>4. w <= -1 => l * w <= -l
  OBVIOUS
<1>5. -l < 2 * (l * w) /\ 2 * (l * w) <= l /\ l * w \in Int
  BY <1>1, <1>2
<1>6. ~(w >= 1) /\ ~(w <= -1)
  BY <1>3, <1>4, <1>5
<1> QED BY <1>2, <1>6

\* A run that is at least as wide as high is a straight line.
LEMMA FlatLine ==
  ASSUME NEW a \in Dots, NEW b \in Dots, NEW f, Runs(f, a, b),
         Distance(a.y, b.y) <= Distance(a.x, b.x), Distance(a.x, b.x) # 0
  PROVE  Straight(Drawn(f, a, b), a, b)
<1> DEFINE dx == Distance(a.x, b.x)
           dy == Distance(a.y, b.y)
           sx == Sign(a.x, b.x)
           sy == Sign(a.y, b.y)
           Tracks(n) == \E k \in Int, E \in Int : FlatAt(f[n], n, k, E, a, dx, dy, sx, sy)
<1>1. a.x \in Int /\ a.y \in Int /\ b.x \in Int /\ b.y \in Int
  BY DEF Dots
<1>2. /\ dx \in Nat /\ dy \in Nat /\ sx \in {1, -1} /\ sy \in {1, -1}
      /\ b.x = a.x + sx * dx /\ b.y = a.y + sy * dy
  BY <1>1, Distances
<1>3. /\ f \in [0..dx + dy -> Pens] /\ f[0] = [x |-> a.x, y |-> a.y, err |-> dx - dy]
      /\ \A n \in 1..dx + dy : f[n] = Onward(f[n - 1], dx, dy, sx, sy)
  BY DEF Runs
<1>4. dy <= dx /\ dx # 0 /\ dx = Larger(dx, dy)
  <2>1. dy <= dx /\ dx # 0
    OBVIOUS
  <2> HIDE DEF dx, dy
  <2> QED BY <1>2, <2>1 DEF Larger
<1> HIDE DEF dx, dy, sx, sy
<1>5. sx \in Int /\ sy \in Int /\ dx \in Nat \ {0} /\ dx \in 0..dx + dy
  BY <1>2, <1>4
<1> DEFINE T == {n \in Nat : n <= dx => Tracks(n)}
<1>6. 0 \in T
  <2>1. InHalf(0, dx, dy)
    BY <1>2, <1>4 DEF InHalf
  <2>2. 0 = 0 * dy - 0 * dx /\ a.x = a.x + sx * 0 /\ a.y = a.y + sy * 0 /\ dx - dy = dx - dy - 0
    BY <1>1, <1>2, <1>5
  <2>3. f[0].x = a.x /\ f[0].y = a.y /\ f[0].err = dx - dy
    BY <1>3
  <2>4. FlatAt(f[0], 0, 0, 0, a, dx, dy, sx, sy)
    BY <2>1, <2>2, <2>3 DEF FlatAt
  <2> QED BY <2>4
<1>7. ASSUME NEW n \in Nat, n \in T PROVE n + 1 \in T
  <2> SUFFICES ASSUME n + 1 <= dx PROVE Tracks(n + 1)
    OBVIOUS
  <2>1. n <= dx /\ n + 1 \in 1..dx + dy /\ n \in 0..dx + dy /\ n + 1 - 1 = n
    BY <1>2, <1>5
  <2>2. PICK k \in Int, E \in Int : FlatAt(f[n], n, k, E, a, dx, dy, sx, sy)
    BY <1>7, <2>1
  <2>3. PICK p \in Pens : p = f[n] /\ f[n + 1] = Onward(p, dx, dy, sx, sy)
    BY <1>3, <2>1
  <2>4. FlatAt(p, n, k, E, a, dx, dy, sx, sy)
    BY <2>2, <2>3
  <2>5. \/ FlatAt(f[n + 1], n + 1, k, E + dy, a, dx, dy, sx, sy)
        \/ FlatAt(f[n + 1], n + 1, k + 1, E + dy - dx, a, dx, dy, sx, sy)
    BY <1>2, <1>4, <1>5, <2>3, <2>4, FlatStep
  <2>6. k + 1 \in Int /\ E + dy \in Int /\ E + dy - dx \in Int
    BY <1>2
  <2> QED BY <2>5, <2>6
<1> HIDE DEF T
<1>8. Nat \subseteq T
  BY <1>6, <1>7, NumberInduction
<1>9. ASSUME NEW n \in 0..dx PROVE Tracks(n)
  <2>1. n \in T /\ n <= dx /\ n \in Nat
    BY <1>5, <1>8
  <2> QED BY <2>1 DEF T
<1>10. f[dx].x = b.x /\ f[dx].y = b.y
  <2>1. dx \in 0..dx
    BY <1>5
  <2>2. PICK k \in Int, E \in Int : FlatAt(f[dx], dx, k, E, a, dx, dy, sx, sy)
    BY <1>9, <2>1
  <2>3. /\ E = dx * dy - k * dx /\ -dx < 2 * E /\ 2 * E <= dx
        /\ f[dx].x = a.x + sx * dx /\ f[dx].y = a.y + sy * k
    BY <2>2 DEF FlatAt, InHalf
  <2>4. k = dy
    BY <1>2, <1>5, <2>3, LessThanHalf
  <2> QED BY <1>2, <2>3, <2>4
<1>11. ASSUME NEW n \in 0..dx - 1 PROVE ~(f[n].x = b.x /\ f[n].y = b.y)
  <2>1. n \in 0..dx /\ n \in Int /\ n < dx
    BY <1>5
  <2>2. PICK k \in Int, E \in Int : FlatAt(f[n], n, k, E, a, dx, dy, sx, sy)
    BY <1>9, <2>1
  <2>3. f[n].x = a.x + sx * n
    BY <2>2 DEF FlatAt
  <2>4. sx * n # sx * dx /\ sx * n \in Int /\ sx * dx \in Int
    BY <1>2, <1>5, <2>1
  <2> QED BY <1>1, <1>2, <2>3, <2>4
<1>12. ASSUME NEW n \in 0..dx PROVE 2 * OffBy(f[n], a, b) <= dx
  <2>1. PICK k \in Int, E \in Int : FlatAt(f[n], n, k, E, a, dx, dy, sx, sy)
    BY <1>9
  <2>2. /\ E = n * dy - k * dx /\ -dx <= 2 * E /\ 2 * E <= dx
        /\ f[n].x = a.x + sx * n /\ f[n].y = a.y + sy * k
    BY <1>5, <2>1 DEF FlatAt, InHalf
  <2>3. n \in Int /\ dx \in Int /\ dy \in Int /\ dx \in Nat
    BY <1>2, <1>5
  <2>4. E = n * dy - k * dx \/ -E = n * dy - k * dx
    BY <2>2, <2>3
  <2> QED BY <1>2, <2>2, <2>3, <2>4, OffByError
<1> QED BY <1>4, <1>5, <1>10, <1>11, <1>12, StraightRun DEF dx, dy

\* A run that is higher than wide is a straight line.
LEMMA SteepLine ==
  ASSUME NEW a \in Dots, NEW b \in Dots, NEW f, Runs(f, a, b),
         Distance(a.x, b.x) < Distance(a.y, b.y)
  PROVE  Straight(Drawn(f, a, b), a, b)
<1> DEFINE dx == Distance(a.x, b.x)
           dy == Distance(a.y, b.y)
           sx == Sign(a.x, b.x)
           sy == Sign(a.y, b.y)
           Tracks(n) == \E k \in Int, E \in Int : SteepAt(f[n], n, k, E, a, dx, dy, sx, sy)
<1>1. a.x \in Int /\ a.y \in Int /\ b.x \in Int /\ b.y \in Int
  BY DEF Dots
<1>2. /\ dx \in Nat /\ dy \in Nat /\ sx \in {1, -1} /\ sy \in {1, -1}
      /\ b.x = a.x + sx * dx /\ b.y = a.y + sy * dy
  BY <1>1, Distances
<1>3. /\ f \in [0..dx + dy -> Pens] /\ f[0] = [x |-> a.x, y |-> a.y, err |-> dx - dy]
      /\ \A n \in 1..dx + dy : f[n] = Onward(f[n - 1], dx, dy, sx, sy)
  BY DEF Runs
<1>4. dx <= dy /\ dy # 0 /\ dy = Larger(dx, dy) /\ dx < dy
  <2>1. dx < dy
    OBVIOUS
  <2> HIDE DEF dx, dy
  <2> QED BY <1>2, <2>1 DEF Larger
<1> HIDE DEF dx, dy, sx, sy
<1>5. sx \in Int /\ sy \in Int /\ dy \in Nat \ {0} /\ dy \in 0..dx + dy
  BY <1>2, <1>4
<1> DEFINE T == {n \in Nat : n <= dy => Tracks(n)}
<1>6. 0 \in T
  <2>1. InHalf(0, dy, dx)
    BY <1>2, <1>4 DEF InHalf
  <2>2. 0 = 0 * dx - 0 * dy /\ a.x = a.x + sx * 0 /\ a.y = a.y + sy * 0 /\ dx - dy = dx - dy + 0
    BY <1>1, <1>2, <1>5
  <2>3. f[0].x = a.x /\ f[0].y = a.y /\ f[0].err = dx - dy
    BY <1>3
  <2>4. SteepAt(f[0], 0, 0, 0, a, dx, dy, sx, sy)
    BY <2>1, <2>2, <2>3 DEF SteepAt
  <2> QED BY <2>4
<1>7. ASSUME NEW n \in Nat, n \in T PROVE n + 1 \in T
  <2> SUFFICES ASSUME n + 1 <= dy PROVE Tracks(n + 1)
    OBVIOUS
  <2>1. n <= dy /\ n + 1 \in 1..dx + dy /\ n \in 0..dx + dy /\ n + 1 - 1 = n
    BY <1>2, <1>5
  <2>2. PICK k \in Int, E \in Int : SteepAt(f[n], n, k, E, a, dx, dy, sx, sy)
    BY <1>7, <2>1
  <2>3. PICK p \in Pens : p = f[n] /\ f[n + 1] = Onward(p, dx, dy, sx, sy)
    BY <1>3, <2>1
  <2>4. SteepAt(p, n, k, E, a, dx, dy, sx, sy)
    BY <2>2, <2>3
  <2>5. \/ SteepAt(f[n + 1], n + 1, k, E + dx, a, dx, dy, sx, sy)
        \/ SteepAt(f[n + 1], n + 1, k + 1, E + dx - dy, a, dx, dy, sx, sy)
    BY <1>2, <1>4, <1>5, <2>3, <2>4, SteepStep
  <2>6. k + 1 \in Int /\ E + dx \in Int /\ E + dx - dy \in Int
    BY <1>2
  <2> QED BY <2>5, <2>6
<1> HIDE DEF T
<1>8. Nat \subseteq T
  BY <1>6, <1>7, NumberInduction
<1>9. ASSUME NEW n \in 0..dy PROVE Tracks(n)
  <2>1. n \in T /\ n <= dy /\ n \in Nat
    BY <1>5, <1>8
  <2> QED BY <2>1 DEF T
<1>10. f[dy].y = b.y /\ f[dy].x = b.x
  <2>1. dy \in 0..dy
    BY <1>5
  <2>2. PICK k \in Int, E \in Int : SteepAt(f[dy], dy, k, E, a, dx, dy, sx, sy)
    BY <1>9, <2>1
  <2>3. /\ E = dy * dx - k * dy /\ -dy < 2 * E /\ 2 * E <= dy
        /\ f[dy].y = a.y + sy * dy /\ f[dy].x = a.x + sx * k
    BY <2>2 DEF SteepAt, InHalf
  <2>4. k = dx
    BY <1>2, <1>5, <2>3, LessThanHalf
  <2> QED BY <1>2, <2>3, <2>4
<1>11. ASSUME NEW n \in 0..dy - 1 PROVE ~(f[n].x = b.x /\ f[n].y = b.y)
  <2>1. n \in 0..dy /\ n \in Int /\ n < dy
    BY <1>5
  <2>2. PICK k \in Int, E \in Int : SteepAt(f[n], n, k, E, a, dx, dy, sx, sy)
    BY <1>9, <2>1
  <2>3. f[n].y = a.y + sy * n
    BY <2>2 DEF SteepAt
  <2>4. sy * n # sy * dy /\ sy * n \in Int /\ sy * dy \in Int
    BY <1>2, <1>5, <2>1
  <2> QED BY <1>1, <1>2, <2>3, <2>4
<1>12. ASSUME NEW n \in 0..dy PROVE 2 * OffBy(f[n], a, b) <= dy
  <2>1. PICK k \in Int, E \in Int : SteepAt(f[n], n, k, E, a, dx, dy, sx, sy)
    BY <1>9
  <2>2. /\ E = n * dx - k * dy /\ -dy <= 2 * E /\ 2 * E <= dy
        /\ f[n].y = a.y + sy * n /\ f[n].x = a.x + sx * k
    BY <1>5, <2>1 DEF SteepAt, InHalf
  <2>3. n \in Int /\ dx \in Int /\ dy \in Int /\ dy \in Nat
    BY <1>2, <1>5
  <2>4. E = k * dy - n * dx \/ -E = k * dy - n * dx
    BY <2>2, <2>3
  <2> QED BY <1>2, <2>2, <2>3, <2>4, OffByError
<1> QED BY <1>4, <1>5, <1>10, <1>11, <1>12, StraightRun DEF dx, dy

\* draw_line_quick draws a straight line between any two points.
LEMMA LineBetween ==
  ASSUME NEW a \in Dots, NEW b \in Dots PROVE Straight(draw_line_quick(a, b), a, b)
<1>1. PICK f : Runs(f, a, b) /\ draw_line_quick(a, b) = Drawn(f, a, b)
  BY DrawsARun
<1>2. a.x \in Int /\ a.y \in Int /\ b.x \in Int /\ b.y \in Int
  BY DEF Dots
<1>3. Distance(a.x, b.x) \in Nat /\ Distance(a.y, b.y) \in Nat
  BY <1>2, Distances
<1>4. CASE Distance(a.x, b.x) < Distance(a.y, b.y)
  BY <1>1, <1>4, SteepLine
<1>5. CASE Distance(a.y, b.y) <= Distance(a.x, b.x) /\ Distance(a.x, b.x) # 0
  BY <1>1, <1>5, FlatLine
<1>6. CASE Distance(a.y, b.y) = 0 /\ Distance(a.x, b.x) = 0
  <2>1. a.x = b.x /\ a.y = b.y
    BY <1>2, <1>6 DEF Distance
  <2>2. f[0].x = b.x /\ f[0].y = b.y
    BY <1>1, <2>1 DEF Runs
  <2>3. Larger(Distance(a.x, b.x), Distance(a.y, b.y)) = 0
    BY <1>6 DEF Larger
  <2>4. 2 * OffBy(f[0], a, b) <= 0
    <3>1. OffBy(f[0], a, b) = Distance((b.x - a.x) * (b.y - a.y), (b.y - a.y) * (b.x - a.x))
      BY <2>2 DEF OffBy
    <3>2. \A v, w \in Int : Distance(v * w, w * v) = 0
      BY DEF Distance
    <3>3. b.x - a.x \in Int /\ b.y - a.y \in Int
      BY <1>2
    <3>4. OffBy(f[0], a, b) = 0
      BY <3>1, <3>2, <3>3
    <3> QED BY <3>4
  <2>5. \A n \in 0..0 : n = 0
    OBVIOUS
  <2>6. \A n \in 0..0 - 1 : FALSE
    OBVIOUS
  <2>7. \A n \in 0..0 : 2 * OffBy(f[n], a, b) <= 0
    BY <2>4, <2>5
  <2> QED BY <1>1, <2>2, <2>3, <2>6, <2>7, StraightRun
<1> QED BY <1>3, <1>4, <1>5, <1>6

\* The bytes on their way to the handler are numbers, and so is the position.
Numbers ==
  /\ queue = [d \in Devices |-> queue[d]] /\ \A d \in Devices : queue[d] \in Seq(Int)
  /\ buffer.byte \in Int /\ last \in Int /\ packet \in Seq(Int) /\ x \in Int /\ y \in Int
  /\ plan \in Plans

LineInv == Numbers /\ LineIsStraight

\* A device sends bytes.
LEMMA SendsNumbers ==
  ASSUME Numbers, NEW d \in Devices, NEW t \in Seq(Int), Sends(d, t),
         UNCHANGED <<buffer, last, packet, x, y, plan>>
  PROVE  Numbers'
<1>1. queue' = [e \in Devices |-> IF e = d THEN queue[e] \o t ELSE queue[e]]
  BY DEF Numbers, Sends
<1>2. \A e \in Devices : queue[e] \o t \in Seq(Int)
  BY ConcatProperties DEF Numbers
<1>3. \A e \in Devices : queue'[e] \in Seq(Int)
  BY <1>1, <1>2 DEF Numbers
<1>4. queue' = [e \in Devices |-> queue'[e]]
  BY <1>1
<1> QED BY <1>3, <1>4 DEF Numbers

\* The controller takes a byte.
LEMMA TakesNumbers ==
  ASSUME Numbers, NEW d \in Devices, Transfer(d), UNCHANGED <<packet, x, y, plan>>
  PROVE  Numbers'
<1>1. queue[d] \in Seq(Int) /\ queue[d] # <<>> /\ last' = last
  BY DEF Numbers, Transfer
<1>2. Head(queue[d]) \in Int /\ Tail(queue[d]) \in Seq(Int)
  BY <1>1, HeadTailProperties
<1>3. queue' = [e \in Devices |-> IF e = d THEN Tail(queue[e]) ELSE queue[e]]
  BY DEF Numbers, Transfer
<1>4. buffer'.byte = Head(queue[d])
  BY DEF Transfer
<1>5. \A e \in Devices : queue'[e] \in Seq(Int)
  BY <1>2, <1>3 DEF Numbers
<1>6. queue' = [e \in Devices |-> queue'[e]]
  BY <1>3
<1> QED BY <1>1, <1>2, <1>4, <1>5, <1>6 DEF Numbers

\* Someone reads the port.
LEMMA ReadsNumbers ==
  ASSUME Numbers, ReadDataPort, packet' \in Seq(Int), x' \in Int, y' \in Int, plan' = plan
  PROVE  Numbers'
<1>1. DataPort \in Int
  BY DEF Numbers, DataPort
<1>2. last' \in Int /\ buffer'.byte = 0 /\ queue' = queue
  BY <1>1 DEF ReadDataPort, Empty
<1> QED BY <1>2 DEF Numbers

\* A position is a number.
LEMMA Positions == \A v \in Int : NotBelowZero(Int16(v)) \in Int
<1>1. \A v \in Int : Int16(v) \in Int
  BY DEF Int16
<1> QED BY <1>1 DEF NotBelowZero

\* Whatever the bytes of a packet, the line it draws is straight.
LEMMA PacketDraws ==
  ASSUME NEW p \in Seq(Int), Len(p) = 3, x \in Int, y \in Int, Complete(p)
  PROVE  x' \in Int /\ y' \in Int /\ packet' = <<>> /\ LineIsStraight'
<1> DEFINE dx == IF Bit(p[1], 6) THEN 0 ELSE sign_extend(p[2], Bit(p[1], 4))
           dy == IF Bit(p[1], 7) THEN 0 ELSE sign_extend(p[3], Bit(p[1], 5))
           from == [x |-> x, y |-> y]
           to == [x |-> NotBelowZero(Int16(x + dx)), y |-> NotBelowZero(Int16(y - dy))]
           points == IF Bit(p[1], 0) THEN draw_line_quick(from, to) ELSE <<>>
<1>1. p[2] \in Int /\ p[3] \in Int
  <2>1. 2 \in 1..Len(p) /\ 3 \in 1..Len(p)
    OBVIOUS
  <2> QED BY <2>1, ElementOfSeq
<1>2. \A s : \A v \in Int : sign_extend(v, s) \in Int
  BY DEF sign_extend
<1>3. dx \in Int /\ dy \in Int
  BY <1>1, <1>2
<1>4. /\ x' = to.x /\ y' = to.y /\ packet' = <<>>
      /\ line' = [from |-> from, to |-> to, points |-> points]
  BY DEF Complete
<1> HIDE DEF dx, dy
<1>5. x + dx \in Int /\ y - dy \in Int
  BY <1>3
<1>6. from \in Dots /\ to \in Dots /\ to.x \in Int /\ to.y \in Int
  BY <1>5, Positions DEF Dots
<1> HIDE DEF from, to
<1>7. points # <<>> => Straight(points, from, to)
  BY <1>6, LineBetween
<1> HIDE DEF points
<1>8. line'.from = from /\ line'.to = to /\ line'.points = points
  BY <1>4
<1>9. ASSUME line' # <<>>, line'.points # <<>> PROVE Straight(line'.points, line'.from, line'.to)
  BY <1>7, <1>8, <1>9
<1>10. LineIsStraight'
  BY <1>9 DEF LineIsStraight, Straight
<1> QED BY <1>4, <1>6, <1>10

\* A step that draws nothing.
LEMMA LineKept == LineIsStraight /\ line' = line => LineIsStraight'
BY DEF LineIsStraight

\* Every step keeps the bytes numbers and the last line straight.
LEMMA LineStep == LineInv /\ [Next]_vars => LineInv'
<1> SUFFICES ASSUME LineInv, [Next]_vars PROVE LineInv'
  OBVIOUS
<1>1. /\ Numbers /\ LineIsStraight /\ plan \in Plans
      /\ packet \in Seq(Int) /\ x \in Int /\ y \in Int
  BY DEF LineInv, Numbers
<1>2. CASE UNCHANGED vars \/ Loop
  <2>1. UNCHANGED <<port, mouseData, plan>>
    BY <1>2 DEF vars, mouseVars, Loop, cpp_event_loop, Next
  <2>2. /\ queue' = queue /\ buffer' = buffer /\ last' = last /\ packet' = packet
        /\ x' = x /\ y' = y /\ line' = line /\ plan' = plan
    BY <2>1 DEF port, mouseData
  <2>3. Numbers'
    BY <1>1, <2>2 DEF Numbers
  <2> QED BY <1>1, <2>2, <2>3, LineKept DEF LineInv
<1>3. CASE Next /\ User
  <2>1. CASE \E k \in plan.keys : Stroke(k) /\ UNCHANGED mouseVars
    <3>1. PICK k \in plan.keys : Stroke(k) /\ UNCHANGED mouseVars
      BY <2>1
    <3>2. k \in Keys
      BY <1>1, InputAssumption
    <3>a. PICK s \in Forms(k) : Sends("keyboard", s)
      BY <3>1 DEF Stroke
    <3>3. s \in Seq(Int)
      BY <3>2, FormBytes
    <3>4. Sends("keyboard", s) /\ UNCHANGED <<buffer, last, packet, x, y, plan, line>>
      BY <1>3, <3>1, <3>a DEF Stroke, mouseVars, mouseData, Next
    <3>5. Numbers'
      BY <1>1, <3>3, <3>4, SendsNumbers DEF Devices
    <3> QED BY <1>1, <3>4, <3>5, LineKept DEF LineInv
  <2>2. CASE \E m \in plan.moves : MoveMouse(m)
    <3>1. PICK m \in plan.moves : MoveMouse(m)
      BY <2>2
    <3>2. m \in Moves
      BY <1>1, InputAssumption
    <3>3. Encode(m) \in Seq(Int)
      BY <3>2, EncodeBytes
    <3>4. Sends("mouse", Encode(m)) /\ UNCHANGED <<buffer, last, packet, x, y, plan, line>>
      BY <1>3, <3>1 DEF MoveMouse, Next
    <3>5. Numbers'
      BY <1>1, <3>3, <3>4, SendsNumbers DEF Devices
    <3> QED BY <1>1, <3>4, <3>5, LineKept DEF LineInv
  <2> QED BY <1>3, <2>1, <2>2 DEF User
<1>4. CASE Next /\ Wire
  <2>1. PICK d \in Devices : Transfer(d)
    BY <1>4 DEF Wire
  <2>2. UNCHANGED <<packet, x, y, plan, line>>
    BY <1>4 DEF Wire, mouseVars, mouseData, Next
  <2>3. Numbers'
    BY <1>1, <2>1, <2>2, TakesNumbers
  <2> QED BY <1>1, <2>2, <2>3, LineKept DEF LineInv
<1>5. CASE Next /\ MouseInterrupt
  <2>1. /\ ReadDataPort /\ plan' = plan
        /\ LET p == Append(packet, DataPort)
           IN \/ Len(p) = 3 /\ Complete(p)
              \/ Len(p) < 3 /\ packet' = p /\ UNCHANGED <<x, y, line>>
    BY <1>5 DEF MouseInterrupt, mouse_handler, HandlerReads, Next
  <2>2. DataPort \in Int
    BY <1>1 DEF Numbers, DataPort
  <2>3. PICK p \in Seq(Int) : \/ Len(p) = 3 /\ Complete(p)
                              \/ packet' = p /\ UNCHANGED <<x, y, line>>
    BY <1>1, <2>1, <2>2, AppendProperties
  <2>4. packet' \in Seq(Int) /\ x' \in Int /\ y' \in Int /\ LineIsStraight'
    <3>1. CASE Len(p) = 3 /\ Complete(p)
      <4>1. x' \in Int /\ y' \in Int /\ packet' = <<>> /\ LineIsStraight'
        BY <1>1, <3>1, PacketDraws
      <4> QED BY <4>1
    <3>2. CASE packet' = p /\ UNCHANGED <<x, y, line>>
      BY <1>1, <3>2, LineKept
    <3> QED BY <2>3, <3>1, <3>2
  <2>5. Numbers'
    BY <1>1, <2>1, <2>4, ReadsNumbers
  <2> QED BY <2>4, <2>5 DEF LineInv
<1>6. CASE Next /\ Keyboard
  <2>1. UNCHANGED <<packet, x, y, line, plan>>
    BY <1>6 DEF Keyboard, mouseVars, mouseData, Next
  <2>2. ASSUME Numbers' PROVE LineInv'
    BY <1>1, <2>1, <2>2, LineKept DEF LineInv
  <2>3. CASE ReadDataPort
    <3>1. packet' \in Seq(Int) /\ x' \in Int /\ y' \in Int /\ plan' = plan
      BY <1>1, <2>1
    <3> QED BY <1>1, <2>2, <2>3, <3>1, ReadsNumbers
  <2>4. CASE LedSend
    <3>1. PICK r \in Answers : Sends("keyboard", <<r>>)
      BY <2>4 DEF LedSend
    <3>2. <<r>> \in Seq(Int)
      BY AnswerBytes
    <3>3. UNCHANGED <<buffer, last>>
      BY <2>4 DEF LedSend
    <3> QED BY <1>1, <2>1, <2>2, <3>1, <3>2, <3>3, SendsNumbers DEF Devices
  <2>5. CASE LedTimeout
    <3>1. UNCHANGED <<queue, buffer, last>>
      BY <2>5 DEF LedTimeout
    <3> QED BY <1>1, <2>1, <2>2, <3>1 DEF Numbers
  <2>6. Interrupt => ReadDataPort
    BY DEF Interrupt, Prelude, StartPrint, InPrint, StartPause, InPause, Key, Single, Reads,
           HandlerReads
  <2>7. LedRead => ReadDataPort
    BY DEF LedRead
  <2> QED BY <1>6, <2>3, <2>4, <2>5, <2>6, <2>7 DEF Keyboard, Leds
<1> QED BY <1>2, <1>3, <1>4, <1>5, <1>6 DEF Next

\* Every line the handler draws is straight, from the cursor's old place to its
\* new one, whatever bytes a packet is made of, foreign ones included: the error
\* of draw_line_quick stays within half the longer of the two distances, so the
\* loop meets the end of the line and never runs past it.
THEOREM LinesAreStraight == Spec => []LineIsStraight
<1>1. Init => LineInv
  <2> SUFFICES ASSUME Init PROVE LineInv
    OBVIOUS
  <2>1. /\ packet = <<>> /\ x = 0 /\ y = 0 /\ line = <<>> /\ plan \in Plans
        /\ queue = [d \in Devices |-> <<>>] /\ buffer = Empty /\ last = 0
    BY DEF Init, MouseInit, PortInit
  <2>2. \A d \in Devices : queue[d] = <<>>
    BY <2>1
  <2>3. queue = [d \in Devices |-> queue[d]] /\ \A d \in Devices : queue[d] \in Seq(Int)
    BY <2>1, <2>2
  <2>4. Numbers
    BY <2>1, <2>3 DEF Numbers, Empty
  <2>5. LineIsStraight
    BY <2>1 DEF LineIsStraight
  <2> QED BY <2>4, <2>5 DEF LineInv
<1>2. LineInv /\ [Next]_vars => LineInv'
  BY LineStep
<1>3. LineInv => LineIsStraight
  BY DEF LineInv
<1> QED BY <1>1, <1>2, <1>3, PTL DEF Spec

-----------------------------------------------------------------------------
(* The strokes and their bytes                                              *)

\* How many bytes a stroke has.
Size(k) == Len(Bytes(k))

\* The bytes s are what is left of the strokes after the first d, of which the
\* first has r bytes read: the k-th stroke begins at st[k].
Begins(st, str, s, d, r) ==
  /\ st[d + 1] = 1 - r /\ st[Len(str) + 1] = Len(s) + 1
  /\ \A k \in d + 1..Len(str) :
       /\ st[k + 1] = st[k] + Size(str[k]) /\ st[k + 1] <= Len(s) + 1
       /\ \A c \in 1..Size(str[k]) : st[k] + c > 1 => s[st[k] + c - 1] = Bytes(str[k])[c]

InOrder(str, s, d, r) == \E st \in [1..Len(str) + 1 -> Int] : Begins(st, str, s, d, r)

\* A key has as many bytes as its kind says.
LEMMA SizeIs ==
  ASSUME NEW k \in Keys
  PROVE  /\ Bytes(k) \in Seq(Int) /\ Size(k) \in 1..6
         /\ k.kind = "plain" => Size(k) = 1
         /\ k.kind = "extended" => Size(k) = 2
         /\ k.kind = "print" => Size(k) = 4
<1>1. Bytes(k) \in Seq(Int)
  BY KeyBytes
<1>2. k.kind \in Kinds
  BY KeyAssumption
<1>3. k.kind = "plain" => Size(k) = 1
  BY DEF Size, Bytes
<1>4. k.kind = "extended" => Size(k) = 2
  BY DEF Size, Bytes
<1>5. k.kind = "print" => Size(k) = 4
  BY DEF Size, Bytes, PrintPressed, PrintReleased
<1>6. k.kind = "pause" => Size(k) = 6
  BY DEF Size, Bytes, PausePressed
<1> QED BY <1>1, <1>2, <1>3, <1>4, <1>5, <1>6 DEF Kinds

\* The next byte is the next one of the stroke at hand.
LEMMA ReadsInOrder ==
  ASSUME NEW str \in Seq(Keys), NEW s \in Seq(Int), s # <<>>, NEW d \in 0..Len(str), NEW r \in Nat,
         InOrder(str, s, d, r), d < Len(str) => r < Size(str[d + 1])
  PROVE  /\ d < Len(str) /\ s[1] = Bytes(str[d + 1])[r + 1]
         /\ r + 1 < Size(str[d + 1]) => InOrder(str, Tail(s), d, r + 1)
         /\ r + 1 = Size(str[d + 1]) => InOrder(str, Tail(s), d + 1, 0)
<1> DEFINE n == Len(str)
           t == Tail(s)
<1>1. /\ Len(s) \in Nat \ {0} /\ Len(t) = Len(s) - 1
      /\ \A i \in 1..Len(s) - 1 : t[i] = s[i + 1]
  BY TailIs
<1>2. n \in Nat /\ \A k \in 1..n : str[k] \in Keys
  BY LenProperties, ElementOfSeq
<1>3. \A k \in 1..n : Size(str[k]) \in 1..6
  BY <1>2, SizeIs
<1>0. PICK st \in [1..n + 1 -> Int] : Begins(st, str, s, d, r)
  BY DEF InOrder
<1>4. /\ st[d + 1] = 1 - r /\ st[n + 1] = Len(s) + 1
      /\ \A k \in d + 1..n :
           /\ st[k + 1] = st[k] + Size(str[k]) /\ st[k + 1] <= Len(s) + 1
           /\ \A c \in 1..Size(str[k]) : st[k] + c > 1 => s[st[k] + c - 1] = Bytes(str[k])[c]
  BY <1>0 DEF Begins
<1> HIDE DEF n, t
<1>5. d < n
  <2>1. CASE d = n
    <3>1. 1 - r = Len(s) + 1
      BY <1>4, <2>1
    <3> QED BY <1>1, <3>1
  <2> QED BY <1>2, <2>1 DEF n
<1>6. d + 1 \in 1..n /\ d + 1 \in d + 1..n /\ r < Size(str[d + 1]) /\ Size(str[d + 1]) \in 1..6
  BY <1>2, <1>3, <1>5 DEF n
<1>7. s[1] = Bytes(str[d + 1])[r + 1]
  <2>1. r + 1 \in 1..Size(str[d + 1]) /\ st[d + 1] + (r + 1) = 2 /\ st[d + 1] + (r + 1) - 1 = 1
    BY <1>4, <1>6
  <2> QED BY <1>4, <1>6, <2>1
<1> DEFINE tt == [k \in 1..n + 1 |-> st[k] - 1]
<1>8. tt \in [1..n + 1 -> Int] /\ \A k \in 1..n + 1 : tt[k] = st[k] - 1 /\ st[k] \in Int
  BY <1>0
<1> HIDE DEF tt
<1>9. \A k \in d + 1..n : /\ k \in 1..n + 1 /\ k + 1 \in 1..n + 1 /\ k \in 1..n /\ Size(str[k]) \in 1..6
  BY <1>2, <1>3
<1>10. ASSUME NEW k \in d + 1..n PROVE tt[k + 1] = tt[k] + Size(str[k]) /\ tt[k + 1] <= Len(t) + 1
  <2>1. /\ tt[k + 1] = st[k + 1] - 1 /\ tt[k] = st[k] - 1 /\ st[k] \in Int /\ Size(str[k]) \in 1..6
    BY <1>8, <1>9
  <2>2. st[k + 1] = st[k] + Size(str[k]) /\ st[k + 1] <= Len(s) + 1
    BY <1>4
  <2>3. \A a, b, c \in Int : b <= c + 1 /\ b = a => b - 1 <= (c - 1) + 1
    OBVIOUS
  <2>4. \A a, b \in Int : (a + b) - 1 = (a - 1) + b
    OBVIOUS
  <2>5. st[k + 1] - 1 = (st[k] - 1) + Size(str[k]) /\ st[k + 1] \in Int
    <3>1. st[k] \in Int /\ Size(str[k]) \in Int /\ \A a, b \in Int : a + b \in Int
      BY <2>1
    <3> QED BY <2>2, <2>4, <3>1
  <2>6. st[k + 1] - 1 <= (Len(s) - 1) + 1
    BY <1>1, <2>2, <2>3, <2>5
  <2> QED BY <1>1, <2>1, <2>5, <2>6
<1>11. ASSUME NEW k \in d + 1..n, NEW c \in 1..Size(str[k]), tt[k] + c > 1
       PROVE  t[tt[k] + c - 1] = Bytes(str[k])[c]
  <2>1. /\ st[k] \in Int /\ c \in Int /\ tt[k] = st[k] - 1 /\ st[k] + c > 2
        /\ Size(str[k]) \in 1..6 /\ c <= Size(str[k])
    BY <1>8, <1>9, <1>11
  <2>2. st[k] + Size(str[k]) <= Len(s) + 1
    BY <1>4
  <2>3. /\ tt[k] + c - 1 \in 1..Len(s) - 1 /\ (tt[k] + c - 1) + 1 = st[k] + c - 1 /\ st[k] + c > 1
    <3> DEFINE a == st[k]
               b == Size(str[k])
    <3>1. a \in Int /\ b \in Int /\ c \in Int /\ a + c > 2 /\ c <= b /\ a + b <= Len(s) + 1
      BY <2>1, <2>2
    <3> HIDE DEF a, b
    <3>2. /\ (a - 1) + c - 1 \in 1..Len(s) - 1 /\ ((a - 1) + c - 1) + 1 = a + c - 1 /\ a + c > 1
      BY <1>1, <3>1
    <3> QED BY <2>1, <3>2 DEF a
  <2>4. t[tt[k] + c - 1] = s[st[k] + c - 1]
    BY <1>1, <2>3
  <2> QED BY <1>4, <2>3, <2>4
<1>12. n + 1 \in 1..n + 1 /\ tt[n + 1] = Len(t) + 1
  <2>1. n + 1 \in 1..n + 1
    BY <1>2
  <2>2. tt[n + 1] = st[n + 1] - 1 /\ st[n + 1] = Len(s) + 1
    BY <1>4, <1>8, <2>1
  <2>3. (Len(s) + 1) - 1 = (Len(s) - 1) + 1
    BY <1>1
  <2> QED BY <1>1, <2>1, <2>2, <2>3
<1>13. d + 1 \in 1..n + 1 /\ tt[d + 1] = 1 - (r + 1)
  <2>1. d + 1 \in 1..n + 1 /\ st[d + 1] = 1 - r
    BY <1>2, <1>4, <1>6
  <2> QED BY <1>8, <2>1
<1>14. InOrder(str, t, d, r + 1)
  <2>1. Begins(tt, str, t, d, r + 1)
    BY <1>10, <1>11, <1>12, <1>13 DEF Begins, n
  <2> QED BY <1>8, <2>1 DEF InOrder, n
<1>15. ASSUME r + 1 = Size(str[d + 1]) PROVE InOrder(str, t, d + 1, 0)
  <2>1. tt[(d + 1) + 1] = 1 - 0
    BY <1>6, <1>10, <1>13, <1>15
  <2>2. \A k \in (d + 1) + 1..n : k \in d + 1..n
    BY <1>2
  <2>3. Begins(tt, str, t, d + 1, 0)
    BY <1>10, <1>11, <1>12, <2>1, <2>2 DEF Begins, n
  <2> QED BY <1>8, <2>3 DEF InOrder, n
<1> QED BY <1>5, <1>7, <1>14, <1>15 DEF n, t

\* When no byte is left, no stroke is.
LEMMA NothingLeft ==
  ASSUME NEW str \in Seq(Keys), NEW d \in 0..Len(str), NEW r \in Nat,
         InOrder(str, <<>>, d, r), d < Len(str) => r < Size(str[d + 1])
  PROVE  d = Len(str)
<1> SUFFICES ASSUME d < Len(str) PROVE FALSE
  BY LenProperties
<1>1. Len(str) \in Nat /\ d + 1 \in 1..Len(str) /\ d + 1 \in d + 1..Len(str)
  BY LenProperties
<1>2. str[d + 1] \in Keys
  BY <1>1, ElementOfSeq
<1>3. Size(str[d + 1]) \in 1..6
  BY <1>2, SizeIs
<1>4. PICK st \in [1..Len(str) + 1 -> Int] :
        /\ st[d + 1] = 1 - r
        /\ \A k \in d + 1..Len(str) :
             st[k + 1] = st[k] + Size(str[k]) /\ st[k + 1] <= Len(<<>>) + 1
  BY DEF InOrder, Begins
<1>5. st[(d + 1) + 1] = 1 - r + Size(str[d + 1]) /\ st[(d + 1) + 1] <= 1
  BY <1>1, <1>4
<1> QED BY <1>3, <1>5

\* One more stroke is made.
LEMMA OneMoreStroke ==
  ASSUME NEW str \in Seq(Keys), NEW s \in Seq(Int), NEW d \in 0..Len(str), NEW r \in Nat,
         InOrder(str, s, d, r), NEW k \in Keys
  PROVE  InOrder(Append(str, k), s \o Bytes(k), d, r)
<1> DEFINE n == Len(str)
           more == Append(str, k)
           u == s \o Bytes(k)
<1>1. n \in Nat /\ Len(s) \in Nat /\ \A j \in 1..n : str[j] \in Keys
  BY LenProperties, ElementOfSeq
<1>2. Bytes(k) \in Seq(Int) /\ Size(k) \in 1..6
  BY SizeIs
<1>3. Len(more) = n + 1 /\ more[n + 1] = k /\ \A j \in 1..n : more[j] = str[j]
  BY AppendProperties
<1>4. /\ Len(u) = Len(s) + Size(k)
      /\ \A i \in 1..Len(s) + Size(k) : u[i] = IF i <= Len(s) THEN s[i] ELSE Bytes(k)[i - Len(s)]
  BY <1>2, ConcatProperties DEF Size
<1>0. PICK st \in [1..n + 1 -> Int] : Begins(st, str, s, d, r)
  BY DEF InOrder
<1>5. /\ st[d + 1] = 1 - r /\ st[n + 1] = Len(s) + 1
      /\ \A j \in d + 1..n :
           /\ st[j + 1] = st[j] + Size(str[j]) /\ st[j + 1] <= Len(s) + 1
           /\ \A c \in 1..Size(str[j]) : st[j] + c > 1 => s[st[j] + c - 1] = Bytes(str[j])[c]
  BY <1>0 DEF Begins
<1>6. \A j \in 1..n : Size(str[j]) \in 1..6
  BY <1>1, SizeIs
<1> HIDE DEF n, more, u
<1> DEFINE tt == [j \in 1..Len(more) + 1 |-> IF j <= n + 1 THEN st[j] ELSE Len(u) + 1]
<1>7. /\ tt \in [1..Len(more) + 1 -> Int] /\ tt[n + 2] = Len(u) + 1
      /\ \A j \in 1..n + 1 : tt[j] = st[j] /\ st[j] \in Int
  BY <1>1, <1>2, <1>3, <1>4, <1>5, SMTT(30)
<1> HIDE DEF tt
<1>8. d + 1 \in 1..n + 1 /\ n + 1 \in 1..n + 1 /\ (n + 1) + 1 = n + 2
  BY <1>1 DEF n
<1>9. tt[d + 1] = 1 - r /\ tt[Len(more) + 1] = Len(u) + 1
  BY <1>3, <1>5, <1>7, <1>8
<1>10. ASSUME NEW j \in d + 1..n
       PROVE  /\ tt[j + 1] = tt[j] + Size(more[j]) /\ tt[j + 1] <= Len(u) + 1
              /\ \A c \in 1..Size(more[j]) : tt[j] + c > 1 => u[tt[j] + c - 1] = Bytes(more[j])[c]
  <2>1. j \in 1..n /\ j \in 1..n + 1 /\ j + 1 \in 1..n + 1
    BY <1>1
  <2>2. /\ more[j] = str[j] /\ tt[j] = st[j] /\ tt[j + 1] = st[j + 1] /\ Size(str[j]) \in 1..6
        /\ st[j] \in Int
    BY <1>3, <1>6, <1>7, <2>1
  <2>3. tt[j + 1] = tt[j] + Size(more[j]) /\ tt[j + 1] <= Len(s) + 1
    BY <1>5, <2>2
  <2>4. ASSUME NEW c \in 1..Size(str[j]), st[j] + c > 1
        PROVE  u[st[j] + c - 1] = Bytes(str[j])[c]
    <3>1. st[j] + c - 1 \in 1..Len(s) + Size(k) /\ st[j] + c - 1 <= Len(s)
      <4> DEFINE a == st[j]
                 b == Size(str[j])
                 e == Size(k)
      <4>0. st[j] + Size(str[j]) <= Len(s) + 1
        BY <1>5
      <4>1. a \in Int /\ b \in Int /\ e \in 1..6 /\ c \in Int /\ a + c > 1 /\ c <= b /\ a + b <= Len(s) + 1
        BY <1>2, <2>2, <2>4, <4>0
      <4> HIDE DEF a, b, e
      <4>2. a + c - 1 \in 1..Len(s) + e /\ a + c - 1 <= Len(s)
        BY <1>1, <4>1
      <4> QED BY <4>2 DEF a, e
    <3>2. u[st[j] + c - 1] = s[st[j] + c - 1]
      BY <1>4, <3>1
    <3> QED BY <1>5, <2>4, <3>2
  <2>5. tt[j + 1] <= Len(u) + 1
    <3>1. tt[j + 1] \in Int
      BY <2>2, <2>3
    <3>2. \A a \in Int, b \in Nat, c \in 1..6 : a <= b + 1 => a <= (b + c) + 1
      OBVIOUS
    <3> QED BY <1>1, <1>2, <1>4, <2>3, <3>1, <3>2
  <2> QED BY <2>2, <2>3, <2>4, <2>5
<1>11. /\ tt[(n + 1) + 1] = tt[n + 1] + Size(more[n + 1]) /\ tt[(n + 1) + 1] <= Len(u) + 1
       /\ \A c \in 1..Size(more[n + 1]) :
            tt[n + 1] + c > 1 => u[tt[n + 1] + c - 1] = Bytes(more[n + 1])[c]
  <2>1. tt[n + 1] = Len(s) + 1 /\ tt[(n + 1) + 1] = Len(s) + Size(k) + 1 /\ more[n + 1] = k
    BY <1>3, <1>4, <1>5, <1>7, <1>8
  <2>2. ASSUME NEW c \in 1..Size(k) PROVE u[(Len(s) + 1) + c - 1] = Bytes(k)[c]
    <3>1. /\ (Len(s) + 1) + c - 1 \in 1..Len(s) + Size(k) /\ ~((Len(s) + 1) + c - 1 <= Len(s))
          /\ ((Len(s) + 1) + c - 1) - Len(s) = c
      BY <1>1, <1>2, SMTT(30)
    <3> QED BY <1>4, <3>1
  <2>3. Len(u) + 1 = (Len(s) + 1) + Size(k) /\ Len(s) + Size(k) + 1 = Len(u) + 1
    <3>1. \A b \in Nat, c \in 1..6 : (b + c) + 1 = (b + 1) + c
      OBVIOUS
    <3> QED BY <1>1, <1>2, <1>4, <3>1
  <2>4. Len(u) + 1 <= Len(u) + 1
    BY <1>1, <1>2, <1>4
  <2> QED BY <2>1, <2>2, <2>3, <2>4
<1>12. \A j \in d + 1..Len(more) : j \in d + 1..n \/ j = n + 1
  BY <1>1, <1>3
<1>13. InOrder(more, u, d, r)
  <2>1. Begins(tt, more, u, d, r)
    BY <1>9, <1>10, <1>11, <1>12 DEF Begins
  <2> QED BY <1>7, <2>1 DEF InOrder
<1> QED BY <1>13 DEF more, u

-----------------------------------------------------------------------------
(* Keys that are down                                                       *)

\* Every key has a place on the keyboard.
HavePlaces == \A k \in Keys : <<k.kind, k.code>> \in Placed

KeyOf(k) == <<k.kind, k.code>>

\* The n-th stroke presses a key that is not released before the i-th.
StillDown(n, i) ==
  /\ strokes[n].press
  /\ \A m \in n + 1..i - 1 : KeyOf(strokes[m]) = KeyOf(strokes[n]) => strokes[m].press

\* A key that is down was pressed and not released since.
LEMMA DownIs ==
  ASSUME strokes \in Seq(Keys), NEW i \in 1..Len(strokes) + 1
  PROVE  Down(i) = {KeyOf(strokes[n]) : n \in {n \in 1..i - 1 : StillDown(n, i)}}
<1>1. Len(strokes) \in Nat /\ \A j \in 1..i - 1 : strokes[j] \in Keys
  BY LenProperties, ElementOfSeq
<1>2. \A j \in 1..i - 1 : strokes[j] \in [kind : Kinds, code : (0..127) \ {96, 97}, press : BOOLEAN]
  BY <1>1, KeyAssumption
<1>3. ASSUME NEW n \in 1..i - 1, NEW m \in n + 1..i - 1
      PROVE  (strokes[m] # [strokes[n] EXCEPT !.press = FALSE])
               <=> (KeyOf(strokes[m]) = KeyOf(strokes[n]) => strokes[m].press)
  <2> DEFINE a == strokes[n]
             b == strokes[m]
  <2>1. m \in 1..i - 1
    OBVIOUS
  <2> DEFINE R == [kind : Kinds, code : (0..127) \ {96, 97}, press : BOOLEAN]
             freed == [a EXCEPT !.press = FALSE]
  <2>2. a \in R /\ b \in R /\ b.press \in BOOLEAN
    BY <1>2, <2>1
  <2> HIDE DEF a, b
  <2>3. freed \in R /\ freed.kind = a.kind /\ freed.code = a.code /\ freed.press = FALSE
    BY <2>2
  <2> HIDE DEF freed
  <2>4. b = freed <=> b.kind = a.kind /\ b.code = a.code /\ ~b.press
    <3>1. ASSUME b.kind = freed.kind, b.code = freed.code, b.press = freed.press PROVE b = freed
      BY <2>2, <2>3, <3>1
    <3> QED BY <2>2, <2>3, <3>1
  <2>5. KeyOf(b) = KeyOf(a) <=> b.kind = a.kind /\ b.code = a.code
    BY DEF KeyOf
  <2> QED BY <2>2, <2>4, <2>5 DEF a, b, freed
<1>4. \A n \in 1..i - 1 :
        StillDown(n, i) <=> /\ strokes[n].press
                            /\ \A m \in n + 1..i - 1 : strokes[m] # [strokes[n] EXCEPT !.press = FALSE]
  BY <1>3 DEF StillDown
<1>5. {n \in 1..i - 1 : StillDown(n, i)}
        = {n \in 1..i - 1 : /\ strokes[n].press
                            /\ \A m \in n + 1..i - 1 : strokes[m] # [strokes[n] EXCEPT !.press = FALSE]}
  BY <1>4
<1> QED BY <1>5 DEF Down, KeyOf

\* A stroke presses or releases its key, and changes no other.
LEMMA DownNext ==
  ASSUME strokes \in Seq(Keys), NEW i \in 1..Len(strokes)
  PROVE  Down(i + 1) = IF strokes[i].press THEN Down(i) \cup {KeyOf(strokes[i])}
                       ELSE Down(i) \ {KeyOf(strokes[i])}
<1>1. Len(strokes) \in Nat /\ i \in Nat /\ i \in 1..Len(strokes) + 1 /\ i + 1 \in 1..Len(strokes) + 1
      /\ (i + 1) - 1 = i
  BY LenProperties
<1>2. /\ Down(i) = {KeyOf(strokes[n]) : n \in {n \in 1..i - 1 : StillDown(n, i)}}
      /\ Down(i + 1) = {KeyOf(strokes[n]) : n \in {n \in 1..i : StillDown(n, i + 1)}}
  BY <1>1, DownIs
<1>3. \A n \in 1..i : StillDown(n, i + 1) <=>
        IF n = i THEN strokes[i].press
        ELSE StillDown(n, i) /\ (KeyOf(strokes[i]) = KeyOf(strokes[n]) => strokes[i].press)
  <2>1. ASSUME NEW n \in 1..i, n # i
        PROVE  StillDown(n, i + 1) <=>
                 StillDown(n, i) /\ (KeyOf(strokes[i]) = KeyOf(strokes[n]) => strokes[i].press)
    <3>1. n + 1..(i + 1) - 1 = (n + 1..i - 1) \cup {i}
      BY <1>1, <2>1
    <3> QED BY <3>1 DEF StillDown
  <2>2. StillDown(i, i + 1) <=> strokes[i].press
    <3>1. i + 1..(i + 1) - 1 = {}
      BY <1>1
    <3> QED BY <3>1 DEF StillDown
  <2> QED BY <2>1, <2>2
<1>4. i \in 1..i /\ \A n \in 1..i : n = i \/ n \in 1..i - 1
  BY <1>1
<1>5. \A n \in 1..i - 1 : n \in 1..i /\ n # i
  BY <1>1
<1>6. CASE strokes[i].press
  BY <1>2, <1>3, <1>4, <1>5, <1>6
<1>7. CASE ~strokes[i].press
  BY <1>2, <1>3, <1>4, <1>5, <1>7
<1> QED BY <1>6, <1>7

-----------------------------------------------------------------------------
(* Reports                                                                  *)

\* Each report is that of a stroke, in order, and they are those of the first d.
Matches(of, d) ==
  /\ \A n, m \in Reported : n < m => of[n] < of[m]
  /\ \A i \in Due : i <= d <=> \E n \in Reported : of[n] = i
  /\ \A n \in Reported :
       /\ events[n].what = Expected(of[n])
       /\ events[n].key = pack_keycode(ScanToKeyCode[KeyOf(strokes[of[n]])])

Told(d) == pressed = Down(d + 1) /\ \E of \in [Reported -> Due] : Matches(of, d)

\* A report is added.
LEMMA Reports ==
  ASSUME NEW S, events \in Seq(S), NEW e, events' = events \o <<e>>
  PROVE  /\ Len(events) \in Nat /\ events' \in Seq(S \cup {e})
         /\ DOMAIN events = 1..Len(events) /\ DOMAIN events' = 1..Len(events) + 1
         /\ events'[Len(events) + 1] = e
         /\ \A n \in 1..Len(events) : events'[n] = events[n]
         /\ Reported' = IF e.what = "invalid" THEN Reported ELSE Reported \cup {Len(events) + 1}
<1> DEFINE T == S \cup {e}
<1>1. events \in Seq(T) /\ <<e>> \in Seq(T) /\ Len(<<e>>) = 1 /\ <<e>>[1] = e
  <2>1. S \subseteq T /\ e \in T
    OBVIOUS
  <2>2. events \in Seq(T)
    BY <2>1
  <2> QED BY <2>1, <2>2
<1>2. Len(events) \in Nat /\ DOMAIN events = 1..Len(events)
  BY LenProperties
<1>3. /\ events' \in Seq(T) /\ Len(events') = Len(events) + 1
      /\ \A n \in 1..Len(events) + 1 :
           events'[n] = IF n <= Len(events) THEN events[n] ELSE <<e>>[n - Len(events)]
  BY <1>1, ConcatProperties
<1>4. DOMAIN events' = 1..Len(events) + 1
  BY <1>3, LenProperties
<1>5. /\ events'[Len(events) + 1] = e
      /\ \A n \in 1..Len(events) : events'[n] = events[n]
  BY <1>1, <1>2, <1>3
<1>6. \A n \in 1..Len(events) + 1 : n \in 1..Len(events) \/ n = Len(events) + 1
  BY <1>2
<1>7. Len(events) + 1 \in 1..Len(events) + 1 /\ \A n \in 1..Len(events) : n \in 1..Len(events) + 1
  BY <1>2
<1>8. Reported' = IF e.what = "invalid" THEN Reported ELSE Reported \cup {Len(events) + 1}
  BY <1>2, <1>4, <1>5, <1>6, <1>7 DEF Reported
<1> QED BY <1>2, <1>3, <1>4, <1>5, <1>8

\* What keycode_handler reports of a stroke is what is expected of it.
LEMMA ReportsTheStroke ==
  ASSUME HavePlaces, NEW i, strokes[i] \in Keys, NEW held, NEW first,
         strokes[i].press => held = Down(i) /\ (first <=> KeyOf(strokes[i]) \notin Down(i)),
         ~strokes[i].press => ~first, first \in BOOLEAN
  PROVE  /\ keycode_handler(keyboard_mode, strokes[i].kind, strokes[i].code, held, first,
                            strokes[i].press)
              = IF Expected(i) = "nothing" THEN <<>>
                ELSE <<[what |-> Expected(i),
                        key |-> pack_keycode(ScanToKeyCode[KeyOf(strokes[i])])]>>
         /\ Expected(i) # "invalid"
<1> DEFINE k == strokes[i]
           mods == Mods(Down(i))
           keycode == ScanToKeyCode[<<k.kind, k.code>>]
           char == k.press /\ k.kind = "plain" /\ k.code \in Printable
<1>1. keycode # KEY_INVALID /\ KeyOf(k) = <<k.kind, k.code>>
  BY DEF HavePlaces, Placed, KeyOf
<1>2. /\ mods.shift \in BOOLEAN /\ mods.altgr \in BOOLEAN /\ mods.caps \in BOOLEAN
      /\ mods.other \in BOOLEAN /\ k.press \in BOOLEAN
  BY KeyAssumption DEF Mods
<1>3. CASE keyboard_mode = "Testing"
  <2> DEFINE what == CASE keycode = KEY_INVALID -> "invalid"
                       [] keycode # KEY_INVALID /\ first -> "first"
                       [] keycode # KEY_INVALID /\ ~first /\ k.press -> "repeat"
                       [] OTHER -> "release"
  <2>1. keycode_handler(keyboard_mode, k.kind, k.code, held, first, k.press)
          = <<[what |-> what, key |-> pack_keycode(keycode)]>>
    BY <1>3 DEF keycode_handler
  <2>2. Expected(i) = IF ~k.press THEN "release" ELSE IF KeyOf(k) \in Down(i) THEN "repeat" ELSE "first"
    BY <1>3 DEF Expected, KeyOf
  <2>3. what = Expected(i) /\ Expected(i) # "nothing" /\ Expected(i) # "invalid"
    <3> HIDE DEF keycode
    <3>1. CASE ~k.press
      BY <1>1, <2>2, <3>1
    <3>2. CASE k.press /\ KeyOf(k) \in Down(i)
      BY <1>1, <2>2, <3>2
    <3>3. CASE k.press /\ KeyOf(k) \notin Down(i)
      BY <1>1, <2>2, <3>3
    <3> QED BY <1>2, <3>1, <3>2, <3>3
  <2> HIDE DEF what
  <2> QED BY <2>1, <2>3 DEF KeyOf
<1>4. CASE keyboard_mode # "Testing" /\ ~char
  <2>1. keycode_handler(keyboard_mode, k.kind, k.code, held, first, k.press) = <<>>
    BY <1>4 DEF keycode_handler
  <2>2. Expected(i) = "nothing"
    BY <1>4 DEF Expected
  <2> QED BY <2>1, <2>2
<1>5. CASE keyboard_mode # "Testing" /\ char
  <2>1. keycode_handler(keyboard_mode, k.kind, k.code, held, first, k.press)
          = <<[what |-> key_to_char(k.code, mods), key |-> pack_keycode(keycode)]>>
    BY <1>5 DEF keycode_handler
  <2> DEFINE what == CASE mods.other \/ (mods.altgr /\ k.code \notin AltgrAble) -> "none"
                       [] OTHER -> IF k.code \in Letters
                                   THEN IF mods.shift = mods.caps THEN "normal"
                                        ELSE IF mods.caps THEN "caps" ELSE "shift"
                                   ELSE IF mods.altgr THEN "altgr"
                                        ELSE IF mods.shift THEN "shift" ELSE "normal"
  <2>2. Expected(i) = what
    BY <1>5 DEF Expected
  <2>3. ASSUME NEW mo, mo.shift \in BOOLEAN, mo.altgr \in BOOLEAN, mo.caps \in BOOLEAN,
               mo.other \in BOOLEAN, NEW code
        PROVE  key_to_char(code, mo) =
                 CASE mo.other \/ (mo.altgr /\ code \notin AltgrAble) -> "none"
                   [] OTHER -> IF code \in Letters
                               THEN IF mo.shift = mo.caps THEN "normal"
                                    ELSE IF mo.caps THEN "caps" ELSE "shift"
                               ELSE IF mo.altgr THEN "altgr"
                                    ELSE IF mo.shift THEN "shift" ELSE "normal"
    <3>1. CASE mo.other \/ (mo.altgr /\ code \notin AltgrAble)
      BY <3>1 DEF key_to_char
    <3>2. CASE ~mo.other /\ ~(mo.altgr /\ code \notin AltgrAble) /\ code \in Letters
      BY <2>3, <3>2 DEF key_to_char
    <3>3. CASE ~mo.other /\ ~(mo.altgr /\ code \notin AltgrAble) /\ code \notin Letters
      BY <2>3, <3>3 DEF key_to_char
    <3> QED BY <2>3, <3>1, <3>2, <3>3
  <2>4. key_to_char(k.code, mods) = what
    <3> HIDE DEF mods, k
    <3> QED BY <1>2, <2>3
  <2>5. what # "nothing" /\ what # "invalid"
    BY <1>2
  <2> HIDE DEF what
  <2> QED BY <2>1, <2>2, <2>4, <2>5 DEF KeyOf
<1> QED BY <1>3, <1>4, <1>5

\* What is expected depends on the strokes alone.
LEMMA SameExpected ==
  ASSUME UNCHANGED <<strokes, keyboard_mode>>
  PROVE  Due' = Due /\ \A i : Expected(i)' = Expected(i) /\ Down(i)' = Down(i)
<1>1. \A i : Down(i)' = Down(i)
  BY DEF Down
<1>2. \A i : Expected(i)' = Expected(i)
  BY <1>1 DEF Expected
<1> QED BY <1>1, <1>2 DEF Due

\* Nothing is reported.
LEMMA NotToldMore ==
  ASSUME NEW d, Told(d), UNCHANGED <<strokes, keyboard_mode>>, Reported' = Reported,
         \A n \in Reported : events'[n] = events[n], NEW e, Down(e + 1) = pressed',
         \A i \in Due : i <= e <=> i <= d
  PROVE  Told(e)'
<1>1. PICK of \in [Reported -> Due] : Matches(of, d)
  BY DEF Told
<1>2. Due' = Due /\ \A i : Expected(i)' = Expected(i) /\ Down(i)' = Down(i)
  BY SameExpected
<1>3. Matches(of, e)'
  BY <1>1, <1>2 DEF Matches
<1> QED BY <1>1, <1>2, <1>3 DEF Told

\* The next stroke is reported.
LEMMA ToldMore ==
  ASSUME strokes \in Seq(Keys), NEW d \in 0..Len(strokes) - 1, Told(d), NEW S, events \in Seq(S),
         UNCHANGED <<strokes, keyboard_mode>>, pressed' = Down((d + 1) + 1),
         Expected(d + 1) # "nothing", Expected(d + 1) # "invalid",
         NEW e, e.what = Expected(d + 1), e.key = pack_keycode(ScanToKeyCode[KeyOf(strokes[d + 1])]),
         events' = events \o <<e>>
  PROVE  Told(d + 1)'
<1> DEFINE z == Len(events) + 1
<1>1. PICK of \in [Reported -> Due] : Matches(of, d)
  BY DEF Told
<1>2. Due' = Due /\ \A i : Expected(i)' = Expected(i) /\ Down(i)' = Down(i)
  BY SameExpected
<1>3. /\ Len(events) \in Nat /\ DOMAIN events = 1..Len(events) /\ events'[z] = e
      /\ \A n \in 1..Len(events) : events'[n] = events[n]
      /\ Reported' = Reported \cup {z}
  BY Reports
<1>4. Len(strokes) \in Nat /\ DOMAIN strokes = 1..Len(strokes) /\ d \in Nat /\ d + 1 \in Due
  <2>1. Len(strokes) \in Nat /\ DOMAIN strokes = 1..Len(strokes)
    BY LenProperties
  <2> QED BY <2>1 DEF Due
<1>5. \A n \in Reported : n \in 1..Len(events) /\ n \in Nat /\ n < z /\ n # z /\ events'[n] = events[n]
  BY <1>3 DEF Reported
<1>6. \A i \in Due : i \in Nat
  BY <1>4 DEF Due
<1> HIDE DEF z
<1>7. PICK on \in [Reported \cup {z} -> Due] :
        on[z] = d + 1 /\ \A n \in Reported : on[n] = of[n] /\ of[n] \in Due
  <2> DEFINE more == [n \in Reported \cup {z} |-> IF n = z THEN d + 1 ELSE of[n]]
  <2>1. /\ more \in [Reported \cup {z} -> Due] /\ more[z] = d + 1
        /\ \A n \in Reported : more[n] = of[n] /\ of[n] \in Due
    BY <1>1, <1>4, <1>5
  <2> QED BY <2>1
<1>8. \A n \in Reported : of[n] <= d
  BY <1>1, <1>7 DEF Matches
<1>9. z \in Nat
  BY <1>3 DEF z
<1>10. ASSUME NEW n \in Reported \cup {z}, NEW m \in Reported \cup {z}, n < m PROVE on[n] < on[m]
  <2>1. CASE n \in Reported /\ m \in Reported
    BY <1>1, <1>7, <1>10, <2>1 DEF Matches
  <2>2. CASE n \in Reported /\ m = z
    BY <1>4, <1>6, <1>7, <1>8, <2>2
  <2>3. CASE n = z
    BY <1>5, <1>9, <1>10, <2>3
  <2> QED BY <2>1, <2>2, <2>3
<1>11. \A i \in Due : i <= d + 1 <=> \E n \in Reported \cup {z} : on[n] = i
  <2>1. ASSUME NEW i \in Due, i <= d + 1 PROVE \E n \in Reported \cup {z} : on[n] = i
    <3>1. i = d + 1 \/ i <= d
      BY <1>4, <1>6, <2>1
    <3> QED BY <1>1, <1>7, <3>1 DEF Matches
  <2>2. ASSUME NEW i \in Due, NEW n \in Reported \cup {z}, on[n] = i PROVE i <= d + 1
    BY <1>4, <1>6, <1>7, <1>8, <2>2
  <2> QED BY <2>1, <2>2
<1>12. \A n \in Reported \cup {z} :
         /\ events'[n].what = Expected(on[n])
         /\ events'[n].key = pack_keycode(ScanToKeyCode[KeyOf(strokes[on[n]])])
  BY <1>1, <1>3, <1>5, <1>7 DEF Matches
<1>13. Matches(on, d + 1)'
  BY <1>2, <1>3, <1>10, <1>11, <1>12 DEF Matches
<1> QED BY <1>2, <1>3, <1>7, <1>13 DEF Told

\* The codes of the keys that have a place.
LEMMA PlacedCodes ==
  ASSUME NEW kind, NEW code, <<kind, code>> \in Placed
  PROVE  /\ kind = "plain" => code \in 1..88 /\ code <= 88
         /\ kind = "extended" => code \in 16..109 /\ code <= 109
         /\ kind = "print" => code = 0
<1> DEFINE k == <<kind, code>>
<1>1. k[1] = kind /\ k[2] = code /\ k \in Placed
  OBVIOUS
<1> HIDE DEF k
<1>2. /\ k[1] = "plain" => k[2] \in 1..88
      /\ k[1] = "extended" => k[2] \in 16..109
      /\ k[1] = "print" => k[2] = 0
  BY <1>1, PlacedKeys, Zenon
<1> QED BY <1>1, <1>2

\* The parse functions report the stroke whose bytes were read.
LEMMA ParsedIsTold ==
  ASSUME HavePlaces, strokes \in Seq(Keys), NEW d \in 0..Len(strokes) - 1, Told(d),
         NEW S, events \in Seq(S), UNCHANGED <<strokes, keyboard_mode>>,
         strokes[d + 1].kind # "pause",
         NEW e, e.kind = strokes[d + 1].kind, e.code = strokes[d + 1].code,
         e.press = strokes[d + 1].press, Parse(e)
  PROVE  Told(d + 1)' /\ \E T : events' \in Seq(T)
<1> DEFINE k == strokes[d + 1]
           key == <<e.kind, e.code>>
           report == [what |-> Expected(d + 1), key |-> pack_keycode(ScanToKeyCode[KeyOf(k)])]
           handler(held, first) ==
             keycode_handler(keyboard_mode, e.kind, e.code, held, first, e.press)
<1>1. d + 1 \in 1..Len(strokes) /\ Len(strokes) \in Nat /\ k \in Keys
  BY LenProperties, ElementOfSeq
<1>2. k.press \in BOOLEAN /\ k.kind \in Kinds /\ KeyOf(k) \in Placed /\ KeyOf(k) = key
  BY <1>1, KeyAssumption DEF HavePlaces, KeyOf
<1>3. Recorded(e)
  <2>1. key[1] = e.kind /\ key[2] = e.code
    OBVIOUS
  <2>2. e.kind = "plain" => e.code <= 88
    BY <1>2, <2>1, PlacedCodes
  <2>3. e.kind = "extended" => e.code <= 109
    BY <1>2, <2>1, PlacedCodes
  <2>4. e.kind \in {"plain", "extended", "print"}
    BY <1>2 DEF Kinds
  <2> QED BY <2>2, <2>3, <2>4, Zenon DEF Recorded
<1>4. pressed = Down(d + 1)
  BY DEF Told
<1>5. Down((d + 1) + 1) = IF k.press THEN Down(d + 1) \cup {KeyOf(k)} ELSE Down(d + 1) \ {KeyOf(k)}
  BY <1>1, DownNext
<1>6. pressed' = Down((d + 1) + 1)
  BY <1>2, <1>3, <1>4, <1>5 DEF Parse
<1>7. ASSUME NEW held, NEW first \in BOOLEAN,
             k.press => held = Down(d + 1) /\ (first <=> KeyOf(k) \notin Down(d + 1)),
             ~k.press => ~first
      PROVE  /\ handler(held, first) = IF Expected(d + 1) = "nothing" THEN <<>> ELSE <<report>>
             /\ Expected(d + 1) # "invalid"
  BY <1>1, <1>7, ReportsTheStroke
<1>8. /\ events' = events \o (IF Expected(d + 1) = "nothing" THEN <<>> ELSE <<report>>)
      /\ Expected(d + 1) # "invalid"
  <2>1. CASE k.press
    <3>1. events' = events \o handler(pressed, key \notin pressed)
      BY <2>1 DEF Parse
    <3>2. (key \notin pressed) \in BOOLEAN
      OBVIOUS
    <3> HIDE DEF handler, report, key, k
    <3> QED BY <1>2, <1>4, <1>7, <2>1, <3>1, <3>2
  <2>2. CASE ~k.press
    <3>1. PICK held : events' = events \o handler(held, FALSE)
      BY <2>2 DEF Parse
    <3> HIDE DEF handler, report, key, k
    <3> QED BY <1>7, <2>2, <3>1
  <2> QED BY <1>2, <2>1, <2>2
<1>9. CASE Expected(d + 1) = "nothing"
  <2>1. events' = events
    BY <1>8, <1>9, ConcatEmptySeq
  <2>2. Reported' = Reported
    BY <2>1 DEF Reported
  <2>3. \A i \in Due : i <= d + 1 <=> i <= d
    <3>1. \A i \in Due : i # d + 1 /\ i \in Nat
      BY <1>1, <1>9, LenProperties DEF Due
    <3> QED BY <3>1
  <2> QED BY <1>6, <2>1, <2>2, <2>3, NotToldMore
<1>10. CASE Expected(d + 1) # "nothing"
  <2>1. events' = events \o <<report>> /\ report.what = Expected(d + 1)
        /\ report.key = pack_keycode(ScanToKeyCode[KeyOf(k)])
    BY <1>8, <1>10
  <2> HIDE DEF report
  <2>2. Told(d + 1)'
    BY <1>6, <1>8, <1>10, <2>1, ToldMore
  <2>3. events' \in Seq(S \cup {report})
    BY <2>1, Reports
  <2> QED BY <2>2, <2>3
<1> QED BY <1>9, <1>10

\* An answer read again is no key's, and changes nothing that was reported.
LEMMA AnswerIsTold ==
  ASSUME HavePlaces, strokes \in Seq(Keys), NEW d \in 0..Len(strokes), Told(d),
         NEW S, events \in Seq(S), UNCHANGED <<strokes, keyboard_mode>>,
         NEW code \in {122, 126}, Parse([kind |-> "plain", code |-> code, press |-> FALSE])
  PROVE  Told(d)' /\ \E T : events' \in Seq(T)
<1> DEFINE key == <<"plain", code>>
           e == [what |-> "invalid", key |-> pack_keycode(ScanToKeyCode[key])]
           handler(held) == keycode_handler(keyboard_mode, "plain", code, held, FALSE, FALSE)
<1>1. PICK held : events' = events \o handler(held)
  BY DEF Parse
<1>2. pressed' = pressed \ {key}
  BY DEF Parse
<1>3. key \notin Placed /\ key \in DOMAIN ScanToKeyCode
  <2>1. {<<"plain", 122>>, <<"plain", 126>>} \cap Placed = {}
    BY PlacedKeys
  <2>2. key \in {<<"plain", 122>>, <<"plain", 126>>}
    OBVIOUS
  <2>3. key \in DOMAIN ScanToKeyCode
    <3>1. DOMAIN ScanToKeyCode = {"plain", "extended", "print", "pause"} \X (0..127)
      BY Zenon DEF ScanToKeyCode
    <3>2. code \in 0..127
      OBVIOUS
    <3> QED BY <3>1, <3>2
  <2> HIDE DEF key
  <2> QED BY <2>1, <2>2, <2>3
<1>4. ScanToKeyCode[key] = KEY_INVALID
  BY <1>3 DEF Placed
<1>5. handler(held) = IF keyboard_mode = "Testing" THEN <<e>> ELSE <<>>
  BY <1>4 DEF keycode_handler
<1>6. key \notin pressed
  <2>1. d + 1 \in 1..Len(strokes) + 1 /\ Len(strokes) \in Nat
    BY LenProperties
  <2>2. Down(d + 1) = {KeyOf(strokes[n]) : n \in {n \in 1..(d + 1) - 1 : StillDown(n, d + 1)}}
    BY <2>1, DownIs
  <2>3. \A n \in 1..(d + 1) - 1 : KeyOf(strokes[n]) \in Placed
    <3>1. \A n \in 1..(d + 1) - 1 : strokes[n] \in Keys
      BY <2>1, ElementOfSeq
    <3> QED BY <3>1 DEF HavePlaces, KeyOf
  <2> QED BY <1>3, <2>2, <2>3 DEF Told
<1>7. pressed' = Down(d + 1)
  BY <1>2, <1>6 DEF Told
<1>8. CASE keyboard_mode # "Testing"
  <2>1. events' = events
    BY <1>1, <1>5, <1>8, ConcatEmptySeq
  <2>2. Reported' = Reported
    BY <2>1 DEF Reported
  <2> QED BY <1>7, <2>1, <2>2, NotToldMore
<1>9. CASE keyboard_mode = "Testing"
  <2>1. events' = events \o <<e>> /\ e.what = "invalid"
    BY <1>1, <1>5, <1>9
  <2> HIDE DEF e
  <2>2. /\ events' \in Seq(S \cup {e}) /\ DOMAIN events = 1..Len(events)
        /\ \A n \in 1..Len(events) : events'[n] = events[n]
        /\ Reported' = Reported
    BY <2>1, Reports
  <2>3. \A n \in Reported : events'[n] = events[n]
    BY <2>2 DEF Reported
  <2>4. Told(d)'
    BY <1>7, <2>2, <2>3, NotToldMore
  <2> QED BY <2>2, <2>4
<1> QED BY <1>8, <1>9

\* One more stroke is made; what was told is as it was.
LEMMA StrokeIsNotTold ==
  ASSUME strokes \in Seq(Keys), NEW d \in 0..Len(strokes), Told(d), NEW k \in Keys,
         strokes' = Append(strokes, k), UNCHANGED <<keyboard_mode, pressed, events>>
  PROVE  Told(d)'
<1> DEFINE N == Len(strokes)
<1>1. /\ N \in Nat /\ DOMAIN strokes = 1..N /\ Len(strokes') = N + 1 /\ DOMAIN strokes' = 1..N + 1
      /\ \A i \in 1..N : strokes'[i] = strokes[i]
  <2>1. strokes' \in Seq(Keys) /\ Len(strokes') = N + 1 /\ \A i \in 1..N : strokes'[i] = strokes[i]
    BY AppendProperties
  <2> QED BY <2>1, LenProperties
<1>2. \A i \in 1..N + 1 : Down(i)' = Down(i)
  <2>1. ASSUME NEW i \in 1..N + 1 PROVE Down(i)' = Down(i)
    <3>1. \A n \in 1..i - 1 : strokes'[n] = strokes[n]
      BY <1>1
    <3>2. \A n \in 1..i - 1 : \A m \in n + 1..i - 1 : m \in 1..i - 1
      BY <1>1
    <3> QED BY <3>1, <3>2 DEF Down
  <2> QED BY <2>1
<1>3. \A i \in 1..N : Expected(i)' = Expected(i)
  <2>1. ASSUME NEW i \in 1..N PROVE Expected(i)' = Expected(i)
    <3>1. strokes'[i] = strokes[i] /\ Down(i)' = Down(i)
      BY <1>1, <1>2
    <3> QED BY <3>1 DEF Expected
  <2> QED BY <2>1
<1>4. Reported' = Reported /\ Due \subseteq 1..N /\ Due \subseteq Due' /\ Due' \subseteq Due \cup {N + 1}
  <2>1. Reported' = Reported
    BY DEF Reported
  <2>2. Due \subseteq 1..N
    BY <1>1 DEF Due
  <2>3. Due \subseteq Due'
    BY <1>1, <1>3 DEF Due
  <2>4. ASSUME NEW i \in Due' PROVE i \in Due \cup {N + 1}
    <3>1. i \in 1..N + 1 /\ Expected(i)' # "nothing"
      BY <1>1 DEF Due
    <3>2. i \in 1..N \/ i = N + 1
      BY <1>1, <3>1
    <3> QED BY <1>1, <1>3, <3>1, <3>2 DEF Due
  <2> QED BY <2>1, <2>2, <2>3, <2>4
<1>5. PICK of \in [Reported -> Due] : Matches(of, d)
  BY DEF Told
<1>6. \A n \in Reported : of[n] \in Due /\ of[n] \in 1..N /\ of[n] # N + 1
  <2>1. \A n \in Reported : of[n] \in Due
    BY <1>5
  <2>2. \A i \in 1..N : i # N + 1
    BY <1>1
  <2> QED BY <1>4, <2>1, <2>2
<1>7. \A i \in Due' : i <= d <=> \E n \in Reported : of[n] = i
  <2>1. ~(N + 1 <= d)
    BY <1>1
  <2> QED BY <1>4, <1>5, <1>6, <2>1 DEF Matches
<1>8. \A n \in Reported :
        /\ events[n].what = Expected(of[n])'
        /\ events[n].key = pack_keycode(ScanToKeyCode[KeyOf(strokes'[of[n]])])
  BY <1>1, <1>3, <1>5, <1>6 DEF Matches
<1>9. Matches(of, d)'
  BY <1>4, <1>5, <1>7, <1>8 DEF Matches
<1>10. of \in [Reported' -> Due'] /\ Down(d + 1)' = Down(d + 1)
  <2>1. d + 1 \in 1..N + 1
    BY <1>1
  <2> QED BY <1>2, <1>4, <1>5, <2>1
<1> QED BY <1>9, <1>10 DEF Told

-----------------------------------------------------------------------------
(* What the handler does with a byte outside of pause's sequence            *)

\* Each of its cases reads the data port.
LEMMA HandlerSteps ==
  ASSUME Interrupt
  PROVE  /\ mode = "idle" /\ HandlerReads("keyboard", DataPort)
         /\ UNCHANGED <<strokes, altered, keyboard_mode>>
<1>1. \A b : Reads(b) => /\ mode = "idle" /\ HandlerReads("keyboard", DataPort) /\ b = DataPort
                         /\ keyboard_mode' = keyboard_mode
  BY DEF Reads, HandlerReads
<1>2. (\E b : Reads(b)) /\ UNCHANGED user
  <2>1. Prelude => (\E b : Reads(b)) /\ UNCHANGED user
    BY DEF Prelude
  <2>2. StartPrint => (\E b : Reads(b)) /\ UNCHANGED user
    BY DEF StartPrint
  <2>3. InPrint => (\E b : Reads(b)) /\ UNCHANGED user
    BY DEF InPrint
  <2>4. StartPause => (\E b : Reads(b)) /\ UNCHANGED user
    BY DEF StartPause
  <2>5. InPause => (\E b : Reads(b)) /\ UNCHANGED user
    BY DEF InPause
  <2>6. Key => (\E b : Reads(b)) /\ UNCHANGED user
    BY DEF Key, Single
  <2> QED BY <2>1, <2>2, <2>3, <2>4, <2>5, <2>6 DEF Interrupt
<1> QED BY <1>1, <1>2 DEF user

\* Which case it is depends on the byte.
LEMMA WhichCase ==
  ASSUME Interrupt, ~six
  PROVE  /\ ~InPause
         /\ Prelude => DataPort = 224 /\ ~four
         /\ StartPrint => DataPort \in {42, 183} /\ prev /\ ~four
         /\ InPrint => four
         /\ StartPause => DataPort = 225 /\ ~four
         /\ Key => DataPort \notin {224, 225} /\ ~four /\ ~(prev /\ DataPort \in {42, 183})
<1>1. \A b : Reads(b) => b = DataPort
  BY DEF Reads, HandlerReads
<1>2. ~InPause
  BY DEF InPause, FitsPause
<1>3. Prelude => DataPort = 224 /\ ~four
  BY <1>1, PrintBytes DEF Prelude
<1>4. StartPrint => DataPort \in {42, 183} /\ prev /\ ~four
  BY <1>1, PrintBytes DEF StartPrint, StartsPrint
<1>5. StartPause => DataPort = 225 /\ ~four
  BY <1>1, PrintBytes DEF StartPause
<1>6. Key => DataPort \notin {224, 225} /\ ~four /\ ~(prev /\ DataPort \in {42, 183})
  BY PrintBytes DEF Key, Single, StartsPrint
<1> QED BY <1>2, <1>3, <1>4, <1>5, <1>6 DEF InPrint

\* The prefix.
LEMMA PrefixByte ==
  ASSUME Interrupt, ~six, ~four, DataPort = 224
  PROVE  prev' = TRUE /\ four' = four /\ six' = six /\ UNCHANGED <<leds, pressed, events>>
<1>1. Prelude
  BY WhichCase DEF Interrupt
<1> QED BY <1>1 DEF Prelude, Quiet

\* The bytes of print screen after the prefix.
LEMMA SecondByte ==
  ASSUME Interrupt, ~six, ~four, prev, DataPort \in {42, 183}
  PROVE  /\ prev' = FALSE /\ four' = TRUE /\ len' = 2 /\ six' = six
         /\ UNCHANGED <<leds, pressed, events>>
<1>1. StartPrint
  BY WhichCase DEF Interrupt
<1> QED BY <1>1 DEF StartPrint, Quiet

LEMMA ThirdByte ==
  ASSUME Interrupt, ~six, four, len = 2, DataPort = 224
  PROVE  /\ prev' = FALSE /\ four' = four /\ len' = 3 /\ six' = six
         /\ UNCHANGED <<leds, pressed, events>>
<1>1. InPrint
  BY WhichCase DEF Interrupt
<1>2. PrintPressed[3] = 224 /\ PrintReleased[3] = 224
  BY DEF PrintPressed, PrintReleased
<1>3. len + 1 = 3 /\ len # 3 /\ \A b : Reads(b) => b = 224
  BY DEF Reads, HandlerReads
<1> QED BY <1>1, <1>2, <1>3 DEF InPrint, Quiet

LEMMA FourthByte ==
  ASSUME Interrupt, ~six, four, len = 3, DataPort \in {55, 170}
  PROVE  /\ prev' = FALSE /\ four' = FALSE /\ six' = six /\ UNCHANGED leds
         /\ Parse([kind |-> "print", code |-> 0, press |-> DataPort = 55])
<1>1. InPrint
  BY WhichCase DEF Interrupt
<1>2. PrintPressed[4] = 55 /\ PrintReleased[4] = 170
  BY DEF PrintPressed, PrintReleased
<1>3. len + 1 = 4
  OBVIOUS
<1>4. (DataPort = PrintPressed[len + 1]) = (DataPort = 55)
  BY <1>2, <1>3
<1>5. DataPort = PrintPressed[len + 1] \/ DataPort = PrintReleased[len + 1]
  BY <1>2, <1>3
<1> QED BY <1>1, <1>4, <1>5 DEF InPrint

\* The byte is the last of key k's, which the decoder takes for Decoded(k).
IsLastOf(k) ==
  /\ k.code \in 1..127 /\ k.code \notin {96, 97} /\ k.press \in BOOLEAN
  /\ DataPort = IF k.press THEN k.code ELSE k.code + 128
  /\ prev => k.code >= 16 /\ k.code \notin {42, 55}

Decoded(k) == [kind |-> IF prev THEN "extended" ELSE "plain", code |-> k.code, press |-> k.press]

\* A key of one byte, or of two after the prefix.
LEMMA LastByte ==
  ASSUME Interrupt, ~six, ~four, prev \in BOOLEAN, NEW k, IsLastOf(k)
  PROVE  /\ prev' = FALSE /\ four' = four /\ six' = six
         /\ IF ~prev /\ k.press /\ k.code \in LockKeys
            THEN mode' = "send" /\ lock' = k.code /\ UNCHANGED <<pressed, events>>
            ELSE Parse(Decoded(k)) /\ UNCHANGED leds
<1>0. PICK code \in 1..127, press \in BOOLEAN :
        /\ code = k.code /\ press = k.press
        /\ DataPort = IF press THEN code ELSE code + 128
        /\ code \notin {96, 97} /\ (prev => code >= 16 /\ code \notin {42, 55})
  BY DEF IsLastOf
<1> DEFINE e == [kind |-> IF prev THEN "extended" ELSE "plain", code |-> code, press |-> press]
<1> DEFINE release == DataPort >= IF prev THEN 144 ELSE 129
<1>1. DataPort \in Int /\ DataPort \notin {224, 225} /\ ~(prev /\ DataPort \in {42, 183})
  <2>1. CASE press
    BY <1>0, <2>1
  <2>2. CASE ~press
    BY <1>0, <2>2
  <2> QED BY <2>1, <2>2
<1>2. release <=> ~press
  <2>1. CASE press
    BY <1>0, <2>1
  <2>2. CASE ~press
    BY <1>0, <2>2
  <2> QED BY <2>1, <2>2
<1>3. (IF release THEN DataPort - 128 ELSE DataPort) = code
  BY <1>0, <1>2
<1>4. Key
  BY <1>1, WhichCase DEF Interrupt
<1>5. prev' = (DataPort = Prefix) /\ four' = four /\ six' = six
  BY <1>4 DEF Key, Single
<1>6. (prev /\ ~six) = prev
  OBVIOUS
<1>7. PICK x0 : /\ x0 = [kind |-> IF prev THEN "extended" ELSE "plain",
                         code |-> IF release THEN DataPort - 128 ELSE DataPort,
                         press |-> ~release]
                /\ \/ /\ x0.kind = "plain" /\ x0.press /\ x0.code \in LockKeys
                      /\ mode' = "send" /\ step' = 1 /\ tries' = 0 /\ lock' = x0.code
                      /\ UNCHANGED polled
                      /\ Quiet
                   \/ /\ ~(x0.kind = "plain" /\ x0.press /\ x0.code \in LockKeys)
                      /\ Parse(x0)
                      /\ UNCHANGED leds
  BY <1>4, <1>6 DEF Key, Single
<1> HIDE DEF release
<1>8. (~release) = press
  BY <1>2
<1>9. x0 = e
  BY <1>3, <1>7, <1>8
<1>10. e.kind = "plain" <=> ~prev
  OBVIOUS
<1>11. e.press = press /\ e.code = code
  OBVIOUS
<1>12. prev' = FALSE
  BY <1>1, <1>5, PrintBytes
<1>13. ~prev /\ press /\ code \in LockKeys =>
         mode' = "send" /\ lock' = code /\ UNCHANGED <<pressed, events>>
  BY <1>7, <1>9, <1>10, <1>11 DEF Quiet
<1>14. ~(~prev /\ press /\ code \in LockKeys) => Parse(e) /\ UNCHANGED leds
  BY <1>7, <1>9, <1>10, <1>11
<1>15. Decoded(k) = e
  BY <1>0 DEF Decoded
<1> HIDE DEF e
<1> QED BY <1>0, <1>5, <1>12, <1>13, <1>14, <1>15

-----------------------------------------------------------------------------
(* The inductive invariant of the order                                     *)

\* The decoder has read r bytes of the stroke after the first d; a handler that
\* runs set_leds does so for the d-th.
Position(d, r) ==
  /\ ~six /\ (prev <=> r = 1) /\ (four <=> r \in {2, 3}) /\ (r > 1 => len = r)
  /\ d < Len(strokes) => r < Size(strokes[d + 1])
  /\ d = Len(strokes) => r = 0
  /\ r > 0 => mode = "idle" /\ ("keyboard" \in pending => buffer.device = "keyboard")
  /\ mode # "idle" => /\ d > 0 /\ strokes[d].kind = "plain" /\ strokes[d].press
                      /\ strokes[d].code = lock

\* u is s with one more byte, at p.
Inserted(u, s, p) ==
  /\ Len(u) = Len(s) + 1
  /\ \A i \in 1..p - 1 : u[i] = s[i]
  /\ \A i \in p..Len(s) : u[i + 1] = s[i]

\* The bytes to come are those of the strokes, with an answer among them when
\* set_leds waits for it.
Waiting(d, r) ==
  IF mode = "read"
  THEN \E s \in Seq(Int) : \E p \in 1..Len(s) + 1 : Inserted(Coming, s, p) /\ InOrder(strokes, s, d, r)
  ELSE InOrder(strokes, Coming, d, r)

\* A lock key is reported when set_leds is done.
ToldAfter(d) == IF mode = "idle" THEN d ELSE d - 1

OrderAt(d, r) == Position(d, r) /\ Waiting(d, r) /\ Told(ToldAfter(d))

OrderInv ==
  /\ strokes \in Seq(Keys)
  /\ altered \in BOOLEAN
  /\ NoPause /\ ~altered /\ ~astray =>
       /\ \E S : events \in Seq(S)
       /\ \E d \in 0..Len(strokes), r \in 0..3 : OrderAt(d, r)

\* What was told stays so.
LEMMA ToldKept ==
  ASSUME NEW d, Told(d), UNCHANGED <<strokes, keyboard_mode, pressed, events>>
  PROVE  Told(d)'
<1>1. \A i : Down(i)' = Down(i)
  BY DEF Down
<1>2. \A i : Expected(i)' = Expected(i)
  BY <1>1 DEF Expected
<1>3. Due' = Due /\ Reported' = Reported
  BY <1>2 DEF Due, Reported
<1>4. \A of : Matches(of, d) => Matches(of, d)'
  BY <1>2, <1>3 DEF Matches
<1>5. Down(d + 1)' = Down(d + 1)
  BY <1>1
<1> QED BY <1>3, <1>4, <1>5 DEF Told

\* The handler reads a byte of a stroke's, in its place.
LEMMA HandlerReadsOwn ==
  ASSUME Queues, strokes \in Seq(Keys), NEW d \in 0..Len(strokes), NEW r \in 0..3, OrderAt(d, r),
         Interrupt, buffer.device = "keyboard"
  PROVE  /\ d < Len(strokes) /\ d + 1 \in 1..Len(strokes) /\ strokes[d + 1] \in Keys
         /\ r < Size(strokes[d + 1]) /\ DataPort = Bytes(strokes[d + 1])[r + 1]
         /\ r + 1 < Size(strokes[d + 1]) => InOrder(strokes, Coming', d, r + 1)
         /\ r + 1 = Size(strokes[d + 1]) => InOrder(strokes, Coming', d + 1, 0)
         /\ mode = "idle" /\ Told(d) /\ "keyboard" \notin pending'
         /\ UNCHANGED <<strokes, keyboard_mode>>
<1>1. /\ mode = "idle" /\ HandlerReads("keyboard", DataPort) /\ UNCHANGED <<strokes, keyboard_mode>>
  BY HandlerSteps
<1>2. ReadDataPort /\ "keyboard" \notin pending'
  BY <1>1 DEF HandlerReads
<1>3. /\ DataPort = buffer.byte /\ Coming \in Seq(Int) /\ Coming # <<>>
      /\ Coming[1] = buffer.byte /\ Coming' = Tail(Coming)
  BY <1>2, PortRead
<1>4. InOrder(strokes, Coming, d, r) /\ Told(d) /\ (d < Len(strokes) => r < Size(strokes[d + 1]))
  BY <1>1 DEF OrderAt, Waiting, ToldAfter, Position
<1>5. PICK s \in Seq(Int) : s = Coming
  BY <1>3
<1>6. s # <<>> /\ InOrder(strokes, s, d, r) /\ r \in Nat
  BY <1>3, <1>4, <1>5
<1>7. /\ d < Len(strokes) /\ s[1] = Bytes(strokes[d + 1])[r + 1]
      /\ r + 1 < Size(strokes[d + 1]) => InOrder(strokes, Tail(s), d, r + 1)
      /\ r + 1 = Size(strokes[d + 1]) => InOrder(strokes, Tail(s), d + 1, 0)
  BY <1>4, <1>6, ReadsInOrder
<1>8. d + 1 \in 1..Len(strokes) /\ strokes[d + 1] \in Keys
  <2>1. Len(strokes) \in Nat
    BY LenProperties
  <2>2. d + 1 \in 1..Len(strokes)
    BY <1>7, <2>1
  <2> QED BY <2>2, ElementOfSeq
<1> QED BY <1>1, <1>2, <1>3, <1>4, <1>5, <1>7, <1>8

\* A byte inside a stroke's sequence.
LEMMA StrokeGoesOn ==
  ASSUME strokes \in Seq(Keys), NEW d \in 0..Len(strokes), NEW r \in 0..2, Told(d), mode = "idle",
         d < Len(strokes), r + 1 < Size(strokes[d + 1]), InOrder(strokes, Coming', d, r + 1),
         UNCHANGED <<strokes, keyboard_mode, leds, pressed, events>>, "keyboard" \notin pending',
         ~six', prev' <=> r + 1 = 1, four' <=> r + 1 \in {2, 3}, r + 1 > 1 => len' = r + 1
  PROVE  OrderAt(d, r + 1)'
<1>1. mode' = "idle" /\ Told(d)'
  BY ToldKept DEF leds
<1>2. Waiting(d, r + 1)'
  BY <1>1 DEF Waiting
<1>3. Len(strokes) \in Nat /\ d # Len(strokes)
  BY LenProperties
<1>4. Position(d, r + 1)'
  BY <1>1, <1>3 DEF Position
<1>5. Told(ToldAfter(d))'
  BY <1>1 DEF ToldAfter
<1> QED BY <1>2, <1>4, <1>5 DEF OrderAt

\* The last byte of a stroke's.
LEMMA StrokeEnds ==
  ASSUME strokes \in Seq(Keys), NEW d \in 0..Len(strokes), d < Len(strokes),
         InOrder(strokes, Coming', d + 1, 0), strokes' = strokes,
         \/ mode' = "idle" /\ Told(d + 1)'
         \/ /\ mode' = "send" /\ Told(d)' /\ strokes[d + 1].kind = "plain"
            /\ strokes[d + 1].press /\ strokes[d + 1].code = lock',
         ~six', ~prev', ~four'
  PROVE  d + 1 \in 0..Len(strokes) /\ OrderAt(d + 1, 0)'
<1>1. Len(strokes) \in Nat /\ d \in Nat /\ d + 1 \in 0..Len(strokes) /\ d + 1 > 0 /\ (d + 1) - 1 = d
  BY LenProperties
<1>2. Waiting(d + 1, 0)'
  BY DEF Waiting
<1>3. Told(ToldAfter(d + 1))'
  BY <1>1 DEF ToldAfter
<1>4. d + 1 < Len(strokes) => 0 < Size(strokes[(d + 1) + 1])
  <2> SUFFICES ASSUME d + 1 < Len(strokes) PROVE 0 < Size(strokes[(d + 1) + 1])
    OBVIOUS
  <2>1. (d + 1) + 1 \in 1..Len(strokes)
    BY <1>1
  <2>2. strokes[(d + 1) + 1] \in Keys
    BY <2>1, ElementOfSeq
  <2>3. Size(strokes[(d + 1) + 1]) \in 1..6
    BY <2>2, SizeIs
  <2> QED BY <2>3
<1>5. Position(d + 1, 0)'
  BY <1>1, <1>4 DEF Position
<1> QED BY <1>1, <1>2, <1>3, <1>5 DEF OrderAt

\* A key's bytes.
LEMMA BytesAre ==
  ASSUME NEW k \in Keys
  PROVE  /\ k.kind = "plain" => Bytes(k)[1] = IF k.press THEN k.code ELSE k.code + 128
         /\ k.kind = "extended" => /\ Bytes(k)[1] = 224
                                   /\ Bytes(k)[2] = IF k.press THEN k.code ELSE k.code + 128
         /\ k.kind = "print" => /\ Bytes(k)[1] = 224 /\ Bytes(k)[3] = 224
                                /\ Bytes(k)[2] = IF k.press THEN 42 ELSE 183
                                /\ Bytes(k)[4] = IF k.press THEN 55 ELSE 170
<1>1. k.press \in BOOLEAN
  BY KeyAssumption
<1>2. k.kind = "plain" => Bytes(k)[1] = IF k.press THEN k.code ELSE k.code + 128
  BY DEF Bytes
<1>3. k.kind = "extended" => /\ Bytes(k)[1] = 224
                             /\ Bytes(k)[2] = IF k.press THEN k.code ELSE k.code + 128
  BY DEF Bytes, Prefix
<1>4. k.kind = "print" => Bytes(k) = IF k.press THEN <<224, 42, 224, 55>> ELSE <<224, 183, 224, 170>>
  BY DEF Bytes, PrintPressed, PrintReleased
<1> QED BY <1>1, <1>2, <1>3, <1>4

\* The one byte of a plain key.
LEMMA PlainKeyRead ==
  ASSUME HavePlaces, Types, strokes \in Seq(Keys), NEW S, events \in Seq(S),
         NEW d \in 0..Len(strokes), NEW r \in 0..3, OrderAt(d, r),
         Interrupt, buffer.device = "keyboard", strokes[d + 1].kind = "plain"
  PROVE  /\ d + 1 \in 0..Len(strokes) /\ OrderAt(d + 1, 0)' /\ \E T : events' \in Seq(T)
<1>1. PICK k \in Keys :
         /\ k = strokes[d + 1] /\ d < Len(strokes)
         /\ r < Size(k) /\ DataPort = Bytes(k)[r + 1]
         /\ r + 1 = Size(k) => InOrder(strokes, Coming', d + 1, 0)
         /\ mode = "idle" /\ Told(d) /\ UNCHANGED <<strokes, keyboard_mode>>
  BY HandlerReadsOwn DEF Types
<1>2. Size(k) = 1 /\ r = 0 /\ r + 1 = 1
  BY <1>1, SizeIs
<1>3. k.press \in BOOLEAN /\ k.code \in 1..88
  BY <1>1, KeyAssumption, PlacedCodes DEF HavePlaces
<1>4. DataPort = IF k.press THEN k.code ELSE k.code + 128
  BY <1>1, <1>2, BytesAre
<1>5. ~six /\ ~prev /\ ~four /\ prev = FALSE
  BY <1>2 DEF OrderAt, Position, Types
<1>6. IsLastOf(k)
  <2>1. \A c \in 1..88 : c \in 1..127 /\ c \notin {96, 97}
    OBVIOUS
  <2>2. k.code \in 1..127 /\ k.code \notin {96, 97}
    BY <1>3, <2>1
  <2> QED BY <1>3, <1>4, <1>5, <2>2 DEF IsLastOf
<1>7. PICK e : e = Decoded(k) /\ e.kind = "plain" /\ e.code = k.code /\ e.press = k.press
  <2>1. Decoded(k).kind = "plain"
    BY <1>5 DEF Decoded
  <2>2. Decoded(k).code = k.code /\ Decoded(k).press = k.press
    BY <1>3 DEF Decoded
  <2> QED BY <2>1, <2>2
<1>8. /\ prev' = FALSE /\ four' = four /\ six' = six
      /\ IF ~prev /\ k.press /\ k.code \in LockKeys
         THEN mode' = "send" /\ lock' = k.code /\ UNCHANGED <<pressed, events>>
         ELSE Parse(e) /\ UNCHANGED leds
  <2>1. prev \in BOOLEAN
    BY DEF Types
  <2> QED BY <1>5, <1>6, <1>7, <2>1, LastByte
<1>9. InOrder(strokes, Coming', d + 1, 0) /\ ~six' /\ ~prev' /\ ~four' /\ strokes' = strokes
  BY <1>1, <1>2, <1>5, <1>8
<1>10. CASE k.press /\ k.code \in LockKeys
  <2>0. UNCHANGED <<strokes, keyboard_mode, pressed, events>>
    BY <1>1, <1>5, <1>8, <1>10
  <2>1. Told(d)' /\ events' = events
    BY <1>1, <2>0, ToldKept
  <2>2. d + 1 \in 0..Len(strokes) /\ OrderAt(d + 1, 0)'
    BY <1>1, <1>5, <1>8, <1>9, <1>10, <2>1, StrokeEnds
  <2> QED BY <2>1, <2>2
<1>11. CASE ~(k.press /\ k.code \in LockKeys)
  <2>1. Parse(e) /\ mode' = "idle"
    BY <1>1, <1>8, <1>11 DEF leds
  <2>2. d \in 0..Len(strokes) - 1 /\ k.kind # "pause" /\ e.kind = k.kind
    BY <1>1, <1>7, LenProperties
  <2>3. Told(d + 1)' /\ \E T : events' \in Seq(T)
    BY <1>1, <1>7, <2>1, <2>2, ParsedIsTold
  <2> QED BY <1>1, <1>9, <2>1, <2>3, StrokeEnds
<1> QED BY <1>10, <1>11

\* The two bytes of an extended key.
LEMMA ExtendedKeyRead ==
  ASSUME HavePlaces, Types, strokes \in Seq(Keys), NEW S, events \in Seq(S),
         NEW d \in 0..Len(strokes), NEW r \in 0..3, OrderAt(d, r),
         Interrupt, buffer.device = "keyboard", strokes[d + 1].kind = "extended"
  PROVE  /\ r = 0 => OrderAt(d, 1)'
         /\ r # 0 => d + 1 \in 0..Len(strokes) /\ OrderAt(d + 1, 0)'
         /\ \E T : events' \in Seq(T)
<1>1. PICK k \in Keys :
         /\ k = strokes[d + 1] /\ d < Len(strokes)
         /\ r < Size(k) /\ DataPort = Bytes(k)[r + 1]
         /\ r + 1 < Size(k) => InOrder(strokes, Coming', d, r + 1)
         /\ r + 1 = Size(k) => InOrder(strokes, Coming', d + 1, 0)
         /\ mode = "idle" /\ Told(d) /\ UNCHANGED <<strokes, keyboard_mode>>
         /\ "keyboard" \notin pending'
  BY HandlerReadsOwn DEF Types
<1>2. Size(k) = 2 /\ r \in {0, 1}
  BY <1>1, SizeIs
<1>3. k.press \in BOOLEAN /\ k.code \in 16..109 /\ k.code \notin {42, 55, 96, 97}
  <2>1. k.press \in BOOLEAN /\ k.code \notin {96, 97} /\ k.code \notin {42, 55}
    BY <1>1, KeyAssumption
  <2>2. k.code \in 16..109
    BY <1>1, PlacedCodes DEF HavePlaces
  <2> QED BY <2>1, <2>2
<1>4. ~six /\ (prev <=> r = 1) /\ ~four
  BY <1>2 DEF OrderAt, Position, Types
<1>5. CASE r = 0
  <2>1. DataPort = 224
    BY <1>1, <1>5, BytesAre
  <2>2. prev' = TRUE /\ four' = four /\ six' = six /\ UNCHANGED <<leds, pressed, events>>
    BY <1>4, <2>1, PrefixByte
  <2>3. OrderAt(d, 0 + 1)'
    BY <1>1, <1>2, <1>4, <1>5, <2>2, StrokeGoesOn
  <2> QED BY <1>5, <2>2, <2>3
<1>6. CASE r = 1
  <2>1. DataPort = IF k.press THEN k.code ELSE k.code + 128
    BY <1>1, <1>6, BytesAre
  <2>2. prev = TRUE
    BY <1>4, <1>6 DEF Types
  <2>3. IsLastOf(k)
    <3>1. \A c \in 16..109 : c \in 1..127 /\ c >= 16
      OBVIOUS
    <3>2. /\ k.code \in 1..127 /\ k.code \notin {96, 97}
          /\ k.code >= 16 /\ k.code \notin {42, 55}
      BY <1>3, <3>1
    <3> QED BY <1>3, <2>1, <3>2 DEF IsLastOf
  <2>4. PICK e : e = Decoded(k) /\ e.kind = "extended" /\ e.code = k.code /\ e.press = k.press
    <3>1. Decoded(k).kind = "extended"
      BY <2>2 DEF Decoded
    <3>2. Decoded(k).code = k.code /\ Decoded(k).press = k.press
      BY <1>3 DEF Decoded
    <3> QED BY <3>1, <3>2
  <2>5. /\ prev' = FALSE /\ four' = four /\ six' = six
        /\ IF ~prev /\ k.press /\ k.code \in LockKeys
           THEN mode' = "send" /\ lock' = k.code /\ UNCHANGED <<pressed, events>>
           ELSE Parse(e) /\ UNCHANGED leds
    <3>1. prev \in BOOLEAN
      BY DEF Types
    <3> QED BY <1>4, <2>3, <2>4, <3>1, LastByte
  <2>6. Parse(e) /\ mode' = "idle"
    BY <1>1, <2>2, <2>5 DEF leds
  <2>7. d \in 0..Len(strokes) - 1 /\ k.kind # "pause" /\ e.kind = k.kind
    BY <1>1, <2>4, LenProperties
  <2>8. Told(d + 1)' /\ \E T : events' \in Seq(T)
    BY <1>1, <2>4, <2>6, <2>7, ParsedIsTold
  <2>9. InOrder(strokes, Coming', d + 1, 0)
    BY <1>1, <1>2, <1>6
  <2> QED BY <1>1, <1>4, <1>6, <2>5, <2>6, <2>8, <2>9, StrokeEnds
<1> QED BY <1>2, <1>5, <1>6

\* The four bytes of print screen.
LEMMA PrintKeyRead ==
  ASSUME HavePlaces, Types, strokes \in Seq(Keys), NEW S, events \in Seq(S),
         NEW d \in 0..Len(strokes), NEW r \in 0..3, OrderAt(d, r),
         Interrupt, buffer.device = "keyboard", strokes[d + 1].kind = "print"
  PROVE  /\ r < 3 => OrderAt(d, r + 1)'
         /\ r = 3 => d + 1 \in 0..Len(strokes) /\ OrderAt(d + 1, 0)'
         /\ \E T : events' \in Seq(T)
<1>1. PICK k \in Keys :
         /\ k = strokes[d + 1] /\ d < Len(strokes)
         /\ r < Size(k) /\ DataPort = Bytes(k)[r + 1]
         /\ r + 1 < Size(k) => InOrder(strokes, Coming', d, r + 1)
         /\ r + 1 = Size(k) => InOrder(strokes, Coming', d + 1, 0)
         /\ mode = "idle" /\ Told(d) /\ UNCHANGED <<strokes, keyboard_mode>>
         /\ "keyboard" \notin pending'
  BY HandlerReadsOwn DEF Types
<1>2. Size(k) = 4
  BY <1>1, SizeIs
<1>3. k.press \in BOOLEAN /\ k.code = 0
  BY <1>1, KeyAssumption, PlacedCodes DEF HavePlaces
<1>4. ~six /\ (prev <=> r = 1) /\ (four <=> r \in {2, 3}) /\ (r > 1 => len = r)
  BY DEF OrderAt, Position
<1>5. /\ Bytes(k)[1] = 224 /\ Bytes(k)[3] = 224
      /\ Bytes(k)[2] = IF k.press THEN 42 ELSE 183
      /\ Bytes(k)[4] = IF k.press THEN 55 ELSE 170
  BY <1>1, BytesAre
<1>6. CASE r = 0
  <2>1. DataPort = 224
    BY <1>1, <1>5, <1>6
  <2>2. prev' = TRUE /\ four' = four /\ six' = six /\ UNCHANGED <<leds, pressed, events>>
    BY <1>4, <1>6, <2>1, PrefixByte
  <2>3. OrderAt(d, 0 + 1)'
    BY <1>1, <1>2, <1>4, <1>6, <2>2, StrokeGoesOn
  <2> QED BY <1>6, <2>2, <2>3
<1>7. CASE r = 1
  <2>1. DataPort \in {42, 183}
    BY <1>1, <1>3, <1>5, <1>7
  <2>2. /\ prev' = FALSE /\ four' = TRUE /\ len' = 2 /\ six' = six
        /\ UNCHANGED <<leds, pressed, events>>
    <3>1. ~four /\ prev
      BY <1>4, <1>7
    <3> QED BY <1>4, <2>1, <3>1, SecondByte
  <2>3. OrderAt(d, 1 + 1)'
    BY <1>1, <1>2, <1>4, <1>7, <2>2, StrokeGoesOn
  <2> QED BY <1>7, <2>2, <2>3
<1>8. CASE r = 2
  <2>1. DataPort = 224
    BY <1>1, <1>5, <1>8
  <2>2. /\ prev' = FALSE /\ four' = four /\ len' = 3 /\ six' = six
        /\ UNCHANGED <<leds, pressed, events>>
    BY <1>4, <1>8, <2>1, ThirdByte
  <2>3. OrderAt(d, 2 + 1)'
    BY <1>1, <1>2, <1>4, <1>8, <2>2, StrokeGoesOn
  <2> QED BY <1>8, <2>2, <2>3
<1>9. CASE r = 3
  <2> DEFINE e == [kind |-> "print", code |-> 0, press |-> DataPort = 55]
  <2>1. DataPort \in {55, 170} /\ (DataPort = 55) = k.press
    BY <1>1, <1>3, <1>5, <1>9
  <2>2. prev' = FALSE /\ four' = FALSE /\ six' = six /\ UNCHANGED leds /\ Parse(e)
    <3>1. four /\ len = 3
      BY <1>4, <1>9
    <3> QED BY <1>4, <2>1, <3>1, FourthByte
  <2>3. e.kind = k.kind /\ e.code = k.code /\ e.press = k.press
    BY <1>1, <1>3, <2>1
  <2> HIDE DEF e
  <2>4. d \in 0..Len(strokes) - 1 /\ k.kind # "pause" /\ mode' = "idle"
    BY <1>1, <2>2, LenProperties DEF leds
  <2>5. Told(d + 1)' /\ \E T : events' \in Seq(T)
    BY <1>1, <2>2, <2>3, <2>4, ParsedIsTold
  <2>6. InOrder(strokes, Coming', d + 1, 0)
    BY <1>1, <1>2, <1>9
  <2> QED BY <1>1, <1>4, <1>9, <2>2, <2>4, <2>5, <2>6, StrokeEnds
<1>10. r \in {0, 1, 2, 3}
  OBVIOUS
<1> QED BY <1>6, <1>7, <1>8, <1>9, <1>10

\* An answer looks like the release of a key of one byte.
LEMMA AnswerByte ==
  ASSUME Interrupt, ~six, ~four, prev \in BOOLEAN, ~prev, NEW c \in {122, 126}, DataPort = c + 128
  PROVE  /\ prev' = FALSE /\ four' = four /\ six' = six /\ UNCHANGED leds
         /\ Parse([kind |-> "plain", code |-> c, press |-> FALSE])
<1> DEFINE k == [kind |-> "plain", code |-> c, press |-> FALSE]
<1>1. k = Decoded(k) /\ ~k.press
  BY DEF Decoded
<1>2. IsLastOf(k)
  BY DEF IsLastOf
<1> HIDE DEF k
<1>3. prev' = FALSE /\ four' = four /\ six' = six /\ Parse(Decoded(k)) /\ UNCHANGED leds
  BY <1>1, <1>2, LastByte
<1> QED BY <1>1, <1>3 DEF k

\* An answer of the keyboard's read again, its interrupt coming late.
LEMMA AnswerReadAgain ==
  ASSUME HavePlaces, Types, strokes \in Seq(Keys), NEW S, events \in Seq(S),
         NEW d \in 0..Len(strokes), NEW r \in 0..3, OrderAt(d, r),
         Interrupt, buffer = Empty, last \in Answers
  PROVE  OrderAt(d, r)' /\ \E T : events' \in Seq(T)
<1>1. /\ mode = "idle" /\ HandlerReads("keyboard", DataPort) /\ UNCHANGED <<strokes, keyboard_mode>>
  BY HandlerSteps
<1>2. /\ ReadDataPort /\ "keyboard" \in pending /\ "keyboard" \notin pending'
      /\ buffer.device # "keyboard" /\ DataPort = last
  BY <1>1 DEF HandlerReads, Empty, DataPort
<1>3. Coming' = Coming
  BY <1>2, PortRead DEF Types
<1>4. r = 0 /\ ~six /\ ~prev /\ ~four
  BY <1>2 DEF OrderAt, Position
<1>5. PICK c \in {122, 126} : DataPort = c + 128
  BY <1>2 DEF Answers
<1>6. /\ prev' = FALSE /\ four' = four /\ six' = six /\ UNCHANGED leds
      /\ Parse([kind |-> "plain", code |-> c, press |-> FALSE])
  <2>1. prev \in BOOLEAN
    BY DEF Types
  <2> QED BY <1>4, <1>5, <2>1, AnswerByte
<1>7. mode' = mode /\ lock' = lock
  BY <1>6 DEF leds
<1>8. Told(d) /\ InOrder(strokes, Coming, d, r)
  BY <1>1 DEF OrderAt, Waiting, ToldAfter
<1>9. Told(d)' /\ \E T : events' \in Seq(T)
  BY <1>1, <1>6, <1>8, AnswerIsTold
<1>10. Position(d, r)'
  BY <1>1, <1>4, <1>6, <1>7 DEF OrderAt, Position
<1>11. Waiting(d, r)' /\ Told(ToldAfter(d))'
  BY <1>1, <1>3, <1>7, <1>8, <1>9 DEF Waiting, ToldAfter
<1> QED BY <1>9, <1>10, <1>11 DEF OrderAt

\* The keyboard's handler.
LEMMA HandlerInOrder ==
  ASSUME HavePlaces, Types, OrderInv, Interrupt PROVE OrderInv'
<1>1. /\ HandlerReads("keyboard", DataPort) /\ strokes' = strokes /\ strokes \in Seq(Keys)
      /\ altered' = altered /\ altered \in BOOLEAN
  BY HandlerSteps DEF OrderInv
<1>2. astray' = (astray \/ Foreign("keyboard"))
  BY <1>1 DEF HandlerReads
<1> SUFFICES ASSUME NoPause', ~altered', ~astray'
             PROVE  /\ \E T : events' \in Seq(T)
                    /\ \E d \in 0..Len(strokes), r \in 0..3 : OrderAt(d, r)'
  BY <1>1 DEF OrderInv
<1>3. NoPause /\ ~altered /\ ~astray /\ ~Foreign("keyboard")
  BY <1>1, <1>2 DEF NoPause
<1>a. PICK S : events \in Seq(S)
  BY <1>3 DEF OrderInv
<1>4. PICK d \in 0..Len(strokes), r \in 0..3 : events \in Seq(S) /\ OrderAt(d, r)
  BY <1>3, <1>a DEF OrderInv
<1>5. CASE buffer = Empty
  <2>1. last \in Answers
    BY <1>3, <1>5 DEF Foreign
  <2> QED BY <1>1, <1>4, <1>5, <2>1, AnswerReadAgain
<1>6. CASE buffer # Empty
  <2>1. buffer.device = "keyboard"
    BY <1>3, <1>6 DEF Foreign
  <2>2. d + 1 \in 1..Len(strokes) /\ strokes[d + 1] \in Keys
    BY <1>1, <1>4, <2>1, HandlerReadsOwn DEF Types
  <2>3. strokes[d + 1].kind \in Kinds /\ strokes[d + 1].kind # "pause"
    <3>1. DOMAIN strokes = 1..Len(strokes)
      BY <1>1, LenProperties
    <3> QED BY <1>3, <2>2, <3>1, KeyAssumption DEF NoPause
  <2>4. CASE strokes[d + 1].kind = "plain"
    <3>1. /\ d + 1 \in 0..Len(strokes) /\ OrderAt(d + 1, 0)' /\ \E T : events' \in Seq(T)
      BY <1>1, <1>4, <2>1, <2>4, PlainKeyRead
    <3> QED BY <3>1
  <2>5. CASE strokes[d + 1].kind = "extended"
    <3>1. /\ r = 0 => OrderAt(d, 1)'
          /\ r # 0 => d + 1 \in 0..Len(strokes) /\ OrderAt(d + 1, 0)'
          /\ \E T : events' \in Seq(T)
      BY <1>1, <1>4, <2>1, <2>5, ExtendedKeyRead
    <3> QED BY <3>1
  <2>6. CASE strokes[d + 1].kind = "print"
    <3>1. /\ r < 3 => OrderAt(d, r + 1)'
          /\ r = 3 => d + 1 \in 0..Len(strokes) /\ OrderAt(d + 1, 0)'
          /\ \E T : events' \in Seq(T)
      BY <1>1, <1>4, <2>1, <2>6, PrintKeyRead
    <3>2. r < 3 => r + 1 \in 0..3
      OBVIOUS
    <3>3. r < 3 \/ r = 3
      OBVIOUS
    <3> QED BY <3>1, <3>2, <3>3
  <2> QED BY <2>3, <2>4, <2>5, <2>6 DEF Kinds
<1> QED BY <1>5, <1>6

-----------------------------------------------------------------------------
(* set_leds and the order                                                   *)

\* A stroke's bytes are no answers.
LEMMA NoAnswer ==
  ASSUME HavePlaces, NEW k \in Keys, k.kind # "pause", NEW c \in 1..Size(k)
  PROVE  Bytes(k)[c] \notin Answers
<1>1. k.kind \in Kinds /\ k.press \in BOOLEAN
  BY KeyAssumption
<1>2. CASE k.kind = "plain"
  <2>1. k.code \in 1..88
    BY <1>2, PlacedCodes DEF HavePlaces
  <2>2. c = 1
    BY <1>2, SizeIs
  <2>3. \A e \in 1..88 : e \notin {250, 254} /\ e + 128 \notin {250, 254}
    OBVIOUS
  <2> QED BY <1>2, <2>1, <2>2, <2>3, BytesAre DEF Answers
<1>3. CASE k.kind = "extended"
  <2>1. k.code \in 16..109
    BY <1>3, PlacedCodes DEF HavePlaces
  <2>2. c = 1 \/ c = 2
    BY <1>3, SizeIs
  <2>3. \A e \in 16..109 : e \notin {250, 254} /\ e + 128 \notin {250, 254}
    OBVIOUS
  <2> QED BY <1>3, <2>1, <2>2, <2>3, BytesAre DEF Answers
<1>4. CASE k.kind = "print"
  <2>1. c = 1 \/ c = 2 \/ c = 3 \/ c = 4
    BY <1>4, SizeIs
  <2> QED BY <1>1, <1>4, <2>1, BytesAre DEF Answers
<1> QED BY <1>1, <1>2, <1>3, <1>4 DEF Kinds

\* An answer behind what the keyboard has sent.
LEMMA InsertedLast ==
  ASSUME NEW s \in Seq(Int), NEW b \in Int
  PROVE  Len(s) + 1 \in 1..Len(s) + 1 /\ Inserted(s \o <<b>>, s, Len(s) + 1)
<1>1. Len(s) \in Nat /\ <<b>> \in Seq(Int) /\ Len(<<b>>) = 1
  BY LenProperties
<1>2. /\ Len(s \o <<b>>) = Len(s) + 1
      /\ \A i \in 1..Len(s) + 1 : (s \o <<b>>)[i] = IF i <= Len(s) THEN s[i] ELSE <<b>>[i - Len(s)]
  BY <1>1, ConcatProperties
<1> DEFINE u == s \o <<b>>
<1> HIDE DEF u
<1>3. \A i \in 1..(Len(s) + 1) - 1 : u[i] = s[i]
  BY <1>1, <1>2 DEF u
<1>4. \A i \in Len(s) + 1..Len(s) : u[i + 1] = s[i]
  BY <1>1
<1> QED BY <1>1, <1>2, <1>3, <1>4 DEF Inserted, u

\* More bytes come behind it.
LEMMA InsertedMore ==
  ASSUME NEW u \in Seq(Int), NEW s \in Seq(Int), NEW p \in 1..Len(s) + 1, Inserted(u, s, p),
         NEW t \in Seq(Int)
  PROVE  s \o t \in Seq(Int) /\ p \in 1..Len(s \o t) + 1 /\ Inserted(u \o t, s \o t, p)
<1>1. /\ Len(s) \in Nat /\ Len(t) \in Nat /\ Len(u) = Len(s) + 1
      /\ s \o t \in Seq(Int) /\ u \o t \in Seq(Int)
      /\ Len(s \o t) = Len(s) + Len(t) /\ Len(u \o t) = Len(s) + 1 + Len(t)
      /\ \A i \in 1..Len(s) + Len(t) : (s \o t)[i] = IF i <= Len(s) THEN s[i] ELSE t[i - Len(s)]
      /\ \A i \in 1..Len(s) + 1 + Len(t) :
           (u \o t)[i] = IF i <= Len(s) + 1 THEN u[i] ELSE t[i - (Len(s) + 1)]
  <2>1. Len(s) \in Nat /\ Len(t) \in Nat /\ Len(u) = Len(s) + 1
    BY LenProperties DEF Inserted
  <2>2. /\ s \o t \in Seq(Int) /\ Len(s \o t) = Len(s) + Len(t)
        /\ \A i \in 1..Len(s) + Len(t) : (s \o t)[i] = IF i <= Len(s) THEN s[i] ELSE t[i - Len(s)]
    BY ConcatProperties
  <2>3. /\ u \o t \in Seq(Int) /\ Len(u \o t) = Len(u) + Len(t)
        /\ \A i \in 1..Len(u) + Len(t) : (u \o t)[i] = IF i <= Len(u) THEN u[i] ELSE t[i - Len(u)]
    BY ConcatProperties
  <2> QED BY <2>1, <2>2, <2>3
<1>2. PICK n \in Nat, m \in Nat, st \in Seq(Int), ut \in Seq(Int) :
        n = Len(s) /\ m = Len(t) /\ st = s \o t /\ ut = u \o t
  BY <1>1
<1>3. /\ \A i \in 1..n + m : st[i] = IF i <= n THEN s[i] ELSE t[i - n]
      /\ \A i \in 1..n + 1 + m : ut[i] = IF i <= n + 1 THEN u[i] ELSE t[i - (n + 1)]
      /\ p \in 1..n + 1
      /\ \A i \in 1..p - 1 : u[i] = s[i]
      /\ \A i \in p..n : u[i + 1] = s[i]
  BY <1>1, <1>2 DEF Inserted
<1>4. ASSUME NEW i \in 1..p - 1 PROVE ut[i] = st[i]
  <2>1. i \in 1..n + m /\ i <= n /\ i \in 1..n + 1 + m /\ i <= n + 1
    BY <1>3
  <2> QED BY <1>3, <2>1
<1>5. ASSUME NEW i \in p..n + m PROVE ut[i + 1] = st[i]
  <2>1. i \in 1..n + m /\ i + 1 \in 1..n + 1 + m /\ (i + 1) - (n + 1) = i - n
        /\ (i <= n <=> i + 1 <= n + 1) /\ (i <= n => i \in p..n)
    BY <1>3
  <2>2. st[i] = (IF i <= n THEN s[i] ELSE t[i - n])
    BY <1>3, <2>1
  <2>3. ut[i + 1] = IF i + 1 <= n + 1 THEN u[i + 1] ELSE t[(i + 1) - (n + 1)]
    BY <1>3, <2>1
  <2> QED BY <1>3, <2>1, <2>2, <2>3
<1>6. Len(ut) = Len(st) + 1 /\ Len(st) = n + m
  BY <1>1, <1>2
<1>7. Inserted(ut, st, p)
  BY <1>4, <1>5, <1>6 DEF Inserted
<1>8. p \in 1..Len(st) + 1
  BY <1>3, <1>6
<1> QED BY <1>1, <1>2, <1>7, <1>8

\* The answer comes first: it is the byte that was inserted.
LEMMA InsertedFirst ==
  ASSUME NEW u \in Seq(Int), u # <<>>, NEW s \in Seq(Int), NEW p \in 1..Len(s) + 1,
         Inserted(u, s, p), s # <<>> => u[1] # s[1]
  PROVE  Tail(u) = s
<1>1. /\ Tail(u) \in Seq(Int) /\ Len(Tail(u)) = Len(u) - 1
      /\ \A i \in 1..Len(u) - 1 : Tail(u)[i] = u[i + 1]
  BY TailIs
<1>2. Len(s) \in Nat /\ Len(u) = Len(s) + 1 /\ \A i \in p..Len(s) : u[i + 1] = s[i]
  BY LenProperties DEF Inserted
<1>3. p = 1
  <2> SUFFICES ASSUME p # 1 PROVE FALSE
    OBVIOUS
  <2>1. 1 \in 1..p - 1 /\ Len(s) # 0
    BY <1>2
  <2>2. u[1] = s[1] /\ s # <<>>
    BY <2>1 DEF Inserted
  <2> QED BY <2>2
<1>4. Len(Tail(u)) = Len(s)
  BY <1>1, <1>2
<1>5. ASSUME NEW i \in 1..Len(s) PROVE Tail(u)[i] = s[i]
  <2>1. i \in 1..Len(u) - 1 /\ i \in p..Len(s)
    BY <1>2, <1>3
  <2> QED BY <1>1, <1>2, <2>1
<1> QED BY <1>1, <1>4, <1>5, SeqEqual

\* The lock key is reported at last.
LEMMA FinishTells ==
  ASSUME HavePlaces, strokes \in Seq(Keys), NEW S, events \in Seq(S),
         NEW d \in 0..Len(strokes), NEW r \in 0..3, OrderAt(d, r), mode # "idle",
         Finish, UNCHANGED <<strokes, keyboard_mode, decoder>>, InOrder(strokes, Coming', d, r)
  PROVE  OrderAt(d, r)' /\ \E T : events' \in Seq(T)
<1>1. /\ r = 0 /\ d > 0 /\ strokes[d].kind = "plain" /\ strokes[d].press /\ strokes[d].code = lock
      /\ ~six /\ ~prev /\ ~four /\ (d < Len(strokes) => r < Size(strokes[d + 1]))
  BY DEF OrderAt, Position
<1>2. Told(d - 1)
  BY DEF OrderAt, ToldAfter
<1>3. PICK c \in 0..Len(strokes) - 1 : d - 1 = c /\ c + 1 = d
  <2>1. d - 1 \in 0..Len(strokes) - 1 /\ (d - 1) + 1 = d
    BY <1>1, LenProperties
  <2> QED BY <2>1
<1>4. mode' = "idle" /\ \E e : /\ e.kind = strokes[c + 1].kind /\ e.code = strokes[c + 1].code
                               /\ e.press = strokes[c + 1].press /\ Parse(e)
  <2>1. strokes[d] \in Keys
    BY <1>1, ElementOfSeq
  <2>2. strokes[d].press = TRUE
    BY <1>1, <2>1, KeyAssumption
  <2> DEFINE e == [kind |-> "plain", code |-> lock, press |-> TRUE]
  <2>3. Parse(e) /\ mode' = "idle"
    BY DEF Finish
  <2>4. e.kind = strokes[c + 1].kind /\ e.code = strokes[c + 1].code /\ e.press = strokes[c + 1].press
    BY <1>1, <1>3, <2>2
  <2> HIDE DEF e
  <2> QED BY <2>3, <2>4
<1>5. Told(c) /\ strokes[c + 1].kind # "pause"
  BY <1>1, <1>2, <1>3
<1>6. Told(c + 1)' /\ \E T : events' \in Seq(T)
  BY <1>4, <1>5, ParsedIsTold
<1>7. Told(ToldAfter(d))' /\ Waiting(d, r)'
  BY <1>3, <1>4, <1>6 DEF ToldAfter, Waiting
<1>8. Position(d, r)'
  BY <1>1, <1>4 DEF Position, decoder
<1> QED BY <1>6, <1>7, <1>8 DEF OrderAt

\* A step of set_leds before the lock key is reported.
LEMMA LedsGoOn ==
  ASSUME NEW d, NEW r \in 0..3, OrderAt(d, r), mode # "idle", mode' # "idle",
         UNCHANGED <<strokes, keyboard_mode, decoder, lock, pressed, events>>, Waiting(d, r)'
  PROVE  OrderAt(d, r)'
<1>1. Told(d - 1)
  BY DEF OrderAt, ToldAfter
<1>2. Told(d - 1)'
  BY <1>1, ToldKept
<1>3. Told(ToldAfter(d))'
  BY <1>2 DEF ToldAfter
<1>4. Position(d, r)'
  BY DEF OrderAt, Position, decoder
<1> QED BY <1>3, <1>4 DEF OrderAt

\* set_leds sends.
LEMMA LedSendInOrder ==
  ASSUME Types, OrderInv, LedSend PROVE OrderInv'
<1>1. /\ mode = "send" /\ mode' = "read" /\ buffer' = buffer /\ astray' = astray
      /\ UNCHANGED <<strokes, altered, keyboard_mode, decoder, lock, pressed, events>>
  BY DEF LedSend, Quiet, user
<1>2. PICK a \in Answers : Sends("keyboard", <<a>>)
  BY DEF LedSend
<1>3. a \in Int /\ <<a>> \in Seq(Int) /\ Coming \in Seq(Int)
  BY KeyComing DEF Answers
<1>4. Coming' = Coming \o <<a>>
  BY <1>1, <1>2, <1>3, KeyboardSends DEF Types
<1>5. ASSUME NEW d \in 0..Len(strokes), NEW r \in 0..3, OrderAt(d, r) PROVE OrderAt(d, r)'
  <2>1. InOrder(strokes, Coming, d, r)
    BY <1>1, <1>5 DEF OrderAt, Waiting
  <2>2. PICK s \in Seq(Int) : s = Coming
    BY <1>3
  <2>3. Len(s) + 1 \in 1..Len(s) + 1 /\ Inserted(s \o <<a>>, s, Len(s) + 1)
    BY <1>3, InsertedLast
  <2>4. InOrder(strokes', s, d, r) /\ Inserted(Coming', s, Len(s) + 1)
    BY <1>1, <1>4, <2>1, <2>2, <2>3
  <2>5. Waiting(d, r)'
    BY <1>1, <2>3, <2>4 DEF Waiting
  <2> QED BY <1>1, <1>5, <2>5, LedsGoOn
<1>6. NoPause' => NoPause
  BY <1>1 DEF NoPause
<1> QED BY <1>1, <1>5, <1>6 DEF OrderInv

\* set_leds takes the answer.
LEMMA LedReadInOrder ==
  ASSUME HavePlaces, Types, OrderInv, LedRead PROVE OrderInv'
<1>1. /\ mode = "read" /\ ReadDataPort /\ strokes \in Seq(Keys) /\ altered \in BOOLEAN
      /\ UNCHANGED <<strokes, altered, keyboard_mode, decoder>>
      /\ astray' = (astray \/ buffer.device # "keyboard" \/ buffer.byte \notin Answers)
  BY DEF LedRead, OrderInv, user
<1> SUFFICES ASSUME NoPause', ~altered', ~astray'
             PROVE  /\ \E T : events' \in Seq(T)
                    /\ \E d \in 0..Len(strokes), r \in 0..3 : OrderAt(d, r)'
  BY <1>1 DEF OrderInv
<1>2. NoPause /\ ~altered /\ ~astray /\ buffer.device = "keyboard" /\ buffer.byte \in Answers
  BY <1>1 DEF NoPause
<1>3. /\ Coming \in Seq(Int) /\ Coming # <<>> /\ Coming[1] \in Answers /\ Coming' = Tail(Coming)
  BY <1>1, <1>2, PortRead DEF Types
<1>4. PICK S : events \in Seq(S)
  BY <1>2 DEF OrderInv
<1>5. PICK d \in 0..Len(strokes), r \in 0..3 : OrderAt(d, r)
  BY <1>2 DEF OrderInv
<1>a. PICK s \in Seq(Int) :
        \E p \in 1..Len(s) + 1 : Inserted(Coming, s, p) /\ InOrder(strokes, s, d, r)
  BY <1>1, <1>5 DEF OrderAt, Waiting
<1>6. PICK p \in 1..Len(s) + 1 : Inserted(Coming, s, p) /\ InOrder(strokes, s, d, r)
  BY <1>a
<1>7. ASSUME s # <<>> PROVE s[1] \notin Answers
  <2>1. d < Len(strokes) => r < Size(strokes[d + 1])
    BY <1>5 DEF OrderAt, Position
  <2>2. d < Len(strokes) /\ s[1] = Bytes(strokes[d + 1])[r + 1]
    BY <1>1, <1>6, <1>7, <2>1, ReadsInOrder
  <2>3. d + 1 \in 1..Len(strokes) /\ DOMAIN strokes = 1..Len(strokes)
    BY <1>1, <2>2, LenProperties
  <2>4. strokes[d + 1] \in Keys /\ strokes[d + 1].kind # "pause"
    BY <1>1, <1>2, <2>3, ElementOfSeq DEF NoPause
  <2>5. r + 1 \in 1..Size(strokes[d + 1])
    <3>1. Size(strokes[d + 1]) \in 1..6
      BY <2>4, SizeIs
    <3> QED BY <2>1, <2>2, <3>1
  <2> QED BY <2>2, <2>4, <2>5, NoAnswer
<1>8. Coming' = s
  <2>1. PICK u \in Seq(Int) : u = Coming
    BY <1>3
  <2>2. u # <<>> /\ Inserted(u, s, p) /\ (s # <<>> => u[1] # s[1])
    BY <1>3, <1>6, <1>7, <2>1
  <2>3. Tail(u) = s
    BY <2>2, InsertedFirst
  <2> QED BY <1>3, <2>1, <2>3
<1>9. InOrder(strokes, Coming', d, r)
  BY <1>6, <1>8
<1>10. \/ mode' = "send" /\ UNCHANGED <<lock, pressed, events>>
       \/ Finish
  BY DEF LedRead, Quiet
<1>11. CASE mode' = "send" /\ UNCHANGED <<lock, pressed, events>>
  <2>1. Waiting(d, r)'
    BY <1>1, <1>9, <1>11 DEF Waiting
  <2>2. OrderAt(d, r)'
    BY <1>1, <1>5, <1>11, <2>1, LedsGoOn
  <2> QED BY <1>4, <1>11, <2>2
<1>12. CASE Finish
  <2>1. OrderAt(d, r)' /\ \E T : events' \in Seq(T)
    BY <1>1, <1>4, <1>5, <1>9, <1>12, FinishTells
  <2> QED BY <2>1
<1> QED BY <1>10, <1>11, <1>12

\* set_leds gives up.
LEMMA LedTimeoutInOrder ==
  ASSUME HavePlaces, Types, OrderInv, LedTimeout PROVE OrderInv'
<1>1. /\ mode \in {"send", "read"} /\ strokes \in Seq(Keys) /\ queue' = queue /\ buffer' = buffer
      /\ UNCHANGED <<strokes, altered, keyboard_mode, decoder>> /\ Finish
      /\ astray' = (astray \/ mode = "read")
  BY DEF LedTimeout, OrderInv, user
<1> SUFFICES ASSUME NoPause', ~altered', ~astray'
             PROVE  /\ \E T : events' \in Seq(T)
                    /\ \E d \in 0..Len(strokes), r \in 0..3 : OrderAt(d, r)'
  BY <1>1 DEF OrderInv
<1>2. NoPause /\ ~altered /\ ~astray /\ mode = "send" /\ Coming' = Coming
  BY <1>1 DEF NoPause, Coming
<1>3. PICK S : events \in Seq(S)
  BY <1>2 DEF OrderInv
<1>4. PICK d \in 0..Len(strokes), r \in 0..3 : OrderAt(d, r)
  BY <1>2 DEF OrderInv
<1>5. InOrder(strokes, Coming', d, r)
  BY <1>2, <1>4 DEF OrderAt, Waiting
<1>6. OrderAt(d, r)' /\ \E T : events' \in Seq(T)
  BY <1>1, <1>2, <1>3, <1>4, <1>5, FinishTells
<1> QED BY <1>6

-----------------------------------------------------------------------------
(* The other steps and the order                                            *)

\* A step that leaves the keyboard's bytes alone, and its interrupt to a stroke
\* at hand.
LEMMA OrderKept ==
  ASSUME OrderInv, UNCHANGED keyVars, astray' = FALSE => astray = FALSE /\ Coming' = Coming,
         astray \in BOOLEAN, astray' \in BOOLEAN,
         ~astray' /\ ("keyboard" \in pending => buffer.device = "keyboard")
           => ("keyboard" \in pending' => buffer'.device = "keyboard")
  PROVE  OrderInv'
<1>1. /\ UNCHANGED <<strokes, altered, keyboard_mode, pressed, events>>
      /\ mode' = mode /\ lock' = lock /\ prev' = prev /\ four' = four /\ six' = six /\ len' = len
  BY DEF keyVars, user, decoder, leds
<1>2. ASSUME ~astray', NEW d \in 0..Len(strokes), NEW r \in 0..3, OrderAt(d, r) PROVE OrderAt(d, r)'
  <2>1. Coming' = Coming
    BY <1>2
  <2>2. Waiting(d, r)'
    BY <1>1, <1>2, <2>1 DEF OrderAt, Waiting
  <2>3. ToldAfter(d)' = ToldAfter(d)
    BY <1>1 DEF ToldAfter
  <2>4. Told(ToldAfter(d))'
    BY <1>1, <1>2, <2>3, ToldKept DEF OrderAt
  <2>5. Position(d, r)'
    BY <1>1, <1>2 DEF OrderAt, Position
  <2> QED BY <2>2, <2>4, <2>5 DEF OrderAt
<1>3. NoPause' = NoPause
  BY <1>1 DEF NoPause
<1>4. ~astray' => ~astray
  OBVIOUS
<1> QED BY <1>1, <1>2, <1>3, <1>4 DEF OrderInv

\* The user strikes a key.
LEMMA StrokeInOrder ==
  ASSUME Types, OrderInv, NEW k \in Keys, Stroke(k) PROVE OrderInv'
<1>1. /\ strokes \in Seq(Keys) /\ strokes' = Append(strokes, k)
      /\ altered \in BOOLEAN /\ altered' \in BOOLEAN /\ (altered => altered')
      /\ ~altered' => Sends("keyboard", Bytes(k))
      /\ buffer' = buffer /\ pending' = pending /\ astray' = astray
      /\ UNCHANGED <<decoder, leds, keyboard_mode, pressed, events>>
  BY DEF Stroke, OrderInv
<1>2. mode' = mode /\ lock' = lock /\ prev' = prev /\ four' = four /\ six' = six /\ len' = len
  BY <1>1 DEF decoder, leds
<1>3. /\ Len(strokes) \in Nat /\ strokes' \in Seq(Keys) /\ Len(strokes') = Len(strokes) + 1
      /\ DOMAIN strokes = 1..Len(strokes) /\ DOMAIN strokes' = 1..Len(strokes')
      /\ \A i \in 1..Len(strokes) : strokes'[i] = strokes[i]
      /\ strokes'[Len(strokes) + 1] = k
  BY <1>1, AppendProperties, LenProperties
<1>4. Bytes(k) \in Seq(Int) /\ Size(k) \in 1..6 /\ Coming \in Seq(Int)
  BY SizeIs, KeyComing
<1>5. ~altered' => Coming' = Coming \o Bytes(k)
  BY <1>1, <1>4, KeyboardSends DEF Types
<1>6. NoPause' => NoPause
  <2>1. \A i \in 1..Len(strokes) : i \in 1..Len(strokes')
    BY <1>3
  <2> QED BY <1>3, <2>1 DEF NoPause
<1>7. ASSUME ~altered', NEW d \in 0..Len(strokes), NEW r \in 0..3, OrderAt(d, r)
      PROVE  d \in 0..Len(strokes') /\ OrderAt(d, r)'
  <2>1. d \in 0..Len(strokes') /\ r \in Nat
    BY <1>3
  <2>2. Told(ToldAfter(d))'
    <3>0. Position(d, r) /\ Told(ToldAfter(d))
      BY <1>7 DEF OrderAt
    <3>1. ToldAfter(d)' = ToldAfter(d) /\ ToldAfter(d) \in 0..Len(strokes) /\ Told(ToldAfter(d))
      <4>1. Len(strokes) \in Nat /\ (mode # "idle" => d > 0)
        BY <1>3, <3>0 DEF Position
      <4>2. ToldAfter(d)' = ToldAfter(d)
        BY <1>2 DEF ToldAfter
      <4>3. ToldAfter(d) \in 0..Len(strokes)
        BY <4>1 DEF ToldAfter
      <4> QED BY <3>0, <4>2, <4>3
    <3>2. PICK c \in 0..Len(strokes) : c = ToldAfter(d)
      BY <3>1
    <3>3. Told(c)'
      BY <1>1, <3>1, <3>2, StrokeIsNotTold
    <3> QED BY <3>1, <3>2, <3>3
  <2>3. Position(d, r)'
    <3>1. d < Len(strokes') => r < Size(strokes'[d + 1])
      <4>1. CASE d < Len(strokes)
        <5>1. d + 1 \in 1..Len(strokes)
          BY <1>3, <4>1
        <5> QED BY <1>3, <1>7, <4>1, <5>1 DEF OrderAt, Position
      <4>2. CASE d = Len(strokes)
        BY <1>3, <1>4, <1>7, <4>2 DEF OrderAt, Position
      <4> QED BY <1>3, <4>1, <4>2
    <3>2. d # Len(strokes')
      BY <1>3
    <3>3. d > 0 => strokes'[d] = strokes[d]
      BY <1>3
    <3> QED BY <1>1, <1>2, <1>7, <3>1, <3>2, <3>3 DEF OrderAt, Position
  <2>4. CASE mode # "read"
    <3>1. PICK s \in Seq(Int) : s = Coming
      BY <1>4
    <3>2. InOrder(strokes, s, d, r)
      BY <1>7, <2>4, <3>1 DEF OrderAt, Waiting
    <3>3. InOrder(Append(strokes, k), s \o Bytes(k), d, r)
      BY <1>1, <2>1, <3>2, OneMoreStroke
    <3>4. Waiting(d, r)'
      BY <1>1, <1>2, <1>5, <1>7, <2>4, <3>1, <3>3 DEF Waiting
    <3> QED BY <2>1, <2>2, <2>3, <3>4 DEF OrderAt
  <2>5. CASE mode = "read"
    <3>1. PICK u \in Seq(Int) : u = Coming
      BY <1>4
    <3>a. PICK s \in Seq(Int) :
            \E p \in 1..Len(s) + 1 : Inserted(u, s, p) /\ InOrder(strokes, s, d, r)
      BY <1>7, <2>5, <3>1 DEF OrderAt, Waiting
    <3>2. PICK p \in 1..Len(s) + 1 : Inserted(u, s, p) /\ InOrder(strokes, s, d, r)
      BY <3>a
    <3>3. InOrder(Append(strokes, k), s \o Bytes(k), d, r)
      BY <1>1, <2>1, <3>2, OneMoreStroke
    <3>4. /\ s \o Bytes(k) \in Seq(Int) /\ p \in 1..Len(s \o Bytes(k)) + 1
          /\ Inserted(u \o Bytes(k), s \o Bytes(k), p)
      BY <1>4, <3>2, InsertedMore
    <3>5. PICK t : t = s \o Bytes(k)
      OBVIOUS
    <3>6. /\ t \in Seq(Int) /\ p \in 1..Len(t) + 1 /\ Inserted(Coming', t, p)
          /\ InOrder(strokes', t, d, r)
      BY <1>1, <1>5, <1>7, <3>1, <3>3, <3>4, <3>5
    <3>7. Waiting(d, r)'
      BY <1>2, <2>5, <3>6 DEF Waiting
    <3> QED BY <2>1, <2>2, <2>3, <3>7 DEF OrderAt
  <2> QED BY <2>4, <2>5
<1> QED BY <1>1, <1>3, <1>6, <1>7 DEF OrderInv

\* Every step.
LEMMA OrderStep ==
  ASSUME HavePlaces, KeyInv, KeyInv', OrderInv, [Next]_vars PROVE OrderInv'
<1>1. Types /\ Queues /\ astray \in BOOLEAN /\ astray' \in BOOLEAN /\ plan.keys \subseteq Keys
  BY InputAssumption DEF KeyInv, Types
<1>2. CASE Keyboard
  BY <1>1, <1>2, HandlerInOrder, LedSendInOrder, LedReadInOrder, LedTimeoutInOrder
     DEF Keyboard, Leds
<1>3. CASE User
  <2>1. CASE \E k \in plan.keys : Stroke(k)
    BY <1>1, <2>1, StrokeInOrder
  <2>2. CASE (\E m \in plan.moves : MoveMouse(m)) /\ UNCHANGED keyVars
    <3>1. PICK m \in plan.moves : MoveMouse(m)
      BY <2>2
    <3>2. buffer' = buffer /\ pending' = pending /\ astray' = astray /\ Sends("mouse", Encode(m))
      BY <3>1 DEF MoveMouse
    <3>3. Coming' = Coming
      BY <1>1, <3>2, MouseSends
    <3> QED BY <1>1, <2>2, <3>2, <3>3, OrderKept
  <2> QED BY <1>3, <2>1, <2>2 DEF User
<1>4. CASE Wire
  <2>1. PICK d \in Devices : Transfer(d)
    BY <1>4 DEF Wire
  <2>2. Coming' = Coming /\ buffer'.device = d
    BY <1>1, <2>1, Transfers
  <2>3. buffer = Empty /\ buffer.device # "keyboard" /\ pending' = pending \cup {d} /\ astray' = astray
    BY <2>1 DEF Transfer, Empty
  <2>4. UNCHANGED keyVars
    BY <1>4 DEF Wire
  <2> QED BY <1>1, <2>2, <2>3, <2>4, OrderKept
<1>5. CASE MouseInterrupt
  <2>1. /\ pending' = pending \ {"mouse"} /\ ReadDataPort /\ astray' = (astray \/ Foreign("mouse"))
        /\ UNCHANGED keyVars
    BY <1>5 DEF MouseInterrupt, mouse_handler, HandlerReads
  <2>2. buffer.device # "keyboard" => Coming' = Coming
    BY <1>1, <2>1, PortRead
  <2>3. ASSUME ~astray' PROVE ~astray /\ buffer.device # "keyboard"
    BY <2>1, <2>3 DEF Foreign
  <2> QED BY <1>1, <2>1, <2>2, <2>3, OrderKept
<1>6. CASE Loop \/ UNCHANGED vars
  <2>1. /\ queue' = queue /\ buffer' = buffer /\ pending' = pending /\ astray' = astray
        /\ UNCHANGED keyVars
    BY <1>6 DEF Loop, cpp_event_loop, port, vars
  <2>2. Coming' = Coming
    BY <2>1 DEF Coming
  <2> QED BY <1>1, <2>1, <2>2, OrderKept
<1> QED BY <1>2, <1>3, <1>4, <1>5, <1>6 DEF Next

\* Keys have codes of their own.
LEMMA CodesAreOwn ==
  ASSUME HavePlaces, NEW k \in Keys, NEW l \in Keys
  PROVE  pack_keycode(ScanToKeyCode[KeyOf(k)]) = pack_keycode(ScanToKeyCode[KeyOf(l)])
           <=> k.kind = l.kind /\ k.code = l.code
<1>1. PICK a \in Placed, b \in Placed : a = KeyOf(k) /\ b = KeyOf(l)
  BY DEF HavePlaces, KeyOf
<1>2. pack_keycode(ScanToKeyCode[a]) = pack_keycode(ScanToKeyCode[b]) => a = b
  BY PlacedKeys, Zenon
<1>3. a = b <=> k.kind = l.kind /\ k.code = l.code
  BY <1>1 DEF KeyOf
<1> QED BY <1>1, <1>2, <1>3

\* What is told is as it should be.
LEMMA OrderIsFaithful == HavePlaces /\ Types /\ OrderInv => StrokesInOrder
<1> SUFFICES ASSUME HavePlaces, Types, OrderInv, NoPause, ~altered, ~astray PROVE Faithful
  BY DEF StrokesInOrder
<1>1. strokes \in Seq(Keys)
  BY DEF OrderInv
<1>2. PICK d \in 0..Len(strokes), r \in 0..3 : OrderAt(d, r)
  BY DEF OrderInv
<1>3. PICK c \in Int : c = ToldAfter(d) /\ (mode = "idle" => c = d)
  <2>1. Len(strokes) \in Nat
    BY <1>1, LenProperties
  <2> QED BY <2>1 DEF ToldAfter
<1>4. PICK of \in [Reported -> Due] : Matches(of, c)
  BY <1>2, <1>3 DEF OrderAt, Told
<1>5. /\ Len(strokes) \in Nat /\ Due \subseteq 1..Len(strokes)
      /\ \A n \in Reported : of[n] \in Due /\ of[n] \in 1..Len(strokes)
  <2>1. Len(strokes) \in Nat /\ Due \subseteq 1..Len(strokes)
    BY <1>1, LenProperties DEF Due
  <2>2. \A n \in Reported : of[n] \in Due
    BY <1>4
  <2> QED BY <2>1, <2>2
<1>6. \A n \in Reported, i \in Due : i < of[n] => \E m \in Reported : of[m] = i
  <2> SUFFICES ASSUME NEW n \in Reported, NEW i \in Due, i < of[n]
               PROVE  \E m \in Reported : of[m] = i
    OBVIOUS
  <2>1. of[n] <= c
    BY <1>4, <1>5 DEF Matches
  <2>2. i <= c
    <3>1. i \in Int /\ of[n] \in Int
      BY <1>5
    <3> QED BY <2>1, <3>1
  <2> QED BY <1>4, <2>2 DEF Matches
<1>7. ASSUME NEW n \in Reported, NEW m \in Reported
      PROVE  (events[n].key = events[m].key) <=>
             (strokes[of[n]].kind = strokes[of[m]].kind /\ strokes[of[n]].code = strokes[of[m]].code)
  <2>1. /\ events[n].key = pack_keycode(ScanToKeyCode[KeyOf(strokes[of[n]])])
        /\ events[m].key = pack_keycode(ScanToKeyCode[KeyOf(strokes[of[m]])])
    BY <1>4 DEF Matches
  <2>2. strokes[of[n]] \in Keys /\ strokes[of[m]] \in Keys
    BY <1>1, <1>5, ElementOfSeq
  <2> QED BY <2>1, <2>2, CodesAreOwn
<1>8. ASSUME mode = "idle", queue["keyboard"] = <<>>, buffer = Empty, NEW i \in Due
      PROVE  \E n \in Reported : of[n] = i
  <2>1. Coming = <<>>
    BY <1>8 DEF Coming, Empty
  <2>2. InOrder(strokes, <<>>, d, r) /\ (d < Len(strokes) => r < Size(strokes[d + 1]))
    BY <1>2, <1>8, <2>1 DEF OrderAt, Waiting, Position
  <2>3. d = Len(strokes)
    BY <1>1, <2>2, NothingLeft
  <2>4. i <= c
    BY <1>3, <1>5, <1>8, <2>3
  <2> QED BY <1>4, <2>4 DEF Matches
<1>9. /\ \A n, m \in Reported : n < m => of[n] < of[m]
      /\ \A n \in Reported : events[n].what = Expected(of[n])
  BY <1>4 DEF Matches
<1> QED BY <1>4, <1>6, <1>7, <1>8, <1>9 DEF Faithful

\* It holds at first.
LEMMA OrderInitially == Init => OrderInv
<1> SUFFICES ASSUME Init PROVE OrderInv
  OBVIOUS
<1>1. /\ queue["keyboard"] = <<>> /\ buffer = Empty /\ pending = {} /\ strokes = <<>> /\ altered = FALSE
      /\ events = <<>> /\ pressed = {} /\ mode = "idle"
      /\ prev = FALSE /\ four = FALSE /\ six = FALSE
  BY DEF Init, PortInit, KeyInit, Devices
<1>2. strokes \in Seq(Keys) /\ events \in Seq({}) /\ Len(strokes) = 0
      /\ DOMAIN strokes = {} /\ DOMAIN events = {}
  BY <1>1
<1>3. Coming = <<>>
  BY <1>1 DEF Coming, Empty
<1>4. Waiting(0, 0)
  <2> DEFINE st == [i \in 1..Len(strokes) + 1 |-> 1]
  <2>1. st \in [1..Len(strokes) + 1 -> Int] /\ st[0 + 1] = 1 - 0 /\ st[Len(strokes) + 1] = Len(<<>>) + 1
    BY <1>2
  <2>2. 0 + 1..Len(strokes) = {}
    BY <1>2
  <2> HIDE DEF st
  <2>3. Begins(st, strokes, <<>>, 0, 0)
    BY <2>1, <2>2 DEF Begins
  <2>4. InOrder(strokes, Coming, 0, 0)
    BY <1>3, <2>1, <2>3 DEF InOrder
  <2> QED BY <1>1, <2>4 DEF Waiting
<1>5. Position(0, 0)
  BY <1>1, <1>2 DEF Position
<1>6. Told(ToldAfter(0))
  <2>1. Due = {} /\ Reported = {}
    BY <1>2 DEF Due, Reported
  <2>2. pressed = Down(0 + 1)
    <3>1. 1..(0 + 1) - 1 = {}
      OBVIOUS
    <3> QED BY <1>1, <3>1 DEF Down
  <2> DEFINE of == [n \in Reported |-> 0]
  <2>3. of \in [Reported -> Due] /\ Matches(of, 0)
    BY <2>1 DEF Matches
  <2> QED BY <1>1, <2>2, <2>3 DEF Told, ToldAfter
<1>7. altered \in BOOLEAN
  BY <1>1
<1> QED BY <1>2, <1>4, <1>5, <1>6, <1>7 DEF OrderInv, OrderAt

\* Every stroke is reported once, in the user's order and as what it was, until
\* a Pause, a stroke whose bytes a held modifier changed or a LED exchange that
\* lost step: for any keys that have a place on the keyboard, any number of
\* strokes, any interleaving with the mouse's bytes and with the answers of
\* set_leds.
THEOREM StrokesAreInOrder ==
  ASSUME HavePlaces PROVE Spec => []StrokesInOrder
<1>1. Init => OrderInv
  BY OrderInitially
<1>2. KeyInv /\ KeyInv' /\ OrderInv /\ [Next]_vars => OrderInv'
  BY OrderStep
<1>3. KeyInv /\ OrderInv => StrokesInOrder
  BY OrderIsFaithful DEF KeyInv
<1> QED BY <1>1, <1>2, <1>3, KeyInvariance, PTL DEF Spec
=============================================================================
