------------------------- MODULE KeyboardSetupProofs -------------------------
(***************************************************************************)
(* setup_keyboard, the commands and the take-over by the IOAPIC, for any   *)
(* machine, any commands between set-up and take-over and any number of    *)
(* keys, movements and late answers: the gate an interrupt goes through    *)
(* and the scan code set the handler decodes.                              *)
(***************************************************************************)
EXTENDS KeyboardSetup, SequenceTheorems, FiniteSetTheorems, TLAPS

-----------------------------------------------------------------------------
(* Where the kernel is                                                      *)

\* All operations, and what is left to do after the last command.
Steps == Exchanges \cup {"initialized", "mask", "absent", "present", "unmask", "lapic",
                         "route 1", "route 12"}

Rest == <<"present", "unmask", "lapic", "route 1", "route 12">>

\* Commands and what comes after the last one.
ToDo == {c \o Rest : c \in Seq(Exchanges)}

Before3 == {<<"initialized", "mask", "absent">> \o t : t \in ToDo}
Before2 == {<<"mask", "absent">> \o t : t \in ToDo}
Before1 == {<<"absent">> \o t : t \in ToDo}

\* The gate is back.
Ending == {<<"unmask", "lapic", "route 1", "route 12">>, <<"lapic", "route 1", "route 12">>,
           <<"route 1", "route 12">>, <<"route 12">>, <<>>}

\* The keyboard's line cannot reach the core through the PICs: port 2's is cut
\* off with the cascade.
Blocked == port \in masked

\* The IOAPIC has no part in it yet.
PicsOnly == routed = {} /\ pending = {}

\* The gate of the keyboard's vector is away only while its line is blocked.
Opening ==
  /\ mode = "op" /\ Vectors \subseteq present /\ PicsOnly
  /\ \/ todo \in Before3
     \/ initialized /\ todo \in Before2
     \/ initialized /\ todo \in Before1 /\ Blocked

Talking ==
  /\ initialized /\ Blocked /\ PicsOnly
  /\ Vectors \ {VectorOf(LineOf(port))} \subseteq present
  /\ todo \in ToDo /\ (mode # "op" => Head(todo) \in Exchanges)

Closing == initialized /\ mode = "op" /\ Vectors \subseteq present /\ todo \in Ending

Stage == Opening \/ Talking \/ Closing

Gates == ~failed => stopped # "fault" /\ (stopped = "no" => Stage)

-----------------------------------------------------------------------------
(* What the keyboard and the driver say to each other                       *)

\* The keyboard's bytes on their way.
InFlight == IF buffer.port = port THEN <<buffer.byte>> \o queue[port] ELSE queue[port]

Bytes == {"key", "move", "ack", "resend", "echo", "set 3", "other set", "passed"}
Values == {"set 3", "other set", "passed"}

AllKeys(s) == \A i \in 1..Len(s) : s[i] = "key"

op == Head(todo)

\* The driver's record is right, if there is one and nothing was reset since.
Agree == active # 0 /\ ~reverted => kb.set = active

\* The keyboard has obeyed all bytes of the command but the ones in left, or taken
\* the first one for data of a command that failed before.
Before ==
  /\ Len(Script(op)) = 2 /\ Len(left) = 1 => kb.awaits \in {Script(op)[1], "none"}
  /\ Agree

\* It has obeyed the first byte of left, too.
After ==
  IF Len(left) = 2 THEN kb.awaits \in {Script(op)[1], "none"} /\ Agree
  ELSE CASE op = "set_scan_code_set_1" -> kb.set = 1
         [] op = "set_scan_code_set_3" -> kb.set = 3
         [] OTHER -> Agree

\* The command's last byte asks for a value.
Asked == Len(left) = 1 /\ op \in Getters

\* An answer on its way tells whether the keyboard has obeyed; a getter's is
\* followed by a value.
Answering(s, before, after, asked) ==
  /\ \A i \in 1..Len(s) : /\ s[i] \in {"key", "resend", "ack", "echo"} \cup Values
                          /\ s[i] = "resend" => before
                          /\ s[i] \in {"ack", "echo"} => after
  /\ \A i, j \in 1..Len(s) :
       i < j => s[i] = "key" \/ s[j] = "key" \/ (s[i] = "ack" /\ s[j] \in Values /\ asked)

\* At most one value is on its way.
Valuing(s) ==
  /\ \A i \in 1..Len(s) : s[i] \in {"key"} \cup Values
  /\ \A i, j \in 1..Len(s) : i < j => s[i] = "key" \/ s[j] = "key"

\* The bytes of the command that are left.
Commanding ==
  /\ op \in Exchanges
  /\ left = Script(op) \/ (Len(Script(op)) = 2 /\ left = <<Script(op)[2]>>)

Dialogue ==
  /\ mode = "op" => AllKeys(InFlight) /\ Agree
  /\ mode # "op" => Commanding /\ (op \in Reverting => reverted)
  /\ mode = "send" => AllKeys(InFlight) /\ Before
  /\ mode \in {"wait", "read"} =>
       Answering(InFlight, Before, After, Asked) /\ (Before \/ After)
  /\ mode \in {"wait2", "read2"} => Valuing(InFlight) /\ op \in Getters /\ Agree

Talk == ~astray /\ stopped = "no" /\ initialized => Dialogue

IsKeyboard(k) ==
  k \in [set : {1, 2, 3}, scanning : BOOLEAN, awaits : {"none"} \cup WithData]

Types ==
  /\ devices \in Machines
  /\ queue \in [Ports -> Seq(Bytes)]
  /\ buffer = Empty \/ (buffer.port \in Ports /\ buffer.byte \in Bytes)
  /\ IsKeyboard(kb)
  /\ astray \in BOOLEAN /\ failed \in BOOLEAN /\ reverted \in BOOLEAN

\* What went wrong for good went astray.
Traced == failed => astray

IInv == Types /\ Traced /\ Gates /\ Talk

-----------------------------------------------------------------------------
(* Sequences                                                                *)

\* Joining three pieces of the set-up.
LEMMA Associates == \A b, q, t \in Seq(Steps) : (b \o q) \o t = b \o (q \o t)
BY ConcatAssociative

\* Two pieces of the set-up are one.
LEMMA Joins == \A b, q \in Seq(Steps) : b \o q \in Seq(Steps)
BY ConcatProperties

\* A sequence of two.
LEMMA Pairs ==
  ASSUME NEW S, NEW a \in S, NEW b \in S
  PROVE  <<a>> \o <<b>> = <<a, b>>
<1>1. <<a>> \in Seq(S) /\ <<b>> \in Seq(S) /\ Len(<<a>>) = 1 /\ Len(<<b>>) = 1
  OBVIOUS
<1>2. /\ <<a>> \o <<b>> \in Seq(S) /\ Len(<<a>> \o <<b>>) = 2
      /\ (<<a>> \o <<b>>)[1] = a /\ (<<a>> \o <<b>>)[2] = b
  BY <1>1, ConcatProperties
<1>3. <<a, b>> \in Seq(S) /\ Len(<<a, b>>) = 2 /\ <<a, b>>[1] = a /\ <<a, b>>[2] = b
  OBVIOUS
<1>4. \A i \in 1..2 : (<<a>> \o <<b>>)[i] = <<a, b>>[i]
  BY <1>2, <1>3
<1> QED BY <1>2, <1>3, <1>4, SeqEqual

\* A sequence of three.
LEMMA Triples ==
  ASSUME NEW S, NEW a \in S, NEW b \in S, NEW c \in S
  PROVE  <<a>> \o <<b, c>> = <<a, b, c>> /\ <<a, b>> \o <<c>> = <<a, b, c>>
<1>1. /\ <<a>> \in Seq(S) /\ <<b, c>> \in Seq(S) /\ Len(<<a>>) = 1 /\ Len(<<b, c>>) = 2
      /\ <<c>> \in Seq(S) /\ <<a, b>> \in Seq(S) /\ Len(<<c>>) = 1 /\ Len(<<a, b>>) = 2
  OBVIOUS
<1>2. /\ <<a>> \o <<b, c>> \in Seq(S) /\ Len(<<a>> \o <<b, c>>) = 3
      /\ (<<a>> \o <<b, c>>)[1] = a /\ (<<a>> \o <<b, c>>)[2] = b /\ (<<a>> \o <<b, c>>)[3] = c
  BY <1>1, ConcatProperties
<1>3. /\ <<a, b>> \o <<c>> \in Seq(S) /\ Len(<<a, b>> \o <<c>>) = 3
      /\ (<<a, b>> \o <<c>>)[1] = a /\ (<<a, b>> \o <<c>>)[2] = b /\ (<<a, b>> \o <<c>>)[3] = c
  BY <1>1, ConcatProperties
<1>4. /\ <<a, b, c>> \in Seq(S) /\ Len(<<a, b, c>>) = 3
      /\ <<a, b, c>>[1] = a /\ <<a, b, c>>[2] = b /\ <<a, b, c>>[3] = c
  OBVIOUS
<1>5. \A i \in 1..3 : /\ (<<a>> \o <<b, c>>)[i] = <<a, b, c>>[i]
                      /\ (<<a, b>> \o <<c>>)[i] = <<a, b, c>>[i]
  BY <1>2, <1>3, <1>4
<1> QED BY <1>2, <1>3, <1>4, <1>5, SeqEqual

\* Nothing in front.
LEMMA EmptyFirst == \A s \in Seq(Steps) : <<>> \o s = s
BY ConcatEmptySeq

\* The first element of a concatenation.
LEMMA PutFirst ==
  ASSUME NEW S, NEW a \in S, NEW s \in Seq(S)
  PROVE  /\ <<a>> \o s \in Seq(S) /\ <<a>> \o s # <<>>
         /\ Head(<<a>> \o s) = a /\ Tail(<<a>> \o s) = s
<1>1. <<a>> \in Seq(S) /\ Len(<<a>>) = 1 /\ Len(s) \in Nat
  OBVIOUS
<1>2. /\ <<a>> \o s \in Seq(S) /\ Len(<<a>> \o s) = 1 + Len(s)
      /\ \A i \in 1..1 + Len(s) : (<<a>> \o s)[i] = IF i <= 1 THEN <<a>>[i] ELSE s[i - 1]
  BY <1>1, ConcatProperties
<1>3. <<a>> \o s # <<>>
  BY <1>1, <1>2
<1>4. Head(<<a>> \o s) = a
  BY <1>1, <1>2, <1>3
<1>5. /\ Tail(<<a>> \o s) \in Seq(S) /\ Len(Tail(<<a>> \o s)) = Len(s)
      /\ \A i \in 1..Len(s) : Tail(<<a>> \o s)[i] = s[i]
  BY <1>1, <1>2, <1>3
<1>6. Tail(<<a>> \o s) = s
  BY <1>5, SeqEqual
<1> QED BY <1>2, <1>3, <1>4, <1>6

\* A sequence is its head and its tail.
LEMMA Rebuild ==
  ASSUME NEW S, NEW s \in Seq(S), s # <<>>
  PROVE  /\ Head(s) \in S /\ Tail(s) \in Seq(S) /\ <<Head(s)>> \o Tail(s) = s
         /\ Len(s) \in Nat \ {0} /\ Head(s) = s[1] /\ Len(Tail(s)) = Len(s) - 1
         /\ \A i \in 1..Len(Tail(s)) : i + 1 \in 1..Len(s) /\ Tail(s)[i] = s[i + 1]
<1>1. /\ Head(s) \in S /\ Tail(s) \in Seq(S) /\ Len(s) \in Nat \ {0} /\ Head(s) = s[1]
      /\ Len(Tail(s)) = Len(s) - 1
      /\ \A i \in 1..Len(Tail(s)) : i + 1 \in 1..Len(s) /\ Tail(s)[i] = s[i + 1]
  OBVIOUS
<1>2. /\ <<Head(s)>> \in Seq(S) /\ Len(<<Head(s)>>) = 1
  BY <1>1
<1>3. /\ <<Head(s)>> \o Tail(s) \in Seq(S) /\ Len(<<Head(s)>> \o Tail(s)) = Len(s)
      /\ \A i \in 1..Len(s) : (<<Head(s)>> \o Tail(s))[i] = s[i]
  BY <1>1, <1>2, ConcatProperties
<1>4. <<Head(s)>> \o Tail(s) = s
  BY <1>3, SeqEqual
<1> QED BY <1>1, <1>4

\* Head and tail of two sequences joined.
LEMMA HeadFirst ==
  ASSUME NEW S, NEW s \in Seq(S), NEW t \in Seq(S), s # <<>>
  PROVE  /\ s \o t \in Seq(S) /\ s \o t # <<>>
         /\ Head(s \o t) = Head(s) /\ Tail(s \o t) = Tail(s) \o t
<1>1. /\ Head(s) \in S /\ Tail(s) \in Seq(S) /\ <<Head(s)>> \o Tail(s) = s
  BY Rebuild
<1>2. <<Head(s)>> \in Seq(S)
  BY <1>1
<1>3. s \o t = <<Head(s)>> \o (Tail(s) \o t) /\ Tail(s) \o t \in Seq(S)
  BY <1>1, <1>2, ConcatAssociative, ConcatProperties
<1> QED BY <1>1, <1>3, PutFirst

-----------------------------------------------------------------------------
(* What is to do                                                            *)

\* The steps that talk to the keyboard, and those that do not.
LEMMA ExchangeSteps ==
  /\ Exchanges \subseteq Steps
  /\ {"initialized", "mask", "absent", "present", "unmask", "lapic", "route 1", "route 12"}
       \subseteq Steps
  /\ {"initialized", "mask", "absent", "present", "unmask", "lapic", "route 1", "route 12"}
       \cap Exchanges = {}
BY DEF Exchanges, Steps

\* The steps that do not.
LEMMA StepNames ==
  /\ "initialized" \in Steps /\ "mask" \in Steps /\ "absent" \in Steps /\ "present" \in Steps
  /\ "unmask" \in Steps /\ "lapic" \in Steps /\ "route 1" \in Steps /\ "route 12" \in Steps
BY DEF Steps

\* How the set-up ends.
LEMMA RestIs ==
  /\ Rest \in Seq(Steps) /\ Rest # <<>> /\ Head(Rest) = "present"
  /\ Tail(Rest) = <<"unmask", "lapic", "route 1", "route 12">>
<1>1. Rest \in Seq(Steps)
  BY DEF Rest, Steps
<1>2. Rest # <<>> /\ Head(Rest) = "present"
  BY DEF Rest
<1>3. Tail(Rest) = <<"unmask", "lapic", "route 1", "route 12">>
  <2> DEFINE t == <<"unmask", "lapic", "route 1", "route 12">>
  <2>1. t \in Seq(Steps) /\ Len(t) = 4
    BY DEF Steps
  <2>2. Len(Rest) = 5
    BY DEF Rest
  <2>3. Tail(Rest) \in Seq(Steps) /\ Len(Tail(Rest)) = 4
    BY <1>1, <1>2, <2>2, HeadTailProperties
  <2>4. \A i \in 1..4 : Tail(Rest)[i] = Rest[i + 1]
    BY <1>1, <1>2, <2>3, HeadTailProperties
  <2>5. /\ Rest[1 + 1] = t[1] /\ Rest[2 + 1] = t[2] /\ Rest[3 + 1] = t[3]
        /\ Rest[4 + 1] = t[4]
    BY DEF Rest
  <2> HIDE DEF t
  <2>6. \A i \in 1..4 : Tail(Rest)[i] = t[i]
    <3>1. \A i \in 1..4 : i = 1 \/ i = 2 \/ i = 3 \/ i = 4
      OBVIOUS
    <3> QED BY <2>4, <2>5, <3>1, Zenon
  <2> QED BY <2>1, <2>3, <2>6, SeqEqual DEF t
<1> QED BY <1>1, <1>2, <1>3

\* Commands are left, or the gate comes next.
LEMMA ToDoCases ==
  ASSUME NEW t \in ToDo
  PROVE  /\ t \in Seq(Steps) /\ t # <<>>
         /\ \/ t = Rest
            \/ /\ Head(t) \in Exchanges /\ Tail(t) \in ToDo
               /\ \A o \in Exchanges : <<o>> \o Tail(t) \in ToDo
<1>1. PICK c \in Seq(Exchanges) : t = c \o Rest
  BY DEF ToDo
<1>2. c \in Seq(Steps)
  BY ExchangeSteps, SeqMonotonic
<1>3. CASE c = <<>>
  BY <1>1, <1>3, RestIs, EmptyFirst
<1>4. CASE c # <<>>
  <2>1. /\ t \in Seq(Steps) /\ t # <<>> /\ Head(t) = Head(c) /\ Tail(t) = Tail(c) \o Rest
    BY <1>1, <1>2, <1>4, HeadFirst, RestIs, ZenonT(30)
  <2>2. Head(c) \in Exchanges /\ Tail(c) \in Seq(Exchanges)
    BY <1>4
  <2>3. ASSUME NEW o \in Exchanges PROVE <<o>> \o Tail(t) \in ToDo
    <3>1. <<o>> \o Tail(c) \in Seq(Exchanges)
      BY <2>2
    <3>2. Tail(c) \in Seq(Steps)
      BY <1>2, <1>4
    <3>3. o \in Steps
      BY ExchangeSteps
    <3>4. <<o>> \in Seq(Steps)
      BY <3>3
    <3>5. (<<o>> \o Tail(c)) \o Rest = <<o>> \o (Tail(c) \o Rest)
      BY <3>2, <3>4, RestIs, Associates, Zenon
    <3>6. <<o>> \o Tail(t) = (<<o>> \o Tail(c)) \o Rest
      BY <2>1, <3>5
    <3> QED BY <3>1, <3>6 DEF ToDo
  <2>4. Tail(t) \in ToDo
    BY <2>1, <2>2 DEF ToDo
  <2> QED BY <2>1, <2>2, <2>3, <2>4
<1> QED BY <1>3, <1>4

\* How disable_keyboard begins.
LEMMA Openings ==
  ASSUME NEW t \in ToDo
  PROVE  /\ <<"initialized", "mask", "absent">> \o t # <<>>
         /\ Head(<<"initialized", "mask", "absent">> \o t) = "initialized"
         /\ Tail(<<"initialized", "mask", "absent">> \o t) = <<"mask", "absent">> \o t
         /\ <<"mask", "absent">> \o t # <<>>
         /\ Head(<<"mask", "absent">> \o t) = "mask"
         /\ Tail(<<"mask", "absent">> \o t) = <<"absent">> \o t
         /\ <<"absent">> \o t # <<>>
         /\ Head(<<"absent">> \o t) = "absent"
         /\ Tail(<<"absent">> \o t) = t
         /\ <<"initialized", "mask", "absent">> \o t
              = <<"initialized">> \o (<<"mask", "absent">> \o t)
<1>1. t \in Seq(Steps)
  BY ToDoCases
<1>2. "mask" \in Steps /\ "absent" \in Steps /\ "initialized" \in Steps
  BY ExchangeSteps
<1>3. /\ <<"mask">> \in Seq(Steps) /\ <<"absent">> \in Seq(Steps)
      /\ <<"initialized">> \in Seq(Steps) /\ <<"mask", "absent">> \in Seq(Steps)
  BY <1>2
<1>4. /\ <<"absent">> \o t \in Seq(Steps) /\ <<"absent">> \o t # <<>>
      /\ Head(<<"absent">> \o t) = "absent" /\ Tail(<<"absent">> \o t) = t
  BY <1>1, <1>2, PutFirst
<1>5. <<"mask", "absent">> \o t = <<"mask">> \o (<<"absent">> \o t)
  <2>1. <<"mask", "absent">> = <<"mask">> \o <<"absent">>
    BY <1>2, Pairs
  <2> QED BY <1>1, <1>3, <2>1, Associates
<1>6. <<"initialized", "mask", "absent">> \o t = <<"initialized">> \o (<<"mask", "absent">> \o t)
  <2>1. <<"initialized", "mask", "absent">> = <<"initialized">> \o <<"mask", "absent">>
    BY <1>2, Triples
  <2> QED BY <1>1, <1>3, <2>1, Associates, SMTT(30)
<1>7. /\ <<"mask", "absent">> \o t \in Seq(Steps) /\ <<"mask", "absent">> \o t # <<>>
      /\ Head(<<"mask", "absent">> \o t) = "mask"
      /\ Tail(<<"mask", "absent">> \o t) = <<"absent">> \o t
  BY <1>2, <1>4, <1>5, PutFirst
<1>8. /\ <<"initialized", "mask", "absent">> \o t # <<>>
      /\ Head(<<"initialized", "mask", "absent">> \o t) = "initialized"
      /\ Tail(<<"initialized", "mask", "absent">> \o t) = <<"mask", "absent">> \o t
  BY <1>2, <1>6, <1>7, PutFirst
<1> QED BY <1>4, <1>6, <1>7, <1>8

\* What the set-up is made of.
LEMMA Pieces ==
  /\ disable_keyboard = <<"mask", "absent">> \o <<"disable_scanning">>
  /\ enable_keyboard = <<"enable_scanning">> \o <<"present", "unmask">>
  /\ Rest = <<"present", "unmask">> \o take_over
<1>1. Exchanges \cup {"mask", "absent", "present", "unmask"} \subseteq Steps
  BY ExchangeSteps
<1>2. "enable_scanning" \in Steps /\ "disable_scanning" \in Steps
  BY <1>1 DEF Exchanges
<1>3. Rest = <<"present", "unmask">> \o take_over
  <2> DEFINE e == <<"present", "unmask">>
  <2>1. e \in Seq(Steps) /\ Len(e) = 2 /\ e[1] = "present" /\ e[2] = "unmask"
    BY <1>1
  <2>2. take_over \in Seq(Steps) /\ Len(take_over) = 3
    BY DEF take_over, Steps
  <2>3. take_over[1] = "lapic" /\ take_over[2] = "route 1" /\ take_over[3] = "route 12"
    BY DEF take_over
  <2> HIDE DEF e
  <2>4. /\ e \o take_over \in Seq(Steps) /\ Len(e \o take_over) = 5
        /\ \A i \in 1..5 : (e \o take_over)[i] = IF i <= 2 THEN e[i] ELSE take_over[i - 2]
    <3>1. /\ e \o take_over \in Seq(Steps)
          /\ Len(e \o take_over) = Len(e) + Len(take_over)
          /\ \A i \in 1..Len(e) + Len(take_over) :
               (e \o take_over)[i] = IF i <= Len(e) THEN e[i] ELSE take_over[i - Len(e)]
      BY <2>1, <2>2, ConcatProperties, Zenon
    <3>2. 2 + 3 = 5
      OBVIOUS
    <3> QED BY <2>1, <2>2, <3>1, <3>2, Zenon
  <2>5. /\ (e \o take_over)[1] = "present" /\ (e \o take_over)[2] = "unmask"
        /\ (e \o take_over)[3] = "lapic" /\ (e \o take_over)[4] = "route 1"
        /\ (e \o take_over)[5] = "route 12"
    <3>1. /\ 1 \in 1..5 /\ 2 \in 1..5 /\ 3 \in 1..5 /\ 4 \in 1..5 /\ 5 \in 1..5
          /\ 1 <= 2 /\ 2 <= 2 /\ ~(3 <= 2) /\ ~(4 <= 2) /\ ~(5 <= 2)
          /\ 3 - 2 = 1 /\ 4 - 2 = 2 /\ 5 - 2 = 3
      OBVIOUS
    <3> QED BY <2>1, <2>3, <2>4, <3>1, Zenon
  <2>6. /\ Rest[1] = "present" /\ Rest[2] = "unmask" /\ Rest[3] = "lapic"
        /\ Rest[4] = "route 1" /\ Rest[5] = "route 12" /\ Len(Rest) = 5
    BY DEF Rest
  <2>7. \A i \in 1..5 : (e \o take_over)[i] = Rest[i]
    <3>1. \A i \in 1..5 : i = 1 \/ i = 2 \/ i = 3 \/ i = 4 \/ i = 5
      OBVIOUS
    <3> QED BY <2>5, <2>6, <3>1, Zenon
  <2> QED BY <2>4, <2>6, <2>7, RestIs, SeqEqual DEF e
<1>4. disable_keyboard = <<"mask", "absent">> \o <<"disable_scanning">>
  BY <1>1, <1>2, Triples DEF disable_keyboard
<1>5. enable_keyboard = <<"enable_scanning">> \o <<"present", "unmask">>
  BY <1>1, <1>2, Triples DEF enable_keyboard
<1> QED BY <1>3, <1>4, <1>5

\* Commands between disable_keyboard and enable_keyboard, and what follows.
LEMMA UseIs ==
  ASSUME NEW cs \in Seq(Exchanges)
  PROVE  /\ disable_keyboard \in Seq(Steps) /\ enable_keyboard \in Seq(Steps)
         /\ take_over \in Seq(Steps) /\ cs \in Seq(Steps)
         /\ \E t \in ToDo : Use(cs) \o take_over = <<"mask", "absent">> \o t
<1> DEFINE m == <<"mask", "absent">>
           d == <<"disable_scanning">>
           n == <<"enable_scanning">>
           e == <<"present", "unmask">>
           c == (d \o cs) \o n
<1>1. c \in Seq(Exchanges)
  <2>1. d \in Seq(Exchanges) /\ n \in Seq(Exchanges)
    BY DEF Exchanges
  <2> HIDE DEF d, n
  <2> QED BY <2>1
<1>2. cs \in Seq(Steps)
  BY ExchangeSteps, SeqMonotonic
<1>3. m \in Seq(Steps) /\ e \in Seq(Steps) /\ take_over \in Seq(Steps)
  BY DEF take_over, Steps
<1>4. "enable_scanning" \in Steps /\ "disable_scanning" \in Steps
  BY ExchangeSteps DEF Exchanges
<1>5. d \in Seq(Steps) /\ n \in Seq(Steps)
  BY <1>4
<1>6. disable_keyboard = m \o d /\ enable_keyboard = n \o e /\ Rest = e \o take_over
  BY Pieces
<1> HIDE DEF m, d, n, e
<1>7. m \o d \in Seq(Steps) /\ n \o e \in Seq(Steps) /\ d \o cs \in Seq(Steps)
  BY <1>2, <1>3, <1>5, Joins
<1>8. c \in Seq(Steps)
  BY <1>5, <1>7, Joins
<1> HIDE DEF c
<1>9. c \o e \in Seq(Steps)
  BY <1>3, <1>8, Joins
<1>10. ((m \o d) \o cs) \o (n \o e) = m \o (c \o e)
  <2>1. (m \o d) \o cs = m \o (d \o cs)
    BY <1>2, <1>3, <1>5, Associates, ZenonT(30)
  <2>2. (m \o (d \o cs)) \o (n \o e) = m \o ((d \o cs) \o (n \o e))
    BY <1>3, <1>7, Associates, ZenonT(30)
  <2>3. c \o e = (d \o cs) \o (n \o e)
    <3>1. \A x \in Seq(Steps) : (x \o n) \o e = x \o (n \o e)
      <4>1. n \in Seq(Steps) /\ e \in Seq(Steps)
        BY <1>3, <1>5
      <4> QED BY <4>1, Associates
    <3>2. ((d \o cs) \o n) \o e = (d \o cs) \o (n \o e)
      BY <1>7, <3>1, Zenon
    <3> QED BY <3>2 DEF c
  <2> QED BY <2>1, <2>2, <2>3
<1>11. (m \o (c \o e)) \o take_over = m \o (c \o Rest)
  <2>1. (m \o (c \o e)) \o take_over = m \o ((c \o e) \o take_over)
    BY <1>3, <1>9, Associates, ZenonT(30)
  <2>2. (c \o e) \o take_over = c \o (e \o take_over)
    BY <1>3, <1>8, Associates, ZenonT(30)
  <2> QED BY <1>6, <2>1, <2>2
<1>12. Use(cs) \o take_over = m \o (c \o Rest)
  BY <1>6, <1>10, <1>11 DEF Use
<1>13. c \o Rest \in ToDo
  BY <1>1 DEF ToDo
<1> QED BY <1>2, <1>3, <1>6, <1>7, <1>12, <1>13 DEF m

\* The commands of a caller.
LEMMA UseToDo == \A cs \in Commands : Use(cs) \o take_over \in Before2
<1> TAKE cs \in Commands
<1>1. cs \in Seq(Exchanges \ {"set_scan_code_set_1", "make_only_2"})
  BY KeyboardSetupAssumption
<1>2. cs \in Seq(Exchanges)
  BY <1>1, SeqMonotonic
<1> QED BY <1>2, UseIs DEF Before2

\* setup_keyboard and what follows it.
LEMMA SetupToDo == setup_keyboard \o take_over \in Before3
<1> DEFINE i == <<"initialized">>
           cs == <<"set_scan_code_set_1", "set_leds">>
<1>1. cs \in Seq(Exchanges)
  BY DEF Exchanges
<1>2. i \in Seq(Steps)
  BY DEF Steps
<1>3. setup_keyboard = ((i \o disable_keyboard) \o cs) \o enable_keyboard
  BY DEF setup_keyboard
<1> HIDE DEF i, cs
<1>4. /\ disable_keyboard \in Seq(Steps) /\ enable_keyboard \in Seq(Steps)
      /\ take_over \in Seq(Steps) /\ cs \in Seq(Steps)
  BY <1>1, UseIs
<1>5. PICK t \in ToDo : Use(cs) \o take_over = <<"mask", "absent">> \o t
  BY <1>1, UseIs
<1>6. disable_keyboard \o cs \in Seq(Steps) /\ Use(cs) \in Seq(Steps)
  BY <1>4, Joins DEF Use
<1>7. (i \o disable_keyboard) \o cs = i \o (disable_keyboard \o cs)
  BY <1>2, <1>4, Associates
<1>8. setup_keyboard = i \o Use(cs)
  <2>1. (i \o (disable_keyboard \o cs)) \o enable_keyboard
          = i \o ((disable_keyboard \o cs) \o enable_keyboard)
    BY <1>2, <1>4, <1>6, Associates, ZenonT(30)
  <2> QED BY <1>3, <1>7, <2>1 DEF Use
<1>9. setup_keyboard \o take_over = i \o (<<"mask", "absent">> \o t)
  <2>1. (i \o Use(cs)) \o take_over = i \o (Use(cs) \o take_over)
    BY <1>2, <1>4, <1>6, Associates, Zenon
  <2> QED BY <1>5, <1>8, <2>1
<1>10. i \o (<<"mask", "absent">> \o t) = <<"initialized", "mask", "absent">> \o t
  BY Openings DEF i
<1> QED BY <1>9, <1>10 DEF Before3

-----------------------------------------------------------------------------
(* The keyboard's port and the gates                                        *)

\* A machine has at most two ports.
LEMMA MachinePorts == \A m \in Machines : DOMAIN m \subseteq {1, 2}
<1> TAKE m \in Machines
<1>1. PICK n \in 0..2 : m \in [1..n -> {"keyboard", "mouse"}]
  BY KeyboardSetupAssumption
<1>2. DOMAIN m = 1..n
  BY <1>1
<1>3. \A i \in 1..n : i = 1 \/ i = 2
  BY <1>1
<1> QED BY <1>2, <1>3

\* The driver talks to a port with a keyboard.
LEMMA PortHasKeyboard ==
  ASSUME initialized, devices \in Machines
  PROVE  port \in DOMAIN devices /\ port \in {1, 2} /\ devices[port] = "keyboard"
<1>1. KeyboardPorts # {}
  BY FS_EmptySet DEF initialized
<1>2. port \in KeyboardPorts
  BY <1>1 DEF port
<1> QED BY <1>2, MachinePorts DEF KeyboardPorts

\* The machine stays as it is.
LEMMA MachineStays ==
  ASSUME [Next]_vars
  PROVE  devices' = devices /\ port' = port /\ initialized' = initialized
<1>1. devices' = devices
  BY DEF Next, Kernel, User, Wire, Interrupted, Initialized, Operate, Begin, Send, GiveUp, Wait,
         Read, Read2, Key, Move, Transfer, Interrupt, vars
<1>2. KeyboardPorts' = KeyboardPorts
  BY <1>1 DEF KeyboardPorts
<1> QED BY <1>1, <1>2 DEF port, initialized

\* Lines and vectors of the two ports.
LEMMA VectorsOfPorts ==
  /\ Vectors = {33, 44}
  /\ \A p \in {1, 2} : /\ VectorOf(LineOf(p)) = IF p = 1 THEN 33 ELSE 44
                       /\ LineOf(p) = IF p = 1 THEN 1 ELSE 12
<1>1. Vectors = {VectorOf(1), VectorOf(12)}
  BY DEF Vectors, Lines
<1>2. VectorOf(1) = 33 /\ VectorOf(12) = 44
  BY DEF VectorOf
<1> QED BY <1>1, <1>2 DEF LineOf

\* A gate is away only where no interrupt comes through.
LEMMA NoFault ==
  ASSUME Stage, devices \in Machines, NEW p \in DOMAIN devices, NEW eoi, Take(LineOf(p), eoi)
  PROVE  VectorOf(LineOf(p)) \in present
<1>1. p \in {1, 2}
  BY MachinePorts
<1>2. VectorOf(LineOf(p)) \in Vectors
  BY <1>1, VectorsOfPorts
<1>3. CASE Opening \/ Closing
  BY <1>2, <1>3 DEF Opening, Closing
<1>4. CASE Talking
  <2>1. port \in {1, 2}
    BY <1>4, PortHasKeyboard DEF Talking
  <2>2. CASE p # port
    <3>1. VectorOf(LineOf(p)) # VectorOf(LineOf(port))
      BY <1>1, <2>1, <2>2, VectorsOfPorts
    <3> QED BY <1>2, <1>4, <3>1 DEF Talking
  <2>3. CASE p = port
    <3>1. port \in masked /\ pending = {}
      BY <1>4 DEF Talking, Blocked, PicsOnly
    <3>2. ~TakeFromApic(LineOf(p), eoi)
      BY <3>1 DEF TakeFromApic
    <3>3. ~PicOffers(LineOf(p))
      <4>1. LineOf(p) = IF p = 1 THEN 1 ELSE 12
        BY <1>1, VectorsOfPorts
      <4>2. CASE p = 1
        BY <2>3, <3>1, <4>1, <4>2 DEF PicOffers
      <4>3. CASE p = 2
        BY <2>3, <3>1, <4>1, <4>3 DEF PicOffers, Cascade
      <4> QED BY <1>1, <4>2, <4>3
    <3> QED BY <3>2, <3>3 DEF Take, TakeFromPic
  <2> QED BY <2>2, <2>3
<1> QED BY <1>3, <1>4 DEF Stage

\* The core of it: the gates stay, and the IOAPIC has nothing to say before its
\* turn.
LEMMA QuietChips ==
  ASSUME Stage, [Next]_vars, devices \in Machines,
         UNCHANGED <<todo, mode, masked, routed, present>>,
         routed = {} => pending' \subseteq pending
  PROVE  Stage'
<1>1. port' = port /\ initialized' = initialized
  BY MachineStays
<1>2. PicsOnly => PicsOnly'
  BY DEF PicsOnly
<1>3. Blocked' = Blocked
  BY <1>1 DEF Blocked
<1>4. Opening => Opening'
  BY <1>1, <1>2, <1>3 DEF Opening
<1>5. VectorOf(LineOf(port))' = VectorOf(LineOf(port))
  BY <1>1
<1>6. Talking => Talking'
  BY <1>1, <1>2, <1>3, <1>5 DEF Talking
<1>7. Closing => Closing'
  BY <1>1 DEF Closing
<1> QED BY <1>4, <1>6, <1>7 DEF Stage

\* The first steps of setup_keyboard, of disable_keyboard.
LEMMA StageOpening ==
  ASSUME Stage, Next, Initialized \/ Operate, devices \in Machines, Opening, stopped' = "no"
  PROVE  Stage'
<1>1. port' = port /\ initialized' = initialized
  BY MachineStays
<1>2. mode' = "op" /\ todo' = Tail(todo)
  BY DEF Initialized, Operate, Opening
<1>3. CASE todo \in Before3
  <2>1. PICK t \in ToDo : todo = <<"initialized", "mask", "absent">> \o t
    BY <1>3 DEF Before3
  <2>2. Head(todo) = "initialized" /\ todo' = <<"mask", "absent">> \o t
    BY <1>2, <2>1, Openings
  <2>3. Initialized
    BY <2>2 DEF Operate
  <2>4. initialized /\ UNCHANGED chips
    BY <2>3 DEF Initialized
  <2>5. todo' \in Before2
    BY <2>2 DEF Before2
  <2>6. Opening'
    BY <1>1, <1>2, <2>4, <2>5 DEF Opening, PicsOnly, chips
  <2> QED BY <2>6 DEF Stage
<1>4. CASE initialized /\ todo \in Before2
  <2>1. PICK t \in ToDo : todo = <<"mask", "absent">> \o t
    BY <1>4 DEF Before2
  <2>2. Head(todo) = "mask" /\ todo' = <<"absent">> \o t
    BY <1>2, <2>1, Openings
  <2>3. ChipOp("mask")
    BY <2>2 DEF Initialized, Operate
  <2>4. masked' = masked \cup {port} /\ UNCHANGED <<routed, pending, present>>
    BY <2>3 DEF ChipOp, IRQ_set_mask
  <2>5. todo' \in Before1
    BY <2>2 DEF Before1
  <2>6. Blocked'
    BY <1>1, <2>4 DEF Blocked
  <2>7. Opening'
    BY <1>1, <1>2, <1>4, <2>4, <2>5, <2>6 DEF Opening, PicsOnly
  <2> QED BY <2>7 DEF Stage
<1>5. CASE initialized /\ todo \in Before1 /\ Blocked
  <2>1. PICK t \in ToDo : todo = <<"absent">> \o t
    BY <1>5 DEF Before1
  <2>2. Head(todo) = "absent" /\ todo' = t
    BY <1>2, <2>1, Openings
  <2>3. ChipOp("absent")
    BY <2>2 DEF Initialized, Operate
  <2>4. present' = present \ {VectorOf(LineOf(port))} /\ UNCHANGED <<masked, routed, pending>>
    BY <2>3 DEF ChipOp, disable_idt_entry
  <2>5. VectorOf(LineOf(port))' = VectorOf(LineOf(port))
    BY <1>1
  <2>6. Talking'
    BY <1>1, <1>2, <1>5, <2>2, <2>4, <2>5 DEF Talking, Opening, PicsOnly, Blocked
  <2> QED BY <2>6 DEF Stage
<1> QED BY <1>3, <1>4, <1>5 DEF Opening

\* enable_keyboard's last steps: the gate is back before the line.
LEMMA StageTalking ==
  ASSUME Stage, Next, Initialized \/ Operate, devices \in Machines, Talking
  PROVE  Stage'
<1>1. port' = port /\ initialized' = initialized
  BY MachineStays
<1>2. mode' = "op" /\ todo' = Tail(todo) /\ Head(todo) \notin Exchanges
  BY ExchangeSteps DEF Initialized, Operate
<1>3. todo = Rest
  BY <1>2, ToDoCases DEF Talking
<1>4. Head(todo) = "present" /\ todo' = <<"unmask", "lapic", "route 1", "route 12">>
  BY <1>2, <1>3, RestIs
<1>5. ChipOp("present")
  BY <1>4 DEF Initialized, Operate
<1>6. present' = present \cup {VectorOf(LineOf(port))}
  BY <1>5 DEF ChipOp, enable_idt_entry
<1>7. Vectors \subseteq present'
  BY <1>6 DEF Talking
<1>8. Closing'
  BY <1>1, <1>2, <1>4, <1>7 DEF Closing, Ending, Talking, Vectors, VectorOf, Lines
<1> QED BY <1>8 DEF Stage

\* The tails of the last steps.
LEMMA EndingTails ==
  /\ /\ Head(<<"unmask", "lapic", "route 1", "route 12">>) = "unmask"
     /\ Tail(<<"unmask", "lapic", "route 1", "route 12">>) = <<"lapic", "route 1", "route 12">>
  /\ /\ Head(<<"lapic", "route 1", "route 12">>) = "lapic"
     /\ Tail(<<"lapic", "route 1", "route 12">>) = <<"route 1", "route 12">>
  /\ /\ Head(<<"route 1", "route 12">>) = "route 1"
     /\ Tail(<<"route 1", "route 12">>) = <<"route 12">>
  /\ Head(<<"route 12">>) = "route 12" /\ Tail(<<"route 12">>) = <<>>
<1>1. /\ <<"lapic", "route 1", "route 12">> = <<"lapic">> \o <<"route 1", "route 12">>
      /\ <<"route 1", "route 12">> = <<"route 1">> \o <<"route 12">>
  BY StepNames, Triples, Pairs, ZenonT(30)
<1>2. <<"route 1", "route 12">> \in Seq(Steps) /\ <<"route 12">> \in Seq(Steps)
  BY DEF Steps
<1>3. /\ Head(<<"lapic", "route 1", "route 12">>) = "lapic"
      /\ Tail(<<"lapic", "route 1", "route 12">>) = <<"route 1", "route 12">>
  <2>1. /\ Head(<<"lapic">> \o <<"route 1", "route 12">>) = "lapic"
        /\ Tail(<<"lapic">> \o <<"route 1", "route 12">>) = <<"route 1", "route 12">>
    BY <1>2, StepNames, PutFirst, Zenon
  <2> QED BY <1>1, <2>1, Zenon
<1>4. /\ Head(<<"route 1", "route 12">>) = "route 1"
      /\ Tail(<<"route 1", "route 12">>) = <<"route 12">>
  <2> DEFINE s == <<"route 12">>
  <2> HIDE DEF s
  <2>1. s \in Seq(Steps) /\ "route 1" \in Steps
    BY <1>2, StepNames DEF s
  <2>2. Head(<<"route 1">> \o s) = "route 1" /\ Tail(<<"route 1">> \o s) = s
    BY <2>1, PutFirst
  <2>3. <<"route 1">> \o s = <<"route 1", "route 12">>
    BY <1>1 DEF s
  <2> QED BY <2>2, <2>3, Zenon DEF s
<1>5. Head(<<"route 12">>) = "route 12" /\ Tail(<<"route 12">>) = <<>>
  <2>1. <<"route 12">> \o <<>> = <<"route 12">> /\ <<>> \in Seq(Steps)
    BY <1>2, ConcatEmptySeq, EmptySeq, Zenon
  <2>2. Head(<<"route 12">> \o <<>>) = "route 12" /\ Tail(<<"route 12">> \o <<>>) = <<>>
    BY <2>1, StepNames, PutFirst, Zenon
  <2> QED BY <2>1, <2>2, Zenon
<1>6. /\ Head(<<"unmask", "lapic", "route 1", "route 12">>) = "unmask"
      /\ Tail(<<"unmask", "lapic", "route 1", "route 12">>) = <<"lapic", "route 1", "route 12">>
  <2> DEFINE t == <<"unmask", "lapic", "route 1", "route 12">>
             u == <<"lapic", "route 1", "route 12">>
  <2>1. t \in Seq(Steps) /\ Len(t) = 4 /\ t # <<>> /\ Head(t) = "unmask"
    BY DEF Steps
  <2>2. u \in Seq(Steps) /\ Len(u) = 3
    BY DEF Steps
  <2>3. t[1 + 1] = u[1] /\ t[2 + 1] = u[2] /\ t[3 + 1] = u[3]
    OBVIOUS
  <2> HIDE DEF t, u
  <2>4. /\ Tail(t) \in Seq(Steps) /\ Len(Tail(t)) = 3
        /\ \A i \in 1..3 : Tail(t)[i] = t[i + 1]
    <3>1. /\ Tail(t) \in Seq(Steps) /\ Len(Tail(t)) = Len(t) - 1
          /\ \A i \in 1..Len(Tail(t)) : Tail(t)[i] = t[i + 1]
      BY <2>1, HeadTailProperties, Zenon
    <3>2. 4 - 1 = 3
      OBVIOUS
    <3> QED BY <2>1, <3>1, <3>2, Zenon
  <2>5. \A i \in 1..3 : Tail(t)[i] = u[i]
    <3>1. \A i \in 1..3 : i = 1 \/ i = 2 \/ i = 3
      OBVIOUS
    <3> QED BY <2>3, <2>4, <3>1, Zenon
  <2>6. Tail(t) = u
    BY <2>2, <2>4, <2>5, SeqEqual
  <2> QED BY <2>1, <2>6 DEF t, u
<1> QED BY <1>3, <1>4, <1>5, <1>6

\* One of the last steps done, the others are left.
LEMMA Endings ==
  ASSUME NEW t \in Ending, t # <<>>
  PROVE  Head(t) \in {"unmask", "lapic", "route 1", "route 12"} /\ Tail(t) \in Ending
BY EndingTails, Zenon DEF Ending

\* The line is let through and the IOAPIC takes over.
LEMMA StageClosing ==
  ASSUME Stage, Next, Initialized \/ Operate, devices \in Machines, Closing
  PROVE  Stage'
<1>1. port' = port /\ initialized' = initialized
  BY MachineStays
<1>2. mode' = "op" /\ todo' = Tail(todo) /\ todo # <<>>
  BY DEF Initialized, Operate
<1>3. Head(todo) \in {"unmask", "lapic", "route 1", "route 12"} /\ todo' \in Ending
  BY <1>2, Endings DEF Closing
<1>4. ChipOp(Head(todo))
  BY <1>3 DEF Initialized, Operate
<1>5. present' = present
  BY <1>3, <1>4 DEF ChipOp, IRQ_clear_mask, init_lapic, write_redirection
<1>6. Closing'
  BY <1>1, <1>2, <1>3, <1>5 DEF Closing
<1> QED BY <1>6 DEF Stage

\* A command begins.
LEMMA StageBegin ==
  ASSUME Stage, Next, Begin, devices \in Machines
  PROVE  Stage'
<1>1. port' = port /\ initialized' = initialized
  BY MachineStays
<1>2. Head(todo) \in Exchanges /\ todo' = todo /\ todo # <<>> /\ UNCHANGED chips
  BY DEF Begin
<1>3. ~Opening
  <2>1. Opening => Head(todo) \in {"initialized", "mask", "absent"}
    BY Openings DEF Opening, Before1, Before2, Before3
  <2> QED BY <1>2, <2>1, ExchangeSteps
<1>4. ~Closing
  <2>1. Closing => Head(todo) \in {"unmask", "lapic", "route 1", "route 12"}
    BY <1>2, Endings DEF Closing
  <2> QED BY <1>2, <2>1, ExchangeSteps
<1>5. Talking
  BY <1>3, <1>4 DEF Stage
<1>6. Talking'
  BY <1>1, <1>2, <1>5 DEF Talking, Blocked, PicsOnly, chips
<1> QED BY <1>6 DEF Stage

\* Talking to the keyboard.
LEMMA StageTalk ==
  ASSUME Stage, Next, mode # "op", todo' = todo, UNCHANGED chips, devices \in Machines
  PROVE  Stage'
<1>1. port' = port /\ initialized' = initialized
  BY MachineStays
<1>2. Talking
  BY DEF Stage, Opening, Closing
<1>3. Talking'
  BY <1>1, <1>2 DEF Talking, Blocked, PicsOnly, chips
<1> QED BY <1>3 DEF Stage

\* A command ends, and not in a way that leaves the keyboard off.
LEMMA StageEnds ==
  ASSUME Stage, Next, mode # "op", NEW ok, NEW doubt, Ends(ok, doubt), UNCHANGED chips, ~failed',
         devices \in Machines
  PROVE  Stage'
<1>1. port' = port /\ initialized' = initialized
  BY MachineStays
<1>2. Talking
  BY DEF Stage, Opening, Closing
<1>3. Head(todo) \in Exchanges /\ todo # Rest
  BY <1>2, RestIs, ExchangeSteps DEF Talking
<1>4. Tail(todo) \in ToDo /\ \A o \in Exchanges : <<o>> \o Tail(todo) \in ToDo
  BY <1>2, <1>3, ToDoCases DEF Talking
<1>5. "make_only_2" \in Exchanges
  BY DEF Exchanges
<1>6. todo' \in ToDo /\ mode' = "op"
  BY <1>4, <1>5 DEF Ends
<1>7. Talking'
  BY <1>1, <1>2, <1>6 DEF Talking, Blocked, PicsOnly, chips
<1> QED BY <1>7 DEF Stage

\* The gate is there for every interrupt the kernel can take, step by step.
LEMMA GatesStep ==
  ASSUME devices \in Machines, failed \in BOOLEAN, Gates, [Next]_vars
  PROVE  Gates'
<1> SUFFICES ASSUME ~failed' PROVE stopped' # "fault" /\ (stopped' = "no" => Stage')
  BY DEF Gates
<1>1. CASE UNCHANGED vars
  <2>1. UNCHANGED <<todo, mode, masked, routed, present, pending, failed, stopped>>
    BY <1>1 DEF vars, driver, chips
  <2>2. stopped # "fault" /\ (stopped = "no" => Stage)
    BY <2>1 DEF Gates
  <2>3. Stage => Stage'
    BY <2>1, QuietChips
  <2> QED BY <2>1, <2>2, <2>3
<1> SUFFICES ASSUME Next PROVE stopped' # "fault" /\ (stopped' = "no" => Stage')
  BY <1>1
<1>2. failed' = failed \/ (failed => failed')
  BY DEF Next, Kernel, User, Wire, Interrupted, Initialized, Operate, Begin, Send, GiveUp, Wait,
         Read, Read2, Ends, Key, Move, Transfer, Interrupt
<1>3. stopped = "no" /\ Stage
  BY <1>2 DEF Gates, Next
<1>4. CASE Initialized \/ Operate
  <2>1. stopped' # "fault"
    BY <1>3, <1>4 DEF Initialized, Operate
  <2>2. stopped' = "no" => Stage'
    BY <1>3, <1>4, StageOpening, StageTalking, StageClosing DEF Stage
  <2> QED BY <2>1, <2>2
<1>5. CASE Begin
  BY <1>3, <1>5, StageBegin DEF Begin
<1>6. CASE Send \/ Wait
  BY <1>3, <1>6, StageTalk DEF Send, Wait
<1>7. CASE GiveUp
  <2>1. mode # "op" /\ UNCHANGED chips /\ Ends(FALSE, mode # "send" /\ queue[port] # <<>>)
    BY <1>7 DEF GiveUp
  <2>2. Stage'
    BY <1>3, <2>1, StageEnds
  <2> QED BY <1>3, <2>1, <2>2 DEF Ends
<1>8. CASE Read
  <2>1. mode # "op" /\ UNCHANGED chips
    BY <1>8 DEF Read
  <2>2. (todo' = todo /\ stopped' = stopped) \/ \E ok, doubt \in BOOLEAN : Ends(ok, doubt)
    BY <1>8 DEF Read
  <2>3. CASE todo' = todo /\ stopped' = stopped
    BY <1>3, <2>1, <2>3, StageTalk
  <2>4. ASSUME NEW ok \in BOOLEAN, NEW doubt \in BOOLEAN, Ends(ok, doubt) PROVE stopped' # "fault" /\ Stage'
    <3>1. Stage'
      BY <1>3, <2>1, <2>4, StageEnds
    <3> QED BY <1>3, <2>4, <3>1 DEF Ends
  <2> QED BY <2>2, <2>3, <2>4
<1>9. CASE Read2
  <2>1. mode # "op" /\ UNCHANGED chips
    BY <1>9 DEF Read2
  <2> DEFINE ok == CASE Head(todo) = "make_only" -> last' = "set 3"
                     [] Head(todo) = "reset_and_self_test" -> last' = "passed"
                     [] OTHER -> last' \in {"set 3", "other set"}
  <2>2. Ends(ok, ~ok)
    BY <1>9 DEF Read2
  <2> HIDE DEF ok
  <2>3. Stage'
    BY <1>3, <2>1, <2>2, StageEnds
  <2> QED BY <1>3, <2>2, <2>3 DEF Ends
<1>10. CASE User
  BY <1>3, <1>10, QuietChips DEF User, Key, Move, driver, chips
<1>11. CASE Wire
  BY <1>3, <1>11, QuietChips DEF Wire, Transfer, Raise, driver
<1>12. CASE Interrupted
  <2>1. PICK p \in DOMAIN devices : Interrupt(p)
    BY <1>12 DEF Interrupted
  <2>2. Take(LineOf(p), SendsEoi(p))
    BY <2>1 DEF Interrupt
  <2>3. VectorOf(LineOf(p)) \in present
    BY <1>3, <2>2, NoFault
  <2>4. stopped' # "fault"
    BY <1>3, <2>1, <2>3 DEF Interrupt
  <2>5. UNCHANGED <<todo, mode, masked, routed, present>> /\ pending' \subseteq pending
    BY <2>1, <2>2 DEF Interrupt, Take, TakeFromPic, TakeFromApic, driver
  <2> QED BY <1>3, <2>4, <2>5, QuietChips
<1> QED BY <1>4, <1>5, <1>6, <1>7, <1>8, <1>9, <1>10, <1>11, <1>12 DEF Next, Kernel

-----------------------------------------------------------------------------
(* The keyboard's answers                                                   *)

\* What each function sends, as far as the keyboard tells commands apart.
LEMMA ScriptCases ==
  ASSUME NEW o \in Exchanges
  PROVE  \/ /\ o = "set_scan_code_set_1" /\ Script(o) = <<"set", "1">>
         \/ /\ o = "set_scan_code_set_3" /\ Script(o) = <<"set", "3">>
         \/ /\ o \in {"get_scan_code_set", "make_only"} /\ Script(o) = <<"set", "0">>
         \/ /\ o \in {"set_leds", "set_typematic", "set_specific_key"}
            /\ Script(o) \in {<<"leds", "data">>, <<"typematic", "data">>, <<"specific", "data">>}
         \/ /\ o = "reset_and_self_test" /\ Script(o) = <<"reset">>
         \/ /\ o = "set_default_parameters" /\ Script(o) = <<"defaults">>
         \/ /\ o \notin Getters \cup Reverting \cup {"set_scan_code_set_1", "set_scan_code_set_3"}
            /\ Script(o) \in {<<"enable">>, <<"plain">>, <<"echo">>, <<"resend">>}
            /\ o = "echo_keyboard" => Script(o) = <<"echo">>
<1>1. CASE o \in {"set_scan_code_set_1", "set_scan_code_set_3", "get_scan_code_set", "make_only"}
  BY <1>1 DEF Script, set_scan_code_set, get_scan_code_set
<1>2. CASE o \in {"set_leds", "set_typematic", "set_specific_key"}
  BY <1>2 DEF Script, set_leds, set_typematic, set_specific_key
<1>3. CASE o \in {"enable_scanning", "disable_scanning", "make_only_2", "set_all_keycode"}
  BY <1>3 DEF Script, enable_scanning, disable_scanning, set_all_keycode, Getters, Reverting
<1>4. CASE o \in {"echo_keyboard", "resend_last_byte"}
  BY <1>4 DEF Script, echo_keyboard, resend_last_byte, Getters, Reverting
<1>5. CASE o \in {"reset_and_self_test", "set_default_parameters"}
  BY <1>5 DEF Script, reset_and_self_test, set_default_parameters
<1> QED BY <1>1, <1>2, <1>3, <1>4, <1>5 DEF Exchanges

\* A command byte, to a keyboard that waits for one.
LEMMA ObeysCommand ==
  ASSUME IsKeyboard(kb), kb.awaits = "none",
         NEW b \in WithData \cup {"enable", "plain", "echo", "resend", "reset", "defaults"}
  PROVE  /\ IsKeyboard(Obeys(b)[1])
         /\ b \in WithData => /\ Obeys(b)[1].awaits = b /\ Obeys(b)[1].set = kb.set
                              /\ Obeys(b)[2] = <<"ack">>
         /\ b \notin WithData => /\ Obeys(b)[1].awaits = "none"
                                 /\ b \notin {"reset", "defaults"} => Obeys(b)[1].set = kb.set
         /\ b \in {"enable", "plain", "resend", "defaults"} => Obeys(b)[2] = <<"ack">>
         /\ b = "echo" => Obeys(b)[2] = <<"echo">>
         /\ b = "reset" => Obeys(b)[2] = <<"ack", "passed">>
<1>1. CASE b \in WithData
  <2>1. Obeys(b) = <<[kb EXCEPT !.awaits = b], <<"ack">>>>
    BY <1>1 DEF Obeys, WithData
  <2>2. b \notin {"enable", "plain", "echo", "resend", "reset", "defaults"}
    BY <1>1 DEF WithData
  <2> QED BY <1>1, <2>1, <2>2 DEF IsKeyboard
<1>2. CASE b = "enable"
  <2>1. Obeys(b) = <<[kb EXCEPT !.scanning = TRUE], <<"ack">>>> /\ b \notin WithData
    BY <1>2 DEF Obeys, WithData
  <2> DEFINE k == [kb EXCEPT !.scanning = TRUE]
  <2>2. IsKeyboard(k)
    BY DEF IsKeyboard
  <2>3. k.awaits = "none" /\ k.set = kb.set
    BY DEF IsKeyboard
  <2>4. Obeys(b)[1] = k /\ Obeys(b)[2] = <<"ack">>
    BY <2>1
  <2> HIDE DEF k
  <2> QED BY <1>2, <2>1, <2>2, <2>3, <2>4
<1>3. CASE b \in {"plain", "resend"}
  <2>1. Obeys(b) = <<kb, <<"ack">>>> /\ b \notin WithData
    BY <1>3 DEF Obeys, WithData
  <2> QED BY <1>3, <2>1 DEF IsKeyboard
<1>4. CASE b = "echo"
  <2>1. Obeys(b) = <<kb, <<"echo">>>> /\ b \notin WithData
    BY <1>4 DEF Obeys, WithData
  <2> QED BY <1>4, <2>1 DEF IsKeyboard
<1>5. CASE b = "reset"
  <2>1. /\ Obeys(b) = <<[kb EXCEPT !.set = 2, !.scanning = TRUE], <<"ack", "passed">>>>
        /\ b \notin WithData
    BY <1>5 DEF Obeys, WithData
  <2> DEFINE k == [kb EXCEPT !.set = 2, !.scanning = TRUE]
  <2>2. IsKeyboard(k)
    BY DEF IsKeyboard
  <2>3. k.awaits = "none"
    BY DEF IsKeyboard
  <2>4. Obeys(b)[1] = k /\ Obeys(b)[2] = <<"ack", "passed">>
    BY <2>1
  <2> HIDE DEF k
  <2> QED BY <1>5, <2>1, <2>2, <2>3, <2>4
<1>6. CASE b = "defaults"
  <2>1. /\ Obeys(b) = <<[kb EXCEPT !.set = 2, !.scanning = TRUE], <<"ack">>>>
        /\ b \notin WithData
    BY <1>6 DEF Obeys, WithData
  <2> DEFINE k == [kb EXCEPT !.set = 2, !.scanning = TRUE]
  <2>2. IsKeyboard(k)
    BY DEF IsKeyboard
  <2>3. k.awaits = "none"
    BY DEF IsKeyboard
  <2>4. Obeys(b)[1] = k /\ Obeys(b)[2] = <<"ack">>
    BY <2>1
  <2> HIDE DEF k
  <2> QED BY <1>6, <2>1, <2>2, <2>3, <2>4
<1> QED BY <1>1, <1>2, <1>3, <1>4, <1>5, <1>6

\* Its data, or what it takes for them.
LEMMA ObeysData ==
  ASSUME IsKeyboard(kb), kb.awaits \in WithData, NEW b
  PROVE  /\ IsKeyboard(Obeys(b)[1]) /\ Obeys(b)[1].awaits = "none"
         /\ kb.awaits = "set" /\ b = "1" => Obeys(b)[1].set = 1
         /\ kb.awaits = "set" /\ b = "3" => Obeys(b)[1].set = 3
         /\ kb.awaits # "set" \/ b \notin {"1", "3"} => Obeys(b)[1].set = kb.set
         /\ kb.awaits = "set" /\ b = "0" =>
              \E v \in Values : Obeys(b)[2] = <<"ack", v>>
         /\ kb.awaits # "set" \/ b # "0" => Obeys(b)[2] = <<"ack">>
<1>1. CASE kb.awaits = "set" /\ b = "0"
  BY <1>1 DEF Obeys, IsKeyboard, Values
<1>2. CASE kb.awaits = "set" /\ b # "0"
  BY <1>2 DEF Obeys, IsKeyboard
<1>3. CASE kb.awaits # "set"
  BY <1>3 DEF Obeys, IsKeyboard, WithData
<1> QED BY <1>1, <1>2, <1>3

\* Whatever it is sent.
LEMMA ObeysTypes ==
  ASSUME IsKeyboard(kb), NEW b
  PROVE  IsKeyboard(Obeys(b)[1]) /\ Obeys(b)[2] \in Seq(Bytes)
<1>1. /\ <<"ack">> \in Seq(Bytes) /\ <<"echo">> \in Seq(Bytes) /\ <<"resend">> \in Seq(Bytes)
      /\ <<"ack", "passed">> \in Seq(Bytes) /\ <<"ack", "set 3">> \in Seq(Bytes)
      /\ <<"ack", "other set">> \in Seq(Bytes)
  BY DEF Bytes
<1>2. CASE kb.awaits = "set" /\ b # "0"
  BY <1>1, <1>2 DEF Obeys, IsKeyboard
<1>3. CASE kb.awaits = "set" /\ b = "0"
  BY <1>1, <1>3 DEF Obeys, IsKeyboard
<1>4. CASE kb.awaits \notin {"set", "none"}
  BY <1>1, <1>4 DEF Obeys, IsKeyboard
<1>5. CASE kb.awaits = "none"
  <2>1. CASE b \in WithData \cup {"echo"}
    BY <1>1, <1>5, <2>1 DEF Obeys, IsKeyboard, WithData
  <2>2. CASE b \notin WithData \cup {"echo"}
    BY <1>1, <1>5, <2>2 DEF Obeys, IsKeyboard
  <2> QED BY <2>1, <2>2
<1> QED BY <1>2, <1>3, <1>4, <1>5

\* Data it does not expect are no command.
LEMMA ObeysNothing ==
  ASSUME kb.awaits = "none", NEW b \in {"0", "1", "3", "data"}
  PROVE  Obeys(b)[1] = kb /\ Obeys(b)[2] = <<"resend">>
BY DEF Obeys, WithData

-----------------------------------------------------------------------------
(* Bytes on their way                                                       *)

\* Values are none of the other bytes.
LEMMA ByteKinds ==
  /\ Values \subseteq Bytes /\ "key" \in Bytes /\ "ack" \in Bytes /\ "resend" \in Bytes
  /\ Values \cap {"key", "ack", "resend", "echo"} = {}
BY DEF Bytes, Values

\* What is said about the bytes stays true when a key is typed after them.
LEMMA KeyAfter ==
  ASSUME NEW s \in Seq(Bytes), NEW before, NEW after, NEW asked
  PROVE  LET t == Append(s, "key")
         IN /\ AllKeys(s) => AllKeys(t)
            /\ Answering(s, before, after, asked) => Answering(t, before, after, asked)
            /\ Valuing(s) => Valuing(t)
<1> DEFINE t == Append(s, "key")
<1>1. /\ Len(s) \in Nat /\ Len(t) = Len(s) + 1 /\ t[Len(s) + 1] = "key"
      /\ \A i \in 1..Len(s) : t[i] = s[i]
  BY ByteKinds, AppendProperties
<1>2. \A i \in 1..Len(t) : i \in 1..Len(s) \/ t[i] = "key"
  BY <1>1
<1> HIDE DEF t
<1>3. AllKeys(s) => AllKeys(t)
  BY <1>1, <1>2, Zenon DEF AllKeys
<1>4. Answering(s, before, after, asked) => Answering(t, before, after, asked)
  <2>1. "key" # "resend" /\ "key" \notin {"ack", "echo"}
    OBVIOUS
  <2> SUFFICES ASSUME Answering(s, before, after, asked)
               PROVE  Answering(t, before, after, asked)
    OBVIOUS
  <2>2. ASSUME NEW i \in 1..Len(t)
        PROVE  /\ t[i] \in {"key", "resend", "ack", "echo"} \cup Values
               /\ t[i] = "resend" => before
               /\ t[i] \in {"ack", "echo"} => after
    <3>1. CASE i \in 1..Len(s)
      BY <1>1, <3>1, Zenon DEF Answering
    <3>2. CASE t[i] = "key"
      BY <2>1, <3>2
    <3> QED BY <1>2, <3>1, <3>2
  <2>3. ASSUME NEW i \in 1..Len(t), NEW j \in 1..Len(t), i < j
        PROVE  t[i] = "key" \/ t[j] = "key" \/ (t[i] = "ack" /\ t[j] \in Values /\ asked)
    <3>1. CASE i \in 1..Len(s) /\ j \in 1..Len(s)
      BY <1>1, <2>3, <3>1, Zenon DEF Answering
    <3> QED BY <1>2, <3>1
  <2> QED BY <2>2, <2>3 DEF Answering
<1>5. Valuing(s) => Valuing(t)
  <2> SUFFICES ASSUME Valuing(s) PROVE Valuing(t)
    OBVIOUS
  <2>1. \A i \in 1..Len(t) : t[i] \in {"key"} \cup Values
    BY <1>1, <1>2, Zenon DEF Valuing
  <2>2. \A i, j \in 1..Len(t) : i < j => t[i] = "key" \/ t[j] = "key"
    BY <1>1, <1>2, Zenon DEF Valuing
  <2> QED BY <2>1, <2>2 DEF Valuing
<1> QED BY <1>3, <1>4, <1>5 DEF t

\* And when the first one is read; the others depend on which it was.
LEMMA FirstRead ==
  ASSUME NEW s \in Seq(Bytes), s # <<>>, NEW before, NEW after, NEW asked
  PROVE  LET t == Tail(s)
         IN /\ AllKeys(s) => AllKeys(t)
            /\ Answering(s, before, after, asked) =>
                 /\ Answering(t, before, after, asked)
                 /\ Head(s) = "resend" => before /\ AllKeys(t)
                 /\ Head(s) = "echo" => after /\ AllKeys(t)
                 /\ Head(s) = "ack" => /\ after /\ Valuing(t)
                                       /\ ~asked => AllKeys(t)
            /\ Valuing(s) => Valuing(t) /\ (Head(s) \in Values => AllKeys(t))
<1> DEFINE t == Tail(s)
<1>1. /\ Len(s) \in Nat \ {0} /\ Len(t) = Len(s) - 1 /\ Head(s) = s[1]
      /\ \A i \in 1..Len(t) : i + 1 \in 1..Len(s) /\ t[i] = s[i + 1]
  BY Rebuild
<1> HIDE DEF t
<1>2. 1 \in 1..Len(s) /\ \A i \in 1..Len(t) : 1 < i + 1
  BY <1>1
<1>3. \A i, j \in 1..Len(t) : i < j => i + 1 < j + 1
  BY <1>1
<1>4. AllKeys(s) => AllKeys(t)
  BY <1>1, Zenon DEF AllKeys
<1>5. ASSUME Answering(s, before, after, asked)
      PROVE  /\ Answering(t, before, after, asked)
             /\ Head(s) = "resend" => before /\ AllKeys(t)
             /\ Head(s) = "echo" => after /\ AllKeys(t)
             /\ Head(s) = "ack" => /\ after /\ Valuing(t)
                                   /\ ~asked => AllKeys(t)
  <2>1. \A i \in 1..Len(t) : /\ t[i] \in {"key", "resend", "ack", "echo"} \cup Values
                             /\ t[i] = "resend" => before
                             /\ t[i] \in {"ack", "echo"} => after
    BY <1>1, <1>5, Zenon DEF Answering
  <2>2. \A i, j \in 1..Len(t) :
          i < j => t[i] = "key" \/ t[j] = "key" \/ (t[i] = "ack" /\ t[j] \in Values /\ asked)
    BY <1>1, <1>3, <1>5, Zenon DEF Answering
  <2>3. \A j \in 1..Len(t) :
          s[1] = "key" \/ t[j] = "key" \/ (s[1] = "ack" /\ t[j] \in Values /\ asked)
    BY <1>1, <1>2, <1>5, Zenon DEF Answering
  <2>4. (s[1] = "resend" => before) /\ (s[1] \in {"ack", "echo"} => after)
    BY <1>2, <1>5, Zenon DEF Answering
  <2>5. s[1] \in {"resend", "echo"} => AllKeys(t)
    BY <2>3 DEF AllKeys
  <2>6. s[1] = "ack" /\ ~asked => AllKeys(t)
    BY <2>3 DEF AllKeys
  <2>7. s[1] = "ack" => Valuing(t)
    <3> SUFFICES ASSUME s[1] = "ack" PROVE Valuing(t)
      OBVIOUS
    <3>1. \A j \in 1..Len(t) : t[j] \in {"key"} \cup Values
      BY <2>3
    <3>2. \A j \in 1..Len(t) : t[j] # "ack"
      BY <3>1, ByteKinds
    <3>3. \A i, j \in 1..Len(t) : i < j => t[i] = "key" \/ t[j] = "key"
      BY <2>2, <3>2, Zenon
    <3> QED BY <3>1, <3>3 DEF Valuing
  <2>8. Answering(t, before, after, asked)
    BY <2>1, <2>2 DEF Answering
  <2> QED BY <1>1, <2>4, <2>5, <2>6, <2>7, <2>8
<1>6. ASSUME Valuing(s) PROVE Valuing(t) /\ (Head(s) \in Values => AllKeys(t))
  <2>1. \A i \in 1..Len(t) : t[i] \in {"key"} \cup Values
    BY <1>1, <1>6, Zenon DEF Valuing
  <2>2. \A i, j \in 1..Len(t) : i < j => t[i] = "key" \/ t[j] = "key"
    BY <1>1, <1>3, <1>6, Zenon DEF Valuing
  <2>3. \A j \in 1..Len(t) : s[1] = "key" \/ t[j] = "key"
    BY <1>1, <1>2, <1>6, Zenon DEF Valuing
  <2>4. s[1] \in Values => AllKeys(t)
    BY <2>3, ByteKinds DEF AllKeys
  <2> QED BY <1>1, <2>1, <2>2, <2>4 DEF Valuing
<1> QED BY <1>4, <1>5, <1>6 DEF t

\* An answer after keys.
LEMMA AnswerAfter ==
  ASSUME NEW s \in Seq(Bytes), AllKeys(s), NEW r \in Seq(Bytes),
         NEW before, NEW after, NEW asked, Answering(r, before, after, asked)
  PROVE  Answering(s \o r, before, after, asked)
<1> DEFINE t == s \o r
<1>1. /\ Len(s) \in Nat /\ Len(r) \in Nat /\ Len(t) = Len(s) + Len(r)
      /\ \A i \in 1..Len(t) : t[i] = IF i <= Len(s) THEN s[i] ELSE r[i - Len(s)]
  BY ConcatProperties
<1> HIDE DEF t
<1>2. \A i \in 1..Len(t) :
        \/ i \in 1..Len(s) /\ t[i] = s[i]
        \/ i - Len(s) \in 1..Len(r) /\ t[i] = r[i - Len(s)]
  BY <1>1
<1>3. \A i \in 1..Len(t) : t[i] = "key" \/ (i - Len(s) \in 1..Len(r) /\ t[i] = r[i - Len(s)])
  BY <1>2, Zenon DEF AllKeys
<1>4. \A i, j \in 1..Len(t) : i < j => i - Len(s) < j - Len(s)
  BY <1>1
<1>5. ASSUME NEW i \in 1..Len(t)
      PROVE  /\ t[i] \in {"key", "resend", "ack", "echo"} \cup Values
             /\ t[i] = "resend" => before
             /\ t[i] \in {"ack", "echo"} => after
  <2>1. CASE t[i] = "key"
    BY <2>1
  <2>2. CASE i - Len(s) \in 1..Len(r) /\ t[i] = r[i - Len(s)]
    BY <2>2, Zenon DEF Answering
  <2> QED BY <1>3, <2>1, <2>2
<1>6. ASSUME NEW i \in 1..Len(t), NEW j \in 1..Len(t), i < j
      PROVE  t[i] = "key" \/ t[j] = "key" \/ (t[i] = "ack" /\ t[j] \in Values /\ asked)
  <2>1. CASE /\ i - Len(s) \in 1..Len(r) /\ t[i] = r[i - Len(s)]
             /\ j - Len(s) \in 1..Len(r) /\ t[j] = r[j - Len(s)]
    BY <1>4, <1>6, <2>1, Zenon DEF Answering
  <2> QED BY <1>3, <2>1, Zenon
<1> QED BY <1>5, <1>6 DEF Answering, t

\* One answer, or one and a value.
LEMMA OneAnswer ==
  ASSUME NEW before, NEW after, NEW asked
  PROVE  /\ before => Answering(<<"resend">>, before, after, asked)
         /\ after => /\ Answering(<<"ack">>, before, after, asked)
                     /\ Answering(<<"echo">>, before, after, asked)
         /\ after /\ asked =>
              \A v \in Values : Answering(<<"ack", v>>, before, after, asked)
<1>1. ASSUME NEW b \in {"resend", "ack", "echo"},
             b = "resend" => before, b \in {"ack", "echo"} => after
      PROVE  Answering(<<b>>, before, after, asked)
  <2>1. Len(<<b>>) = 1 /\ <<b>>[1] = b /\ (\A i \in 1..1 : i = 1) /\ ~(1 < 1)
    OBVIOUS
  <2>2. \A i \in 1..Len(<<b>>) : /\ <<b>>[i] \in {"key", "resend", "ack", "echo"} \cup Values
                                 /\ <<b>>[i] = "resend" => before
                                 /\ <<b>>[i] \in {"ack", "echo"} => after
    BY <1>1, <2>1
  <2>3. \A i, j \in 1..Len(<<b>>) : ~(i < j)
    BY <2>1
  <2> QED BY <2>2, <2>3, Zenon DEF Answering
<1>2. ASSUME after, asked, NEW v \in Values
      PROVE  Answering(<<"ack", v>>, before, after, asked)
  <2> DEFINE r == <<"ack", v>>
  <2>1. Len(r) = 2 /\ r[1] = "ack" /\ r[2] = v
    OBVIOUS
  <2>2. \A i \in 1..2 : i = 1 \/ i = 2
    OBVIOUS
  <2>3. v # "resend" /\ v \notin {"ack", "echo"}
    BY ByteKinds
  <2> HIDE DEF r
  <2>4. \A i \in 1..Len(r) : r[i] = "ack" \/ r[i] = v
    BY <2>1, <2>2, Zenon
  <2>5. \A i \in 1..Len(r) : /\ r[i] \in {"key", "resend", "ack", "echo"} \cup Values
                             /\ r[i] = "resend" => before
                             /\ r[i] \in {"ack", "echo"} => after
    BY <1>2, <2>3, <2>4
  <2>6. \A i, j \in 1..Len(r) : i < j => i = 1 /\ j = 2
    BY <2>1
  <2>7. \A i, j \in 1..Len(r) : i < j => r[i] = "ack" /\ r[j] \in Values /\ asked
    BY <1>2, <2>1, <2>6, Zenon
  <2> QED BY <2>5, <2>7, Zenon DEF Answering, r
<1> QED BY <1>1, <1>2

-----------------------------------------------------------------------------
(* What is on its way                                                       *)

\* Appending to the bytes under way.
LEMMA AssociatesBytes == \A b, q, t \in Seq(Bytes) : (b \o q) \o t = b \o (q \o t)
BY ConcatAssociative

\* The bytes under way are bytes.
LEMMA FlightTypes ==
  ASSUME Types, port \in Ports
  PROVE  InFlight \in Seq(Bytes)
<1>1. queue[port] \in Seq(Bytes)
  BY DEF Types
<1>2. CASE buffer.port = port
  <2>1. buffer.byte \in Bytes
    BY <1>2 DEF Types, Empty, Ports
  <2>2. <<buffer.byte>> \o queue[port] \in Seq(Bytes)
    BY <1>1, <2>1, PutFirst
  <2> QED BY <1>2, <2>2 DEF InFlight
<1> QED BY <1>1, <1>2 DEF InFlight

\* Nothing moves on the keyboard's port.
LEMMA FlightStays ==
  ASSUME port' = port, buffer' = buffer, queue'[port] = queue[port]
  PROVE  InFlight' = InFlight
BY DEF InFlight

\* The keyboard sends: an answer, a key.
LEMMA FlightGrows ==
  ASSUME Types, port \in Ports, port' = port, buffer' = buffer, NEW t \in Seq(Bytes),
         queue'[port] = queue[port] \o t
  PROVE  InFlight' = InFlight \o t
<1>1. queue[port] \in Seq(Bytes)
  BY DEF Types
<1>2. CASE buffer.port = port
  <2>1. buffer.byte \in Bytes
    BY <1>2 DEF Types, Empty, Ports
  <2>2. <<buffer.byte>> \in Seq(Bytes)
    BY <2>1
  <2>3. (<<buffer.byte>> \o queue[port]) \o t = <<buffer.byte>> \o (queue[port] \o t)
    BY <1>1, <2>2, AssociatesBytes
  <2> QED BY <1>2, <2>3 DEF InFlight
<1> QED BY <1>2 DEF InFlight

\* Someone reads the data port.
LEMMA FlightRead ==
  ASSUME Types, port \in Ports, port' = port, buffer' = Empty, queue' = queue
  PROVE  /\ buffer.port = port => /\ InFlight # <<>> /\ Head(InFlight) = buffer.byte
                                  /\ InFlight' = Tail(InFlight)
         /\ buffer.port # port => InFlight' = InFlight
<1>1. queue[port] \in Seq(Bytes)
  BY DEF Types
<1>2. InFlight' = queue[port]
  BY DEF InFlight, Empty, Ports
<1>3. CASE buffer.port = port
  <2>1. buffer.byte \in Bytes
    BY <1>3 DEF Types, Empty, Ports
  <2>2. InFlight = <<buffer.byte>> \o queue[port]
    BY <1>3 DEF InFlight
  <2>3. /\ <<buffer.byte>> \o queue[port] # <<>> /\ Head(<<buffer.byte>> \o queue[port]) = buffer.byte
        /\ Tail(<<buffer.byte>> \o queue[port]) = queue[port]
    BY <1>1, <2>1, PutFirst
  <2> QED BY <1>2, <1>3, <2>2, <2>3
<1>4. CASE buffer.port # port
  BY <1>2, <1>4 DEF InFlight
<1> QED BY <1>3, <1>4

\* The controller takes a byte.
LEMMA FlightTransfer ==
  ASSUME Types, port \in Ports, port' = port, NEW p \in Ports, Transfer(p)
  PROVE  InFlight' = InFlight
<1>1. queue[port] \in Seq(Bytes) /\ queue[p] \in Seq(Bytes)
  BY DEF Types
<1>2. /\ buffer = Empty /\ queue[p] # <<>> /\ buffer' = [port |-> p, byte |-> Head(queue[p])]
      /\ queue' = [queue EXCEPT ![p] = Tail(@)]
  BY DEF Transfer
<1>3. InFlight = queue[port]
  BY <1>2 DEF InFlight, Empty, Ports
<1>4. CASE p = port
  <2>1. <<Head(queue[p])>> \o Tail(queue[p]) = queue[p]
    BY <1>1, <1>2, Rebuild
  <2>2. buffer'.port = port /\ buffer'.byte = Head(queue[p]) /\ queue'[port] = Tail(queue[p])
    BY <1>2, <1>4 DEF Types
  <2> QED BY <1>3, <1>4, <2>1, <2>2 DEF InFlight
<1>5. CASE p # port
  BY <1>2, <1>3, <1>5 DEF InFlight, Types
<1> QED BY <1>4, <1>5

-----------------------------------------------------------------------------
(* The dialogue                                                             *)

\* Bytes arrive or are lost, and nothing else happens.
LEMMA DialogueKept ==
  ASSUME Types, initialized, port' = port, Dialogue,
         UNCHANGED <<mode, left, todo, kb, active, reverted>>,
         \/ InFlight' = InFlight
         \/ InFlight' = Append(InFlight, "key")
         \/ InFlight # <<>> /\ InFlight' = Tail(InFlight)
  PROVE  Dialogue'
<1>1. port \in Ports
  BY PortHasKeyboard DEF Types, Ports
<1>2. InFlight \in Seq(Bytes)
  BY <1>1, FlightTypes
<1>3. /\ AllKeys(InFlight) => AllKeys(InFlight')
      /\ Valuing(InFlight) => Valuing(InFlight')
      /\ Answering(InFlight, Before, After, Asked) => Answering(InFlight', Before, After, Asked)
  BY <1>2, KeyAfter, FirstRead
<1>4. op' = op
  BY DEF op
<1>5. Agree' = Agree /\ Asked' = Asked /\ Before' = Before /\ After' = After
  BY <1>4 DEF Agree, Asked, Before, After
<1>6. Commanding => Commanding'
  BY <1>4 DEF Commanding
<1> QED BY <1>3, <1>4, <1>5, <1>6 DEF Dialogue

\* The length of what is left of a command.
LEMMA LeftOver ==
  ASSUME Commanding
  PROVE  \/ /\ Len(Script(op)) = 2 /\ Len(left) = 2 /\ left = Script(op)
            /\ Head(left) = Script(op)[1] /\ Tail(left) = <<Script(op)[2]>>
            /\ Script(op)[1] \in WithData
         \/ /\ Len(Script(op)) = 2 /\ Len(left) = 1 /\ left = <<Script(op)[2]>>
            /\ Head(left) = Script(op)[2] /\ Script(op)[1] \in WithData
         \/ /\ Len(Script(op)) = 1 /\ Len(left) = 1 /\ left = Script(op)
            /\ Head(left) = Script(op)[1]
            /\ Head(left) \in {"enable", "plain", "echo", "resend", "reset", "defaults"}
<1>1. op \in Exchanges
  BY DEF Commanding
<1>2. \/ \E a \in WithData : \E b \in {"0", "1", "3", "data"} : Script(op) = <<a, b>>
      \/ \E a \in {"enable", "plain", "echo", "resend", "reset", "defaults"} : Script(op) = <<a>>
  BY <1>1, ScriptCases DEF WithData
<1>3. ASSUME NEW a \in WithData, NEW b \in {"0", "1", "3", "data"}, Script(op) = <<a, b>>
      PROVE  /\ Len(Script(op)) = 2 /\ Script(op)[1] = a /\ Script(op)[2] = b
             /\ Head(Script(op)) = a /\ Tail(Script(op)) = <<b>>
  BY <1>3
<1>4. ASSUME NEW a \in WithData, NEW b \in {"0", "1", "3", "data"}, Script(op) = <<a, b>>
      PROVE  \/ /\ Len(Script(op)) = 2 /\ Len(left) = 2 /\ left = Script(op)
                /\ Head(left) = Script(op)[1] /\ Tail(left) = <<Script(op)[2]>>
                /\ Script(op)[1] \in WithData
             \/ /\ Len(Script(op)) = 2 /\ Len(left) = 1 /\ left = <<Script(op)[2]>>
                /\ Head(left) = Script(op)[2] /\ Script(op)[1] \in WithData
  <2>1. CASE left = Script(op)
    BY <1>3, <1>4, <2>1
  <2>2. CASE left = <<Script(op)[2]>>
    BY <1>3, <1>4, <2>2
  <2> QED BY <2>1, <2>2 DEF Commanding
<1>5. ASSUME NEW a \in {"enable", "plain", "echo", "resend", "reset", "defaults"}, Script(op) = <<a>>
      PROVE  /\ Len(Script(op)) = 1 /\ Len(left) = 1 /\ left = Script(op)
             /\ Head(left) = Script(op)[1]
             /\ Head(left) \in {"enable", "plain", "echo", "resend", "reset", "defaults"}
  <2>1. Len(Script(op)) = 1 /\ Script(op)[1] = a /\ Head(Script(op)) = a
    BY <1>5
  <2> QED BY <1>5, <2>1 DEF Commanding
<1> QED BY <1>2, <1>4, <1>5

\* A command begins: nothing but keys is on its way.
LEMMA DialogueBegin ==
  ASSUME Types, initialized, port' = port, mode = "op", Dialogue, Begin
  PROVE  Dialogue'
<1>1. /\ op \in Exchanges /\ op' = op /\ left' = Script(op) /\ mode' = "send"
      /\ UNCHANGED <<kb, active, buffer, queue>>
      /\ reverted' = (reverted \/ op \in Reverting)
  BY DEF Begin, op, device, wires
<1>2. AllKeys(InFlight) /\ Agree
  BY DEF Dialogue
<1>3. InFlight' = InFlight /\ Agree'
  BY <1>1, <1>2, FlightStays DEF Agree
<1>4. Commanding' /\ (op' \in Reverting => reverted')
  BY <1>1 DEF Commanding
<1>5. Len(Script(op')) = 2 => Len(left') # 1
  BY <1>1
<1>6. Before'
  BY <1>1, <1>3, <1>5 DEF Before
<1>7. AllKeys(InFlight)'
  BY <1>2, <1>3
<1> QED BY <1>1, <1>4, <1>6, <1>7 DEF Dialogue

\* A byte is sent: the keyboard has obeyed it and answers, or has not and asks
\* for it again.
LEMMA DialogueSend ==
  ASSUME Types, initialized, port' = port, Dialogue, Send
  PROVE  Dialogue'
<1>1. port \in Ports
  BY PortHasKeyboard DEF Types, Ports
<1>2. /\ mode = "send" /\ mode' = "wait" /\ UNCHANGED <<todo, left, active, reverted, buffer>>
  BY DEF Send, wires
<1>3. /\ AllKeys(InFlight) /\ Before /\ Commanding /\ IsKeyboard(kb) /\ InFlight \in Seq(Bytes)
      /\ op \in Reverting => reverted
  BY <1>1, <1>2, FlightTypes DEF Dialogue, Types
<1>4. op' = op /\ Commanding' /\ Asked' = Asked /\ (op' \in Reverting => reverted')
  BY <1>2, <1>3 DEF op, Commanding, Asked
<1>5. CASE queue' = [queue EXCEPT ![port] = Append(@, "resend")] /\ UNCHANGED kb
  <2>1. <<"resend">> \in Seq(Bytes) /\ "resend" \in Bytes
    BY DEF Bytes
  <2>2. queue[port] \in Seq(Bytes)
    BY <1>1 DEF Types
  <2>3. queue'[port] = queue[port] \o <<"resend">>
    BY <1>1, <1>5, <2>1, <2>2, AppendIsConcat DEF Types
  <2>4. InFlight' = InFlight \o <<"resend">>
    BY <1>1, <1>2, <2>1, <2>3, FlightGrows
  <2>5. Before' /\ After' = After
    BY <1>2, <1>3, <1>4, <1>5 DEF Before, After, Agree
  <2>6. Answering(<<"resend">>, Before', After', Asked')
    BY <2>5, OneAnswer
  <2>7. Answering(InFlight', Before', After', Asked')
    BY <1>3, <2>1, <2>4, <2>6, AnswerAfter
  <2> QED BY <1>2, <1>4, <2>5, <2>7 DEF Dialogue
<1>6. CASE /\ kb' = Obeys(Head(left))[1]
           /\ queue' = [queue EXCEPT ![port] = @ \o Obeys(Head(left))[2]]
  <2> DEFINE b == Head(left)
             r == Obeys(b)[2]
  <2>1. r \in Seq(Bytes)
    BY <1>3, ObeysTypes
  <2>2. queue'[port] = queue[port] \o r
    BY <1>1, <1>6 DEF Types
  <2>3. kb' = Obeys(b)[1]
    BY <1>6
  <2> HIDE DEF r
  <2>4. InFlight' = InFlight \o r
    BY <1>1, <1>2, <2>1, <2>2, FlightGrows
  <2> SUFFICES Answering(r, Before', After', Asked') /\ (Before' \/ After')
    <3>1. Answering(InFlight', Before', After', Asked')
      BY <1>3, <2>1, <2>4, AnswerAfter
    <3> QED BY <1>2, <1>4, <3>1 DEF Dialogue
  <2>5. op \in Exchanges /\ Agree /\ (kb.awaits = "none" \/ kb.awaits \in WithData)
    BY <1>3 DEF Commanding, Before, IsKeyboard
  <2>6. CASE Len(Script(op)) = 2 /\ Len(left) = 2
    <3>1. b = Script(op)[1] /\ b \in WithData /\ b \notin {"0", "1", "3"}
      BY <1>3, <2>6, LeftOver DEF WithData
    <3>2. kb'.awaits \in {b, "none"} /\ kb'.set = kb.set /\ r = <<"ack">>
      <4>1. CASE kb.awaits = "none"
        BY <1>3, <2>3, <3>1, <4>1, ObeysCommand DEF r
      <4>2. CASE kb.awaits \in WithData
        BY <1>3, <2>3, <3>1, <4>2, ObeysData DEF r
      <4> QED BY <2>5, <4>1, <4>2
    <3>3. After'
      BY <1>2, <1>4, <2>5, <2>6, <3>1, <3>2 DEF After, Agree
    <3> QED BY <3>2, <3>3, OneAnswer
  <2>7. CASE Len(Script(op)) = 2 /\ Len(left) = 1
    <3>1. b = Script(op)[2] /\ Script(op)[1] \in WithData
      BY <1>3, <2>7, LeftOver
    <3>2. kb.awaits \in {Script(op)[1], "none"}
      BY <1>3, <2>7 DEF Before
    <3>3. /\ b \in {"0", "1", "3", "data"}
          /\ \/ op = "set_scan_code_set_1" /\ Script(op)[1] = "set" /\ b = "1"
             \/ op = "set_scan_code_set_3" /\ Script(op)[1] = "set" /\ b = "3"
             \/ op \in {"get_scan_code_set", "make_only"} /\ Script(op)[1] = "set" /\ b = "0"
             \/ op \in {"set_leds", "set_typematic", "set_specific_key"} /\ Script(op)[1] # "set"
      BY <2>5, <2>7, <3>1, ScriptCases
    <3>4. CASE kb.awaits = "none"
      <4>1. kb' = kb /\ r = <<"resend">>
        BY <2>3, <3>3, <3>4, ObeysNothing DEF r
      <4>2. Before'
        BY <1>2, <1>3, <1>4, <4>1 DEF Before, Agree
      <4> QED BY <4>1, <4>2, OneAnswer
    <3>5. CASE kb.awaits = Script(op)[1]
      <4>1. /\ kb.awaits = "set" /\ b = "1" => kb'.set = 1
            /\ kb.awaits = "set" /\ b = "3" => kb'.set = 3
            /\ kb.awaits # "set" \/ b \notin {"1", "3"} => kb'.set = kb.set
            /\ kb.awaits = "set" /\ b = "0" => \E v \in Values : r = <<"ack", v>>
            /\ kb.awaits # "set" \/ b # "0" => r = <<"ack">>
        BY <1>3, <2>3, <3>1, <3>5, ObeysData DEF r
      <4>2. Agree' \/ kb'.set # kb.set
        BY <1>2, <2>5 DEF Agree
      <4>3. After'
        BY <1>2, <1>4, <2>7, <3>3, <3>5, <4>1, <4>2 DEF After
      <4>4. r = <<"ack">> \/ (Asked' /\ \E v \in Values : r = <<"ack", v>>)
        BY <1>2, <1>4, <2>7, <3>3, <3>5, <4>1 DEF Asked, Getters
      <4> QED BY <4>3, <4>4, OneAnswer
    <3> QED BY <3>2, <3>4, <3>5
  <2>8. CASE Len(Script(op)) = 1
    <3>1. /\ b \in {"enable", "plain", "echo", "resend", "reset", "defaults"} /\ Len(left) = 1
          /\ b = Script(op)[1]
      BY <1>3, <2>8, LeftOver
    <3>2. b \notin WithData /\ b \notin {"0", "1", "3"}
      BY <3>1 DEF WithData
    <3>3. /\ b \notin {"reset", "defaults"} => kb'.set = kb.set
          /\ r \in {<<"ack">>, <<"echo">>} \/ (b = "reset" /\ r = <<"ack", "passed">>)
      <4>1. CASE kb.awaits = "none"
        BY <1>3, <2>3, <3>1, <3>2, <4>1, ObeysCommand DEF r
      <4>2. CASE kb.awaits \in WithData
        BY <1>3, <2>3, <3>1, <3>2, <4>2, ObeysData DEF r
      <4> QED BY <2>5, <4>1, <4>2
    <3>4. \/ op = "reset_and_self_test" /\ b = "reset"
          \/ op = "set_default_parameters" /\ b = "defaults"
          \/ /\ op \notin {"set_scan_code_set_1", "set_scan_code_set_3"}
             /\ b \notin {"reset", "defaults"}
      BY <2>5, <2>8, <3>1, ScriptCases DEF Getters
    <3>5. Agree'
      <4>1. CASE op \in Reverting
        BY <1>2, <1>3, <4>1 DEF Agree
      <4>2. CASE b \notin {"reset", "defaults"}
        BY <1>2, <2>5, <3>3, <4>2 DEF Agree
      <4> QED BY <3>4, <4>1, <4>2 DEF Reverting
    <3>6. After'
      BY <1>2, <1>4, <3>1, <3>4, <3>5 DEF After
    <3>7. r \in {<<"ack">>, <<"echo">>} \/ (Asked' /\ r = <<"ack", "passed">>)
      BY <1>2, <1>4, <3>1, <3>3, <3>4 DEF Asked, Getters
    <3>8. "passed" \in Values
      BY DEF Values
    <3> QED BY <3>6, <3>7, <3>8, OneAnswer
  <2> QED BY <1>3, <2>6, <2>7, <2>8, LeftOver
<1> QED BY <1>5, <1>6 DEF Send

\* A command ends, nothing but keys on its way; with an error it was not one that
\* sets the scan code set.
LEMMA DialogueEnds ==
  ASSUME NEW ok, NEW doubt, Ends(ok, doubt), AllKeys(InFlight'), UNCHANGED kb, reverted \in BOOLEAN,
         CASE op = "set_scan_code_set_1" -> ok /\ kb.set = 1
           [] op = "set_scan_code_set_3" -> ok /\ kb.set = 3
           [] OTHER -> Agree
  PROVE  Dialogue'
<1>1. /\ mode' = "op"
      /\ op = "set_scan_code_set_1" => active' = 1
      /\ op = "set_scan_code_set_3" => active' = 3
      /\ op \notin {"set_scan_code_set_1", "set_scan_code_set_3"} => UNCHANGED <<active, reverted>>
  BY DEF Ends, op
<1>2. CASE op = "set_scan_code_set_1"
  <2>1. Agree'
    BY <1>1, <1>2 DEF Agree
  <2> QED BY <1>1, <2>1 DEF Dialogue
<1>3. CASE op = "set_scan_code_set_3"
  <2>1. Agree'
    BY <1>1, <1>3 DEF Agree
  <2> QED BY <1>1, <2>1 DEF Dialogue
<1>4. CASE op \notin {"set_scan_code_set_1", "set_scan_code_set_3"}
  <2>1. Agree
    BY <1>4
  <2>2. Agree'
    BY <1>1, <1>4, <2>1 DEF Agree
  <2> QED BY <1>1, <2>2 DEF Dialogue
<1> QED BY <1>2, <1>3, <1>4

\* Commands whose error stops the kernel, or set-up.
LEMMA ErrorsThatCount ==
  ASSUME NEW ok, NEW doubt, Ends(ok, doubt), stopped = "no", ~astray', stopped' = "no"
  PROVE  op \in {"set_scan_code_set_1", "set_scan_code_set_3"} => ok
BY DEF Ends, op

\* The answer to a byte is read, and was the keyboard's.
LEMMA DialogueRead ==
  ASSUME Types, initialized, port' = port, Dialogue, Read, ~astray', stopped = "no", stopped' = "no"
  PROVE  Dialogue'
<1>1. port \in Ports
  BY PortHasKeyboard DEF Types, Ports
<1>2. mode = "read" /\ buffer' = Empty /\ UNCHANGED <<queue, kb>>
  BY DEF Read, ReadPort, device
<1>3. buffer.port = port
  BY <1>2 DEF Read, Ends, Strange
<1>4. last' = buffer.byte
  BY <1>1, <1>3 DEF Read, ReadPort, Empty, Ports
<1>5. /\ InFlight \in Seq(Bytes) /\ InFlight # <<>> /\ Head(InFlight) = last'
      /\ InFlight' = Tail(InFlight)
  BY <1>1, <1>2, <1>3, <1>4, FlightTypes, FlightRead
<1>6. /\ Answering(InFlight, Before, After, Asked) /\ Commanding
      /\ op \in Reverting => reverted
  BY <1>2 DEF Dialogue
<1>7. /\ last' = "resend" => Before /\ AllKeys(InFlight')
      /\ last' = "echo" => After /\ AllKeys(InFlight')
      /\ last' = "ack" => After /\ Valuing(InFlight') /\ (~Asked => AllKeys(InFlight'))
  BY <1>5, <1>6, FirstRead
<1>8. CASE last' = "resend" /\ mode' = "send" /\ UNCHANGED <<todo, left, active, reverted>>
  <2>1. op' = op /\ Commanding' /\ Before' /\ (op' \in Reverting => reverted')
    BY <1>2, <1>6, <1>7, <1>8 DEF op, Commanding, Before, Agree
  <2> QED BY <1>7, <1>8, <2>1 DEF Dialogue
<1>9. CASE /\ last' = "ack" /\ Len(left) > 1 /\ left' = Tail(left) /\ mode' = "send"
           /\ UNCHANGED <<todo, active, reverted>>
  <2>1. Len(left) = 2 /\ Len(Script(op)) = 2 /\ Tail(left) = <<Script(op)[2]>>
    <3>1. Len(left) # 1
      BY <1>9
    <3>2. Commanding
      BY <1>6
    <3> QED BY <3>1, <3>2, LeftOver, Zenon
  <2>2. op' = op /\ left' = <<Script(op)[2]>> /\ Len(left') = 1
    BY <1>9, <2>1 DEF op
  <2>3. Commanding' /\ (op' \in Reverting => reverted')
    BY <1>6, <1>9, <2>1, <2>2 DEF Commanding
  <2>4. kb.awaits \in {Script(op)[1], "none"} /\ Agree
    BY <1>7, <1>9, <2>1 DEF After
  <2>5. Before'
    BY <1>2, <1>9, <2>1, <2>2, <2>4 DEF Before, Agree
  <2>6. AllKeys(InFlight')
    BY <1>7, <1>9, <2>1 DEF Asked
  <2> QED BY <1>9, <2>3, <2>5, <2>6 DEF Dialogue
<1>10. CASE /\ last' = "ack" /\ Len(left) = 1 /\ op \in Getters /\ mode' = "wait2"
            /\ UNCHANGED <<todo, left, active, reverted>>
  <2>1. op' = op /\ Commanding' /\ (op' \in Reverting => reverted')
    BY <1>6, <1>10 DEF op, Commanding
  <2>2. Agree
    BY <1>7, <1>10 DEF After, Getters
  <2>3. Agree' = Agree
    BY <1>2, <1>10 DEF Agree
  <2> QED BY <1>2, <1>7, <1>10, <2>1, <2>2, <2>3 DEF Dialogue
<1>11. CASE last' = "ack" /\ Len(left) = 1 /\ op \notin Getters /\ Ends(TRUE, FALSE)
  <2>1. AllKeys(InFlight')
    BY <1>7, <1>11 DEF Asked
  <2>2. /\ op = "set_scan_code_set_1" => kb.set = 1
        /\ op = "set_scan_code_set_3" => kb.set = 3
        /\ op \notin {"set_scan_code_set_1", "set_scan_code_set_3"} => Agree
    BY <1>7, <1>11 DEF After
  <2> QED BY <1>2, <1>11, <2>1, <2>2, DialogueEnds DEF Types
<1>12. CASE /\ last' # "ack"
            /\ Ends(op = "echo_keyboard" /\ last' = "echo", last' \notin {"echo", "resend"})
  <2>1. last' \in {"echo", "resend"}
    BY <1>12 DEF Ends
  <2>2. AllKeys(InFlight') /\ (Before \/ After)
    BY <1>7, <2>1
  <2>3. op \notin {"set_scan_code_set_1", "set_scan_code_set_3"}
    BY <1>12, ErrorsThatCount
  <2>4. Agree
    BY <2>2, <2>3 DEF Before, After
  <2> QED BY <1>2, <1>12, <2>2, <2>3, <2>4, DialogueEnds DEF Types
<1> QED BY <1>8, <1>9, <1>10, <1>11, <1>12 DEF Read, Acknowledged, op

\* The value is read.
LEMMA DialogueRead2 ==
  ASSUME Types, initialized, port' = port, Dialogue, Read2, ~astray'
  PROVE  Dialogue'
<1>1. port \in Ports
  BY PortHasKeyboard DEF Types, Ports
<1>2. mode = "read2" /\ buffer' = Empty /\ UNCHANGED <<queue, kb>>
  BY DEF Read2, ReadPort, device
<1> DEFINE ok == CASE Head(todo) = "make_only" -> last' = "set 3"
                   [] Head(todo) = "reset_and_self_test" -> last' = "passed"
                   [] OTHER -> last' \in {"set 3", "other set"}
<1>3. Ends(ok, ~ok)
  BY DEF Read2
<1>4. ok => last' \in Values
  BY DEF Values
<1> HIDE DEF ok
<1>5. buffer.port = port /\ ok
  BY <1>2, <1>3 DEF Ends, Strange, op
<1>6. last' = buffer.byte
  <2>1. ReadPort
    BY DEF Read2
  <2>2. buffer # Empty
    BY <1>1, <1>5 DEF Empty, Ports
  <2> QED BY <2>1, <2>2 DEF ReadPort
<1>7. /\ InFlight \in Seq(Bytes) /\ InFlight # <<>> /\ Head(InFlight) = last'
      /\ InFlight' = Tail(InFlight)
  BY <1>1, <1>2, <1>5, <1>6, FlightTypes, FlightRead
<1>8. Valuing(InFlight) /\ op \in Getters /\ Agree
  BY <1>2 DEF Dialogue
<1>9. AllKeys(InFlight')
  BY <1>4, <1>5, <1>7, <1>8, FirstRead
<1>10. op # "set_scan_code_set_1" /\ op # "set_scan_code_set_3"
  BY <1>8 DEF Getters
<1> QED BY <1>2, <1>3, <1>5, <1>8, <1>9, <1>10, DialogueEnds DEF Types

-----------------------------------------------------------------------------
(* The invariant                                                            *)

\* The types are kept.
LEMMA QueueStep ==
  ASSUME Types, NEW p, NEW t \in Seq(Bytes), queue' = [queue EXCEPT ![p] = @ \o t]
  PROVE  queue' \in [Ports -> Seq(Bytes)]
<1>1. CASE p \in Ports
  <2>1. queue[p] \o t \in Seq(Bytes)
    BY <1>1, ConcatProperties DEF Types
  <2> QED BY <2>1 DEF Types
<1>2. CASE p \notin Ports
  BY <1>2 DEF Types
<1> QED BY <1>1, <1>2

\* A byte sent joins its port's queue.
LEMMA QueueAppend ==
  ASSUME Types, NEW p, NEW b \in Bytes, queue' = [queue EXCEPT ![p] = Append(@, b)]
  PROVE  queue' \in [Ports -> Seq(Bytes)]
<1>1. CASE p \in Ports
  <2>1. Append(queue[p], b) \in Seq(Bytes)
    BY <1>1, AppendProperties DEF Types
  <2> QED BY <2>1 DEF Types
<1>2. CASE p \notin Ports
  BY <1>2 DEF Types
<1> QED BY <1>1, <1>2

\* Every step keeps the types.
LEMMA TypesStep ==
  ASSUME Types, [Next]_vars
  PROVE  Types'
<1>1. devices' = devices /\ devices' \in Machines
  BY MachineStays DEF Types
<1>2. failed' \in BOOLEAN /\ astray' \in BOOLEAN /\ reverted' \in BOOLEAN
  BY DEF Types, Next, Kernel, User, Wire, Interrupted, Initialized, Operate, Begin, Send, GiveUp,
         Wait, Read, Read2, Ends, Strange, Key, Move, Transfer, Interrupt, vars
<1> SUFFICES /\ queue' \in [Ports -> Seq(Bytes)] /\ IsKeyboard(kb')
             /\ buffer' = Empty \/ (buffer'.port \in Ports /\ buffer'.byte \in Bytes)
  BY <1>1, <1>2 DEF Types
<1>3. CASE UNCHANGED vars
  BY <1>3 DEF vars, device, wires, Types
<1>4. CASE Initialized \/ Operate \/ Begin \/ GiveUp \/ Wait
  BY <1>4 DEF Initialized, Operate, Begin, GiveUp, Wait, device, wires, Types
<1>5. CASE Send
  <2>1. buffer' = buffer
    BY <1>5 DEF Send, wires
  <2>2. CASE queue' = [queue EXCEPT ![port] = Append(@, "resend")] /\ UNCHANGED kb
    <3>1. "resend" \in Bytes
      BY DEF Bytes
    <3>2. queue' \in [Ports -> Seq(Bytes)]
      BY <2>2, <3>1, QueueAppend
    <3> QED BY <2>1, <2>2, <3>2 DEF Types
  <2>3. CASE /\ kb' = Obeys(Head(left))[1]
             /\ queue' = [queue EXCEPT ![port] = @ \o Obeys(Head(left))[2]]
    <3>1. IsKeyboard(Obeys(Head(left))[1]) /\ Obeys(Head(left))[2] \in Seq(Bytes)
      BY ObeysTypes DEF Types
    <3>2. queue' \in [Ports -> Seq(Bytes)]
      BY <2>3, <3>1, QueueStep
    <3> QED BY <2>1, <2>3, <3>1, <3>2 DEF Types
  <2> QED BY <1>5, <2>2, <2>3 DEF Send
<1>6. CASE Read \/ Read2
  BY <1>6 DEF Read, Read2, ReadPort, device, Types
<1>7. CASE User
  <2>1. PICK p \in DOMAIN devices : Key(p) \/ Move(p)
    BY <1>7 DEF User
  <2>2. PICK b \in Bytes : queue' = [queue EXCEPT ![p] = Append(@, b)]
    BY <2>1 DEF Key, Move, Bytes
  <2>3. queue' \in [Ports -> Seq(Bytes)]
    BY <2>2, QueueAppend
  <2> QED BY <2>1, <2>3 DEF Key, Move, wires, Types
<1>8. CASE Wire
  <2>1. PICK p \in DOMAIN devices : Transfer(p)
    BY <1>8 DEF Wire
  <2>2. p \in Ports
    BY MachinePorts DEF Types, Ports
  <2>3. queue[p] \in Seq(Bytes) /\ queue[p] # <<>>
    BY <2>1, <2>2 DEF Transfer, Types
  <2>4. Head(queue[p]) \in Bytes /\ Tail(queue[p]) \in Seq(Bytes)
    BY <2>3, Rebuild
  <2>5. queue' \in [Ports -> Seq(Bytes)]
    BY <2>1, <2>4 DEF Transfer, Types
  <2>6. buffer'.port \in Ports /\ buffer'.byte \in Bytes
    BY <2>1, <2>2, <2>4 DEF Transfer
  <2> QED BY <2>1, <2>5, <2>6 DEF Transfer, Types
<1>9. CASE Interrupted
  BY <1>9 DEF Interrupted, Interrupt, ReadPort, device, wires, Types
<1> QED BY <1>3, <1>4, <1>5, <1>6, <1>7, <1>8, <1>9 DEF Next, Kernel

\* Every step keeps the exchange with the keyboard in order.
LEMMA TalkStep ==
  ASSUME Types, Gates, Traced, Talk, [Next]_vars
  PROVE  Talk'
<1> SUFFICES ASSUME ~astray', stopped' = "no", initialized' PROVE Dialogue'
  BY DEF Talk
<1>1. port' = port /\ initialized
  BY MachineStays
<1>2. astray => astray'
  BY DEF Next, Kernel, User, Wire, Interrupted, Initialized, Operate, Begin, Send, GiveUp,
         Wait, Read, Read2, Ends, Key, Move, Transfer, Interrupt, vars
<1>3. stopped = "no"
  BY DEF Next, vars
<1>4. Dialogue
  BY <1>1, <1>2, <1>3 DEF Talk
<1>5. port \in Ports
  BY <1>1, PortHasKeyboard DEF Types, Ports
<1>6. InFlight \in Seq(Bytes)
  BY <1>5, FlightTypes
<1>7. CASE UNCHANGED vars
  <2>1. UNCHANGED <<mode, left, todo, kb, active, reverted, buffer, queue>>
    BY <1>7 DEF vars, driver, device, wires
  <2> QED BY <1>1, <1>4, <2>1, FlightStays, DialogueKept
<1>8. CASE Initialized \/ Operate
  <2>1. mode = "op" /\ mode' = "op" /\ UNCHANGED <<kb, active, reverted, buffer, queue>>
    BY <1>8 DEF Initialized, Operate, device, wires
  <2>2. InFlight' = InFlight /\ Agree' = Agree
    BY <1>1, <2>1, FlightStays DEF Agree
  <2>3. AllKeys(InFlight) /\ Agree
    BY <1>4, <2>1 DEF Dialogue
  <2> QED BY <2>1, <2>2, <2>3 DEF Dialogue
<1>9. CASE Begin
  BY <1>1, <1>4, <1>9, DialogueBegin DEF Begin
<1>10. CASE Send
  BY <1>1, <1>4, <1>10, DialogueSend
<1>11. CASE GiveUp
  <2> DEFINE doubt == mode # "send" /\ queue[port] # <<>>
  <2>1. Ends(FALSE, doubt) /\ UNCHANGED <<kb, buffer, queue>> /\ mode \in {"send", "wait", "wait2"}
    BY <1>11 DEF GiveUp, wires
  <2>2. ~doubt
    BY <2>1 DEF Ends
  <2>3. InFlight' = InFlight
    BY <1>1, <2>1, FlightStays
  <2>4. op \notin {"set_scan_code_set_1", "set_scan_code_set_3"}
    BY <1>3, <2>1, ErrorsThatCount
  <2>5. AllKeys(InFlight) /\ Agree
    <3>1. CASE mode = "send"
      BY <1>4, <3>1 DEF Dialogue, Before
    <3>2. CASE mode # "send"
      <4>1. queue[port] = <<>> /\ buffer = Empty
        BY <1>11, <2>2, <3>2 DEF GiveUp
      <4>2. InFlight = <<>>
        BY <1>5, <4>1 DEF InFlight, Empty, Ports
      <4>3. AllKeys(InFlight)
        BY <4>2 DEF AllKeys
      <4>4. Agree
        BY <1>4, <2>1, <2>4, <3>2 DEF Dialogue, Before, After
      <4> QED BY <4>3, <4>4
    <3> QED BY <3>1, <3>2
  <2> HIDE DEF doubt
  <2> QED BY <2>1, <2>3, <2>4, <2>5, DialogueEnds DEF Types
<1>12. CASE Wait
  <2>1. /\ UNCHANGED <<left, todo, kb, active, reverted, buffer, queue>>
        /\ \/ mode = "wait" /\ mode' = "read"
           \/ mode = "wait2" /\ mode' = "read2"
    BY <1>12 DEF Wait, device, wires
  <2>2. InFlight' = InFlight /\ op' = op
    BY <1>1, <2>1, FlightStays DEF op
  <2>3. Agree' = Agree /\ Asked' = Asked /\ Before' = Before /\ After' = After
    BY <2>1, <2>2 DEF Agree, Asked, Before, After
  <2>4. Commanding' /\ (op' \in Reverting => reverted')
    BY <1>4, <2>1, <2>2 DEF Dialogue, Commanding
  <2> QED BY <1>4, <2>1, <2>2, <2>3, <2>4 DEF Dialogue
<1>13. CASE Read
  BY <1>1, <1>3, <1>4, <1>13, DialogueRead
<1>14. CASE Read2
  BY <1>1, <1>4, <1>14, DialogueRead2
<1>15. CASE User
  <2>1. PICK p \in DOMAIN devices : Key(p) \/ Move(p)
    BY <1>15 DEF User
  <2>2. p \in Ports
    BY MachinePorts DEF Types, Ports
  <2>3. UNCHANGED <<mode, left, todo, kb, active, reverted, buffer>>
    BY <2>1 DEF Key, Move, driver, wires
  <2>4. CASE p = port
    <3>1. Key(p)
      BY <1>1, <2>1, <2>4, PortHasKeyboard DEF Move, Types
    <3>2. queue[port] \in Seq(Bytes)
      BY <1>5 DEF Types
    <3>3. "key" \in Bytes /\ <<"key">> \in Seq(Bytes)
      BY DEF Bytes
    <3>4. queue'[port] = queue[port] \o <<"key">>
      BY <1>5, <2>4, <3>1, <3>2, <3>3, AppendIsConcat DEF Key, Types
    <3>5. InFlight' = Append(InFlight, "key")
      BY <1>1, <1>5, <1>6, <2>3, <3>3, <3>4, FlightGrows, AppendIsConcat
    <3> QED BY <1>1, <1>4, <2>3, <3>5, DialogueKept
  <2>5. CASE p # port
    <3>1. queue'[port] = queue[port]
      BY <1>5, <2>1, <2>2, <2>5 DEF Key, Move, Types
    <3> QED BY <1>1, <1>4, <2>3, <3>1, FlightStays, DialogueKept
  <2> QED BY <2>4, <2>5
<1>16. CASE Wire
  <2>1. PICK p \in DOMAIN devices : Transfer(p)
    BY <1>16 DEF Wire
  <2>2. p \in Ports
    BY MachinePorts DEF Types, Ports
  <2>3. UNCHANGED <<mode, left, todo, kb, active, reverted>>
    BY <2>1 DEF Transfer, driver
  <2> QED BY <1>1, <1>4, <1>5, <2>1, <2>2, <2>3, FlightTransfer, DialogueKept
<1>17. CASE Interrupted
  <2>1. /\ UNCHANGED <<mode, left, todo, kb, active, reverted, queue>>
        /\ buffer' = Empty
    BY <1>17 DEF Interrupted, Interrupt, ReadPort, driver, device, wires
  <2> QED BY <1>1, <1>4, <1>5, <2>1, FlightRead, DialogueKept
<1> QED BY <1>7, <1>8, <1>9, <1>10, <1>11, <1>12, <1>13, <1>14, <1>15, <1>16, <1>17
        DEF Next, Kernel

\* Every step keeps the trace of answers.
LEMMA TracedStep ==
  ASSUME Types, Traced, [Next]_vars
  PROVE  Traced'
BY DEF Traced, Types, Next, Kernel, User, Wire, Interrupted, Initialized, Operate, Begin, Send,
       GiveUp, Wait, Read, Read2, Ends, Key, Move, Transfer, Interrupt, vars

\* The invariant holds at first.
LEMMA InitInv == Init => IInv
<1> SUFFICES ASSUME Init PROVE IInv
  OBVIOUS
<1>1. queue = [p \in Ports |-> <<>>] /\ queue \in [Ports -> Seq(Bytes)]
  BY DEF Init
<1>2. IsKeyboard(kb) /\ Agree
  <2>1. PICK n \in {1, 2} : /\ kb = [set |-> n, scanning |-> TRUE, awaits |-> "none"]
                            /\ active # 0 => active = n
    BY DEF Init
  <2>2. kb.set = n
    BY <2>1
  <2>3. IsKeyboard(kb)
    BY <2>1 DEF IsKeyboard
  <2> QED BY <2>1, <2>2, <2>3 DEF Agree
<1>3. Types
  BY <1>1, <1>2 DEF Init, Types
<1>4. Traced
  BY DEF Init, Traced
<1>5. todo \in Before3 \/ (initialized /\ todo \in Before2)
  BY SetupToDo, UseToDo DEF Init
<1>6. mode = "op" /\ Vectors \subseteq present /\ PicsOnly
  BY DEF Init, ChipsInit, PicsOnly
<1>7. Gates
  BY <1>5, <1>6 DEF Gates, Stage, Opening, Init
<1>8. initialized => Dialogue
  <2> SUFFICES ASSUME initialized PROVE Dialogue
    OBVIOUS
  <2>1. port \in Ports
    BY <1>3, PortHasKeyboard DEF Types, Ports
  <2>2. InFlight = <<>>
    BY <1>1, <2>1 DEF InFlight, Init, Empty, Ports
  <2>3. AllKeys(InFlight)
    BY <2>2 DEF AllKeys
  <2> QED BY <1>2, <1>6, <2>3 DEF Dialogue
<1> QED BY <1>3, <1>4, <1>7, <1>8 DEF IInv, Talk

\* The invariant holds throughout set-up, commands and take-over.
THEOREM SetupInvariance == Spec => []IInv
<1>1. IInv /\ [Next]_vars => IInv'
  BY TypesStep, TracedStep, GatesStep, TalkStep DEF IInv, Types
<1> QED BY InitInv, <1>1, PTL DEF Spec

\* disable_keyboard masks the line before it takes the gate away, and
\* enable_keyboard puts the gate back first: on any machine, with any commands in
\* between and however many keys and movements interrupt them, no interrupt meets
\* an absent gate, unless an error of set_scan_code_set left setup_keyboard early.
THEOREM GateIsPresent == Spec => []GatePresentWhenTaken
<1>1. IInv => GatePresentWhenTaken
  BY DEF IInv, Gates, GatePresentWhenTaken, Types
<1> QED BY SetupInvariance, <1>1, PTL

\* When the kernel runs on, kps.active_scancode_set is the set the keyboard sends,
\* for any sequence of commands of which any may have failed: bytes are asked for
\* again, commands refused, and the mouse's handler may take an answer.  After a
\* reset or a return to the defaults it is, once the driver has set the set again.
THEOREM SetsDoAgree == Spec => []SetsAgree
<1>1. IInv => SetsAgree
  <2> SUFFICES ASSUME IInv, todo = <<>>, stopped = "no", ~astray, ~reverted, active # 0
               PROVE  kb.set = active
    BY DEF SetsAgree, Running
  <2>1. Stage
    BY DEF IInv, Traced, Gates
  <2>2. ~Opening
    BY Openings DEF Opening, Before1, Before2, Before3
  <2>3. ~Talking
    BY ToDoCases DEF Talking
  <2>4. initialized /\ mode = "op"
    BY <2>1, <2>2, <2>3 DEF Stage, Closing
  <2>5. Agree
    BY <2>4 DEF IInv, Talk, Dialogue
  <2> QED BY <2>5 DEF Agree
<1> QED BY SetupInvariance, <1>1, PTL
=============================================================================
