-------------------------------- MODULE Printf --------------------------------
(***************************************************************************)
(* What kprintf prints: the format is scanned for its fields, the text     *)
(* between them and the converted arguments are written in turn.           *)
(*                                                                         *)
(* A character is a string of length one; Nul ends a C string and is never *)
(* shown.  Numbers have Bits bits, 32 in the code.  A floating-point       *)
(* argument is a number of eighths, whose digits the code computes         *)
(* exactly.  Kprintf models the lock around all of this, Terminal what     *)
(* becomes of a character.                                                 *)
(***************************************************************************)
EXTENDS Integers, Sequences, SequencesExt, FiniteSetsExt

CONSTANTS
  Calls,    \* calls of kprintf: sequences of pieces, see Text and Field
  Bits      \* bits of an int

VARIABLES
  call,   \* the call being made
  stage,  \* where kprintf2_argc_check and vkprintf are
  offset, \* of set_types_and_pos
  props,  \* printf_information
  idx,    \* index of the field, from 0
  taken,  \* arguments va_arg has consumed
  shown,  \* the text of the last field (history)
  out     \* what was written to the terminal, in order

printfVars == <<call, stage, offset, props, idx, taken, shown, out>>

FieldTypes == {"c", "s", "d", "u", "f", "h", "b"}
Options == {":", ".", ";"}
Digits == <<"0", "1", "2", "3", "4", "5", "6", "7", "8", "9",
            "a", "b", "c", "d", "e", "f">>
DigitChar(d) == Digits[d + 1]
Decimals == {Digits[k] : k \in 1..10}
Nul == "nul"
Other == "?"      \* a byte of memory that belongs to nobody

\* A piece of a call is a text of the format, or a field with its argument.
Text(chars) == [field |-> FALSE, chars |-> chars]
Field(type, option, num, arg) ==
  [field |-> TRUE, chars |-> <<"%", type>> \o option \o num,
   type |-> type, option |-> option, num |-> num, arg |-> arg]

fmt == FlattenSeq([k \in DOMAIN call |-> call[k].chars])
args == SelectSeq(call, LAMBDA p : p.field)
CharAt(p) == IF p < Len(fmt) THEN fmt[p + 1] ELSE Nul

ASSUME PrintfAssumption ==
  /\ Bits \in Nat /\ Bits % 4 = 0 /\ Bits > 0
  /\ \A c \in Calls : c \in Seq(Range(c)) /\ \A k \in DOMAIN c : c[k].chars \in Seq(STRING)

-----------------------------------------------------------------------------
(* Conversions                                                              *)

Repeat(c, n) == [k \in 1..n |-> c]
Shown(s) == SelectSeq(s, LAMBDA c : c # Nul)

\* The loop of itoa and uitoa writes the digits from the last to the first.
Backwards[v \in Nat] ==
  IF v = 0 THEN <<>> ELSE <<DigitChar(v % 10)>> \o Backwards[v \div 10]

uitoa(v) == IF v = 0 THEN <<"0">> ELSE Reverse(Backwards[v])

\* The smallest number has no opposite: the loop stops at once, or after a
\* character that is not a digit.
itoa(v) ==
  IF v = -(2^(Bits - 1)) THEN {<<"-">>, <<"-", Other>>}
  ELSE {IF v < 0 THEN Reverse(Append(Backwards[-v], "-")) ELSE uitoa(v)}

ftoa(units, precision) ==
  LET size == IF units < 0 THEN -units ELSE units
      sign == IF units < 0 THEN <<"-">> ELSE <<>>
      digit(k) == DigitChar((((size % 8) * 10^k) \div 8) % 10)
  IN sign \o uitoa(size \div 8)
       \o IF precision = 0 THEN <<>> ELSE <<".">> \o [k \in 1..precision |-> digit(k)]

Nibbles == Bits \div 4

uint_to_hex(v) ==
  LET temp == [k \in 1..Nibbles |-> DigitChar((v \div 16^(Nibbles - k)) % 16)]
  IN IF v = 0 THEN <<"0">>
     ELSE SubSeq(temp, Min({k \in 1..Nibbles : temp[k] # "0"}), Nibbles)

Shifts[v \in Nat] == IF v = 0 THEN 0 ELSE 1 + Shifts[v \div 2]
binary_size(v) == IF v = 0 THEN 1 ELSE Shifts[v]

hexSize(v) ==
  IF binary_size(v) % 4 # 0 THEN (binary_size(v) \div 4) + 1 ELSE binary_size(v) \div 4

\* string_to_uint reads the digits backwards until a zero byte, one byte before
\* the array included: with other than a zero there it fails, or goes on.
string_to_uint(s) ==
  LET value == FoldLeft(LAMBDA sum, c : 10 * sum + SelectInSeq(Digits, LAMBDA d : d = c) - 1, 0, s)
  IN [zero |-> value, digit |-> value + 10^Len(s)]

-----------------------------------------------------------------------------
(* Fields                                                                   *)

\* Grouping that puts a space after every fourth digit from the left.
print_hex_left(v, pad) ==
  LET digits == uint_to_hex(v)
      all == Repeat("0", pad - Len(digits)) \o digits
  IN <<"0", "x">> \o FlattenSeq([k \in DOMAIN all |->
       IF k % 4 = 0 /\ k # Len(all) THEN <<all[k], " ">> ELSE <<all[k]>>])

\* print_hex_f: leading zeros, then the digits, with a space wherever a multiple
\* of four is left.
print_hex_f(v, pad) ==
  LET digits == uint_to_hex(v)
      n == Max({hexSize(v), pad})
      zeros == n - Len(digits)
      left(k) == n - (k - 1) - zeros - 1
  IN <<"0", "x">>
     \o FlattenSeq([k \in 1..zeros |-> IF (n - k) % 4 = 0 THEN <<"0", " ">> ELSE <<"0">>])
     \o FlattenSeq([k \in DOMAIN digits |->
          IF left(k) % 4 = 0 /\ k # Len(digits) THEN <<digits[k], " ">> ELSE <<digits[k]>>])

print_uint_f(v, pad) == LET s == uitoa(v) IN Repeat(" ", Max({0, pad - Len(s)})) \o s

\* The sign comes before the padding and the width counts it twice.
print_int_f(v, pad) ==
  {IF v < 0 THEN <<"-">> \o Repeat(" ", Max({0, pad - (Len(s) + 1)})) \o Tail(s)
            ELSE Repeat(" ", Max({0, pad - Len(s)})) \o s : s \in itoa(v)}

\* getSpacelessBitString and addSpacesEvery4bits, counted from 0.
Spaced(v) ==
  [k \in 1..Bits + Nibbles - 1 |->
     IF k % 5 = 0 THEN " " ELSE DigitChar((v \div 2^(Bits - 1 - (k - 1 - ((k - 1) \div 5)))) % 2)]

\* Always one column further, as for a multiple of four bits.
print_binary_short(v, pad) ==
  LET n == Max({binary_size(v), pad})
      first == Bits + Nibbles - 1 - (n + (n \div 4)) + 1
  IN IF n >= Bits THEN Spaced(v) ELSE SubSeq(Spaced(v), first + 1, Bits + Nibbles - 1)

print_binary_var_no_newline(v, pad) ==
  LET n == Max({binary_size(v), pad})
      first == Bits + Nibbles - 1 - (n + (n \div 4)) + IF n % 4 = 0 THEN 1 ELSE 0
  IN IF n >= Bits THEN Spaced(v) ELSE SubSeq(Spaced(v), first + 1, Bits + Nibbles - 1)

\* terminal_write of so many characters, whether the string has them or not.
terminal_write(s, n) == Shown(SubSeq(s \o <<Nul>> \o Repeat(Other, n), 1, n))

Pad(p) == IF p.option = ":" THEN p.num ELSE 0
Aborts(p) == p.type \in {"d", "u", "h"} /\ Pad(p) > 16

\* What the switch of vkprintf may write for a field.
FieldTexts(p, arg) ==
  CASE p.type = "c" -> {Shown(<<arg>>)}
    [] p.type = "s" -> {IF p.option = ";" THEN terminal_write(arg, p.num) ELSE arg}
    [] p.type = "d" -> print_int_f(arg, Pad(p))
    [] p.type = "u" -> {print_uint_f(arg, Pad(p))}
    [] p.type = "f" -> {ftoa(arg, IF p.option = "." THEN Min({p.num, 6}) ELSE 6)}
    [] p.type = "h" -> {print_hex_f(arg, Pad(p))}
    [] p.type = "b" -> {print_binary_var_no_newline(arg, Pad(p))}

-----------------------------------------------------------------------------
(* Scanning the format                                                      *)

count_char == Cardinality({p \in 0..Len(fmt) - 1 : CharAt(p) = "%"}) % 256

\* Digits of the option's number at p.
NumberAt(p) ==
  LET end == Min({q \in p..Len(fmt) : CharAt(q) \notin Decimals})
  IN SubSeq(fmt, p + 1, end)

\* get_single_format_properties.  An option without a number leaves len and
\* option_num as they were on the stack.
get_single_format_properties(p) ==
  LET type == IF CharAt(p + 1) \in FieldTypes THEN CharAt(p + 1) ELSE "invalid"
      number == NumberAt(p + 3)
      sum == string_to_uint(number)
      is(option, num, len) ==
        [type |-> type, option |-> option, num |-> num % 256, len |-> len, pos |-> p]
  IN CASE CharAt(p + 2) \notin Options -> {is("none", 0, 2)}
       [] CharAt(p + 2) \in Options /\ number = <<>> ->
            {is("not implemented", left[1], left[2]) : left \in {0, 255} \X (0..Len(fmt) + 1)}
       [] OTHER -> {is(CharAt(p + 2), sum.zero, 3 + Len(number)),
                    is(CharAt(p + 2), sum.digit, 3 + Len(number)),
                    is("could not convert", 255, 3 + Len(number))}

PrintfInit ==
  /\ call \in Calls
  /\ stage = "check" /\ offset = 0 /\ props = <<>> /\ idx = 0 /\ taken = 0
  /\ shown = <<>> /\ out = <<>>

\* kprintf2_argc_check's assertion, and the format without a field.
Check ==
  /\ stage = "check"
  /\ \/ count_char # Len(args) /\ stage' = "aborted" /\ UNCHANGED out
     \/ count_char = Len(args) /\ count_char = 0 /\ stage' = "done" /\ out' = fmt
     \/ count_char = Len(args) /\ count_char > 0 /\ stage' = "parse" /\ UNCHANGED out
  /\ UNCHANGED <<call, offset, props, idx, taken, shown>>

\* set_types_and_pos: one field.
Parse ==
  /\ stage = "parse"
  /\ LET ahead == {p \in offset..Len(fmt) - 1 : CharAt(p) = "%"}
     IN \/ /\ ahead # {}
           /\ \E p \in get_single_format_properties(Min(ahead)) : props' = Append(props, p)
           /\ offset' = Min(ahead) + 1
           /\ UNCHANGED stage
        \/ /\ ahead = {}
           /\ stage' = "write"
           /\ UNCHANGED <<offset, props>>
  /\ UNCHANGED <<call, idx, taken, shown, out>>

\* start_and_ends, 16-bit offsets: a field at the start of the format ends its
\* text at -1.
Start(k) == IF k = 0 THEN 0 ELSE (props[k].pos + props[k].len) % 65536

\* The last text ending one character late.
EndLate(k) == (IF k = Len(props) THEN Len(fmt) ELSE props[k + 1].pos - 1) % 65536

End(k) == (IF k = Len(props) THEN Len(fmt) - 1 ELSE props[k + 1].pos - 1) % 65536

\* terminal_write_offsets
WriteText ==
  /\ stage = "write"
  /\ out' = out \o SubSeq(fmt, Start(idx) + 1, (End(idx) + 1) % 65536)
  /\ stage' = IF idx = Len(props) THEN "done" ELSE "field"
  /\ UNCHANGED <<call, offset, props, idx, taken, shown>>

\* The switch on the type of a field; one that it does not know takes no
\* argument.
WriteField ==
  /\ stage = "field"
  /\ LET p == props[idx + 1]
     IN \/ p.type = "invalid" /\ shown' = <<>> /\ stage' = "write" /\ UNCHANGED taken
        \/ Aborts(p) /\ shown' = <<>> /\ stage' = "aborted" /\ taken' = taken + 1
        \/ /\ p.type # "invalid" /\ ~Aborts(p)
           /\ args[taken + 1].type = p.type
           /\ shown' \in FieldTexts(p, args[taken + 1].arg)
           /\ stage' = "write" /\ taken' = taken + 1
        \/ \* the argument of another field, of another type
           /\ p.type # "invalid" /\ ~Aborts(p)
           /\ args[taken + 1].type # p.type
           /\ shown' = <<Other>>
           /\ stage' = "write" /\ taken' = taken + 1
  /\ idx' = idx + 1
  /\ out' = out \o shown'
  /\ UNCHANGED <<call, offset, props>>

PrintfNext == Check \/ Parse \/ WriteText \/ WriteField

PrintfSpec == PrintfInit /\ [][PrintfNext]_printfVars

-----------------------------------------------------------------------------
(* What kprintf should print, from the pieces of the call                   *)

Value(digits) == string_to_uint(digits).zero % 256
Padding(p) == IF p.option = <<":">> THEN Value(p.num) ELSE 0

Significant(v, base) == Min({k \in 1..IF base = 2 THEN Bits ELSE Nibbles + 1 : base^k > v})
Numeral(v, base, n) ==
  [k \in 1..n |-> IF n - k >= Significant(v, base) THEN "0"
                  ELSE DigitChar((v \div base^(n - k)) % base)]

\* A numeral of n digits in groups of four from the right.
Grouped(v, base, n) ==
  LET s == Numeral(v, base, n)
  IN FlattenSeq([k \in 1..n |-> IF k < n /\ (n - k) % 4 = 0 THEN <<s[k], " ">> ELSE <<s[k]>>])

\* A number of eighths with so many decimals, the rest cut off.
Fixed(units, decimals) ==
  LET size == IF units < 0 THEN -units ELSE units
      fraction == ((size % 8) * 10^decimals) \div 8
  IN (IF units < 0 THEN <<"-">> ELSE <<>>)
       \o Numeral(size \div 8, 10, Significant(size \div 8, 10))
       \o IF decimals = 0 THEN <<>>
          ELSE <<".">> \o [k \in 1..decimals |-> DigitChar((fraction \div 10^(decimals - k)) % 10)]

\* The decimals a field asks for, six when it does not say.
Precision(p) == IF p.option = <<".">> THEN Value(p.num) ELSE 6

Exact(p) ==
  LET n(base) == Max({Significant(p.arg, base), Padding(p)})
      decimal(v) == Numeral(v, 10, Significant(v, 10))
  IN CASE p.type = "u" -> Repeat(" ", n(10) - Len(decimal(p.arg))) \o decimal(p.arg)
       [] p.type = "d" -> IF p.arg < 0 THEN <<"-">> \o decimal(-p.arg)
                          ELSE Repeat(" ", n(10) - Len(decimal(p.arg))) \o decimal(p.arg)
       [] p.type = "h" -> <<"0", "x">> \o Grouped(p.arg, 16, n(16))
       [] p.type = "b" -> Grouped(p.arg, 2, Min({Bits, n(2)}))
       [] p.type = "c" -> <<p.arg>>
       [] p.type = "s" -> IF p.option = <<";">>
                          THEN SubSeq(p.arg, 1, Min({Len(p.arg), Value(p.num)})) ELSE p.arg
       [] p.type = "f" -> Fixed(p.arg, Precision(p))

\* The pieces mean what they look like: the character after a field does not
\* continue it, and the field is one the code knows.  What a field may not ask
\* for is listed here: a number padded to more than 16 columns is an assertion,
\* the smallest int has no text, a negative one is padded wrongly, a string is
\* read behind its end, and of more than six decimals, which the comment at the
\* head of stdio.c promises ("show at least 4 digits of precision" for %f.4), six
\* are shown.
Clear(k) ==
  LET p == call[k]
      next == IF k < Len(call) THEN call[k + 1].chars[1] ELSE Nul
  IN p.field =>
       /\ p.type \in FieldTypes
       /\ IF p.option = <<>> THEN next \notin Options ELSE next \notin Decimals
       /\ p.type \in {"d", "u", "h"} => Padding(p) <= 16
       /\ p.type = "d" => /\ p.arg # -(2^(Bits - 1))
                          /\ p.arg < 0 => Padding(p) = 0
       /\ p.type = "s" /\ p.option = <<";">> => Value(p.num) <= Len(p.arg)
       /\ p.type = "f" => Precision(p) <= 6

\* Every number that was read as an option was read from its own digits.
Converted == \A k \in DOMAIN props : props[k].option \in Options \cup {"none"}
               => props[k].num = Value(args[k].num)
ConvertedAll == Converted /\ \A k \in DOMAIN props : props[k].option # "could not convert"

\* kprintf writes the text of its format and every field's argument, in order
\* and each once, padded, grouped and with the decimals that the field asks
\* for, when every field is Clear.
PrintsTheCall ==
  stage = "done" /\ (\A k \in DOMAIN call : Clear(k)) /\ ConvertedAll =>
    out = FlattenSeq([k \in DOMAIN call |->
                        IF call[k].field THEN Exact(call[k]) ELSE call[k].chars])

\* Whatever the fields' lengths were left at, the text written between fields
\* comes from inside the format.
TextFromFormat ==
  stage = "write" => Start(idx) >= (End(idx) + 1) % 65536 \/ (End(idx) + 1) % 65536 <= Len(fmt)

\* Padding and the four-digit groups never lose a digit of a number, however the
\* option was read.
DigitsKept ==
  stage = "write" /\ idx > 0 /\ taken > 0 /\ props[idx].type \in {"u", "h", "b"} /\ args[taken].type = props[idx].type =>
    LET digits == SelectSeq(shown, LAMBDA c : c # " ")
        base == CASE props[idx].type = "u" -> 10 [] props[idx].type = "h" -> 16 [] OTHER -> 2
        from == IF props[idx].type = "h" THEN 3 ELSE 1
    IN FoldLeft(LAMBDA sum, c : base * sum + SelectInSeq(Digits, LAMBDA d : d = c) - 1, 0,
                SubSeq(digits, from, Len(digits))) = args[taken].arg
=============================================================================
