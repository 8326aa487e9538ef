------------------------------- MODULE MCPrintf -------------------------------
(***************************************************************************)
(* Calls of one field over all numbers of Bits bits, and calls of up to    *)
(* three pieces that meet each other's edges: a text that looks like an    *)
(* option or a digit after a field, a field at either end, a field of an   *)
(* unknown type before one that takes an argument.                         *)
(***************************************************************************)
EXTENDS Printf

Unsigned == {0, 1, 9, 10, 255, 256, 2047, 4095}
Pads == {<<>>} \cup {<<Digits[k + 1]>> : k \in {2, 5, 8, 9}} \cup {<<"0", "3">>, <<"1", "6">>, <<"1", "7">>}
Option(o, n) == IF n = <<>> THEN <<>> ELSE <<o>>

Numbers == {<<Field(t, Option(":", n), n, v)>> : t \in {"u", "h", "b"}, n \in Pads, v \in Unsigned}
             \cup {<<Field("d", Option(":", n), n, v)>> : n \in Pads, v \in {0, 5, -5, 2047, -2047, -2048}}
             \cup {<<Field("f", Option(".", n), n, v)>> : n \in {<<>>, <<"0">>, <<"3">>, <<"9">>}, v \in {0, 13, -20, 2047}}

Pieces == {Text(<<"x">>), Text(<<":">>), Text(<<"7">>),
           Field("s", <<>>, <<>>, <<"p", "q">>), Field("s", <<";">>, <<"3">>, <<"p", "q">>),
           Field("s", <<";">>, <<"1">>, <<"p", "q">>), Field("c", <<>>, <<>>, "y"),
           Field("u", <<>>, <<>>, 10), Field("h", <<":">>, <<"3">>, 26), Field("x", <<>>, <<>>, 4)}

\* A format with more fields than arguments.
Short == <<Text(<<"%", "u">>)>>

MCCalls == Numbers \cup {<<>>, Short} \cup UNION {[1..n -> Pieces] : n \in 1..3}
=============================================================================
