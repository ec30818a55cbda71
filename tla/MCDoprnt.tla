------------------------------ MODULE MCDoprnt ------------------------------
(***************************************************************************)
(* The calls TLC makes of Doprnt: formats of a few short pieces with every *)
(* sink and every style of vsnprintf, and every single conversion of a few *)
(* numbers by a few dozen formats.                                         *)
(***************************************************************************)
EXTENDS DoprntPromise

CONSTANTS Widths, Precs

Tok(t) == [tok |-> t, n |-> 0]
Num(n) == IF n < 0 THEN [tok |-> "*", n |-> n]
          ELSE IF n = 0 THEN Tok("0") ELSE [tok |-> "number", n |-> n]

-----------------------------------------------------------------------------
(* Formats of several items. *)

Z(tokens, n) == Integer(tokens, "d", n, 1)
N == StoreCount

Gmp == {Z(<<>>, 7), Z(<<Num(5)>>, -12), Z(<<Tok("-"), Num(4)>>, 305)}
Plains == {Plain(<<"p">>, FALSE), Plain(<<"p", "q", "r">>, FALSE),
           Plain(<<"p", "q", "r", "s", "t", "u", "v", "w">>, FALSE), Plain(<<"p", "q">>, TRUE)}

Mixed ==
  {<<a>> : a \in Plains} \cup {<<a, z>> : a \in Plains, z \in Gmp}
    \cup {<<z, N, a, N>> : z \in Gmp, a \in Plains}
    \cup {<<a, z, b>> : a \in Plains, z \in Gmp, b \in Plains}
    \cup {<<z, y, N>> : z \in Gmp, y \in Gmp}

-----------------------------------------------------------------------------
(* Single conversions. *)

FlagSets ==
  {<<>>, <<Tok("#")>>, <<Tok("+")>>, <<Tok(" ")>>, <<Tok("0")>>, <<Tok("-")>>,
   <<Tok("0"), Tok("#"), Tok("+")>>, <<Tok("-"), Tok("#")>>, <<Tok("+"), Tok("-")>>}
Specs ==
  {f \o w \o p : f \in FlagSets, w \in {<<>>} \cup {<<Num(n)>> : n \in Widths \cup {-12}},
                 p \in {<<>>, <<Tok(".")>>} \cup {<<Tok("."), Num(n)>> : n \in Precs \cup {-1}}}

Rationals == {<<0, 1>>, <<1, 1>>, <<-9, 1>>, <<10, 1>>, <<255, 1>>, <<-4096, 1>>,
              <<1, 2>>, <<-35, 16>>}

\* Numbers at and beside ties and powers of ten, and of several magnitudes.
Values ==
  {<<0, 1>>, <<1, 1>>, <<20, 1>>, <<12345, 1>>, <<99999, 1>>, <<123456, 1>>, <<3, 2>>, <<5, 2>>, <<10, 16>>,
   <<2047, 4096>>, <<2048, 4096>>, <<4095, 4096>>, <<40958, 4096>>, <<1, 4096>>, <<3, 65536>>, <<5, 256>>}

Alone(it) == Start("sprintf", "c99", 0, <<it>>)
OneConversion ==
  \E t \in Specs :
    \/ \E c \in {"d", "o", "x"}, q \in Rationals : Alone(Integer(t, c, q[1], q[2]))
    \/ \E c \in {"e", "f", "g", "a"}, q \in Values, neg \in BOOLEAN :
         /\ neg => q = <<5, 2>>
         /\ Alone(Float(t, c, [neg |-> neg, num |-> q[1], den |-> q[2], prec |-> 4]))

MCSpec == (Init \/ OneConversion) /\ [][Next]_vars /\ WF_vars(Next)
=============================================================================
