--------------------------- MODULE DoprntPromise ---------------------------
(***************************************************************************)
(* What the functions of Doprnt promise: where their text ends up, and     *)
(* that the text of a conversion is the one the C standard gives the same  *)
(* flags, width, precision and conversion character.                       *)
(***************************************************************************)
EXTENDS Doprnt

Done == pc = "done"
Failed == Done /\ retval = -1
Delivers == Done /\ retval # -1

\* The texts of the items. Nothing is promised of one the C library fails on.
Text(cs) == FlattenSeq([i \in 1..Len(cs) |-> cs[i].text])
TextOf(it) == CASE it.type = "plain" -> it.text
                [] it.type = "n" -> <<>>
                [] OTHER -> Text(it.calls)
TextTo(n) == FlattenSeq([i \in 1..n |-> TextOf(job.items[i])])
WholeText == TextTo(Len(job.items))
SomeFail == \E i \in DOMAIN job.items : job.items[i].type = "plain" /\ job.items[i].fails

Bytes(n) == [i \in 1..n |-> mem[i - 1]]

-----------------------------------------------------------------------------
(* The output. *)

TypeOK ==
  /\ job.sink \in Sinks /\ job.libc \in Libraries /\ job.size \in 0..Limit
  /\ pc \in {"next", "format", "probe", "calls", "error", "done", "abort"}
  /\ item \in 1..(Len(job.items) + 1)
  /\ held \subseteq {"format", "output", "result", "digits"}
  /\ d.size \in 0..Limit /\ d.buf \in 0..Limit /\ d.alloc \in 0..Limit
  /\ retval \in -1..Limit

\* gmp_asprintf's block has a byte for the final NUL whenever an output function may
\* be called: "alloc > size is maintained", says gmp-impl.h.
NeverFull ==
  Is("asprintf") => d.alloc > d.size

\* Nothing is ever written beyond the block of gmp_asprintf, or beyond the size that
\* gmp_snprintf was given: nothing at all into an array of no bytes. A stream gives
\* its device no more than that takes.
Inside ==
  LET end == IF Is("asprintf") THEN d.alloc ELSE job.size
  IN  ~Is("sprintf") => \A i \in end..Limit : mem[i] = Unknown

\* What %n has stored so far.
Counted ==
  ~SomeFail /\ (Is("fprintf") => Len(WholeText) <= job.size) =>
    LET at == {i \in DOMAIN job.items : job.items[i].type = "n" /\ i < item}
    IN  \A i \in at :
          stored[Cardinality({j \in at : j <= i})] = Len(TextTo(i))

\* A call that returns a count has delivered the text it promised: all of it and a
\* NUL in a block of exactly that size, or as much as the array holds, the count
\* being the full length either way, with every style of vsnprintf. %n has stored
\* the length of the text before it, what gmp_snprintf cut off included.
Delivered ==
  /\ Counted
  /\ Delivers /\ ~SomeFail =>
    LET n == Len(WholeText)
        cut == AtMost(n, job.size - 1)
    IN CASE Is("asprintf") -> /\ retval = n /\ d.alloc = n + 1
                              /\ Bytes(n + 1) = Append(WholeText, NUL)
         [] Is("snprintf") ->
              /\ retval = n
              /\ job.size > 0 =>
                   Bytes(cut + 1) = Append(SubSeq(WholeText, 1, cut), NUL)
         [] Is("sprintf") -> retval = n /\ Bytes(n + 1) = Append(WholeText, NUL)
         [] Is("fprintf") ->
              /\ Bytes(d.buf) = SubSeq(WholeText, 1, d.buf)
              /\ n <= job.size => retval = n /\ d.buf = n

\* Every block is freed when the call returns, with an error too, except the one
\* that gmp_asprintf returns.
NothingHeld ==
  Done => held = IF Is("asprintf") THEN {"result"} ELSE {}

\* Where the C library fails, see FailsWithTheLibrary.
LibraryFails ==
  \/ SomeFail /\ ~Is("asprintf")
  \/ Is("fprintf") /\ d.buf = job.size
  \/ Is("snprintf") /\ job.libc = "minus"

\* The call fails only where the C library does: on the text itself, on a device
\* that is full, or for gmp_snprintf with a vsnprintf that answers -1 when the text
\* does not fit. gmp_asprintf takes -1 to mean that, so it never fails, but runs
\* out of memory when it meant something else.
FailsWithTheLibrary ==
  /\ Failed => LibraryFails
  /\ pc = "abort" => SomeFail \/ 2 * Len(WholeText) + 2 * FormatSpace > Limit

\* The search for the length of a text in larger and larger blocks ends.
Returns == <>(pc \in {"done", "abort"})

-----------------------------------------------------------------------------
(* The text of a conversion, from the words of the C standard on fprintf. *)

Tokens(it) == {it.tokens[i] : i \in DOMAIN it.tokens}
PointAt(it) == Min({Len(it.tokens) + 1} \cup {i \in DOMAIN it.tokens : it.tokens[i].tok = "."})
Before(it) == SubSeq(it.tokens, 1, PointAt(it) - 1)
After(it) == SubSeq(it.tokens, PointAt(it) + 1, Len(it.tokens))
Numbers(s) == {s[i].n : i \in {j \in DOMAIN s : s[j].tok \in {"number", "*"}}}

Flag(it, tok) == \E i \in DOMAIN Before(it) : Before(it)[i].tok = tok
WidthOf(it) == Max({0} \cup {Magnitude(n) : n \in Numbers(Before(it))})
Left(it) == Flag(it, "-") \/ \E n \in Numbers(Before(it)) : n < 0
HasPrec(it) == PointAt(it) <= Len(it.tokens)
\* A point with nothing after it asks for all digits, as does %a without one.
AllDigits(it) == IF HasPrec(it) THEN After(it) = <<>> ELSE it.conv = "a"
PrecOf(it) == IF HasPrec(it) THEN Max({0} \cup Numbers(After(it))) ELSE 6

SignOf(it, neg) ==
  IF neg THEN <<"-">> ELSE IF Flag(it, "+") THEN <<"+">> ELSE IF Flag(it, " ") THEN <<" ">> ELSE <<>>

\* The field: spaces to the left, or to the right, or zeros between.
Field(it, head, body) ==
  LET pad == AtLeast(0, WidthOf(it) - Len(head) - Len(body))
  IN  IF Left(it) THEN head \o body \o Repeat(" ", pad)
      ELSE IF Flag(it, "0") THEN head \o Repeat("0", pad) \o body
      ELSE Repeat(" ", pad) \o head \o body

IntegerField(it) ==
  LET base   == Base(it.conv)
      prefix(n) == IF Flag(it, "#") /\ n # 0 THEN ShowBase(base) ELSE <<>>
      digits(n) == IF n = 0 THEN <<"0">> ELSE Letters(Digits(Magnitude(n), base))
      explicit == HasPrec(it) /\ ~AllDigits(it)
      num == IF explicit /\ it.num = 0 /\ PrecOf(it) = 0 THEN <<>> ELSE digits(it.num)
      zeros == IF explicit THEN AtLeast(0, PrecOf(it) - Len(num)) ELSE 0
      den == IF it.den = 1 THEN <<>> ELSE <<"/">> \o prefix(it.den) \o digits(it.den)
  IN  Field(it, SignOf(it, it.num < 0) \o prefix(it.num), Repeat("0", zeros) \o num \o den)

(* A float is rounded to nearest where its last digit is asked for. *)

HalfUp(s, n, base) ==
  LET up   == Len(s.digits) > n /\ 2 * s.digits[n + 1] >= base
      kept == SubSeq(s.digits, 1, AtMost(n, Len(s.digits)))
      next == Digits(FoldLeft(LAMBDA m, i : m * base + i, 0, kept) + 1, base)
      rounded == Stripped(IF up THEN next ELSE kept)
  IN  IF n < 0 \/ rounded = <<>> THEN [digits |-> <<>>, exp |-> 0]
      ELSE [digits |-> rounded, exp |-> IF up THEN s.exp + Len(next) - n ELSE s.exp]

\* The digits of the form, from a rounded number: int before the point (at least
\* one), then frac after it.
DigitAt(s, i) == IF s.exp - i \in DOMAIN s.digits THEN Char(s.digits[s.exp - i]) ELSE "0"
Positional(it, s, frac) ==
  LET int == AtLeast(s.exp, 1)
  IN  [i \in 1..int |-> DigitAt(s, int - i)]
        \o (IF frac > 0 \/ Flag(it, "#") THEN <<".">> ELSE <<>>)
        \o [i \in 1..frac |-> DigitAt(s, -i)]
Exponential(it, s, frac) ==
  LET x == IF s.digits = <<>> THEN 0 ELSE s.exp - 1
      power == Letters(Digits(Magnitude(x) * (IF it.conv = "a" THEN 4 ELSE 1), 10))
      mantissa == [digits |-> s.digits, exp |-> IF s.digits = <<>> THEN 0 ELSE 1]
      width == IF it.conv = "a" THEN 1 ELSE 2
  IN  Positional(it, mantissa, frac)
        \o <<IF it.conv = "a" THEN "p" ELSE "e", IF x < 0 THEN "-" ELSE "+">>
        \o Repeat("0", AtLeast(0, width - Len(power))) \o power

\* The form of %g: its exponent decides, and trailing zeros go.
General(it, s, prec) ==
  LET x == IF s.digits = <<>> THEN 0 ELSE s.exp - 1
      sharp == Flag(it, "#")
  IN  IF x < -4 \/ x >= prec
      THEN Exponential(it, s, IF sharp THEN prec - 1 ELSE AtLeast(0, Len(s.digits) - 1))
      ELSE Positional(it, s, IF sharp THEN prec - 1 - x ELSE AtLeast(0, Len(s.digits) - s.exp))

\* How many digits are looked at to print the last one asked for.
Significant(it) == SignificantDigits(Base(it.conv), it.f.prec)
Wanted(it, e) ==
  IF AllDigits(it) THEN Significant(it)
  ELSE CASE it.conv = "f" -> e.exp + PrecOf(it)
         [] it.conv \in {"e", "a"} -> PrecOf(it) + 1
         [] it.conv = "g" -> AtLeast(1, PrecOf(it))

\* The form of a rounded number; most is the number of digits that %g goes by.
FloatFormBy(it, s, most) ==
  LET prec == IF AllDigits(it) THEN AtLeast(0, Len(s.digits) - 1) ELSE PrecOf(it)
      body == CASE it.conv = "f" -> Positional(it, s, IF AllDigits(it) THEN AtLeast(0, Len(s.digits) - s.exp)
                                                      ELSE PrecOf(it))
                [] it.conv \in {"e", "a"} -> Exponential(it, s, prec)
                [] it.conv = "g" -> General(it, s, most)
      prefix == IF it.conv = "a" THEN <<"0", "x">> ELSE <<>>
  IN  Field(it, SignOf(it, it.f.neg) \o prefix, body)
FloatForm(it, s) == FloatFormBy(it, s, AtLeast(1, PrecOf(it)))

\* The nearest, and what rounding two digits further first may lead to. No more
\* digits than the precision gives are ever looked at.
Nearest(it) ==
  LET base == Base(it.conv)
      e    == Expansion(it.f, base)
      max  == HalfUp(e, Significant(it), base)
      want == Wanted(it, e)
  IN  IF want >= Significant(it) THEN max ELSE HalfUp(e, want, base)
NearestOfTwo(it) ==
  LET base == Base(it.conv)
      e    == Expansion(it.f, base)
      want == Wanted(it, e)
      near == HalfUp(e, AtMost(Significant(it), want + 2), base)
  IN  HalfUp(near, want + near.exp - e.exp, base)

\* What the C standard leaves undefined, or the code gives a meaning of its own:
\* zeros to the right of a number; the zero flag where there is a precision, or any
\* precision of a rational; '+' and space; '#' with a precision, in octal and for
\* zero; '#' in general form for numbers below one, whose leading zeros the code
\* counts, and with %a, which ignores it.
Ordinary(it) ==
  /\ ~(Left(it) /\ Flag(it, "0"))
  /\ ~(Flag(it, "+") /\ Flag(it, " "))
  /\ it.type = "Z" => ~(HasPrec(it) /\ (Flag(it, "0") \/ Flag(it, "#") \/ it.den # 1))
  /\ ~(it.conv = "a" /\ Flag(it, "#"))
  /\ (it.type = "F" /\ it.conv = "g") =>
       ~(Flag(it, "#") /\ Expansion(it.f, 10).exp <= 0 /\ it.f.num # 0)

Single(type) ==
  Delivers /\ Is("sprintf") /\ Len(job.items) = 1 /\ job.items[1].type = type
    /\ Ordinary(job.items[1])
Printed == Bytes(retval)

\* An integer or a rational is printed as printf prints a long: the same field for
\* the same flags, in whatever order they come. A float is printed in the form printf
\* gives a double and rounded to nearest, except that in fixed form a number just
\* below a tie may be rounded up. With all its digits asked for, %g has no form in C:
\* it prints them all, in either of its forms, by some number of digits.
AsInC ==
  LET it == job.items[1]
  IN  /\ Single("Z") => Printed = IntegerField(it)
      /\ Single("F") => \/ ~(it.conv = "g" /\ AllDigits(it)) /\ Printed = FloatForm(it, Nearest(it))
                        \/ /\ it.conv = "g" /\ AllDigits(it)
                           /\ \E most \in 1..Limit : Printed = FloatFormBy(it, Nearest(it), most)
                        \/ it.conv = "f" /\ Printed = FloatForm(it, NearestOfTwo(it))
=============================================================================
