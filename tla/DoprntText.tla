----------------------------- MODULE DoprntText -----------------------------
(***************************************************************************)
(* What gmp_printf writes for one conversion of a GMP type: the parameters *)
(* __gmp_doprnt collects between the '%' and the conversion character, and *)
(* the calls of the output functions that __gmp_doprnt_integer and         *)
(* __gmp_doprnt_mpf make from them.                                        *)
(*                                                                         *)
(* A text is a sequence of one-character strings. A limb has LimbBits     *)
(* bits, few, so that few digits fill several of them. Upper case          *)
(* conversions (%ZX, %FE, %FG, %FA) differ in letters only and are left    *)
(* out.                                                                    *)
(***************************************************************************)
EXTENDS Integers, Sequences, SequencesExt, FiniteSetsExt

CONSTANT LimbBits

ASSUME LimbBitsAssumption == LimbBits \in Nat /\ LimbBits >= 4

LimbBase == 2^LimbBits

AtLeast(a, b) == IF a >= b THEN a ELSE b
AtMost(a, b) == IF a <= b THEN a ELSE b
Magnitude(n) == IF n < 0 THEN -n ELSE n
Repeat(c, n) == [i \in 1..n |-> c]
Char(d) == <<"0", "1", "2", "3", "4", "5", "6", "7",
             "8", "9", "a", "b", "c", "d", "e", "f">>[d + 1]
Letters(digits) == [i \in 1..Len(digits) |-> Char(digits[i])]

\* The digits of n, most significant first; none for zero.
Digits(n, base) ==
  LET len == IF n = 0 THEN 0 ELSE CHOOSE k \in 1..30 : base^(k-1) <= n /\ n \div base < base^(k-1)
  IN  [i \in 1..len |-> (n \div base^(len - i)) % base]

\* s without its last zero digits.
Stripped(s) ==
  SubSeq(s, 1, Max({0} \cup {i \in 1..Len(s) : s[i] # 0}))

-----------------------------------------------------------------------------
(* The parameters of a conversion, as the switch of __gmp_doprnt sets them. *)

Defaults ==
  [base |-> 10, conv |-> "none", exptimes4 |-> FALSE, fill |-> " ",
   justify |-> "right", prec |-> 6, showbase |-> "no", showpoint |-> FALSE,
   showtrailing |-> TRUE, sign |-> "", width |-> 0,
   value |-> "width", seen |-> FALSE]

\* One flag, number, point or star. The zero flag turns right justification
\* into padding after the sign, whatever comes before it in the format.
Minus(p) == [p EXCEPT !.justify = "left"]
Zero(p) ==
  IF p.value = "width"
  THEN [p EXCEPT !.fill = "0",
                 !.justify = IF @ = "right" THEN "internal" ELSE @]
  ELSE [p EXCEPT !.prec = 0]
Star(p, n) ==
  IF p.value = "width"
  THEN [p EXCEPT !.width = Magnitude(n), !.justify = IF n < 0 THEN "left" ELSE @]
  ELSE [p EXCEPT !.prec = AtLeast(0, n)]
Token(p, t) ==
  CASE t.tok = "#" -> [p EXCEPT !.showbase = "nonzero"]
    [] t.tok \in {"+", " "} -> [p EXCEPT !.sign = t.tok]
    [] t.tok = "-" -> Minus(p)
    [] t.tok = "." -> [p EXCEPT !.seen = TRUE, !.prec = -1, !.value = "prec"]
    [] t.tok = "0" -> Zero(p)
    [] t.tok = "*" -> Star(p, t.n)
    [] t.tok = "number" -> [p EXCEPT ![p.value] = t.n]

Base(c) == CASE c = "o" -> 8 [] c \in {"x", "a"} -> 16 [] OTHER -> 10

\* The conversion character.
Converted(p, c) ==
  CASE c \in {"d", "o", "x"} ->
         [p EXCEPT !.base = Base(c), !.prec = IF p.seen THEN @ ELSE -1]
    [] c = "a" ->
         [p EXCEPT !.base = 16, !.conv = "scientific", !.exptimes4 = TRUE,
                   !.prec = IF p.seen THEN @ ELSE -1,
                   !.showbase = "yes", !.showtrailing = TRUE]
    [] c \in {"e", "f", "g"} ->
         LET sharp == p.showbase = "nonzero"
         IN [p EXCEPT !.conv = CASE c = "e" -> "scientific"
                                 [] c = "f" -> "fixed"
                                 [] c = "g" -> "general",
                      !.showpoint = sharp,
                      !.showtrailing = sharp \/ c # "g"]

Param(tokens, c) == Converted(FoldLeft(Token, Defaults, tokens), c)

-----------------------------------------------------------------------------
(* Calls of the output functions. *)

Memory(text) == <<[fun |-> "memory", text |-> text]>>
MemoryMaybe(text) == IF text = <<>> THEN <<>> ELSE Memory(text)
Reps(c, n) == <<[fun |-> "reps", text |-> Repeat(c, n)]>>
RepsMaybe(c, n) == IF n = 0 THEN <<>> ELSE Reps(c, n)
RepsOnce(text) == IF text = <<>> THEN <<>> ELSE Reps(text[1], 1)

\* justlen is what the field has beyond its contents.
Justify(p, justlen) == IF justlen <= 0 THEN "none" ELSE p.justify
Pad(p, justlen, where) ==
  IF Justify(p, justlen) = where THEN Reps(p.fill, justlen) ELSE <<>>

ShowBase(base) == CASE base = 16 -> <<"0", "x">> [] base = 8 -> <<"0">> [] OTHER -> <<>>

\* A base is shown for s unless s is zero and only '#' asks for it.
AlwaysShown(p, zero) == IF p.showbase = "no" THEN <<>> ELSE ShowBase(p.base)   \* a slip
BaseShown(p, zero) ==
  IF p.showbase = "no" \/ (p.showbase = "nonzero" /\ zero) THEN <<>>
  ELSE ShowBase(p.base)

-----------------------------------------------------------------------------
(* __gmp_doprnt_integer. The text of an mpz_t is <<sign, digits>>, of an     *)
(* mpq_t its numerator's and the digits of a denominator; den is empty       *)
(* where there is no slash.                                                  *)

\* What mpz_get_str and mpq_get_str return for n or n/d (d = 1 has no slash).
GetStr(n, d, base) ==
  [neg |-> n < 0,
   num |-> IF n = 0 THEN <<"0">> ELSE Letters(Digits(Magnitude(n), base)),
   den |-> IF d = 1 THEN <<>> ELSE Letters(Digits(d, base))]

SignText(p, neg) == IF neg THEN <<"-">> ELSE IF p.sign = "" THEN <<>> ELSE <<p.sign>>

\* If the precision was explicitly 0, print nothing for a 0 value.
Number(p, s) == IF s.num[1] = "0" /\ p.prec = 0 THEN Tail(s.num) ELSE s.num

IntegerCalls(p, s) ==
  LET num  == Number(p, s)
      slen == Len(num) + (IF s.den = <<>> THEN 0 ELSE 1 + Len(s.den))
      sign == SignText(p, s.neg)
      base == BaseShown(p, num # <<>> /\ num[1] = "0")
      den  == IF s.den = <<>> THEN <<>> ELSE BaseShown(p, s.den[1] = "0")
      zeros == AtLeast(0, p.prec - slen)
      justlen == p.width - (slen + Len(sign) + Len(base) + Len(den) + zeros)
      number == IF s.den = <<>> THEN Memory(num)
                ELSE IF den = <<>> THEN Memory(num \o <<"/">> \o s.den)
                ELSE Memory(num \o <<"/">>) \o Memory(den) \o Memory(s.den)
  IN  Pad(p, justlen, "right") \o RepsOnce(sign) \o MemoryMaybe(base)
        \o RepsMaybe("0", zeros) \o Pad(p, justlen, "internal")
        \o number \o Pad(p, justlen, "left")

-----------------------------------------------------------------------------
(* mpf_get_str. A float is [neg, num, den, prec]: the value num/den, with    *)
(* den a power of LimbBase, and its precision in limbs.                      *)

\* The digits after the point of num/den, as far as they are not zero.
Fraction(f, base) ==
  LET rest[k \in 0..24] == IF k = 0 THEN f.num % f.den ELSE (rest[k-1] * base) % f.den
  IN  Stripped([k \in 1..24 |-> (rest[k-1] * base) \div f.den])

\* All the digits of a float in a base, and the exponent of 0.ddd.
FromFirst(int, frac) ==
  LET all == int \o frac
      zeros == IF int # <<>> THEN 0 ELSE Min({Len(all) + 1} \cup {i \in 1..Len(all) : all[i] # 0}) - 1
  IN  [digits |-> Stripped(SubSeq(all, zeros + 1, Len(all))), exp |-> Len(int) - zeros]
Expansion(f, base) == FromFirst(Digits(f.num \div f.den, base), Fraction(f, base))

\* _mp_exp, in limbs.
LimbExp(f) == Expansion(f, LimbBase).exp

\* mp_bases: the digits that always fit in a limb, and the logarithm of 2, which
\* the table rounds down.
CharsPerLimb(base) == Max({r \in 0..LimbBits : base^r <= LimbBase})
LogTwo(base) == CASE base = 2 -> 9999 [] base = 3 -> 6309 [] base = 4 -> 4999
                  [] base = 8 -> 3333 [] base = 10 -> 3010 [] base = 16 -> 2499
SignificantDigits(base, prec) == ((prec - 1) * LimbBits * LogTwo(base)) \div 10000 + 2

\* s cut to n digits and one added to the last: the digits that overflow are
\* dropped, and if all did the number is the next power of the base.
Carried(s, n, exp, base) ==
  LET last == Max({0} \cup {i \in 1..n : s[i] # base - 1})
  IN  IF last = 0 THEN [digits |-> <<1>>, exp |-> exp + 1]
      ELSE [digits |-> Append(SubSeq(s, 1, last - 1), s[last] + 1), exp |-> exp]

\* At most n digits (all that are significant for n = 0), rounded.
CutTo(e, cut, base) ==
  IF Len(e.digits) > cut /\ e.digits[cut + 1] * 2 >= base
  THEN Carried(e.digits, cut, e.exp, base)
  ELSE [digits |-> Stripped(SubSeq(e.digits, 1, AtMost(cut, Len(e.digits)))), exp |-> e.exp]
MpfGetStr(base, n, f) ==
  LET max == SignificantDigits(base, f.prec)
  IN  CutTo(Expansion(f, base), IF n = 0 \/ n > max THEN max ELSE n, base)

-----------------------------------------------------------------------------
(* __gmp_doprnt_mpf. *)

\* The digits asked for in fixed form: enough for the integer part, which _mp_exp
\* bounds, and for prec more with two to round by and one in case mpf_get_str
\* itself rounds up to a power of the base.
FixedDigitsShort(p, f) == AtLeast(p.prec + LimbExp(f) * CharsPerLimb(p.base), 1)   \* a slip
FixedDigits(p, f) ==
  LET e == LimbExp(f)
  IN  AtLeast(p.prec + 2 + 1 + e * (CharsPerLimb(p.base) + (IF e >= 0 THEN 1 ELSE 0)), 1)

NDigits(p, f) ==
  CASE p.prec <= -1 -> 0
    [] p.prec > -1 /\ p.conv = "fixed" -> FixedDigits(p, f)
    [] p.prec > -1 /\ p.conv = "scientific" -> p.prec + 1
    [] p.prec > -1 /\ p.conv = "general" -> AtLeast(p.prec, 1)

\* The precision general form goes by when it prints all digits. The call of the
\* macro has its base and precision in each other's place.
ImpliedPrec(p, f) == SignificantDigits(f.prec, p.base)

Prec(p, f, s) ==
  IF p.prec > -1 THEN p.prec
  ELSE CASE p.conv = "fixed" -> AtLeast(0, Len(s.digits) - s.exp)
         [] p.conv = "scientific" -> AtLeast(0, Len(s.digits) - 1)
         [] p.conv = "general" -> ImpliedPrec(p, f)

\* The fraction of a fixed form cut to prec digits, rounded.
Truncated(s, prec, base) ==
  LET newlen == s.exp + prec
      kept   == Stripped(SubSeq(s.digits, 1, newlen))
  IN  IF newlen < 0 THEN [digits |-> <<>>, exp |-> 0]
      ELSE IF Len(s.digits) <= newlen THEN s
      ELSE IF s.digits[newlen + 1] >= (base + 1) \div 2
      THEN Carried(s.digits, newlen, s.exp, base)
      ELSE [digits |-> kept, exp |-> IF kept = <<>> THEN 0 ELSE s.exp]

\* The choice of the general form, which follows glibc.
ScientificFrom(p, s, prec) ==                                     \* a slip
  p.conv # "fixed" /\ (s.exp - 1 < -4 \/ s.exp - 1 > AtLeast(1, prec))
Scientific(p, s, prec) ==
  \/ p.conv = "scientific"
  \/ p.conv = "general" /\ (s.exp - 1 < -4 \/ s.exp - 1 >= AtLeast(1, prec))

\* The parts of the number: digits before the point, zeros that fill them up,
\* zeros and digits after it, and the exponent's text.
FixedParts(s) ==
  LET intlen == IF s.exp <= 0 THEN 0 ELSE AtMost(Len(s.digits), s.exp)
  IN  [int |-> intlen,
       intzeros |-> IF s.exp <= 0 THEN 1 ELSE s.exp - intlen,
       fraczeros |-> IF s.exp <= 0 THEN -s.exp ELSE 0,
       frac |-> Len(s.digits) - intlen, exponent |-> <<>>]

ExponentText(p, expval) ==
  LET n == Letters(Digits(Magnitude(expval), 10))
      width == IF p.exptimes4 THEN 1 ELSE 2
  IN  <<IF p.exptimes4 THEN "p" ELSE "e", IF expval >= 0 THEN "+" ELSE "-">>
        \o Repeat("0", AtLeast(0, width - Len(n))) \o n
ScientificParts(p, s) ==
  LET intlen == AtMost(1, Len(s.digits))
  IN  [int |-> intlen, intzeros |-> 1 - intlen, fraczeros |-> 0,
       frac |-> Len(s.digits) - intlen,
       exponent |-> ExponentText(p, (s.exp - intlen) * (IF p.exptimes4 THEN 4 ELSE 1))]

\* Trailing zeros to the precision: of all digits in general form, otherwise of
\* the fraction.
PrecZeros(p, prec, parts) ==
  IF p.showtrailing
  THEN AtLeast(0, prec - (parts.fraczeros + parts.frac
                            + (IF p.conv = "general" THEN parts.int + parts.intzeros ELSE 0)))
  ELSE 0

\* The calls for the parts, text being the digits that are left.
PartsCalls(p, neg, text, parts, preczeros) ==
  LET point == IF parts.fraczeros + parts.frac + preczeros # 0 \/ p.showpoint
               THEN <<".">> ELSE <<>>
      sign  == SignText(p, neg)
      base  == BaseShown(p, parts.int = 0 /\ parts.frac = 0)
      justlen == p.width - (Len(sign) + Len(base) + parts.int + parts.intzeros
                              + Len(point) + parts.fraczeros + parts.frac
                              + preczeros + Len(parts.exponent))
  IN  Pad(p, justlen, "right") \o RepsOnce(sign) \o MemoryMaybe(base)
        \o Pad(p, justlen, "internal")
        \o Memory(SubSeq(text, 1, parts.int)) \o RepsMaybe("0", parts.intzeros)
        \o MemoryMaybe(point) \o RepsMaybe("0", parts.fraczeros)
        \o MemoryMaybe(SubSeq(text, parts.int + 1, parts.int + parts.frac))
        \o RepsMaybe("0", preczeros) \o MemoryMaybe(parts.exponent)
        \o Pad(p, justlen, "left")

FormCalls(p, neg, s, prec) ==
  LET parts == IF Scientific(p, s, prec) THEN ScientificParts(p, s) ELSE FixedParts(s)
  IN  PartsCalls(p, neg, Letters(s.digits), parts, PrecZeros(p, prec, parts))
DigitsCalls(p, neg, got, prec) ==
  FormCalls(p, neg, IF p.conv = "fixed" THEN Truncated(got, prec, p.base) ELSE got, prec)
FloatCalls(p, f) ==
  LET got == MpfGetStr(p.base, NDigits(p, f), f)
  IN  DigitsCalls(p, f.neg, got, Prec(p, f, got))
=============================================================================
