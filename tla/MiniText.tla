------------------------------ MODULE MiniText ------------------------------
(***************************************************************************)
(* Conversion of mini-gmp's numbers to digits and back, as mpz_sizeinbase, *)
(* mpz_get_str and mpz_set_str compose it. A base that is a power of two   *)
(* takes the digits from the bits of the limbs; another one divides by the *)
(* largest power of the base that fits in a limb, with its reciprocal.     *)
(*                                                                         *)
(* A text is the sequence of its digits, the highest first.                *)
(***************************************************************************)
EXTENDS MiniLimb, SequencesExt

\* mpn_base_power_of_two_p, bases that leave a shift of at least 1 in a limb.
DigitBits(b) == IF \E k \in 1..(LimbBits - 1) : b = 2^k
                THEN CHOOSE k \in 1..(LimbBits - 1) : b = 2^k ELSE 0

\* mpn_get_base_info: the largest power of b that fits in a limb, and its exponent.
MayGrow(p, b) == p <= (B - 1) \div b
BaseInfo(b) ==
  LET power[e \in 1..LimbBits] ==
        IF MayGrow(b^e, b) THEN power[e + 1] ELSE [exp |-> e, bb |-> b^e]
  IN  power[1]

\* mpn_limb_size_in_base_2
BitSize(u) == LimbBits - Clz(u)
TotalBits(up, un) == (un - 1) * LimbBits + BitSize(up[un - 1])

\* mpn_div_qr_1_invert and mpn_div_qr_1_preinv in place: the limbs left, and the remainder.
InverseOf1(b) == InverseOf([k \in {0} |-> b], 1)
DivBy(up, un, bi) ==
  LET qr == DivQr1(up, un, bi)
  IN  [up |-> qr.q, un |-> un - Bit(qr.q[un - 1] = 0), r |-> qr.r]

-----------------------------------------------------------------------------
(* To digits. *)

\* mpn_get_str_bits, from the lowest digit: limb i, bit shift. The slip takes no bits of
\* the next limb into a digit that crosses.
Uncrossed(up, i, shift, bits) == (up[i] \div 2^shift) % 2^bits
Crossing(up, i, shift, bits) ==
  ((up[i] \div 2^shift) + up[i + 1] * 2^(LimbBits - shift)) % 2^bits
GetStrBits(up, un, bits) ==
  LET sn == (TotalBits(up, un) + bits - 1) \div bits
      at(k) == (k * bits) \div LimbBits
      digit(k) ==
        LET i == at(k)
            shift == (k * bits) % LimbBits
        IN  IF shift + bits >= LimbBits /\ i + 1 < un THEN Crossing(up, i, shift, bits)
            ELSE (up[i] \div 2^shift) % 2^bits
  IN  [k \in 1..sn |-> digit(sn - k)]

\* mpn_limb_get_str: the digits of one limb, the lowest first, none for 0.
LimbGetStr(limb, bi) ==
  LET digits[w \in Limb] ==
        IF w = 0 THEN <<>>
        ELSE LET qr == Udiv2by1(w \div 2^(LimbBits - bi.shift), Wrap(w * 2^bi.shift), bi.d1, bi.di)
             IN  <<qr.r \div 2^bi.shift>> \o digits[qr.q]
  IN  digits[limb]

\* The digits of a chunk below others, padded to the digits of a chunk. A slip forgets to.
Unpadded(s, exp) == s
Padded(s, exp) == s \o [k \in 1..(exp - Len(s)) |-> 0]

\* mpn_get_str_other
GetStrOther(base, up, un) ==
  LET info == BaseInfo(base)
      binv == InverseOf1(base)
      bbinv == InverseOf1(info.bb)
      chunks[k \in 0..(2 * un)] ==
        IF k = 0 THEN [up |-> up, un |-> un, sp |-> <<>>]
        ELSE LET c == chunks[k - 1]
                 d == DivBy(c.up, c.un, bbinv)
             IN  IF c.un = 1 THEN c
                 ELSE [up |-> d.up, un |-> d.un,
                       sp |-> c.sp \o Padded(LimbGetStr(d.r, binv), info.exp)]
      last == chunks[2 * un]
  IN  Reverse(last.sp \o LimbGetStr(last.up[0], binv))

GetStr(up, un, base) ==
  IF DigitBits(base) > 0 THEN GetStrBits(up, un, DigitBits(base)) ELSE GetStrOther(base, up, un)

\* mpz_sizeinbase: by bits, or the divisions by the base it takes to reach 0.
SizeInBase(base, up, un) ==
  LET bi == InverseOf1(base)
      left[k \in 0..(LimbBits * un)] ==
        IF k = 0 THEN [up |-> up, un |-> un, ndigits |-> 0]
        ELSE LET l == left[k - 1]
                 d == DivBy(l.up, l.un, bi)
             IN  IF l.un = 0 THEN l ELSE [up |-> d.up, un |-> d.un, ndigits |-> l.ndigits + 1]
      bits == DigitBits(base)
  IN  IF bits > 0 THEN (TotalBits(up, un) + bits - 1) \div bits
      ELSE left[LimbBits * un].ndigits

-----------------------------------------------------------------------------
(* And back. The limbs at rp and how many of them were written. *)

Append1(rp, n, limb) == [k \in 0..n |-> IF k = n THEN limb ELSE rp[k]]

\* mpn_set_str_bits. The slip drops what a digit leaves for the next limb.
NothingOver(digit, bits, shift) == 0
LeftOver(digit, bits, shift) == Wrap(digit \div 2^(bits - shift))
SetStrBits(s, bits) ==
  LET step[k \in 0..Len(s)] ==
        IF k = 0 THEN [rp |-> <<>>, rn |-> 0, limb |-> 0, shift |-> 0]
        ELSE LET w == step[k - 1]
                 digit == s[Len(s) - k + 1]
                 limb == w.limb + Wrap(digit * 2^w.shift)
                 shift == w.shift + bits
             IN  IF shift < LimbBits THEN [w EXCEPT !.limb = limb, !.shift = shift]
                 ELSE [rp |-> Append1(w.rp, w.rn, limb), rn |-> w.rn + 1,
                       limb |-> LeftOver(digit, bits, shift - LimbBits),
                       shift |-> shift - LimbBits]
      end == step[Len(s)]
  IN  IF end.limb # 0 THEN [rp |-> Append1(end.rp, end.rn, end.limb), rn |-> end.rn + 1]
      ELSE [rp |-> end.rp, rn |-> NormalizedSize(end.rp, end.rn)]

\* The limb of the digits of s from k+1 to m.
Chunk(s, k, m, b) ==
  LET w[j \in k..m] == IF j = k THEN 0 ELSE Wrap(w[j - 1] * b + s[j]) IN w[m]

\* mpn_set_str_other: the first chunk may be short. The slip takes it whole.
WholeChunk(sn, exp) == IF sn < exp THEN sn ELSE exp
FirstChunk(sn, exp) == 1 + ((sn - 1) % exp)
SetStrOther(s, b) ==
  LET info == BaseInfo(b)
      k == FirstChunk(Len(s), info.exp)
      chunks == (Len(s) - k) \div info.exp
      step[c \in 0..chunks] ==
        IF c = 0 THEN [rp |-> [j \in {0} |-> Chunk(s, 0, k, b)], rn |-> 1]
        ELSE LET a == step[c - 1]
                 from == k + (c - 1) * info.exp
                 mul == Mul1(a.rp, a.rn, info.bb)
                 add == Add1(mul.limbs, a.rn, Chunk(s, from, from + info.exp, b))
                 cy == mul.cy + add.cy
             IN  IF cy > 0 THEN [rp |-> Append1(add.limbs, a.rn, cy), rn |-> a.rn + 1]
                 ELSE [rp |-> add.limbs, rn |-> a.rn]
  IN  step[chunks]

\* mpz_set_str: the limbs it makes room for, and the number.
Room(sn, base) ==
  IF DigitBits(base) > 0 THEN (sn * DigitBits(base) + LimbBits - 1) \div LimbBits
  ELSE (sn + BaseInfo(base).exp - 1) \div BaseInfo(base).exp
SetStr(s, base) ==
  LET r == IF DigitBits(base) > 0 THEN SetStrBits(s, DigitBits(base)) ELSE SetStrOther(s, base)
  IN  IF DigitBits(base) > 0 THEN r ELSE [r EXCEPT !.rn = @ - Bit(r.rp[r.rn - 1] = 0)]

-----------------------------------------------------------------------------
(* Properties. *)

DigitsValue(s, base) == FoldLeft(LAMBDA v, d : v * base + d, 0, s)

\* s has the digits of a number in a base, as many as mpz_sizeinbase says: below the base,
\* none of them a leading zero, and worth the number.
Printed(s, up, un, base) ==
  /\ Len(s) = SizeInBase(base, up, un)
  /\ s[1] > 0 /\ \A k \in DOMAIN s : s[k] \in 0..(base - 1)
  /\ DigitsValue(s, base) = Number(up, un)

\* Digits, leading zeros among them, are read as their number r, without a leading zero
\* limb and in the room made for it.
ReadAs(r, s, base) ==
  /\ r.rn <= Room(Len(s), base) /\ DOMAIN r.rp \subseteq 0..(Room(Len(s), base) - 1)
  /\ r.rn > 0 => r.rp[r.rn - 1] # 0
  /\ Number(r.rp, r.rn) = DigitsValue(s, base)
Read(s, base) == ReadAs(SetStr(s, base), s, base)
=============================================================================
