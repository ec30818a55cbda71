----------------------------- MODULE MpfMulDiv -----------------------------
(***************************************************************************)
(* The functions of mpf/ that multiply, divide, take roots, shift and      *)
(* round, those with an unsigned long operand, and those that read floats: *)
(* comparison, conversion and the tests. An unsigned long is one limb.     *)
(***************************************************************************)
EXTENDS MpfArith

Opposite(u, v) == (u.size < 0) # (v.size < 0)

-----------------------------------------------------------------------------
(* Multiplication. *)

\* The limbs of u that are used, no more than the precision of r.
Used(s, r, u) == Min2(Len(u), s.prec[r])
Multiplied(s, r, u, un, v, vn) ==
  LET prod == Top(s, u, un) * Top(s, v, vn)
      adj == Bit(High(prod, un + vn - 1) = 0)
      n == un + vn - adj
      k == Min2(n, Prec1(s, r))
  IN  Assign(s, r, Opposite(u, v), k, u.exp + v.exp - adj, High(prod, n - k))
MpfMul(s, r, u, v) ==
  LET un == Used(s, r, u)
      vn == Used(s, r, v)
  IN  IF un = 0 \/ vn = 0 THEN Zero(s, r) ELSE Multiplied(s, r, u, un, v, vn)

\* Slip: the carry is taken from one limb only.
CarryOfOne(low, v, n) == IF n = 0 THEN 0 ELSE (High(low, n - 1) * v) \div B
\* The carry from the n limbs of u below those used: their products are added downwards
\* while the sum is all ones, the only value a carry from below goes through.
Carry(low, v, n) ==
  LET prod(i) == Low(High(low, i), 1) * v
      carry[i \in -1..(n - 2)] ==
        LET sum == prod(i) \div B + (prod(i + 1) % B)
        IN  CASE i < 0 -> 0
              [] i >= 0 /\ sum % B = B - 1 -> carry[i - 1]
              [] OTHER -> sum \div B
  IN  IF n = 0 THEN 0 ELSE prod(n - 1) \div B + carry[n - 2]

MpfMulUi(s, r, u, v) ==
  LET n == Min2(Len(u), s.prec[r])
      below == Low(All(s, u), Len(u) - n)
      prod == Top(s, u, n) * v + Carry(below, v, Len(u) - n)
      k == n + Bit(High(prod, n) # 0)
  IN  IF v = 0 \/ u.size = 0 THEN Zero(s, r)
      ELSE Assign(PutAt(s, s.d[r], 0, n + 1, prod), r, u.size < 0, k, u.exp + k - n, prod)

-----------------------------------------------------------------------------
(* Division. The dividend is cut or padded so that the quotient has        *)
(* prec + 1 limbs, the highest of which may be zero. *)

StripHigh(s, r, neg, n, exp, q) ==
  LET z == Bit(High(q, n - 1) = 0)
  IN  Assign(PutAt(s, s.d[r], 0, n, q), r, neg, n - z, exp - z, q)

\* A limb sequence cut or padded at its low end to n limbs.
Fitted(x, len, n) == IF n >= len THEN x * B^(n - len) ELSE High(x, len - n)

FDivideByZero(s) == Exception(s, "div0")

\* Slip: a dividend that loses limbs is cut one limb too short.
ShortDividend(un, vn, n) == IF un >= vn + n THEN vn + n - 2 ELSE vn + n - 1
Dividend(un, vn, n) == vn + n - 1

\* mpf_div and mpf_set_q: the quotient of un limbs u by vn limbs v.
Quotient(s, r, neg, exp, u, un, v, vn) ==
  LET n == s.prec[r] + 1
      t == Dividend(un, vn, n)
  IN  StripHigh(s, r, neg, n, exp, Fitted(u, un, t) \div v)

MpfDiv(s, r, u, v) ==
  CASE v.size = 0 -> FDivideByZero(s)
    [] v.size # 0 /\ u.size = 0 -> Zero(s, r)
    [] OTHER -> Quotient(s, r, Opposite(u, v), u.exp - v.exp + 1,
                         All(s, u), Len(u), All(s, v), Len(v))

MpfDivUi(s, r, u, v) ==
  LET n == s.prec[r] + 1
  IN  CASE v = 0 -> FDivideByZero(s)
        [] v # 0 /\ u.size = 0 -> Zero(s, r)
        [] OTHER -> StripHigh(s, r, u.size < 0, n, u.exp,
                              Fitted(All(s, u), Len(u), n) \div v)

MpfUiDiv(s, r, u, v) ==
  CASE v.size = 0 -> FDivideByZero(s)
    [] v.size # 0 /\ u = 0 -> Zero(s, r)
    [] OTHER -> Quotient(s, r, v.size < 0, 2 - v.exp, u, 1, All(s, v), Len(v))

-----------------------------------------------------------------------------
(* Square root, powers, relative difference. *)

ISqrt(n) == CHOOSE k \in 0..n : k * k <= n /\ n < (k + 1) * (k + 1)

\* prec limbs are the root of 2 prec - 1 or 2 prec limbs, by the parity of exp.
MpfSqrt(s, r, u) ==
  LET prec == s.prec[r]
      odd == u.exp % 2
      root == ISqrt(Fitted(All(s, u), Len(u), 2 * prec - odd))
  IN  CASE u.size < 0 -> Exception(s, "sqrt")
        [] u.size = 0 -> Zero(s, r)
        [] OTHER -> Assign(s, r, FALSE, prec, (u.exp + odd) \div 2, root)

MpfSqrtUi(s, r, u) ==
  LET prec == s.prec[r]
  IN  IF u <= 1 THEN MpfSetUi(s, r, u)
      ELSE Assign(s, r, FALSE, prec, 1, ISqrt(u * B^(2 * prec - 2)))

\* The bits of e below the highest one are used one after the other, the last
\* one by a product that goes to r.
BitAt(e, i) == (e \div 2^i) % 2
\* The highest one of e > 1.
LogTwo(e) == 1 + Cardinality({k \in 2..e : 2^k <= e})
\* Slip: the temporary float is not cleared.
TmpKept(s) == s
TmpCleared(s) == MpfClear(s, Tmp)
MpfPowUi(s, r, b, e) ==
  LET cnt == LogTwo(e)
      t0 == InitPrec(s, Tmp, BitsToPrec(PrecToBits(s.prec[r]) + cnt))
      times(t, v) == MpfMul(t, Tmp, Float(t, Tmp), v)
      step(t, i) == LET t2 == times(t, Float(t, Tmp))
                    IN  IF BitAt(e, i) = 1 THEN times(t2, b) ELSE t2
      f[i \in 0..cnt] == IF i = 0 THEN MpfSet(t0, Tmp, b) ELSE step(f[i - 1], cnt - i)
      last == f[cnt - 1]
      square == times(last, Float(last, Tmp))
      done == IF BitAt(e, 0) = 1 THEN MpfMul(square, r, Float(square, Tmp), b)
              ELSE MpfMul(last, r, Float(last, Tmp), Float(last, Tmp))
  IN  CASE e = 0 -> MpfSetUi(s, r, 1)
        [] e = 1 -> MpfSet(s, r, b)
        [] OTHER -> TmpCleared(done)

\* |x - y| in enough limbs that the quotient by x has prec + 1.
MpfReldiff(s, r, x, y) ==
  LET t == MpfSub(InitPrec(s, Tmp, s.prec[r] + Len(x)), Tmp, x, y)
      d == Float(t, Tmp)
  IN  IF x.size = 0 THEN MpfSetUi(s, r, Bit(y.size # 0))
      ELSE TmpCleared(MpfDiv(t, r, [d EXCEPT !.size = Len(d)], x))

-----------------------------------------------------------------------------
(* Shifts by a number of bits. *)

Copied(s, r, u, exp) == MpfSet(s, r, [u EXCEPT !.exp = exp])

\* up bits up within the limbs, which are one more in between.
Shifted(s, r, u, up, exp) ==
  LET n == Min2(Len(u), s.prec[r])
      v == Top(s, u, n) * 2^up
      adj == Bit(High(v, n) # 0)
  IN  Assign(PutAt(s, s.d[r], 0, n + 1, v), r, u.size < 0, n + adj, exp + adj, v)

MpfMul2Exp(s, r, u, bits) ==
  CASE u.size = 0 -> Zero(s, r)
    [] u.size # 0 /\ bits % W = 0 -> Copied(s, r, u, u.exp + (bits \div W))
    [] OTHER -> Shifted(s, r, u, bits % W, u.exp + (bits \div W))
MpfDiv2Exp(s, r, u, bits) ==
  CASE u.size = 0 -> Zero(s, r)
    [] u.size # 0 /\ bits % W = 0 -> Copied(s, r, u, u.exp - (bits \div W))
    [] OTHER -> Shifted(s, r, u, W - (bits % W), u.exp - (bits \div W) - 1)

-----------------------------------------------------------------------------
(* Rounding to an integer. *)

\* The limbs of u above the point, at most prec + 1.
Whole(s, r, u) == Min2(Min2(Len(u), u.exp), Prec1(s, r))

MpfTrunc(s, r, u) ==
  LET n == Whole(s, r, u)
  IN  IF u.size = 0 \/ u.exp <= 0 THEN Zero(s, r)
      ELSE Assign(s, r, u.size < 0, n, u.exp, Top(s, u, n))

\* Whether the limbs left out are not all zero.
Ignored(s, u, n) == Low(All(s, u), Len(u) - n) # 0

MpfCeilOrFloor(s, r, u, dir) ==
  LET n == Whole(s, r, u)
      same == (u.size < 0) = (dir < 0)
      more == Top(s, u, n) + 1
  IN  CASE u.size = 0 -> Zero(s, r)
        [] u.size # 0 /\ u.exp <= 0 ->
             IF same THEN Assign(s, r, dir < 0, 1, 1, 1) ELSE Zero(s, r)
        [] OTHER ->
             CASE ~(same /\ Ignored(s, u, n)) ->
                    Assign(s, r, u.size < 0, n, u.exp, Top(s, u, n))
               [] same /\ Ignored(s, u, n) /\ High(more, n) = 0 ->
                    Assign(s, r, u.size < 0, n, u.exp, more)
               [] OTHER -> Assign(s, r, u.size < 0, 1, u.exp + 1, 1)

-----------------------------------------------------------------------------
(* An unsigned long, an integer or a rational as operand, and what only reads floats. *)

\* An unsigned long is a float of one limb, an integer a float of its own limbs.
Word(n) == Made(Bit(n # 0), Bit(n # 0), n)
LimbsOf(n) == Normalize(Abs(n), 8)
IntFloat(n) == Made(Signed(n < 0, LimbsOf(n)), LimbsOf(n), Abs(n))

-----------------------------------------------------------------------------
(* An unsigned long as one operand. *)

MpfSubUi(s, r, u, n) == IF n = 0 THEN MpfSet(s, r, u) ELSE MpfSub(s, r, u, Word(n))
MpfUiSub(s, r, n, v) == IF n = 0 THEN MpfNeg(s, r, v) ELSE MpfSub(s, r, Word(n), v)

\* u > 0. The limbs of u move up in place when u ends above the point.
Raise(s, r, u, n) ==
  Assign(s, r, FALSE, u.exp, u.exp, All(s, u) * B^(u.exp - Len(u)) + n)
\* The point is within the limbs of u that are used.
Within(s, r, u, n) ==
  LET k == Min2(Len(u), s.prec[r])
      sum == Top(s, u, k) + n * B^(k - u.exp)
      cy == High(sum, k)
  IN  Assign(PutAt(s, s.d[r], 0, k + 1, sum), r, FALSE, k + cy, u.exp + cy, sum)
\* u < 1: the limbs below the one of n, of which prec - 1 are kept.
Fraction(u, prec) == Min2(Len(u), prec - 1 + u.exp)
Below(s, r, u, n) ==
  LET k == Fraction(u, s.prec[r])
  IN  IF -u.exp >= s.prec[r] THEN Assign(s, r, FALSE, 1, 1, n)
      ELSE Assign(s, r, FALSE, k - u.exp + 1, 1, Top(s, u, k) + n * B^(k - u.exp))

MpfAddUi(s, r, u, n) ==
  CASE u.size = 0 -> MpfSetUi(s, r, n)
    [] u.size < 0 -> LET t == MpfSubUi(s, r, Negated(u), n)
                     IN  [t EXCEPT !.size[r] = -@]
    [] u.size > 0 /\ (n = 0 \/ u.exp > s.prec[r]) -> SetMaybe(s, r, u)
    [] u.size > 0 /\ n # 0 /\ u.exp <= s.prec[r] /\ u.exp > Len(u) -> Raise(s, r, u, n)
    [] u.size > 0 /\ n # 0 /\ u.exp \in 1..Min2(Len(u), s.prec[r]) -> Within(s, r, u, n)
    [] OTHER -> Below(s, r, u, n)

-----------------------------------------------------------------------------
(* An integer or a rational as the operand. *)

MpfSetZ(s, r, n) ==
  LET u == IntFloat(n)
      k == Min2(Len(u), s.prec[r] + 1)
  IN  Assign(s, r, n < 0, k, u.exp, Top(s, u, k))

MpfSetQ(s, r, num, den) ==
  LET u == IntFloat(num)
  IN  IF num = 0 THEN Zero(s, r)
      ELSE Quotient(s, r, num < 0, u.exp - LimbsOf(den) + 1, Abs(num), u.exp, den, LimbsOf(den))

-----------------------------------------------------------------------------
(* Reading. Limbs are read from the least significant one that is not zero. *)

SgnOf(n) == CASE n < 0 -> -1 [] n = 0 -> 0 [] n > 0 -> 1

\* Slip: the longer operand is the larger one, zeros included.
Untrimmed(s, u) == 0
Trimmed(s, u) == LowZeros(All(s, u), Len(u))

CmpLimbs(s, u, v) ==
  LET un == Len(u) - Trimmed(s, u)
      vn == Len(v) - Trimmed(s, v)
      n == Min2(un, vn)
      cmp == SgnOf(Top(s, u, n) - Top(s, v, n))
  IN  CASE un > vn -> SgnOf(2 * cmp + 1)
        [] un < vn -> SgnOf(2 * cmp - 1)
        [] OTHER -> cmp

MpfCmp(s, u, v) ==
  LET usign == IF u.size >= 0 THEN 1 ELSE -1
  IN  CASE (u.size < 0) # (v.size < 0) -> usign
        [] OneSign(u, v) /\ u.size = 0 -> -Bit(v.size # 0)
        [] OneSign(u, v) /\ u.size # 0 /\ v.size = 0 -> Bit(u.size # 0)
        [] OneSign(u, v) /\ u.size # 0 /\ v.size # 0 /\ u.exp # v.exp ->
             IF u.exp > v.exp THEN usign ELSE -usign
        [] OTHER -> usign * CmpLimbs(s, u, v)

MpfCmpZ(s, u, n) == MpfCmp(s, u, IntFloat(n))

\* The leading limb of u, then whether anything is left below it.
CmpWord(s, u, n, usign) ==
  LET top == Top(s, u, 1)
  IN  CASE u.exp # 1 -> IF u.exp < 1 THEN -usign ELSE usign
        [] u.exp = 1 /\ top # n -> IF top < n THEN -usign ELSE usign
        [] OTHER -> usign * Bit(Trimmed(s, u) < Len(u) - 1)

MpfCmpUi(s, u, n) ==
  CASE u.size < 0 -> -1
    [] u.size >= 0 /\ n = 0 -> Bit(u.size # 0)
    \* a zero has exponent 0, which decides here
    [] OTHER -> CmpWord(s, u, n, 1)

MpfCmpSi(s, u, n) ==
  LET usign == IF u.size >= 0 THEN 1 ELSE -1
  IN  CASE (u.size < 0) # (n < 0) -> usign
        [] (u.size < 0) = (n < 0) /\ u.size = 0 -> -Bit(n # 0)
        [] (u.size < 0) = (n < 0) /\ u.size # 0 /\ n = 0 -> Bit(u.size # 0)
        [] OTHER -> CmpWord(s, u, Abs(n), usign)

\* The leading bits of both, n bits and the zero bits of the leading limb. With
\* none at all the code looks at the limb above each operand, whatever it holds.
LeadingZeros(n) == CHOOSE k \in 0..W : n * 2^k \in (B \div 2)..(B - 1)
MpfEq(s, u, v, n) ==
  LET top == LeadingZeros(Top(s, u, 1))
      bits == n + top
      limbs == (bits + W - 1) \div W
      k == Min2(limbs, Larger(Len(u), Len(v)))
      rest == bits - (k - 1) * W
      dropped == 2^(W - Min2(rest, W))
      head(x) == Top(s, x, Min2(k, Len(x))) * B^(k - Min2(k, Len(x)))
  IN  CASE u.size = 0 \/ v.size = 0 -> {u.size = v.size}
        [] u.size # 0 /\ v.size # 0
             /\ (~OneSign(u, v) \/ u.exp # v.exp \/ LeadingZeros(Top(s, v, 1)) # top) -> {FALSE}
        [] u.size # 0 /\ v.size # 0 /\ OneSign(u, v) /\ u.exp = v.exp
             /\ LeadingZeros(Top(s, v, 1)) = top /\ limbs = 0 -> {u.p = v.p, TRUE}
        [] OTHER -> {head(u) \div dropped = head(v) \div dropped}

MpfIntegerP(s, u) ==
  IF u.exp <= 0 THEN u.size = 0 ELSE Len(u) - Trimmed(s, u) <= u.exp

\* The limb just above the point.
UnitLimb(s, u) ==
  IF u.exp > 0 /\ Len(u) >= u.exp THEN Low(High(All(s, u), Len(u) - u.exp), 1) ELSE 0
MpfGetUi(s, u) == UnitLimb(s, u)
HalfB == B \div 2
\* Slip: the limb is negated, and LONG_MIN with it.
NegatedLimb(fl) == -(fl % HalfB)
NegativeSlong(fl) == -1 - ((fl - 1) % HalfB)
MpfGetSi(s, u) ==
  CASE u.exp <= 0 -> 0
    [] u.exp > 0 /\ u.size > 0 -> UnitLimb(s, u) % HalfB
    [] OTHER -> NegativeSlong(UnitLimb(s, u))
MpfFitsUlong(s, u) == u.exp < 1 \/ (u.size >= 0 /\ u.exp = 1)
MpfFitsSlong(s, u) ==
  u.exp < 1 \/ (u.exp = 1 /\ Top(s, u, 1) <= (IF u.size >= 0 THEN HalfB - 1 ELSE HalfB))
=============================================================================
