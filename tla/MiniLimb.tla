------------------------------ MODULE MiniLimb ------------------------------
(***************************************************************************)
(* The limbs of mini-gmp: the macros on one and two limbs, the loops over  *)
(* arrays of limbs that add, multiply and shift, and the reciprocals its   *)
(* division multiplies with instead of dividing.                           *)
(*                                                                         *)
(* A limb is a natural below B and all arithmetic on limbs drops what does *)
(* not fit, as the type mp_limb_t does: every carry and borrow is found by *)
(* a comparison afterwards. A pair is <<high, low>>. An array of n limbs   *)
(* is a function on 0..n-1, the least significant limb first.              *)
(***************************************************************************)
EXTENDS Integers

CONSTANT LimbBits     \* GMP_LIMB_BITS

ASSUME LimbBitsAssumption == LimbBits \in Nat \ {0} /\ LimbBits % 2 = 0

B == 2^LimbBits
Half == 2^(LimbBits \div 2)               \* GMP_HLIMB_BIT
Limb == 0..(B - 1)
Wrap(n) == n % B
Bit(p) == IF p THEN 1 ELSE 0
Not(x) == (B - 1) - x

\* gmp_clz: how far x is from its highest bit.
Clz(x) == CHOOSE c \in 0..(LimbBits - 1) : x * 2^c \in (B \div 2)..(B - 1)

\* gmp_umul_ppmm by half limbs. The slip takes the sum of the middle products as it is.
WithoutCarry(x1, x2) == 0
MiddleCarry(x1, x2) == IF Wrap(x1 + x2) < x2 THEN Half ELSE 0
Combined(x0, x1, x2, x3) ==
  LET middle == Wrap(x1 + x2)
  IN  <<Wrap(x3 + MiddleCarry(x1, x2) + middle \div Half), Wrap(middle * Half) + (x0 % Half)>>
Umul(u, v) ==
  LET ul == u % Half
      uh == u \div Half
      vl == v % Half
      vh == v \div Half
  IN  Combined(ul * vl, ul * vh + (ul * vl) \div Half, uh * vl, uh * vh)

\* gmp_add_ssaaaa and gmp_sub_ddmmss.
AddPair(a, b) ==
  LET low == Wrap(a[2] + b[2]) IN <<Wrap(a[1] + b[1] + Bit(low < a[2])), low>>
SubPair(a, b) == <<Wrap(a[1] - b[1] - Bit(a[2] < b[2])), Wrap(a[2] - b[2])>>

-----------------------------------------------------------------------------
(* Loops over arrays. *)

\* Limb i and the carry into the next one, from the carry into limb i.
Ripple(n, first, step(_, _)) ==
  LET carry[i \in 0..n] == IF i = 0 THEN first ELSE step(i - 1, carry[i - 1]).cy
  IN  [limbs |-> [i \in 0..(n - 1) |-> step(i, carry[i]).limb], cy |-> carry[n]]

Number(a, n) ==
  LET sum[i \in 0..n] == IF i = 0 THEN 0 ELSE sum[i - 1] + a[i - 1] * B^(i - 1) IN sum[n]

\* The n limbs of a from k on, and a with them replaced.
Part(a, k, n) == [i \in 0..(n - 1) |-> a[k + i]]
Splice(a, k, n, b) == [i \in DOMAIN a |-> IF i \in k..(k + n - 1) THEN b[i - k] ELSE a[i]]

NormalizedSize(a, n) ==
  CHOOSE k \in 0..n : (k > 0 => a[k - 1] # 0) /\ \A i \in k..(n - 1) : a[i] = 0

Add1(a, n, b) ==
  Ripple(n, b, LAMBDA i, cy : [limb |-> Wrap(a[i] + cy), cy |-> Bit(Wrap(a[i] + cy) < cy)])
Sub1(a, n, b) ==
  Ripple(n, b, LAMBDA i, cy : [limb |-> Wrap(a[i] - cy), cy |-> Bit(a[i] < cy)])

\* The carry of a limb sum of three, one of its additions at a time. A slip: only the
\* second addition is looked at.
SecondCarry(a, b, cy) == Bit(Wrap(Wrap(a + cy) + b) < b)
CarryOf(a, b, cy) == Bit(Wrap(a + cy) < cy) + Bit(Wrap(Wrap(a + cy) + b) < b)
AddN(a, b, n) ==
  Ripple(n, 0, LAMBDA i, cy : [limb |-> Wrap(a[i] + b[i] + cy), cy |-> CarryOf(a[i], b[i], cy)])
SubN(a, b, n) ==
  LET subtrahend(i, cy) == Wrap(b[i] + cy)
  IN  Ripple(n, 0, LAMBDA i, cy :
        [limb |-> Wrap(a[i] - subtrahend(i, cy)),
         cy |-> Bit(subtrahend(i, cy) < cy) + Bit(a[i] < subtrahend(i, cy))])

\* mpn_add and mpn_sub.
Longer(low, a, an, bn, rest(_, _, _)) ==
  IF an = bn THEN low
  ELSE LET high == rest(Part(a, bn, an - bn), an - bn, low.cy)
       IN  [limbs |-> [i \in 0..(an - 1) |->
                         IF i < bn THEN low.limbs[i] ELSE high.limbs[i - bn]],
            cy |-> high.cy]
Add(a, an, b, bn) == Longer(AddN(a, b, bn), a, an, bn, Add1)
Sub(a, an, b, bn) == Longer(SubN(a, b, bn), a, an, bn, Sub1)

\* The low limb of u * v plus a carry, and the carry out of it.
Product(u, v, cl) ==
  LET p == Umul(u, v) IN [limb |-> Wrap(p[2] + cl), cy |-> Bit(Wrap(p[2] + cl) < cl) + p[1]]
Mul1(u, n, v) == Ripple(n, 0, LAMBDA i, cl : Product(u[i], v, cl))
Addmul1(r, u, n, v) ==
  LET step(i, cl) ==
        LET p == Product(u[i], v, cl)
            s == Wrap(r[i] + p.limb)
        IN  [limb |-> s, cy |-> p.cy + Bit(s < r[i])]
  IN  Ripple(n, 0, step)
Submul1(r, u, n, v) ==
  LET step(i, cl) ==
        LET p == Product(u[i], v, cl)
            s == Wrap(r[i] - p.limb)
        IN  [limb |-> s, cy |-> p.cy + Bit(s > r[i])]
  IN  Ripple(n, 0, step)

\* mpn_mul: the product by the lowest limb of v, and the others added to it.
Mul(u, un, v, vn) ==
  LET low == Mul1(u, un, v[0])
      first == [i \in 0..(un + vn - 1) |-> IF i < un THEN low.limbs[i] ELSE low.cy]
      rows[k \in 1..vn] ==
        IF k = 1 THEN first
        ELSE LET row == Addmul1(Part(rows[k - 1], k - 1, un), u, un, v[k - 1])
             IN  [Splice(rows[k - 1], k - 1, un, row.limbs) EXCEPT ![un + k - 1] = row.cy]
  IN  rows[vn]

\* mpn_lshift and mpn_rshift, 0 < cnt < LimbBits: the limbs and what falls out.
Lshift(a, n, cnt) ==
  [limbs |-> [i \in 0..(n - 1) |->
                Wrap(a[i] * 2^cnt) + (IF i = 0 THEN 0 ELSE a[i - 1] \div 2^(LimbBits - cnt))],
   cy |-> a[n - 1] \div 2^(LimbBits - cnt)]
Rshift(a, n, cnt) ==
  [limbs |-> [i \in 0..(n - 1) |->
                a[i] \div 2^cnt + (IF i = n - 1 THEN 0 ELSE Wrap(a[i + 1] * 2^(LimbBits - cnt)))],
   cy |-> Wrap(a[0] * 2^(LimbBits - cnt))]

-----------------------------------------------------------------------------
(* Reciprocals. *)

\* mpn_invert_3by2 (u1, u0): floor ((B^3 - 1) / (B u1 + u0)) - B for u1 with its highest
\* bit set, two half limbs at a time.

\* The high half of the inverse of u1 and what it leaves, adjusted by at most 2. The slip
\* adjusts by at most 1.
AdjustOnce(qh, r, p, u1) ==
  IF r < p THEN [q |-> qh - 1, r |-> Wrap(r + u1 - p)] ELSE [q |-> qh, r |-> r - p]
Adjust(qh, r, p, u1) ==
  LET once == Wrap(r + u1)
      twice == once >= u1 /\ once < p
  IN  IF r >= p THEN [q |-> qh, r |-> r - p]
      ELSE [q |-> qh - 1 - Bit(twice), r |-> Wrap(once + (IF twice THEN u1 ELSE 0) - p)]
HighHalf(u1) ==
  LET uh == u1 \div Half
      qh == Not(u1) \div uh
  IN  Adjust(qh, Wrap((Not(u1) - qh * uh) * Half) + (Half - 1), Wrap(qh * (u1 % Half)), u1)

\* The 2/1 inverse of u1 and its remainder, from the high half and the estimate p of the
\* low one.
LowHalf(high, p, u1) ==
  LET guess == p \div Half + 1
      left == Wrap(high.r * Half + (Half - 1) - guess * u1)
      less == left >= Wrap(p * Half)
      r == Wrap(left + (IF less THEN u1 ELSE 0))
  IN  [m |-> Wrap(high.q * Half + guess - Bit(less) + Bit(r >= u1)),
       r |-> Wrap(r - (IF r >= u1 THEN u1 ELSE 0))]
BothHalves(high, u1) == LowHalf(high, Wrap((high.r \div Half) * high.q + high.r), u1)
Invert2by1(u1) == BothHalves(HighHalf(u1), u1)

\* The inverse m with remainder r made one of B u1 + u0.
Lowered(m, r, u1, u0) ==
  LET s == Wrap(Not(r) + u0)
      much == s >= u1
  IN  IF s >= u0 THEN [m |-> m, r |-> s]
      ELSE [m |-> Wrap(m - 1 - Bit(much)), r |-> Wrap(s - u1 - (IF much THEN u1 ELSE 0))]
\* The product t of u0 and the inverse taken from its remainder.
LessProduct(one, t, u1, u0) ==
  LET r == Wrap(one.r + t[1])
      more == r > u1 \/ (r = u1 /\ t[2] > u0)
  IN  IF r < t[1] THEN Wrap(one.m - 1 - Bit(more)) ELSE one.m
Corrected(one, u1, u0) == LessProduct(one, Umul(u0, one.m), u1, u0)
BySecond(one, u1, u0) == IF u0 = 0 THEN one.m ELSE Corrected(Lowered(one.m, one.r, u1, u0), u1, u0)
Invert3by2(u1, u0) == BySecond(Invert2by1(u1), u1, u0)

-----------------------------------------------------------------------------
(* Division of two limbs by one and of three by two. *)

\* gmp_udiv_qrnnd_preinv
Estimated2(p, nl, d) ==
  LET r == Wrap(nl - p[1] * d)
      over == r > p[2]
      s == Wrap(r + (IF over THEN d ELSE 0))
  IN  [q |-> Wrap(p[1] - Bit(over) + Bit(s >= d)), r |-> s - (IF s >= d THEN d ELSE 0)]
Udiv2by1(nh, nl, d, di) == Estimated2(AddPair(Umul(nh, di), <<Wrap(nh + 1), nl>>), nl, d)

\* gmp_udiv_qr_3by2. A slip: the last correction looks at the high limbs alone.
HighNotBelow(r, d) == r[1] > d[1]
NotBelow(r, d) == r[1] > d[1] \/ (r[1] = d[1] /\ r[2] >= d[2])
\* s is what is left for the quotient limb q, which may be one too small.
LastCorrection(q, s, d) ==
  IF NotBelow(s, d) THEN [q |-> Wrap(q + 1), r |-> SubPair(s, d)] ELSE [q |-> q, r |-> s]
\* r is what the estimate leaves and p the product it was made of.
Corrections(p, r, d) ==
  LET over == r[1] >= p[2]
  IN  LastCorrection(Wrap(p[1] + 1 - Bit(over)), IF over THEN AddPair(r, d) ELSE r, d)
Estimated3(p, n1, n0, d) ==
  Corrections(p, SubPair(SubPair(<<Wrap(n1 - d[1] * p[1]), n0>>, d), Umul(d[2], p[1])), d)
Udiv3by2(n2, n1, n0, d, di) == Estimated3(AddPair(Umul(n2, di), <<n2, n1>>), n1, n0, d)

-----------------------------------------------------------------------------
(* mpn_div_qr_invert: the highest limbs of the divisor, shifted until the  *)
(* highest bit is set, and their reciprocal.                               *)

\* Limb k of the n limbs of a, shifted; the limbs below a are 0.
ShiftedLimb(a, k, shift) ==
  Wrap(a[k] * 2^shift) + (IF k = 0 THEN 0 ELSE a[k - 1] \div 2^(LimbBits - shift))

\* A slip: the second limb takes no bits from the third.
ShiftedAlone(a, k, shift) == Wrap(a[k] * 2^shift)
SecondLimb(a, k, shift) == ShiftedLimb(a, k, shift)

InverseAt(shift, d1, d0) == [shift |-> shift, d1 |-> d1, d0 |-> d0, di |-> Invert3by2(d1, d0)]
InverseOf(d, n) ==
  LET shift == Clz(d[n - 1])
  IN  InverseAt(shift, ShiftedLimb(d, n - 1, shift),
                IF n = 1 THEN 0 ELSE SecondLimb(d, n - 2, shift))

\* mpn_div_qr_1_preinv: the quotient and the remainder of the n limbs at a.
DivQr1(a, n, di) ==
  LET shifted == IF di.shift > 0 THEN Lshift(a, n, di.shift) ELSE [limbs |-> a, cy |-> 0]
      step[k \in 0..n] ==       \* from the highest limb down to limb k
        IF k = n THEN [q |-> 0, r |-> shifted.cy]
        ELSE Udiv2by1(step[k + 1].r, shifted.limbs[k], di.d1, di.di)
  IN  [q |-> [k \in 0..(n - 1) |-> step[k].q], r |-> step[0].r \div 2^di.shift]
=============================================================================
