------------------------------ MODULE MpzPower ------------------------------
(***************************************************************************)
(* Roots and powers of mpz/. The roots compute into their destination      *)
(* unless it is an operand; the powers guess the room their result and one *)
(* buffer beside it will need and arrange that the last of the squarings   *)
(* and multiplications, which go from one buffer to the other, ends in the *)
(* destination.                                                            *)
(***************************************************************************)
EXTENDS MpzNumber

SqrtOfNegative(s) == {Exception(s, "sqrtneg")}

\* mpn_rootrem and mpn_sqrtrem, by their result.
RootOf(v, nth) == CHOOSE r \in 0..v : r^nth <= v /\ (r + 1)^nth > v

\* The root is computed beside an operand that is root.
MpzSqrt(s, root, op) ==
  LET n == s.size[op]
      rn == (n + 1) \div 2
      sized == [s EXCEPT !.size[root] = rn]
      result(t) == Assign(t, root, RootOf(Get(t, s.d[op], n), 2), rn)
  IN  CASE n < 0 -> SqrtOfNegative(s)
        [] n = 0 -> {SetSiz(s, root, 0)}
        [] OTHER -> {result(t) : t \in IF root = op THEN {sized} ELSE Grow(sized, root, rn)}

\* PTR (op) is read when rem, which may be op, has its room.
MpzSqrtrem(s, root, rem, op) ==
  LET n == s.size[op]
      rn == (n + 1) \div 2
      grown(t) == LET sized == [t EXCEPT !.size[root] = rn]
                  IN  IF root = op THEN {sized} ELSE Grow(sized, root, rn)
      result(p, t) ==
        LET v == Get(t, p, n)
            r == RootOf(v, 2)
            k == LimbsOf(v - r^2)
        IN  SetSiz(SetSiz(Put(Put(t, t.d[rem], k, v - r^2), t.d[root], rn, r), root, rn), rem, k)
  IN  CASE n < 0 -> SqrtOfNegative(s)
        [] n = 0 -> {SetSiz(SetSiz(s, root, 0), rem, 0)}
        [] OTHER -> UNION {{result(t.d[op], u) : u \in grown(t)} : t \in Grow(s, rem, n)}

EvenOfNegative(s, u, nth) == s.size[u] < 0 /\ nth % 2 = 0
RootLimbs(n, nth) == (n - 1) \div nth + 1

\* What mpz_root returns, whether the root is exact, and what it stores.
MpzRootExact(s, u, nth) == nth = 1 \/ RootOf(Limbs(s, u), nth)^nth = Limbs(s, u)
MpzRoot(s, root, u, nth) ==
  LET n == AbSiz(s, u)
      rn == RootLimbs(n, nth)
      result(t) == Assign(t, root, RootOf(Source(s, t, u, n), nth), Signed(s.size[u] < 0, rn))
  IN  CASE EvenOfNegative(s, u, nth) -> SqrtOfNegative(s)
        [] ~EvenOfNegative(s, u, nth) /\ nth = 0 -> DivideByZero(s)
        [] nth = 1 -> IF u = root THEN {s} ELSE MpzSet(s, root, u)
        [] nth > 1 /\ s.size[u] = 0 -> {SetSiz(s, root, 0)}
        [] OTHER -> {result(t) : t \in IF u = root THEN {s} ELSE Grow(s, root, rn)}

\* root and rem each have room of their own or are computed beside u.
MpzRootrem(s, root, rem, u, nth) ==
  LET n == AbSiz(s, u)
      neg == s.size[u] < 0
      rn == RootLimbs(n, nth)
      place(t, x, k) == IF u = x THEN {t} ELSE Grow(t, x, k)
      result(t) ==
        LET v == Source(s, t, u, n)
            r == IF nth = 1 THEN v ELSE RootOf(v, nth)
            k == LimbsOf(v - r^nth)
        IN  SetSiz(SetSiz(Put(Put(t, t.d[root], rn, r), t.d[rem], k, v - r^nth),
                          root, Signed(neg, rn)), rem, Signed(neg, k))
  IN  CASE EvenOfNegative(s, u, nth) -> SqrtOfNegative(s)
        [] ~EvenOfNegative(s, u, nth) /\ nth = 0 -> DivideByZero(s)
        [] nth # 0 /\ n = 0 -> {SetSiz(SetSiz(s, root, 0), rem, 0)}
        [] OTHER -> UNION {{result(t2) : t2 \in place(t, rem, n)} : t \in place(s, root, rn)}

-----------------------------------------------------------------------------
(* mpz_n_pow_ui. mul2 says whether the build has mpn_mul_2.                  *)

BitsOfLength(v) == {i \in 0..(IntMax * W) : v \div 2^i # 0}
Length(v) == Cardinality(BitsOfLength(v))
Ones1(e) == Popcount(e, IntMax)
HalfMax == 2^(W \div 2) - 1

\* The base is squared within a limb: blimb is b^(2^k), e - (e % 2^k) is left.
SmallSteps(b, e) == CHOOSE k \in 0..Length(e) :
  /\ b^(2^k) > HalfMax \/ e \div 2^k = 0
  /\ \A j \in 0..(k - 1) : b^(2^j) <= HalfMax /\ e \div 2^j # 0

\* What is left to do: base^e * rl, times 2^bits.
OneLimb(b, e, bits, mul2) ==
  LET k == SmallSteps(b, e)
      e1 == e \div 2^k
      b1 == IF e1 = 0 THEN 1 ELSE b^(2^k)
      rl1 == b^(e % 2^k)
      twice == mul2 /\ e1 # 0
      rl == IF twice /\ e1 % 2 = 1 THEN rl1 * b1 ELSE rl1
      merged == bits # 0 /\ rl # 1 /\ High(rl, 1) * 2^bits < B
                  /\ (High(rl, 1) # 0 \/ High(rl * 2^bits, 1) = 0)
  IN  [base |-> IF twice THEN b1^2 ELSE b1, n |-> IF twice THEN 2 ELSE 1,
       e |-> IF twice THEN e1 \div 2 ELSE e1,
       rl |-> IF merged THEN rl * 2^bits ELSE rl, bits |-> IF merged THEN 0 ELSE bits]

\* A slip: half the room for the other buffer whatever is kept in it.
RoomHalved(x, inline, ralloc) == ralloc \div 2

\* ralloc and talloc: the room of the result above its low zero limbs, and of the
\* buffer beside it.
RoomOfPower(x) == (Length(x.base) * x.e) \div W + 5
RoomBeside(x, inline, ralloc) == IF inline \/ x.e % 2 = 0 THEN ralloc \div 2 ELSE ralloc

\* From the highest bit of e down, the power so far is squared into the other buffer
\* and, for a bit that is set, multiplied by the base: in place when the base has as
\* many limbs as mpn_mul_1 or mpn_mul_2 takes, back into the first one when not.
\* Step i leaves base^(e \div 2^i). Start says whether it begins in the result.
PowerFits(x, inline) ==
  LET top == Length(x.e) - 2
      ralloc == RoomOfPower(x)
      talloc == RoomBeside(x, inline, ralloc)
      size(i) == LimbsOf(x.base^(x.e \div 2^i))
      squared(i) == LimbsOf(x.base^(2 * (x.e \div 2^(i + 1))))
      set(i) == (x.e \div 2^i) % 2 = 1
      start == IF inline THEN top % 2 = 1 ELSE (Ones1(x.e) + top) % 2 = 0
      \* the buffers swapped before step i
      swaps(i) == (top - i) + IF inline THEN 0 ELSE Ones1(x.e \div 2^(i + 1)) - 1
      inResult(i) == start = (swaps(i) % 2 = 0)
      room(r) == IF r THEN ralloc ELSE talloc
  IN  /\ x.n <= room(start)
      /\ \A i \in 0..top :
           /\ 2 * size(i + 1) <= room(~inResult(i))
           /\ set(i) => squared(i) + x.n <= room(inline # inResult(i))
      /\ inResult(-1)

\* A slip: an operand that is the result is used where it is.
CopiedIfShifted(same, btwos) == btwos # 0
Copied(same, btwos) == same \/ btwos # 0

\* What is raised: the odd part of the base, with its bits of the shift.
Raised(odd, e, bits, mul2) ==
  IF LimbsOf(odd) = 1 THEN OneLimb(odd, e, bits, mul2)
  ELSE [base |-> odd, n |-> LimbsOf(odd), e |-> e, rl |-> 1, bits |-> bits]
PowerOf(x) == x.base^x.e
\* The products and the shift stay in the room made for the power.
RoomEnough(x, mul2) ==
  LET ralloc == RoomOfPower(x)
      inline == x.n <= IF mul2 THEN 2 ELSE 1
  IN  /\ x.e # 0 => /\ PowerFits(x, inline)
                    /\ x.rl # 1 => LimbsOf(PowerOf(x)) + LimbsOf(x.rl) <= ralloc
      /\ x.bits # 0 => LimbsOf(PowerOf(x) * x.rl) + 1 <= ralloc
\* r becomes the power, with the low limbs that are zero below it. lost says that its
\* operand is overwritten on the way.
StorePower(s, r, x, mul2, limbs, neg, lost) ==
  LET v == PowerOf(x) * x.rl * 2^x.bits * B^limbs
      stored(t) == Assign(t, r, IF lost THEN B^LimbsOf(v) - 1 ELSE v, Signed(neg, LimbsOf(v)))
  IN  {[stored(t) EXCEPT !.fault = @ \/ ~RoomEnough(x, mul2)] : t \in Grow(s, r, RoomOfPower(x) + limbs)}

\* bv is the base of bsize limbs; same says that r has it.
MpzNPowUi(s, r, bv, bsize, same, e, mul2) ==
  LET z == ZeroLimbs(bv)
      btwos == TrailingZeros(LimbAt(bv, z))
      odd == High(bv, z) \div 2^btwos
      shift == e * btwos
  IN  CASE e = 0 -> {SetSiz(Put(t, t.d[r], 1, 1), r, 1) : t \in Grow(s, r, 1)}
        [] e # 0 /\ bsize = 0 -> {SetSiz(s, r, 0)}
        [] OTHER -> StorePower(s, r, Raised(odd, e, shift % W, mul2), mul2, e * z + shift \div W,
                               bsize < 0 /\ e % 2 = 1,
                               same /\ LimbsOf(odd) > 2 /\ ~Copied(same, btwos))

MpzPowUi(s, r, b, e, mul2) ==
  CASE e = 0 -> MpzSetSi(s, r, 1)
    [] e = 1 -> MpzSet(s, r, b)
    [] e = 2 -> MpzMul(s, r, b, b)
    [] OTHER -> MpzNPowUi(s, r, Limbs(s, b), s.size[b], s.d[r] = s.d[b], e, mul2)

MpzUiPowUi(s, r, b, e, mul2) == MpzNPowUi(s, r, b, Bit(b # 0), FALSE, e, mul2)

-----------------------------------------------------------------------------
(***************************************************************************)
(* Powers modulo an integer, mpz/powm.c and mpz/powm_ui.c. An even modulus *)
(* is an odd one times a power of two: mpn_powm computes modulo the first, *)
(* mpn_powlo modulo the second, and the two are put together here. Small   *)
(* exponents are handled by squaring modulo the modulus shifted up to its  *)
(* highest bit. Everything is computed beside the operands, and the result *)
(* copied, so that it can be any of them.                                  *)
(***************************************************************************)

\* mpn_powm and mpn_powlo, by their result: b^e modulo m.
MpnPowm(b, e, m) ==
  LET f[i \in 0..e] == IF i = 0 THEN 1 % m ELSE (f[i - 1] * (b % m)) % m IN f[e]
\* mpn_binvert, by its result: the inverse modulo B^n.
Binvert(v, n) == CHOOSE i \in 0..(B^n - 1) : (i * (v % B^n)) % B^n = 1

\* Slips: the bits above the power of two are left, the sign of the base forgotten.
AllBits(x, ncnt, cnt) == x
Nonnegative(r, m, neg, e) == r
\* The highest limb keeps cnt bits when cnt is not 0.
PartialLimb(x, ncnt, cnt) == IF cnt = 0 THEN x ELSE x % (B^(ncnt - 1) * 2^cnt)
\* The residue of a negative number to an odd power.
OfNegative(r, m, neg, e) == IF e % 2 = 1 /\ neg /\ r # 0 THEN m - r ELSE r

\* m is odd, times cnt bits and the whole limbs of zeros below: ncnt limbs in all,
\* the last of them only in part when cnt is not 0.
PowmEven(bv, e, en, m) ==
  LET zeros == ZeroLimbs(m)
      cnt == TrailingZeros(LimbAt(m, zeros))
      odd == High(m, zeros) \div 2^cnt
      ncnt == zeros + Bit(cnt # 0)
      t == zeros * W + cnt
      rp == MpnPowm(bv, e, odd)
      \* up to three low zero bits of the base are looked for, in one limb
      bcnt == Smaller(3, IF LimbAt(bv, 0) = 0 THEN W ELSE TrailingZeros(LimbAt(bv, 0)))
      zero == bv % 2 = 0 /\ (en > 1 \/ e * bcnt >= t)
      r2 == IF zero THEN 0 ELSE MpnPowm(bv, e, B^ncnt)
      xp == PartialLimb(Low(Binvert(odd, ncnt) * Low(r2 - rp, ncnt), ncnt), ncnt, cnt)
  IN  IF ncnt = 0 THEN rp ELSE rp + xp * odd

Residue(s, r, v) == {Assign(t, r, v, LimbsOf(v)) : t \in Grow(s, r, LimbsOf(v))}

\* 1 modulo m: the size is stored before there is room.
OneModulo(s, r, m) ==
  LET k == Bit(AbSiz(s, m) # 1 \/ Limbs(s, m) # 1)
  IN  {SetSiz(Put(t, t.d[r], 1, 1), r, k) : t \in Grow([s EXCEPT !.size[r] = k], r, 1)}

\* The base bv, of a negative number when neg, to the power e > 0 of en limbs.
PowmPositive(s, r, bv, neg, e, en, m) ==
  LET mv == Limbs(s, m)
      v == OfNegative(IF e = 1 THEN bv % mv ELSE PowmEven(bv, e, en, mv), mv, neg, e)
  IN  IF bv = 0 THEN {SetSiz(s, r, 0)} ELSE Residue(s, r, v)

\* What mpz_invert leaves in new_b, a plain number here.
Inverses(v, m) == {i \in 0..(m - 1) : (i * v - 1) % m = 0}

\* es and ev are the size and the limbs of the exponent. A negative power is one of
\* the inverse, which has to exist.
PowmBy(s, r, b, es, ev, m) ==
  LET inverses == Inverses(Value(s, b), Limbs(s, m))
  IN  CASE s.size[m] = 0 -> DivideByZero(s)
        [] s.size[m] # 0 /\ es = 0 -> OneModulo(s, r, m)
        [] s.size[m] # 0 /\ es < 0 /\ inverses = {} -> DivideByZero(s)
        [] s.size[m] # 0 /\ es < 0 /\ inverses # {} ->
             UNION {PowmPositive(s, r, i, FALSE, ev, -es, m) : i \in inverses}
        [] OTHER -> PowmPositive(s, r, Limbs(s, b), s.size[b] < 0, ev, es, m)

MpzPowm(s, r, b, e, m) == PowmBy(s, r, b, s.size[e], Limbs(s, e), m)

-----------------------------------------------------------------------------

\* One step of the loop: xp of xn limbs squared, or multiplied by the base, and
\* reduced modulo the shifted modulus mp of mn limbs when it is as long.
Reduced(v, mp, mn) == IF LimbsOf(v) < mn THEN v ELSE v % mp

PowmUiLoop(bv, e, mp, mn) ==
  LET top == Length(e) - 2
      set(i) == (e \div 2^i) % 2 = 1
      f[i \in 0..(top + 1)] ==
        IF i = top + 1 THEN bv
        ELSE LET sq == Reduced(f[i + 1] * f[i + 1], mp, mn)
             IN  IF set(i) THEN Reduced(sq * bv, mp, mn) ELSE sq
  IN  f[0]

\* A slip: the result is left modulo the shifted modulus.
StillShifted(v, mp, mn, shift) == v
\* The result is shifted like the modulus, reduced and shifted back.
Unshifted(v, mp, mn, shift) == Reduced(v * 2^shift, mp, mn) \div 2^shift

MpzPowmUi(s, r, b, e, m) ==
  LET mv == Limbs(s, m)
      mn == AbSiz(s, m)
      shift == mn * W - Length(mv)
      mp == mv * 2^shift
      bv == IF AbSiz(s, b) > mn THEN Limbs(s, b) % mp ELSE Limbs(s, b)
      v == Unshifted(PowmUiLoop(bv, e, mp, mn), mp, mn, shift)
  IN  CASE e >= 20 -> PowmBy(s, r, b, LimbsOf(e), e, m)
        [] e < 20 /\ mn = 0 -> DivideByZero(s)
        [] mn # 0 /\ e = 1 -> MpzMod(s, r, b, m)
        [] mn # 0 /\ e = 0 -> OneModulo(s, r, m)
        [] mn # 0 /\ e \in 2..19 /\ bv = 0 -> {SetSiz(s, r, 0)}
        [] OTHER -> Residue(s, r, OfNegative(v, mv, s.size[b] < 0, e))
=============================================================================
