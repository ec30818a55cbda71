----------------------------- MODULE MpzNumber -----------------------------
(***************************************************************************)
(* The number theoretic functions of mpz/ that are built from a gcd or from *)
(* a division, and the access to limbs. As in MpzDiv what is kept is how   *)
(* results are sized and placed, which operand is read after which result  *)
(* was stored, and how much room the temporaries are given; the integers   *)
(* a function keeps for itself are Tmp when one of the functions above     *)
(* works on them and plain numbers otherwise. An argument that may be a    *)
(* null pointer can be Null.                                               *)
(***************************************************************************)
EXTENDS MpzDiv, MpzBits

LimbsOf(v) == Normalize(v, IntMax)

\* TMP_FREE: Tmp was given n limbs of TMP space, which _mpz_realloc cannot enlarge.
TmpEnd(t, n) == {[TmpGone(t) EXCEPT !.fault = @ \/ t.alloc[Tmp] # n]}

-----------------------------------------------------------------------------
(* Least common multiple and gcd with a word. *)

\* The n limbs of a times what the one limb of b, or the word v when b is null, has
\* that a has not.
LcmWord(s, r, a, n, b, v) ==
  LET result(t) ==
        LET up == Source(s, t, a, n)
            vl == IF b = Null THEN v ELSE Source(s, t, b, 1)
            p  == up * (vl \div MpnGcd(up, vl))
        IN  SetSiz(Put(t, t.d[r], n + 1, p), r, n + Bit(p >= B^n))
  IN  {result(t) : t \in Grow(s, r, n + 1)}

MpzLcm(s, r, u, v) ==
  LET un == AbSiz(s, u)
      vn == AbSiz(s, v)
      gcd(t) == MpzGcd(t, Tmp, u, v)
      cofactor(t) == MpzDivexact(t, Tmp, u, Tmp)
      product(t) == MpzMul(t, r, Tmp, v)
      end(t) == TmpEnd([t EXCEPT !.size[r] = Abs(@)], un)
  IN  CASE un = 0 \/ vn = 0 -> {SetSiz(s, r, 0)}
        [] un = 1 /\ vn # 0 -> LcmWord(s, r, v, vn, u, 0)
        [] un > 1 /\ vn = 1 -> LcmWord(s, r, u, un, v, 0)
        [] OTHER -> Then(Then(Then(Then(TmpInit(s, un), gcd), cofactor), product), end)

MpzLcmUi(s, r, u, v) ==
  IF s.size[u] = 0 \/ v = 0 THEN {SetSiz(s, r, 0)}
  ELSE LcmWord(s, r, u, AbSiz(s, u), Null, v)

\* What mpz_gcd_ui returns, 0 when it does not fit, and what it stores.
MpzGcdUi(s, u, v) ==
  LET un == AbSiz(s, u)
      uv == Get(s, s.d[u], un)
  IN  CASE un = 0 -> v
        [] un # 0 /\ v = 0 -> IF un = 1 THEN uv ELSE 0
        [] OTHER -> MpnGcd(uv, v)
MpzGcdUiTo(s, w, u, v) ==
  LET un == AbSiz(s, u)
      res == MpzGcdUi(s, u, v)
  IN  IF un # 0 /\ v = 0
      THEN IF u = w THEN {SetSiz(s, w, un)}
           ELSE {Assign(t, w, Get(t, t.d[u], un), un) : t \in Grow(s, w, un)}
      ELSE {SetSiz(Put(t, t.d[w], 1, res), w, Bit(res # 0)) : t \in Grow(s, w, 1)}

-----------------------------------------------------------------------------
(* Extended gcd. *)

\* mpn_gcdext, by its result: the cofactor of u, which is 1 or less than v / (2 * gcd).
MpnCofactor(u, v) ==
  LET g == MpnGcd(u, v)
      most == v \div (2 * g)
  IN  CASE u % v = 0 -> 0
        [] u % v # 0 /\ v = 2 * g -> 1
        [] OTHER -> CHOOSE c \in -most..most : 2 * g * Abs(c) < v /\ (c * u - g) % v = 0

\* A slip: no limb for the carry of the subtraction.
RoomOfProduct(cn, an) == cn + an
\* The limbs of x = gcd - cofactor * a, which becomes the other cofactor's numerator.
RoomOfX(cn, an) == cn + an + 1

\* The argument x becomes n limbs of v, unless it is null.
Give(s, x, v, n) ==
  IF x = Null THEN {s} ELSE {Assign(t, x, v, n) : t \in Grow(s, x, Abs(n))}

\* The operand with fewer limbs comes second, b, and mpn_gcdext computes the
\* cofactor s of the first.
MpzGcdext(st, g, s1, t1, a1, b1) ==
  LET swap == AbSiz(st, a1) < AbSiz(st, b1)
      a == IF swap THEN b1 ELSE a1
      b == IF swap THEN a1 ELSE b1
      s == IF swap THEN t1 ELSE s1
      t == IF swap THEN s1 ELSE t1
      an == AbSiz(st, a)
      bn == AbSiz(st, b)
      av == Get(st, st.d[a], an)
      bv == Get(st, st.d[b], bn)
      neg == st.size[a] < 0
      \* b = 0
      sized(u) == [u EXCEPT !.size[s] = Signed(neg, Bit(an # 0))]
      copied(u) == IF g = Null THEN {u}
                   ELSE {Assign(u2, g, Source(u, u2, a, an), an) : u2 \in Grow(u, g, an)}
      zero(u) == {IF t = Null THEN u ELSE SetSiz(u, t, 0)}
      unit(u) == IF s = Null THEN {u}
                 ELSE {SetSiz(Put(u2, u2.d[s], 1, 1), s, u2.size[s]) :
                         u2 \in Grow(sized(u), s, 1)}
      \* b # 0
      gcd == MpnGcd(av, bv)
      gn == LimbsOf(gcd)
      c == MpnCofactor(av, bv)
      cn == LimbsOf(Abs(c))
      x == gcd - c * av
      \* x is a plain number in the limbs above the cofactor; t becomes x / b.
      need == Larger(Larger(gn, LimbsOf(Abs(c * av))) + 1, Bit(c # 0) * (cn + an))
      xn == LimbsOf(Abs(x))
      q == Abs(x) \div bv
      other(u) ==
        LET fits(u2) == [u2 EXCEPT !.fault = @ \/ need > RoomOfX(cn, an)]
            qneg == (x < 0) # (st.size[b] < 0)
        IN  CASE t = Null -> {u}
              [] t # Null /\ xn < bn -> {fits(SetSiz(u, t, 0))}
              [] OTHER -> {fits(Assign(u2, t, q, Signed(qneg, LimbsOf(q)))) :
                             u2 \in Grow(u, t, IF t = b THEN LimbsOf(q) ELSE xn - bn + 1)}
      cofactor(u) == Give(u, s, Abs(c), Signed((c < 0) # neg, cn))
      result(u) == Give(u, g, gcd, gn)
  IN  IF bn = 0 THEN Then(Then(copied(st), zero), unit)
      ELSE Then(Then(other(st), cofactor), result)

\* No inverse: the result is left as it was. gcd is a plain number.
MpzInvert(s, inverse, x, n) ==
  LET room == Larger(AbSiz(s, x), AbSiz(s, n)) + 1
      xv == Get(s, s.d[x], AbSiz(s, x))
      nv == Get(s, s.d[n], AbSiz(s, n))
      unit == CASE xv = 0 -> nv = 1
                [] xv # 0 /\ nv = 0 -> xv = 1
                [] OTHER -> MpnGcd(xv, nv) = 1
      cofactor(t) == MpzGcdext(t, Null, Tmp, Null, x, n)
      positive(t) == CASE ~unit -> {t}
                       [] unit /\ t.size[Tmp] < 0 ->
                            MpzAors(t, inverse, Tmp, n, t.size[n] < 0)
                       [] OTHER -> MpzSet(t, inverse, Tmp)
      end(t) == TmpEnd(t, room)
  IN  Then(Then(Then(TmpInit(s, room), cofactor), positive), end)

-----------------------------------------------------------------------------
(* Exact division by a word, and removal of a factor. *)

MpzDivexactUi(s, dst, src, d) ==
  CASE d = 0 -> DivideByZero(s)
    [] d # 0 /\ s.size[src] = 0 -> {SetSiz(s, dst, 0)}
    [] OTHER -> DivexactLimb(s, dst, src, d)

\* mpn_remove, by its result: how often f > 1 divides v > 0.
Multiplicity(v, f) == CHOOSE p \in 0..v : v % f^p = 0 /\ v % f^(p + 1) # 0

Divides(s, den, num) == Get(s, s.d[num], AbSiz(s, num)) % Abs(den) = 0

\* mpz_tdiv_qr (x, rem, num, den): x is Tmp; rem and den are plain numbers.
TrialDivide(s, num, den) ==
  LET nl == AbSiz(s, num)
      ql == nl - LimbsOf(Abs(den)) + 1
      q == Get(s, s.d[num], nl) \div Abs(den)
      neg == (s.size[num] < 0) # (den < 0)
  IN  IF ql <= 0 THEN {SetSiz(s, Tmp, 0)}
      ELSE {SetSiz(Put(t, t.d[Tmp], ql, q), Tmp, Signed(neg, QSize(q, ql))) :
              t \in Grow(s, Tmp, ql)}

\* A quotient without remainder is swapped into dest; its old block passes to x.
Taken(s, dest) == CHOOSE t \in MpzSwap(s, dest, Tmp) : TRUE

\* f^(2^p), the element p of fpow.
Power(f, p) == IF p = 0 THEN f ELSE Abs(f)^(2^p)

RECURSIVE DivideUp(_, _, _, _), DivideDown(_, _, _, _)

\* dest is divided by f^2, f^4, ... until a remainder is left or the next power
\* would be too long: the stores, each with the number of powers there are.
DivideUp(s, dest, f, p) ==
  IF AbSiz(s, dest) < 2 * LimbsOf(Abs(Power(f, p - 1))) - 1
  THEN {[store |-> s, powers |-> p]}
  ELSE UNION {IF Divides(t, Power(f, p), dest) THEN DivideUp(Taken(t, dest), dest, f, p + 1)
              ELSE {[store |-> t, powers |-> p]} : t \in TrialDivide(s, dest, Power(f, p))}

\* ... then by the powers there are, from the last to the first, where they divide it.
DivideDown(s, dest, f, p) ==
  IF p < 0 THEN {s}
  ELSE UNION {DivideDown(IF Divides(t, Power(f, p), dest) THEN Taken(t, dest) ELSE t,
                         dest, f, p - 1) : t \in TrialDivide(s, dest, Power(f, p))}

MpzRemove(s, dest, src, f) ==
  LET sn == s.size[src]
      n == Abs(sn)
      fn == AbSiz(s, f)
      fneg == s.size[f] < 0
      low == Get(s, s.d[f], 1)
      divisor == Value(s, f)
      odd(t) ==
        LET v == Source(s, t, src, n)
            fv == Source(s, t, f, fn)
            pwr == Multiplicity(v, fv)
            r == v \div fv^pwr
        IN  Assign(t, dest, r, Signed((fneg /\ pwr % 2 = 1) # (sn < 0), LimbsOf(r)))
      twos == MpzScan1(s, src, 0)
      resign(t) == IF fneg /\ twos % 2 = 1 THEN MpzNeg(t, dest, dest) ELSE {t}
      born == [s EXCEPT !.live = @ \cup {Tmp}]
      clear(t) == MpzClear(t, Tmp)
      first(t) == IF ~Divides(t, divisor, src) THEN MpzSet(t, dest, src)
                  ELSE UNION {DivideDown(u.store, dest, divisor, u.powers - 1) :
                                u \in DivideUp(Taken(t, dest), dest, divisor, 1)}
  IN  CASE fn = 0 -> DivideByZero(s)
        [] fn # 0 /\ ((fn = 1 /\ low = 1) \/ sn = 0) -> MpzSet(s, dest, src)
        [] fn # 0 /\ ~(fn = 1 /\ low = 1) /\ sn # 0 /\ low % 2 = 1 ->
             {odd(t) : t \in Grow(s, dest, n)}
        [] fn = 1 /\ low = 2 /\ sn # 0 -> Then(MpzFdivQ2Exp(s, dest, src, twos), resign)
        [] OTHER -> Then(Then(TrialDivide(born, src, divisor), first), clear)

-----------------------------------------------------------------------------
(* The limbs of an integer, written by the client between two calls. *)

MpzLimbsFinish(s, x, n, neg) == SetSiz(s, x, Signed(neg, Normalize(Get(s, s.d[x], n), n)))

\* mpz_limbs_write, n limbs of v, mpz_limbs_finish.
MpzLimbsWrite(s, x, n, v, neg) ==
  {MpzLimbsFinish(Put(t, t.d[x], n, v), x, n, neg) : t \in Grow(s, x, n)}

\* mpz_limbs_modify, the limbs from the old size up cleared, mpz_limbs_finish.
MpzLimbsModify(s, x, n) ==
  LET kept == Smaller(n, AbSiz(s, x))
  IN  {MpzLimbsFinish(Put(t, t.d[x], n, Get(t, t.d[x], kept)), x, n, t.size[x] < 0) :
         t \in Grow(s, x, n)}

-----------------------------------------------------------------------------
(* Whether one integer divides another, or two are congruent, without a    *)
(* quotient. The functions look at the low limbs first, strip powers of    *)
(* two and work on magnitudes, with the signs handled apart.               *)
(* mpn_divisible_p, mpn_mod_1 and mpn_modexact_1* are arithmetic here.     *)

Limbs(s, x) == Get(s, s.d[x], AbSiz(s, x))

\* LOW_ZEROS_MASK of a limb selects v % LowZeros(limb): all of it when it is 0.
LowZeros(limb) == IF limb = 0 THEN B ELSE 2^TrailingZeros(limb)
OddPart(limb) == limb \div 2^TrailingZeros(limb)

MpzDivisible(s, a, d) ==
  IF s.size[d] = 0 THEN s.size[a] = 0 ELSE Limbs(s, a) % Limbs(s, d) = 0

MpzDivisibleUi(s, a, d) ==
  CASE d = 0 -> s.size[a] = 0
    [] d # 0 /\ s.size[a] = 0 -> TRUE
    [] OTHER -> LimbAt(Limbs(s, a), 0) % LowZeros(d) = 0 /\ Limbs(s, a) % OddPart(d) = 0

MpzDivisible2Exp(s, a, cnt) ==
  LET whole == cnt \div W
  IN  IF AbSiz(s, a) <= whole THEN s.size[a] = 0
      ELSE /\ Low(Limbs(s, a), whole) = 0
           /\ LimbAt(Limbs(s, a), whole) % 2^(cnt % W) = 0

-----------------------------------------------------------------------------

\* NEG_MOD: a limb congruent to -a modulo d, which need not be below d.
NegMod(a, d) ==
  LET norm == d * 2^(W - Cardinality({i \in 0..(W - 1) : d >= 2^i}))
  IN  CASE a <= d -> d - a
        [] a > d /\ a <= norm -> norm - a
        [] OTHER -> Low(2 * norm - a, 1)

\* mpn_modexact_1c_odd and mpn_mod_1: the n limbs of v are congruent to c modulo d.
\* The slip forgets that the sign of c was to be changed first.
Unsigned(differ, c, d) == c
Oriented(differ, c, d) == IF differ THEN NegMod(c, d) ELSE c
CongruentLimb(v, differ, c, d) == (v - Oriented(differ, c, d)) % OddPart(d) = 0

MpzCongruent(s, a1, c1, d) ==
  LET swap == AbSiz(s, a1) < AbSiz(s, c1)
      a == IF swap THEN c1 ELSE a1
      c == IF swap THEN a1 ELSE c1
      av == Limbs(s, a)
      cv == Limbs(s, c)
      dv == Limbs(s, d)
      differ == (s.size[a] < 0) # (s.size[c] < 0)
      clow == LimbAt(cv, 0)
      dlow == LimbAt(dv, 0)
      lowDiffer == (Signed(differ, LimbAt(av, 0)) - clow) % LowZeros(dlow) # 0
      \* a divisor of two limbs that is one limb and low zero bits
      fits == AbSiz(s, d) = 1
                \/ (AbSiz(s, d) = 2 /\ dlow # 0 /\ LimbAt(dv, 1) < LowZeros(dlow))
      limb == IF AbSiz(s, d) = 1 THEN dlow ELSE dv \div LowZeros(dlow)
      x == IF differ THEN av + cv ELSE Abs(av - cv)
  IN  CASE s.size[d] = 0 -> MpzCmp(s, a1, c1) = 0
        [] s.size[d] # 0 /\ s.size[c] = 0 -> av % dv = 0
        [] s.size[d] # 0 /\ s.size[c] # 0 /\ lowDiffer -> FALSE
        [] s.size[d] # 0 /\ ~lowDiffer /\ AbSiz(s, c) = 1 /\ fits ->
             CongruentLimb(av, differ, clow, limb)
        [] OTHER -> x % dv = 0

MpzCongruentUi(s, a, cu, du) ==
  LET av == Limbs(s, a)
      neg == s.size[a] < 0
  IN  CASE du = 0 -> MpzCmpUi(s, a, cu) = 0
        [] du # 0 /\ s.size[a] = 0 -> cu % du = 0
        [] OTHER -> /\ (LimbAt(av, 0) - Oriented(neg, cu, du)) % LowZeros(du) = 0
                    /\ CongruentLimb(av, neg, cu, du)

-----------------------------------------------------------------------------
(* Congruence modulo 2^cnt: dl whole limbs and db bits. a has no fewer limbs *)
(* than c.                                                                   *)

\* c ends at limb cn; the rest of a must be zero.
RestZero(av, an, cn, dl, db) ==
  IF an <= dl THEN an = cn
  ELSE (\A i \in cn..(dl - 1) : LimbAt(av, i) = 0) /\ LimbAt(av, dl) % 2^db = 0

SameSigns(av, an, cv, cn, dl, db) ==
  /\ Low(av, Smaller(cn, dl)) = Low(cv, Smaller(cn, dl))
  /\ IF cn > dl THEN (LimbAt(av, dl) - LimbAt(cv, dl)) % 2^db = 0
     ELSE RestZero(av, an, cn, dl, db)

\* a and -c: both zero up to limb z, where their sum must be; ones' complements from
\* there to the end of c; then all ones in a.
DifferentSigns(av, an, cv, cn, dl, db) ==
  LET sum(i) == Low(LimbAt(av, i) + LimbAt(cv, i), 1)
      gap(i) == B - 1 - XorN(LimbAt(av, i), LimbAt(cv, i), 1)
      z == CHOOSE i \in 0..(cn - 1) :
             /\ LimbAt(av, i) # 0 \/ sum(i) # 0
             /\ \A j \in 0..(i - 1) : LimbAt(av, j) = 0 /\ sum(j) = 0
  IN  IF dl <= z THEN sum(dl) % 2^db = 0
      ELSE /\ sum(z) = 0
           /\ \A i \in (z + 1)..(Smaller(dl, cn) - 1) : gap(i) = 0
           /\ IF dl < cn THEN gap(dl) % 2^db = 0
              ELSE /\ an >= dl
                   /\ \A i \in cn..(dl - 1) : LimbAt(av, i) = B - 1
                   /\ db = 0 \/ (an > dl /\ (LimbAt(av, dl) + 1) % 2^db = 0)

MpzCongruent2Exp(s, a1, c1, cnt) ==
  LET swap == AbSiz(s, a1) < AbSiz(s, c1)
      a == IF swap THEN c1 ELSE a1
      c == IF swap THEN a1 ELSE c1
      an == AbSiz(s, a)
      cn == AbSiz(s, c)
      dl == cnt \div W
      db == cnt % W
  IN  CASE cn = 0 -> RestZero(Limbs(s, a), an, 0, dl, db)
        [] cn # 0 /\ (s.size[a] < 0) = (s.size[c] < 0) ->
             SameSigns(Limbs(s, a), an, Limbs(s, c), cn, dl, db)
        [] OTHER -> DifferentSigns(Limbs(s, a), an, Limbs(s, c), cn, dl, db)
=============================================================================
