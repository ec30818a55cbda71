------------------------------ MODULE MpzClient ------------------------------
(***************************************************************************)
(* The other calls of a client of Mpz: those that divide, by an integer,   *)
(* by a machine word or by a power of two and with each of the three       *)
(* roundings, those on bits, on the theory of numbers, roots and powers    *)
(* and on limbs, and what it reads. The results of one call are different  *)
(* variables (the manual's rule); any other arguments may coincide, and    *)
(* the results the manual calls optional may be null.                      *)
(***************************************************************************)
EXTENDS Mpz, MpzDiv, MpzPower

CONSTANTS
  Positions,  \* the bits the client asks for
  Exponents,  \* the exponents and the orders of the roots it uses
  PowMax      \* the most limbs it lets a power have

ASSUME PositionsAssumption == Positions \subseteq Nat
ASSUME ExponentsAssumption == Exponents \subseteq Nat
ASSUME PowMaxAssumption == PowMax \in Nat

Divide(mode, s, q, r, n, d) == CASE mode = "t" -> MpzTdivQr(s, q, r, n, d)
                                 [] mode = "f" -> MpzFdivQr(s, q, r, n, d)
                                 [] mode = "c" -> MpzCdivQr(s, q, r, n, d)
Quotient(mode, s, q, n, d) == CASE mode = "t" -> MpzTdivQ(s, q, n, d)
                                [] mode = "f" -> MpzFdivQ(s, q, n, d)
                                [] mode = "c" -> MpzCdivQ(s, q, n, d)
Remainder(mode, s, r, n, d) == CASE mode = "t" -> MpzTdivR(s, r, n, d)
                                 [] mode = "f" -> MpzFdivR(s, r, n, d)
                                 [] mode = "c" -> MpzCdivR(s, r, n, d)
Quotient2Exp(mode, s, w, u, c) == CASE mode = "t" -> MpzTdivQ2Exp(s, w, u, c)
                                    [] mode = "f" -> MpzFdivQ2Exp(s, w, u, c)
                                    [] mode = "c" -> MpzCdivQ2Exp(s, w, u, c)
Remainder2Exp(mode, s, w, u, c) == CASE mode = "t" -> MpzTdivR2Exp(s, w, u, c)
                                     [] mode = "f" -> MpzFdivR2Exp(s, w, u, c)
                                     [] mode = "c" -> MpzCdivR2Exp(s, w, u, c)

DivQr(mode, q, r, n, d) ==
  Live(q) /\ Live(r) /\ Live(n) /\ Live(d) /\ q # r
    /\ Return(Divide(mode, store, q, r, n, d), Integer!DivQr(mode, q, r, n, d))
DivQ(mode, q, n, d) ==
  Live(q) /\ Live(n) /\ Live(d)
    /\ Return(Quotient(mode, store, q, n, d), Integer!DivQ(mode, q, n, d))
DivR(mode, r, n, d) ==
  Live(r) /\ Live(n) /\ Live(d)
    /\ Return(Remainder(mode, store, r, n, d), Integer!DivR(mode, r, n, d))
Mod(r, n, d) ==
  Live(r) /\ Live(n) /\ Live(d)
    /\ Return(MpzMod(store, r, n, d), Integer!Mod(r, n, d))
DivQrUi(mode, q, r, n, d) ==
  Live(q) /\ Live(r) /\ Live(n) /\ q # r
    /\ Return(MpzDivQrUi(store, mode, q, r, n, d), Integer!DivQrUi(mode, q, r, n, d))
DivQUi(mode, q, n, d) ==
  Live(q) /\ Live(n)
    /\ Return(MpzDivQUi(store, mode, q, n, d), Integer!DivQUi(mode, q, n, d))
DivRUi(mode, r, n, d) ==
  Live(r) /\ Live(n)
    /\ Return(MpzDivRUi(store, mode, r, n, d), Integer!DivRUi(mode, r, n, d))
DivQ2Exp(mode, q, u, c) ==
  Live(q) /\ Live(u)
    /\ Return(Quotient2Exp(mode, store, q, u, c), Integer!DivQUi(mode, q, u, 2^c))
DivR2Exp(mode, r, u, c) ==
  Live(r) /\ Live(u)
    /\ Return(Remainder2Exp(mode, store, r, u, c), Integer!DivRUi(mode, r, u, 2^c))

ByInteger ==
  \/ \E mode \in Modes, q, r, n, d \in Var : DivQr(mode, q, r, n, d)
  \/ \E mode \in Modes, w, n, d \in Var : DivQ(mode, w, n, d) \/ DivR(mode, w, n, d)
  \/ \E r, n, d \in Var : Mod(r, n, d)

ByWord ==
  \/ \E mode \in Modes, q, r, n \in Var, d \in Limb : DivQrUi(mode, q, r, n, d)
  \/ \E mode \in Modes, w, n \in Var, d \in Limb :
       DivQUi(mode, w, n, d) \/ DivRUi(mode, w, n, d)
  \/ \E mode \in Modes, w, n \in Var, c \in Counts :
       DivQ2Exp(mode, w, n, c) \/ DivR2Exp(mode, w, n, c)

-----------------------------------------------------------------------------
(* Bits. *)

And(w, u, v) ==
  Live(w) /\ Live(u) /\ Live(v) /\ Return(MpzAnd(store, w, u, v), Integer!And(w, u, v))
Ior(w, u, v) ==
  Live(w) /\ Live(u) /\ Live(v) /\ Return(MpzIor(store, w, u, v), Integer!Ior(w, u, v))
Xor(w, u, v) ==
  Live(w) /\ Live(u) /\ Live(v) /\ Return(MpzXor(store, w, u, v), Integer!Xor(w, u, v))
Com(w, u) == Live(w) /\ Live(u) /\ Return(MpzCom(store, w, u), Integer!Com(w, u))
Setbit(d, i) == Live(d) /\ Return(MpzSetbit(store, d, i), Integer!Setbit(d, i))
Clrbit(d, i) == Live(d) /\ Return(MpzClrbit(store, d, i), Integer!Clrbit(d, i))
Combit(d, i) == Live(d) /\ Return(MpzCombit(store, d, i), Integer!Combit(d, i))

ByBits ==
  \/ \E w, u, v \in Var : And(w, u, v) \/ Ior(w, u, v) \/ Xor(w, u, v)
  \/ \E w, u \in Var : Com(w, u)
  \/ \E d \in Var, i \in Positions : Setbit(d, i) \/ Clrbit(d, i) \/ Combit(d, i)

-----------------------------------------------------------------------------

\* A count of bits that would be infinite, or a bit that is never found, is Never.
BitsOf(x) == Integer!BitSet(val[x])
Count(S) == IF Integer!Width \in S THEN Never ELSE Cardinality(S)

\* The functions that read integers agree with the integers. They decide by
\* _mp_size wherever they can: the comparisons, _mpz_cmp_si by its sign and one
\* limb, which exists even in an integer that was never given a block. Those that
\* look at bits see two's complement in a magnitude, where the complement of a limb
\* depends on all the limbs below it.
Readers ==
  NumberReaders /\ (Running => \A u \in store.live :
    /\ \A i \in Positions :
         /\ MpzTstbit(store, u, i) = Bit(i \in BitsOf(u))
         /\ MpzScan1(store, u, i) = LowestOf({j \in BitsOf(u) : j >= i}, Never)
         /\ MpzScan0(store, u, i) = LowestOf((i..Integer!Width) \ BitsOf(u), Never)
    /\ MpzPopcount(store, u) = Count(BitsOf(u))
    /\ \A v \in store.live :
         MpzHamdist(store, u, v) = Count((BitsOf(u) \ BitsOf(v)) \cup (BitsOf(v) \ BitsOf(u))))

-----------------------------------------------------------------------------
(* The theory of numbers, roots and powers, limbs. *)

Exact(n, d) == d # 0 /\ n % Abs(d) = 0
\* A result of mpz_gcdext that may be left out.
Optional == Var \cup {Null}

Gcd(w, u, v) ==
  Live(w) /\ Live(u) /\ Live(v) /\ Return(MpzGcd(store, w, u, v), Integer!Gcd(w, u, val[v]))
GcdUi(w, u, n) ==
  Live(w) /\ Live(u) /\ Return(MpzGcdUiTo(store, w, u, n), Integer!Gcd(w, u, n))
Lcm(w, u, v) ==
  Live(w) /\ Live(u) /\ Live(v) /\ Return(MpzLcm(store, w, u, v), Integer!Lcm(w, u, val[v]))
LcmUi(w, u, n) ==
  Live(w) /\ Live(u) /\ Return(MpzLcmUi(store, w, u, n), Integer!Lcm(w, u, n))
Gcdext(g, s, t, a, b) ==
  Live(s) /\ Live(a) /\ Live(b) /\ s \notin {g, t} /\ (g # t \/ g = Null)
    /\ Return(MpzGcdext(store, g, s, t, a, b), Integer!Gcdext(g, s, t, a, b))
Invert(w, u, n) ==
  Live(w) /\ Live(u) /\ Live(n) /\ val[n] # 0
    /\ Return(MpzInvert(store, w, u, n), Integer!Invert(w, u, n))
Divexact(q, n, d) ==
  Live(q) /\ Live(n) /\ Live(d) /\ Exact(val[n], val[d])
    /\ Return(MpzDivexact(store, q, n, d), Integer!DivQ("t", q, n, d))
DivexactUi(q, n, d) ==
  Live(q) /\ Live(n) /\ (d = 0 \/ Exact(val[n], d))
    /\ Return(MpzDivexactUi(store, q, n, d), Integer!DivQUi("t", q, n, d))
Remove(w, u, f) ==
  Live(w) /\ Live(u) /\ Live(f) /\ Return(MpzRemove(store, w, u, f), Integer!Remove(w, u, f))

Sqrt(w, u) == Live(w) /\ Live(u) /\ Return(MpzSqrt(store, w, u), Integer!RootQ(w, u, 2))
Sqrtrem(w, r, u) ==
  Live(w) /\ Live(r) /\ Live(u) /\ w # r
    /\ Return(MpzSqrtrem(store, w, r, u), Integer!RootRem(w, r, u, 2))
RootCall(w, u, nth) ==
  Live(w) /\ Live(u) /\ Return(MpzRoot(store, w, u, nth), Integer!RootQ(w, u, nth))
Rootrem(w, r, u, nth) ==
  Live(w) /\ Live(r) /\ Live(u) /\ w # r
    /\ Return(MpzRootrem(store, w, r, u, nth), Integer!RootRem(w, r, u, nth))

\* With and without mpn_mul_2.
PowUi(w, u, e, mul2) ==
  Live(w) /\ Live(u) /\ AbSiz(store, u) * e <= PowMax
    /\ Return(MpzPowUi(store, w, u, e, mul2), Integer!Pow(w, val[u], e))
UiPowUi(w, n, e, mul2) ==
  Live(w) /\ e <= PowMax
    /\ Return(MpzUiPowUi(store, w, n, e, mul2), Integer!Pow(w, n, e))
\* No modulus here has more low zero bits than the smallest exponent of two limbs.
Powm(w, b, e, m) ==
  Live(w) /\ Live(b) /\ Live(e) /\ Live(m) /\ (val[m] = 0 \/ val[m] % 2^(B + 1) # 0)
    /\ Return(MpzPowm(store, w, b, e, m), Integer!Powm(w, b, val[e], m))
PowmUi(w, b, e, m) ==
  Live(w) /\ Live(b) /\ Live(m) /\ (val[m] = 0 \/ val[m] % 2^(B + 1) # 0)
    /\ Return(MpzPowmUi(store, w, b, e, m), Integer!Powm(w, b, e, m))

LimbsWrite(w, n, v, neg) ==
  Live(w) /\ Return(MpzLimbsWrite(store, w, n, v, neg), Integer!Limbs(w, Signed(neg, v)))
LimbsModify(w, n) ==
  Live(w) /\ Return(MpzLimbsModify(store, w, n), Integer!KeepLimbs(w, B^n))

ByDivisors ==
  \/ \E w, u, v \in Var : Gcd(w, u, v) \/ Lcm(w, u, v) \/ Invert(w, u, v)
                            \/ Divexact(w, u, v) \/ Remove(w, u, v)
  \/ \E w, u \in Var, n \in Limb : GcdUi(w, u, n) \/ LcmUi(w, u, n) \/ DivexactUi(w, u, n)
  \/ \E s, a, b \in Var, g, t \in Optional : Gcdext(g, s, t, a, b)

ByPowers ==
  \/ \E w, u \in Var : Sqrt(w, u)
  \/ \E w, r, u \in Var : Sqrtrem(w, r, u)
  \/ \E w, u \in Var, nth \in Exponents \cap Limb : RootCall(w, u, nth)
  \/ \E w, r, u \in Var, nth \in Exponents \cap Limb : Rootrem(w, r, u, nth)
  \/ \E w, u \in Var, e \in Exponents, mul2 \in BOOLEAN : PowUi(w, u, e, mul2)
  \/ \E w \in Var, n \in Limb, e \in Exponents, mul2 \in BOOLEAN : UiPowUi(w, n, e, mul2)
  \/ \E w, b, e, m \in Var : Powm(w, b, e, m)
  \/ \E w, b, m \in Var, e \in Exponents : PowmUi(w, b, e, m)

ByLimbs ==
  \/ \E w \in Var, n \in 1..3, v \in Limb, neg \in BOOLEAN : LimbsWrite(w, n, v, neg)
  \/ \E w \in Var, n \in 1..3 : LimbsModify(w, n)

-----------------------------------------------------------------------------

\* The questions about divisors agree with the integers: they are answered from the
\* low limbs, the odd part of the divisor and the magnitudes, with the signs apart.
DivisorReaders ==
  Running => \A u \in store.live :
    /\ \A n \in Limb :
         /\ MpzGcdUi(store, u, n) = (IF n = 0 /\ Abs(val[u]) >= B THEN 0 ELSE Integer!GcdOf(val[u], n))
         /\ MpzDivisibleUi(store, u, n) = Integer!Congruent(val[u], 0, n)
         /\ \A c \in Limb : MpzCongruentUi(store, u, c, n) = Integer!Congruent(val[u], c, n)
    /\ \A cnt \in Positions : MpzDivisible2Exp(store, u, cnt) = Integer!Congruent(val[u], 0, 2^cnt)
    /\ \A nth \in {2, 3} :
         val[u] >= 0 => MpzRootExact(store, u, nth) = (Integer!Root(val[u], nth)^nth = val[u])
    /\ \A v \in store.live :
         /\ MpzDivisible(store, u, v) = Integer!Congruent(val[u], 0, val[v])
         /\ \A cnt \in Positions :
              MpzCongruent2Exp(store, u, v, cnt) = Integer!Congruent(val[u], val[v], 2^cnt)
         /\ \A d \in store.live : MpzCongruent(store, u, v, d) = Integer!Congruent(val[u], val[v], val[d])
=============================================================================
