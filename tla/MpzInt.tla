------------------------------- MODULE MpzInt -------------------------------
(***************************************************************************)
(* What the mpz functions promise: every initialised mpz_t is an integer   *)
(* variable, and a call assigns to its destination the integer the manual  *)
(* names, whatever the sizes of the operands and whichever of them are the *)
(* same variable. There is no memory here. An uninitialised variable       *)
(* counts as 0.                                                            *)
(***************************************************************************)
EXTENDS Integers
LOCAL INSTANCE FiniteSetsExt

CONSTANT Var

VARIABLE val

Becomes(x, n) == val' = [val EXCEPT ![x] = n]

Magnitude(n) == IF n < 0 THEN -n ELSE n
Sgn(n) == IF n > 0 THEN 1 ELSE IF n < 0 THEN -1 ELSE 0

\* Division that rounds the quotient towards zero, down and up.
TQuot(n, d) == Sgn(n) * Sgn(d) * (Magnitude(n) \div Magnitude(d))
FQuot(n, d) == (Sgn(d) * n) \div Magnitude(d)
CQuot(n, d) == -((-(Sgn(d) * n)) \div Magnitude(d))

InitInt == val = [x \in Var |-> 0]

Zero(x) == Becomes(x, 0)                 \* mpz_init, mpz_init2, mpz_clear
Set(w, u) == Becomes(w, val[u])
SetSi(w, n) == Becomes(w, n)
Neg(w, u) == Becomes(w, -val[u])
AbsOf(w, u) == Becomes(w, Magnitude(val[u]))
Swap(u, v) == val' = [val EXCEPT ![u] = val[v], ![v] = val[u]]
\* mpz_realloc2: a value that is not below the limit is lost.
Realloc2(x, limit) == Becomes(x, IF Magnitude(val[x]) < limit THEN val[x] ELSE 0)
Add(w, u, v) == Becomes(w, val[u] + val[v])
Sub(w, u, v) == Becomes(w, val[u] - val[v])
AddUi(w, u, n) == Becomes(w, val[u] + n)
SubUi(w, u, n) == Becomes(w, val[u] - n)
UiSub(w, n, v) == Becomes(w, n - val[v])
Mul(w, u, v) == Becomes(w, val[u] * val[v])
MulSi(w, u, n) == Becomes(w, val[u] * n)
Mul2Exp(w, u, cnt) == Becomes(w, val[u] * 2^cnt)
Addmul(w, x, y) == Becomes(w, val[w] + val[x] * val[y])
Submul(w, x, y) == Becomes(w, val[w] - val[x] * val[y])
AddmulUi(w, x, n) == Becomes(w, val[w] + val[x] * n)
SubmulUi(w, x, n) == Becomes(w, val[w] - val[x] * n)

\* The quotient and the remainder in the rounding mode "t", "f" or "c".
Quot(mode, n, d) == CASE mode = "t" -> TQuot(n, d)
                      [] mode = "f" -> FQuot(n, d)
                      [] mode = "c" -> CQuot(n, d)
Rest(mode, n, d) == n - d * Quot(mode, n, d)

DivQr(mode, q, r, n, d) ==
  val' = [val EXCEPT ![q] = Quot(mode, val[n], val[d]),
                     ![r] = Rest(mode, val[n], val[d])]
DivQ(mode, q, n, d) == Becomes(q, Quot(mode, val[n], val[d]))
DivR(mode, r, n, d) == Becomes(r, Rest(mode, val[n], val[d]))
Mod(r, n, d) == Becomes(r, val[n] % Magnitude(val[d]))
DivQrUi(mode, q, r, n, d) ==
  val' = [val EXCEPT ![q] = Quot(mode, val[n], d), ![r] = Rest(mode, val[n], d)]
DivQUi(mode, q, n, d) == Becomes(q, Quot(mode, val[n], d))
DivRUi(mode, r, n, d) == Becomes(r, Rest(mode, val[n], d))

\* The bits of an integer in two's complement; bit Width and all above are its sign.
Width == 12
BitSet(n) == {i \in 0..Width : (n \div 2^i) % 2 = 1}
OfBits(S) ==
  MapThenSumSet(LAMBDA i : IF i = Width THEN -(2^i) ELSE 2^i, S)
Differ(S, T) == (S \ T) \cup (T \ S)

And(w, u, v) == Becomes(w, OfBits(BitSet(val[u]) \cap BitSet(val[v])))
Ior(w, u, v) == Becomes(w, OfBits(BitSet(val[u]) \cup BitSet(val[v])))
Xor(w, u, v) == Becomes(w, OfBits(Differ(BitSet(val[u]), BitSet(val[v]))))
Com(w, u) == Becomes(w, -val[u] - 1)
Setbit(d, i) == Becomes(d, OfBits(BitSet(val[d]) \cup {i}))
Clrbit(d, i) == Becomes(d, OfBits(BitSet(val[d]) \ {i}))
Combit(d, i) == Becomes(d, OfBits(Differ(BitSet(val[d]), {i})))

\* Number theory. The gcd of 0 and 0 is 0.
Divisors(n) == {d \in 1..n : n % d = 0}
GcdOf(a, b) == CASE a = 0 -> Magnitude(b)
                 [] a # 0 /\ b = 0 -> Magnitude(a)
                 [] OTHER -> Max(Divisors(Magnitude(a)) \cap Divisors(Magnitude(b)))
Gcd(w, u, n) == Becomes(w, GcdOf(val[u], n))
LcmOf(a, b) == IF a = 0 \/ b = 0 THEN 0 ELSE Magnitude(a) * (Magnitude(b) \div GcdOf(a, b))
Lcm(w, u, n) == Becomes(w, LcmOf(val[u], n))

\* The cofactors of a and b that the manual singles out.
Cofactor(a, b) ==
  LET g == GcdOf(a, b)
      m == Magnitude(b) \div (2 * g)
      other(s) == TQuot(g - a * s, b)
  IN  CASE Magnitude(a) = Magnitude(b) -> 0
        [] Magnitude(a) # Magnitude(b) /\ (b = 0 \/ Magnitude(b) = 2 * g) -> Sgn(a)
        [] Magnitude(a) # Magnitude(b) /\ Magnitude(b) # 2 * g /\ b # 0
             /\ Magnitude(a) = 2 * g -> TQuot(g - Magnitude(b), a)
        [] OTHER -> CHOOSE s \in -m..m :
             /\ 2 * g * Magnitude(s) < Magnitude(b)
             /\ a * s + b * other(s) = g
             /\ a # 0 => 2 * g * Magnitude(other(s)) < Magnitude(a)
Gcdext(g, s, t, a, b) ==
  LET c == Cofactor(val[a], val[b])
      d == GcdOf(val[a], val[b])
  IN  val' = [x \in Var |-> CASE x = g -> d
                              [] x = s -> c
                              [] x = t -> IF val[b] = 0 THEN 0 ELSE TQuot(d - val[a] * c, val[b])
                              [] OTHER -> val[x]]

\* n is congruent to c modulo d; modulo 0 only when they are equal.
Congruent(n, c, d) == IF d = 0 THEN n = c ELSE (n - c) % Magnitude(d) = 0

\* The residues i with i * a = 1 modulo n: at most one.
InversesOf(a, n) == {i \in 0..(Magnitude(n) - 1) : (i * a - 1) % Magnitude(n) = 0}
Invert(w, u, n) ==
  val' = [val EXCEPT ![w] = IF InversesOf(val[u], val[n]) = {} THEN @
                            ELSE Max(InversesOf(val[u], val[n]))]

\* u without the factor f, as often as it is there.
Without(n, f) ==
  LET most == CHOOSE p \in 0..Magnitude(n) : n % Magnitude(f)^p = 0 /\ n % Magnitude(f)^(p + 1) # 0
  IN  TQuot(n, f^most)
Remove(w, u, f) ==
  Becomes(w, IF val[u] = 0 \/ Magnitude(val[f]) = 1 THEN val[u] ELSE Without(val[u], val[f]))

\* Roots, rounded towards zero, and powers.
Root(n, nth) == Sgn(n) * (CHOOSE r \in 0..Magnitude(n) :
                            r^nth <= Magnitude(n) /\ (r + 1)^nth > Magnitude(n))
RootQ(w, u, nth) == Becomes(w, Root(val[u], nth))
RootRem(w, r, u, nth) ==
  val' = [val EXCEPT ![w] = Root(val[u], nth), ![r] = val[u] - Root(val[u], nth)^nth]
Pow(w, n, e) == Becomes(w, IF e = 0 THEN 1 ELSE n^e)   \* 0^0 is 1

\* b^e modulo m, of the inverse of b when e is negative.
PowMod(b, e, m) ==
  LET base == IF e < 0 THEN Max(InversesOf(b, m)) ELSE b
      f[i \in 0..Magnitude(e)] ==
        IF i = 0 THEN 1 % Magnitude(m) ELSE (f[i - 1] * (base % Magnitude(m))) % Magnitude(m)
  IN  f[Magnitude(e)]
Powm(w, b, e, m) == Becomes(w, PowMod(val[b], e, val[m]))

\* A number below 2^bits given, or kept, by limbs.
Limbs(w, n) == Becomes(w, n)
KeepLimbs(w, limit) == Becomes(w, Sgn(val[w]) * (Magnitude(val[w]) % limit))
=============================================================================
