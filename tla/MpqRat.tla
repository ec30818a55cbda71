------------------------------- MODULE MpqRat -------------------------------
(***************************************************************************)
(* What the mpq functions promise: a client's rationals are fractions, and *)
(* arithmetic on canonical fractions gives the canonical fraction of the   *)
(* exact result, whichever operands and results coincide. The functions    *)
(* that set a numerator or a denominator alone promise no canonical form.  *)
(* A client's integers are fractions over 1. There is no memory here.      *)
(***************************************************************************)
EXTENDS Integers
LOCAL INSTANCE FiniteSetsExt

CONSTANT Client    \* the rationals and the integers

VARIABLES
  val,             \* val[x]: the fraction in x
  ended            \* the process was ended by a division by zero

Frac(n, d) == [num |-> n, den |-> d]
OverUnit(n) == Frac(n, 1)
Magnitude(n) == IF n < 0 THEN -n ELSE n
Sgn(n) == IF n > 0 THEN 1 ELSE IF n < 0 THEN -1 ELSE 0

\* The common divisors of a and b # 0.
Common(a, b) ==
  LET most == IF a = 0 THEN Magnitude(b) ELSE Min({Magnitude(a), Magnitude(b)})
  IN  {k \in 1..most : a % k = 0 /\ b % k = 0}
Canonical(q) == q.den > 0 /\ Common(q.num, q.den) = {1}
Reduced(n, d) ==
  LET k == Max(Common(n, d))
  IN  Frac((Sgn(d) * n) \div k, Magnitude(d) \div k)

Compare(q, r) == Sgn(q.num * r.den - r.num * q.den)

-----------------------------------------------------------------------------

Becomes(x, q) == val' = [val EXCEPT ![x] = q] /\ UNCHANGED ended
Fails == ended' = TRUE /\ UNCHANGED val

InitRat == val = [x \in Client |-> OverUnit(0)] /\ ended = FALSE

Zero(x) == Becomes(x, OverUnit(0))                   \* mpq_init, mpq_clear
Set(w, u) == Becomes(w, val[u])                   \* mpq_set, mpq_set_z
SetNum(w, z) == Becomes(w, Frac(val[z].num, val[w].den))
SetDen(w, z) == Becomes(w, Frac(val[w].num, val[z].num))
GetNum(z, u) == Becomes(z, OverUnit(val[u].num))
GetDen(z, u) == Becomes(z, OverUnit(val[u].den))
SetWords(w, n, d) == Becomes(w, IF n = 0 THEN OverUnit(0) ELSE Frac(n, d))
SetFloat(w, n, d) == Becomes(w, Reduced(n, d))
Swap(u, v) == val' = [val EXCEPT ![u] = val[v], ![v] = val[u]] /\ UNCHANGED ended
Neg(w, u) == Becomes(w, Frac(-val[u].num, val[u].den))
AbsOf(w, u) == Becomes(w, Frac(Magnitude(val[u].num), val[u].den))

Canonicalize(x) ==
  IF val[x].den = 0 THEN Fails ELSE Becomes(x, Reduced(val[x].num, val[x].den))
Inv(w, u) ==
  IF val[u].num = 0 THEN Fails ELSE Becomes(w, Reduced(val[u].den, val[u].num))

Add(w, u, v) ==
  Becomes(w, Reduced(val[u].num * val[v].den + val[v].num * val[u].den,
                     val[u].den * val[v].den))
Sub(w, u, v) ==
  Becomes(w, Reduced(val[u].num * val[v].den - val[v].num * val[u].den,
                     val[u].den * val[v].den))
Mul(w, u, v) ==
  Becomes(w, Reduced(val[u].num * val[v].num, val[u].den * val[v].den))
Div(w, u, v) ==
  IF val[v].num = 0 THEN Fails
  ELSE Becomes(w, Reduced(val[u].num * val[v].den, val[u].den * val[v].num))
Mul2Exp(w, u, n) == Becomes(w, Reduced(val[u].num * 2^n, val[u].den))
Div2Exp(w, u, n) == Becomes(w, Reduced(val[u].num, val[u].den * 2^n))
=============================================================================
