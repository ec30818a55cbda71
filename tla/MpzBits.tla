------------------------------ MODULE MpzBits ------------------------------
(***************************************************************************)
(* The bit operations of mpz/. They treat an integer as if it were in      *)
(* two's complement with its sign repeated for ever, but work on a sign    *)
(* and a magnitude: -x is ~(x - 1). The temporary copies of x - 1 are the  *)
(* function's own and are plain numbers here. op1 and op2 are the operands *)
(* in the order of their signed sizes, so op2 is negative if either is.    *)
(***************************************************************************)
EXTENDS MpzArith
LOCAL INSTANCE FiniteSetsExt

\* mpn_and_n, mpn_ior_n, mpn_xor_n and mpn_andn_n on n limbs.
BitsIn(v, n) == {i \in 0..(n * W - 1) : (v \div 2^i) % 2 = 1}
Natural(S) == MapThenSumSet(LAMBDA i : 2^i, S)
AndN(a, b, n) == Natural(BitsIn(a, n) \cap BitsIn(b, n))
IorN(a, b, n) == Natural(BitsIn(a, n) \cup BitsIn(b, n))
AndnN(a, b, n) == Natural(BitsIn(a, n) \ BitsIn(b, n))
XorN(a, b, n) == AndnN(a, b, n) + AndnN(b, a, n)

Op1(s, u, v) == IF s.size[u] < s.size[v] THEN v ELSE u
Op2(s, u, v) == IF s.size[u] < s.size[v] THEN u ELSE v

\* -r is stored: n limbs and one more for a carry.
AssignNegative(t, x, r, n) ==
  SetSiz(Put(t, t.d[x], n + 1, r), x, -(n + Bit(r >= B^n)))

-----------------------------------------------------------------------------
(* Two operands. *)

\* op1_ptr and op2_ptr are not read again after the reallocation: it happens
\* only when res is no operand, or when both have been copied.
MpzAnd(s, res, u, v) ==
  LET op1 == Op1(s, u, v)   n1 == s.size[op1]   p1 == s.d[op1]
      op2 == Op2(s, u, v)   n2 == s.size[op2]   p2 == s.d[op2]
      m2  == Abs(n2)
      b   == Get(s, p2, m2) - 1
      \* both operands at least 0, op2 alone negative, both negative
      plain(n) == LET k == Normalize(AndN(Get(s, p1, n), Get(s, p2, n), n), n)
                  IN  {Assign(t, res, AndN(Get(t, p1, k), Get(t, p2, k), k), k) :
                         t \in Grow(s, res, k)}
      mixed == LET k == IF n1 > m2 THEN n1
                        ELSE Normalize(AndnN(Get(s, p1, n1), b, n1), n1)
               IN  {Assign(t, res, AndnN(Get(t, p1, k), b, k), k) : t \in Grow(s, res, k)}
      negative == LET r == IorN(Get(s, p1, -n1) - 1, b, m2) + 1
                  IN  {AssignNegative(t, res, r, m2) : t \in Grow(s, res, m2 + 1)}
  IN  IF n2 >= 0 THEN plain(n2) ELSE IF n1 >= 0 THEN mixed ELSE negative

\* op2 >= 0 in mpz_ior and mpz_xor: res is reallocated unless it has op1's limbs.
Upwards(s, res, p1, n1) == IF s.d[res] # p1 THEN Grow(s, res, n1) ELSE {s}

\* A slip: the carry of the increment has no limb to go to.
CarryLost(r, k) == k
Carried(r, k) == k + Bit(r >= B^k)

MpzIor(s, res, u, v) ==
  LET op1 == Op1(s, u, v)   n1 == s.size[op1]   p1 == s.d[op1]
      op2 == Op2(s, u, v)   n2 == s.size[op2]   m2 == Abs(n2)
      plain(t) == Assign(t, res, IorN(Get(t, p1, n1), Get(t, t.d[op2], n2), n1), n1)
      mixed(t) ==
        LET b == Get(t, t.d[op2], m2) - 1
            n == m2 - Bit(High(b, m2 - 1) = 0)
            r == AndnN(b, Get(t, t.d[op1], n1), n)
            k == IF n1 >= n THEN Normalize(r, n) ELSE n
        IN  Assign(t, res, r + 1, -Carried(r + 1, k))
      both == AndN(Get(s, p1, -n1) - 1, Low(Get(s, s.d[op2], -n1) - 1, -n1), -n1)
      size == Normalize(both, -n1)
  IN  CASE n2 >= 0 -> {plain(t) : t \in Upwards(s, res, p1, n1)}
        [] n2 < 0 /\ n1 >= 0 -> {mixed(t) : t \in Grow(s, res, m2)}
        [] n1 < 0 -> {AssignNegative(t, res, both + 1, size) : t \in Grow(s, res, size + 1)}

MpzXor(s, res, u, v) ==
  LET op1 == Op1(s, u, v)   n1 == s.size[op1]   p1 == s.d[op1]
      op2 == Op2(s, u, v)   n2 == s.size[op2]   m2 == Abs(n2)
      n   == Larger(n1, m2)
      plain(t) == LET r == XorN(Get(t, p1, n1), Get(t, t.d[op2], n2), n1)
                  IN  Assign(t, res, r, Normalize(r, n1))
      mixed(t) ==
        LET r == XorN(Get(t, t.d[op1], n1), Get(t, t.d[op2], m2) - 1, n) + 1
        IN  SetSiz(Put(t, t.d[res], n + 1, r), res, -Normalize(r, n + 1))
      both == XorN(Get(s, p1, -n1) - 1, Get(s, s.d[op2], m2) - 1, m2)
  IN  CASE n2 >= 0 -> {plain(t) : t \in Upwards(s, res, p1, n1)}
        [] n2 < 0 /\ n1 >= 0 -> {mixed(t) : t \in Grow(s, res, n + 1)}
        [] n1 < 0 -> {Assign(t, res, both, Normalize(both, m2)) : t \in Grow(s, res, m2)}

MpzCom(s, dst, src) ==
  LET n == AbSiz(s, src)
      less(t) == LET r == Source(s, t, src, n) - 1
                 IN  Assign(t, dst, r, n - Bit(High(r, n - 1) = 0))
  IN  IF s.size[src] < 0 THEN {less(t) : t \in Grow(s, dst, n)}
      ELSE {AssignNegative(t, dst, Source(s, t, src, n) + 1, n) : t \in Grow(s, dst, n + 1)}

-----------------------------------------------------------------------------
(* One bit. v is the magnitude, m its limbs, i the limb of the bit. *)

LimbAt(v, i) == Low(High(v, i), 1)
WithLimb(v, i, l) == v + (l - LimbAt(v, i)) * B^i
ZeroLimbs(v) == CHOOSE z \in 0..IntMax : LimbAt(v, z) # 0 /\ Low(v, z) = 0

\* The limb that lost a bit is normalized away when it was the highest.
Shrunk(v, i, m) == IF LimbAt(v, i) = 0 /\ i + 1 = m THEN Normalize(v, i) ELSE m
\* A bit beyond the end: the limbs between are set to zero.
Beyond(s, d, v, bit, i, neg) ==
  {Assign(t, d, v + 2^bit, Signed(neg, i + 1)) : t \in Grow(s, d, i + 1)}

\* A slip: every limb is taken for the lowest that is not zero.
TwosAnywhere(v, i) == 1
\* What two's complement adds to the complement of limb i: 1 where all below are 0.
Twos(v, i) == IF Low(v, i) = 0 THEN 1 ELSE 0

MpzSetbit(s, d, bit) ==
  LET m == AbSiz(s, d)
      v == Get(s, s.d[d], m)
      i == bit \div W
      mask == 2^(bit % W)
      without == AndnN(v, 2^bit, m)
      lowest == WithLimb(v, i, AndnN(LimbAt(v, i) - 1, mask, 1) + 1)
      less == v - 2^bit
      negative(z) ==
        CASE i > z -> Assign(s, d, without, -Shrunk(without, i, m))
          [] i = z -> Assign(s, d, lowest, -m)
          [] i < z -> Assign(s, d, less, -(m - Bit(High(less, m - 1) = 0)))
  IN  IF s.size[d] >= 0
      THEN IF i < m THEN {Assign(s, d, IorN(v, 2^bit, m), m)} ELSE Beyond(s, d, v, bit, i, FALSE)
      ELSE {IF i < m THEN negative(ZeroLimbs(v)) ELSE s}

MpzClrbit(s, d, bit) ==
  LET m == AbSiz(s, d)
      v == Get(s, s.d[d], m)
      i == bit \div W
      mask == 2^(bit % W)
      without == AndnN(v, 2^bit, m)
      lowest == Low(IorN(LimbAt(v, i) - 1, mask, 1) + 1, 1)
      negative(z) ==
        CASE i > z -> {Assign(s, d, IorN(v, 2^bit, m), -m)}
          [] i = z /\ lowest # 0 -> {Assign(s, d, WithLimb(v, i, lowest), -m)}
          [] i = z /\ lowest = 0 ->
               {AssignNegative(t, d, WithLimb(v, i, 0) + B^(i + 1), m) : t \in Grow(s, d, m + 1)}
          [] i < z -> {s}
  IN  IF s.size[d] >= 0
      THEN {IF i < m THEN Assign(s, d, without, Shrunk(without, i, m)) ELSE s}
      ELSE IF i < m THEN negative(ZeroLimbs(v)) ELSE Beyond(s, d, v, bit, i, TRUE)

\* A slip: the bits below the one to toggle are looked at in its own limb only.
LowestHere(v, bit) == LimbAt(v, bit \div W) % 2^(bit % W) = 0
\* No bit below is set: the case in which toggling carries or borrows.
NoneBelow(v, bit) == Low(v, bit \div W) = 0 /\ LimbAt(v, bit \div W) % 2^(bit % W) = 0

MpzCombit(s, d, bit) ==
  LET m == AbSiz(s, d)
      v == Get(s, s.d[d], m)
      i == bit \div W
      neg == s.size[d] < 0
      less == v - 2^bit
      toggled == XorN(v, 2^bit, m)
      hairy == IF bit \in BitsIn(v, m)
               THEN {AssignNegative(t, d, v + 2^bit, m) : t \in Grow(s, d, m + 1)}
               ELSE {Assign(s, d, less, -(m - Bit(High(less, m - 1) = 0)))}
  IN  IF neg /\ i < m /\ NoneBelow(v, bit) THEN hairy
      ELSE IF i < m THEN {Assign(s, d, toggled, Signed(neg, Shrunk(toggled, i, m)))}
      ELSE Beyond(s, d, v, bit, i, neg)

-----------------------------------------------------------------------------
(* Functions that look at bits. Never stands for ~(mp_bitcnt_t) 0. *)

Never == -1
LowestOf(S, none) == IF S = {} THEN none ELSE Min(S)
From(v, m, bit) == {j \in BitsIn(v, m) : j >= bit}
ClearFrom(v, m, bit) == (bit..(m * W - 1)) \ BitsIn(v, m)

MpzTstbit(s, u, bit) ==
  LET i == bit \div W
      v == Get(s, s.d[u], AbSiz(s, u))
      limb == IF s.size[u] < 0 THEN Low(-LimbAt(v, i) - 1 + Twos(v, i), 1) ELSE LimbAt(v, i)
  IN  IF i >= AbSiz(s, u) THEN Bit(s.size[u] < 0) ELSE (limb \div 2^(bit % W)) % 2

MpzScan0(s, u, bit) ==
  LET m == AbSiz(s, u)
      i == bit \div W
      v == Get(s, s.d[u], m)
      seen == WithLimb(v, i, Low(LimbAt(v, i) - Twos(v, i), 1))
  IN  IF i >= m THEN IF s.size[u] >= 0 THEN bit ELSE Never
      ELSE IF s.size[u] >= 0 THEN LowestOf(ClearFrom(v, m, bit), m * W)
      ELSE LowestOf(From(seen, m, bit), Never)

MpzScan1(s, u, bit) ==
  LET m == AbSiz(s, u)
      i == bit \div W
      v == Get(s, s.d[u], m)
      seen == WithLimb(v, i, LimbAt(v, i) - Twos(v, i))
      nonzero == LowestOf(From(v, m, 0), Never)
  IN  CASE i >= m -> IF s.size[u] >= 0 THEN Never ELSE bit
        [] i < m /\ (bit = 0 \/ (s.size[u] < 0 /\ Low(v, i + 1) = 0)) -> nonzero
        [] OTHER -> IF s.size[u] >= 0 THEN LowestOf(From(v, m, bit), Never)
                    ELSE LowestOf(ClearFrom(seen, m, bit), m * W)

Popcount(v, n) == Cardinality(BitsIn(v, n))
MpzPopcount(s, u) ==
  IF s.size[u] < 0 THEN Never ELSE Popcount(Get(s, s.d[u], AbSiz(s, u)), AbSiz(s, u))

\* Both negative: u is the one with the lower nonzero limb, number k, where both
\* are complemented; if v is zero there its own lowest, number j, follows.
HamdistNegative(u, v, n) ==
  LET k == ZeroLimbs(u)
      j == ZeroLimbs(v)
      first == XorN(Low(-LimbAt(u, k), 1), Low(-LimbAt(v, k), 1), 1)
      skipped == Low(High(u, k + 1), j - k - 1)
      second == XorN(LimbAt(u, j), LimbAt(v, j) - 1, 1)
      rest == XorN(High(u, j + 1), High(v, j + 1), n)
  IN  Popcount(first, 1) + Popcount(rest, n)
        + IF j = k THEN 0
          ELSE (j - k - 1) * W - Popcount(skipped, n) + Popcount(second, 1)

MpzHamdist(s, u, v) ==
  LET a == Get(s, s.d[u], AbSiz(s, u))
      b == Get(s, s.d[v], AbSiz(s, v))
      n == Larger(AbSiz(s, u), AbSiz(s, v))
  IN  CASE (s.size[u] < 0) # (s.size[v] < 0) -> Never
        [] s.size[u] >= 0 /\ s.size[v] >= 0 -> Popcount(XorN(a, b, n), n)
        [] OTHER -> IF ZeroLimbs(a) <= ZeroLimbs(b) THEN HamdistNegative(a, b, n)
                    ELSE HamdistNegative(b, a, n)
=============================================================================
