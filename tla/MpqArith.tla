------------------------------ MODULE MpqArith ------------------------------
(***************************************************************************)
(* The functions of mpq/. A rational is two mpz structs, numerator and     *)
(* denominator, and its functions are sequences of mpz calls on them and   *)
(* on temporaries of TMP space. Any of the rationals may be the same: what *)
(* is kept is the order in which the fields of the result are overwritten, *)
(* the room the temporaries are given and the sizes and signs.             *)
(***************************************************************************)
EXTENDS MpzDiv
LOCAL INSTANCE FiniteSetsExt
LOCAL INSTANCE TLC

Num(x) == <<x, "num">>
Den(x) == <<x, "den">>

\* The mpz_t the functions declare; div.c and mul.c call theirs gcd1, gcd2.
Gcd1 == <<Tmp, "gcd1">>
Gcd2 == <<Tmp, "gcd2">>
Tmp1 == <<Tmp, "tmp1">>
Tmp2 == <<Tmp, "tmp2">>
TmpT == <<Tmp, "t">>

EqualOne(s, x) == s.size[x] = 1 /\ Get(s, s.d[x], 1) = 1
SetOne(s, x) == {Assign(t, x, 1, 1) : t \in Grow(s, x, 1)}
ZeroOver(s, x) == SetOne(SetSiz(s, Num(x), 0), Den(x))

\* Limbs and size of u are copied to w, for which there may be too little room.
Copy(s, w, u, size) ==
  {Assign(t, w, Source(s, t, u, Abs(size)), size) : t \in Grow(s, w, Abs(size))}

-----------------------------------------------------------------------------
(* TMP space. Each temporary has the block of its own name there, which the  *)
(* heap never gives out: it is Idle while no MPZ_TMP_INIT asks for it.       *)

TmpSpace == {Gcd1, Gcd2, Tmp1, Tmp2, TmpT}
Idle == -1

ASSUME TmpSpaceAssumption == TmpSpace \subseteq Block /\ TmpSpace \subseteq Var

\* MPZ_TMP_INIT (x, n).
TmpStruct(s, x, n) ==
  [Allocate(s, x, n) EXCEPT !.alloc[x] = n, !.size[x] = 0, !.d[x] = x]

\* TMP_FREE of x. Had the mpz functions reallocated it, they would have freed a
\* block that is not of the heap.
TmpStructFree(s, x, n) ==
  [s EXCEPT !.len[x] = Idle, !.limbs[x] = 0, !.alloc[x] = 0, !.size[x] = 0, !.d[x] = Null,
            !.fault = @ \/ s.d[x] # x \/ s.alloc[x] # n]

\* body runs with temporaries that have room[x] limbs each.
WithTmp(s, room, body(_)) ==
  LET given == FoldSet(LAMBDA x, t : TmpStruct(t, x, room[x]), s, DOMAIN room)
      back(t) == FoldSet(LAMBDA x, u : TmpStructFree(u, x, room[x]), t, DOMAIN room)
  IN  Then(body(given), LAMBDA t : {back(t)})

-----------------------------------------------------------------------------
(* Addition, subtraction, multiplication and division.                       *)

\* The limbs of the t of mpq_aors. The slip forgets the carry of the sum.
RoomWithoutSum(cross, g) == cross + 1 - g
RoomOfT(cross, g) == cross + 2 - g

MpqAors(s, rop, op1, op2, sub) ==
  LET n1 == AbSiz(s, Num(op1))
      d1 == s.size[Den(op1)]
      n2 == AbSiz(s, Num(op2))
      d2 == s.size[Den(op2)]
      room == (Gcd1 :> Smaller(d1, d2)) @@ (Tmp1 :> n1 + d2) @@ (Tmp2 :> n2 + d1)
      coprime(t) ==
        Then(Then(Then(MpzMul(t, Tmp1, Num(op1), Den(op2)),
          LAMBDA u : MpzMul(u, Tmp2, Num(op2), Den(op1))),
          LAMBDA u : MpzAors(u, Num(rop), Tmp1, Tmp2, sub)),
          LAMBDA u : MpzMul(u, Den(rop), Den(op1), Den(op2)))
      \* t is the sum over lcm (d1, d2), which gcd (t, gcd) still divides
      reduced(t) ==
        IF EqualOne(t, Gcd1)
        THEN Then(MpzSet(t, Num(rop), TmpT),
               LAMBDA u : MpzMul(u, Den(rop), Den(op2), Tmp2))
        ELSE Then(Then(MpzDivexactGcd(t, Num(rop), TmpT, Gcd1),
               LAMBDA u : MpzDivexactGcd(u, Tmp1, Den(op2), Gcd1)),
               LAMBDA u : MpzMul(u, Den(rop), Tmp1, Tmp2))
      shared(t) ==
        Then(Then(Then(Then(Then(Then(MpzDivexactGcd(t, TmpT, Den(op2), Gcd1),
          LAMBDA u : MpzDivexactGcd(u, Tmp2, Den(op1), Gcd1)),
          LAMBDA u : MpzMul(u, Tmp1, Num(op1), TmpT)),
          LAMBDA u : MpzMul(u, TmpT, Num(op2), Tmp2)),
          LAMBDA u : MpzAors(u, TmpT, Tmp1, TmpT, sub)),
          LAMBDA u : MpzGcd(u, Gcd1, TmpT, Gcd1)),
          reduced)
      sum(t) ==
        IF EqualOne(t, Gcd1) THEN coprime(t)
        ELSE WithTmp(t, TmpT :> RoomOfT(Larger(n1 + d2, n2 + d1), t.size[Gcd1]), shared)
  IN  WithTmp(s, room, LAMBDA t : Then(MpzGcd(t, Gcd1, Den(op1), Den(op2)), sum))

MpqAdd(s, rop, op1, op2) == MpqAors(s, rop, op1, op2, FALSE)
MpqSub(s, rop, op1, op2) == MpqAors(s, rop, op1, op2, TRUE)

\* res = (a * c) / (b * d), where gcd (a, b) and gcd (c, d) are divided out first:
\* the numerator of res is overwritten when a and c are not needed any more.
CrossReduced(s, res, a, b, c, d) ==
  LET room == (Gcd1 :> Smaller(AbSiz(s, a), AbSiz(s, b)))
                @@ (Tmp1 :> Larger(AbSiz(s, a), AbSiz(s, b)))
                @@ (Gcd2 :> Smaller(AbSiz(s, c), AbSiz(s, d)))
                @@ (Tmp2 :> Larger(AbSiz(s, c), AbSiz(s, d)))
      run(t) ==
        Then(Then(Then(Then(Then(Then(Then(MpzGcd(t, Gcd1, a, b),
          LAMBDA u : MpzGcd(u, Gcd2, c, d)),
          LAMBDA u : MpzDivexactGcd(u, Tmp1, a, Gcd1)),
          LAMBDA u : MpzDivexactGcd(u, Tmp2, c, Gcd2)),
          LAMBDA u : MpzMul(u, Num(res), Tmp1, Tmp2)),
          LAMBDA u : MpzDivexactGcd(u, Tmp1, b, Gcd1)),
          LAMBDA u : MpzDivexactGcd(u, Tmp2, d, Gcd2)),
          LAMBDA u : MpzMul(u, Den(res), Tmp1, Tmp2))
  IN  WithTmp(s, room, run)

\* The sign goes to the numerator. The slip leaves it where it is.
SignLeft(s, x) == s
Positive(s, x) ==
  IF s.size[Den(x)] < 0 THEN [s EXCEPT !.size[Den(x)] = -@, !.size[Num(x)] = -@] ELSE s

MpqMul(s, prod, op1, op2) ==
  CASE op1 = op2 ->
         Then(MpzMul(s, Num(prod), Num(op1), Num(op1)),
           LAMBDA t : MpzMul(t, Den(prod), Den(op1), Den(op1)))
    [] op1 # op2 /\ 0 \in {s.size[Num(op1)], s.size[Num(op2)]} -> ZeroOver(s, prod)
    [] OTHER -> CrossReduced(s, prod, Num(op1), Den(op2), Num(op2), Den(op1))

\* MPN_PTR_SWAP of the limbs of numerator and denominator.
SwapParts(s, x) ==
  [s EXCEPT !.alloc = SwappedField(@, Num(x), Den(x)), !.d = SwappedField(@, Num(x), Den(x))]

MpqDiv(s, quot, op1, op2) ==
  LET n2 == s.size[Num(op2)]
      d2 == s.size[Den(op2)]
      one == Then(SetOne(s, Num(quot)), LAMBDA t : SetOne(t, Den(quot)))
      \* x = y / x as x = inv (x) * y
      inverted == [SwapParts(s, quot) EXCEPT
                     !.size[Num(quot)] = Signed(n2 < 0, d2), !.size[Den(quot)] = Abs(n2)]
  IN  CASE n2 = 0 -> DivideByZero(s)
        [] n2 # 0 /\ quot = op2 /\ op1 = op2 -> one
        [] n2 # 0 /\ quot = op2 /\ op1 # op2 -> MpqMul(inverted, quot, quot, op1)
        [] n2 # 0 /\ quot # op2 /\ s.size[Num(op1)] = 0 -> ZeroOver(s, quot)
        [] OTHER -> Then(CrossReduced(s, quot, Num(op1), Num(op2), Den(op2), Den(op1)),
                      LAMBDA t : {Positive(t, quot)})

MpqInv(s, dest, src) ==
  LET n == s.size[Num(src)]
      d == Signed(n < 0, s.size[Den(src)])
      sized == [s EXCEPT !.size[Den(dest)] = Abs(n), !.size[Num(dest)] = d]
  IN  CASE n = 0 -> DivideByZero(s)
        [] n # 0 /\ dest = src -> {SwapParts(sized, dest)}
        [] OTHER -> Then(Copy(sized, Num(dest), Den(src), d),
                      LAMBDA t : Copy(t, Den(dest), Num(src), Abs(n)))

MpqCanonicalize(s, op) ==
  LET t == Positive(s, op)
      divided(u) ==
        IF EqualOne(u, Gcd1) THEN {u}
        ELSE Then(MpzDivexactGcd(u, Num(op), Num(op), Gcd1),
               LAMBDA v : MpzDivexactGcd(v, Den(op), Den(op), Gcd1))
      room == Gcd1 :> 1 + Larger(AbSiz(t, Num(op)), t.size[Den(op)])
  IN  IF s.size[Den(op)] = 0 THEN DivideByZero(s)
      ELSE WithTmp(t, room, LAMBDA u : Then(MpzGcd(u, Gcd1, Num(op), Den(op)), divided))

-----------------------------------------------------------------------------
(* Life cycle, assignment, shifts, conversion and comparison. A comparison with a
   denominator of 0 is left out. *)

(* Life cycle and assignment. *)

MpqInit(s, x) ==
  {[Put(Allocate(s, f, 1), f, 1, 1) EXCEPT
      !.live = @ \cup {Num(x), Den(x)},
      !.alloc[Num(x)] = 0, !.size[Num(x)] = 0, !.d[Num(x)] = Null,
      !.alloc[Den(x)] = 1, !.size[Den(x)] = 1, !.d[Den(x)] = f] : f \in Fresh(s)}

MpqClear(s, x) == Then(MpzClear(s, Num(x)), LAMBDA t : MpzClear(t, Den(x)))

MpqSet(s, dest, src) ==
  Then(Copy(s, Num(dest), Num(src), s.size[Num(src)]),
    LAMBDA t : Copy(t, Den(dest), Den(src), t.size[Den(src)]))
MpqSetZ(s, dest, z) ==
  Then(Copy(s, Num(dest), z, s.size[z]), LAMBDA t : SetOne(t, Den(dest)))
MpqSetNum(s, dest, z) == Copy(s, Num(dest), z, s.size[z])
MpqSetDen(s, dest, z) == Copy(s, Den(dest), z, s.size[z])
MpqGetNum(s, z, src) == Copy(s, z, Num(src), s.size[Num(src)])
MpqGetDen(s, z, src) == Copy(s, z, Den(src), s.size[Den(src)])

\* mpq_set_si and mpq_set_ui: a word n over a word d, with 0 over 1 for n = 0.
MpqSetWords(s, dest, n, d) ==
  LET den(t) == {Assign(u, Den(dest), d, Bit(d # 0)) : u \in Grow(t, Den(dest), 1)}
      num == {Assign(t, Num(dest), Abs(n), SgnOf(n)) : t \in Grow(s, Num(dest), 1)}
  IN  IF n = 0 THEN ZeroOver(s, dest) ELSE Then(num, den)

MpqSwap(s, u, v) ==
  Then(MpzSwap(s, Num(u), Num(v)), LAMBDA t : MpzSwap(t, Den(u), Den(v)))

\* mpq_neg and mpq_abs: size is the signed size of the result's numerator.
MpqResign(s, dst, src, size) ==
  IF src = dst THEN {[s EXCEPT !.size[Num(dst)] = size]}
  ELSE Then(Copy(s, Num(dst), Num(src), size),
         LAMBDA t : Copy(t, Den(dst), Den(src), t.size[Den(src)]))
MpqNeg(s, dst, src) == MpqResign(s, dst, src, -s.size[Num(src)])
MpqAbs(s, dst, src) == MpqResign(s, dst, src, AbSiz(s, Num(src)))

\* The float with the limbs m and sign of size, times B^(exp - size).
MpqSetF(s, q, f) ==
  LET strip == TrailingZeros(f.m) \div W                  \* low zero limbs
      n == Abs(f.size) - strip
      m == High(f.m, strip)
      shift == TrailingZeros(m % B)
      num(t, v, k) == Assign(t, Num(q), v, Signed(f.size < 0, k))
      whole == Then({num(t, m * B^(f.exp - n), f.exp) : t \in Grow(s, Num(q), f.exp)},
                 LAMBDA t : SetOne(t, Den(q)))
      dn == n - f.exp
      \* the denominator B^dn or, with shift bits of it taken out, one limb less
      over(t) ==
        IF shift = 0 THEN Assign(num(t, m, n), Den(q), B^dn, dn + 1)
        ELSE Assign(num(t, m \div 2^shift, QSize(m \div 2^shift, n)),
                    Den(q), B^(dn - 1) * 2^(W - shift), dn)
  IN  CASE f.size = 0 -> ZeroOver(s, q)
        [] f.size # 0 /\ f.exp >= n -> whole
        [] OTHER -> {over(t) : t \in UNION {Grow(u, Den(q), dn + 1) :
                                             u \in Grow(s, Num(q), n)}}

-----------------------------------------------------------------------------
(* Multiplication and division by 2^n.                                       *)

\* The bits the lowest limb of v can be shifted down by.
ZeroBits(v, n) == IF v % B = 0 THEN n ELSE Smaller(TrailingZeros(v % B), n)

\* mord_2exp: rdst gets rsrc shifted down as far as it is even, up to n bits, and
\* ldst gets lsrc shifted up by the rest. p points into rsrc as it was before the
\* reallocation of rdst.
Mord2Exp(s, ldst, rdst, lsrc, rsrc, n) ==
  LET size == s.size[rsrc]
      skip == Smaller(TrailingZeros(Get(s, s.d[rsrc], Abs(size))) \div W, n \div W)
      len == Abs(size) - skip
      p(t) == High(Get(t, s.d[rsrc], Abs(size)), skip)
      left == n - skip * W
      odd == p(s) % 2 = 1 \/ left = 0
      shift == IF odd THEN 0 ELSE ZeroBits(p(s), left)
      right(t) ==
        LET r == p(t) \div 2^shift
            k == IF odd THEN len ELSE QSize(r, len)
        IN  SetSiz(Put(t, t.d[rdst], len, r), rdst, Signed(size < 0, k))
      up(t) == CASE left # shift -> MpzMul2Exp(t, ldst, lsrc, left - shift)
                 [] left = shift /\ ldst # lsrc -> MpzSet(t, ldst, lsrc)
                 [] OTHER -> {t}
  IN  Then({right(t) : t \in Grow(s, rdst, len)}, up)

MpqMul2Exp(s, dst, src, n) == Mord2Exp(s, Num(dst), Den(dst), Num(src), Den(src), n)
MpqDiv2Exp(s, dst, src, n) ==
  IF s.size[Num(src)] = 0 THEN ZeroOver(s, dst)
  ELSE Mord2Exp(s, Den(dst), Num(dst), Den(src), Num(src), n)

-----------------------------------------------------------------------------
(* Comparison. The sizes decide, then the numbers of bits, and only then are *)
(* the fractions multiplied out.                                             *)

\* The sizes and limbs of two mpz as a fraction.
Parts(s, n, d) == [nsize |-> s.size[n], n |-> Get(s, s.d[n], AbSiz(s, n)),
                   dsize |-> s.size[d], d |-> Get(s, s.d[d], s.size[d])]
FracOf(s, x) == Parts(s, Num(x), Den(x))
OverOne(s, z) == [nsize |-> s.size[z], n |-> Get(s, s.d[z], AbSiz(s, z)), dsize |-> 1, d |-> 1]

BitLength(v) == CHOOSE k \in 1..v : v >= 2^(k - 1) /\ v < 2^k
IsWhole(a) == a.dsize = 1 /\ a.d = 1

\* n1 * d2 is below n2 * d1 for any limbs of these sizes (or these numbers of bits);
\* the product with a denominator that is 1 is one shorter. The slip counts that
\* always.
SurelyBelowAny(size1, size2, whole2) == size2 > size1
SurelyBelow(size1, size2, whole2) == size2 + Bit(whole2) > size1 + 1

\* mpq_cmp_numden: both are fractions with positive denominators.
CmpNumDen(a, b) ==
  LET sign == SgnOf(a.nsize)
      n1 == Abs(a.nsize)
      n2 == Abs(b.nsize)
      size1 == n1 + b.dsize
      size2 == n2 + a.dsize
      bits1 == BitLength(a.n) + BitLength(b.d)
      bits2 == BitLength(b.n) + BitLength(a.d)
      \* op2 is an integer: NUM (op1) is compared as it is
      left == IF IsWhole(b) THEN n1 ELSE QSize(a.n * b.d, size1)
      right == QSize(b.n * a.d, size2)
      cross == IF left # right THEN SgnOf(left - right) ELSE SgnOf(a.n * b.d - b.n * a.d)
  IN  CASE a.nsize = 0 -> SgnOf(-b.nsize)
        [] a.nsize # 0 /\ b.nsize = 0 -> sign
        [] a.nsize * b.nsize < 0 -> sign
        [] a.nsize * b.nsize > 0 /\ IsWhole(a) /\ IsWhole(b) ->
             IF a.nsize # b.nsize THEN SgnOf(a.nsize - b.nsize) ELSE sign * SgnOf(a.n - b.n)
        [] OTHER ->
             CASE size1 > size2 + 1 -> sign
               [] size1 <= size2 + 1 /\ SurelyBelow(size1, size2, IsWhole(b)) -> -sign
               [] OTHER ->
                    CASE bits1 > bits2 + 1 -> sign
                      [] bits1 <= bits2 + 1 /\ SurelyBelow(bits1, bits2, IsWhole(b)) -> -sign
                      [] OTHER -> sign * cross

MpqCmp(s, x, y) == CmpNumDen(FracOf(s, x), FracOf(s, y))
MpqCmpZ(s, x, z) == CmpNumDen(FracOf(s, x), OverOne(s, z))

\* _mpq_cmp_ui: a against the words n over d # 0.
CmpUi(a, n, d) ==
  LET size1 == a.nsize + Bit(a.n * d >= B^a.nsize)
      size2 == a.dsize + Bit(a.d * n >= B^a.dsize)
  IN  CASE n = 0 -> SgnOf(a.nsize)
        [] n # 0 /\ a.nsize <= 0 -> -1
        [] n # 0 /\ a.nsize > a.dsize + Bit(n > d) -> 1
        [] n # 0 /\ a.nsize > 0 /\ a.dsize > a.nsize + Bit(d > n) -> -1
        [] OTHER -> IF size1 # size2 THEN SgnOf(size1 - size2) ELSE SgnOf(a.n * d - a.d * n)
MpqCmpUi(s, x, n, d) == CmpUi(FracOf(s, x), n, d)

\* A negative fraction is compared by its absolute value.
MpqCmpSi(s, x, n, d) ==
  LET a == FracOf(s, x)
  IN  CASE n >= 0 -> CmpUi(a, n, d)
        [] n < 0 /\ a.nsize >= 0 -> 1
        [] OTHER -> -CmpUi([a EXCEPT !.nsize = -@], -n, d)

MpqEqual(s, x, y) == FracOf(s, x) = FracOf(s, y)
=============================================================================
