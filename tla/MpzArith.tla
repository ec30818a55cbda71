------------------------------ MODULE MpzArith ------------------------------
(***************************************************************************)
(* The functions of mpz/ that initialise, assign, add and multiply, each   *)
(* an operator from the store it is called in to the set of stores it can  *)
(* return in. Any two of the arguments may be the same object: what is     *)
(* kept of the code is when a pointer or a size is read relative to the    *)
(* reallocation of the destination, which limbs are overwritten while they *)
(* are still needed, and how the size and the sign of the result are       *)
(* found. The mpn functions underneath are arithmetic on naturals.         *)
(***************************************************************************)
EXTENDS MpzStore

Limb == 0..(B - 1)                                  \* unsigned long
Long == (-(B \div 2))..((B \div 2) - 1)             \* signed long

\* |n| limbs of v are stored at x and x takes the sign of n.
Assign(s, x, v, n) == SetSiz(Put(s, s.d[x], Abs(n), v), x, n)

-----------------------------------------------------------------------------
(* Initialisation and assignment. *)

Born(s, x) == [s EXCEPT !.live = @ \cup {x}]

\* The limbs bits ask for: 1 + (bits - (bits != 0)) / GMP_NUMB_BITS.
BitsToLimbs(bits) == 1 + (bits - Bit(bits # 0)) \div W

MpzInit(s, x) ==
  {[Born(s, x) EXCEPT !.alloc[x] = 0, !.size[x] = 0, !.d[x] = Null]}

MpzInit2(s, x, bits) ==
  LET n == BitsToLimbs(bits)
  IN  IF TooLong(n) THEN {Exception(s, "overflow")}
      ELSE {[Allocate(Born(s, x), f, n) EXCEPT
               !.alloc[x] = n, !.size[x] = 0, !.d[x] = f] : f \in Fresh(s)}

MpzInitSet(s, w, u) ==
  LET n == Larger(AbSiz(s, u), 1)
      new(f) == [Allocate(Born(s, w), f, n) EXCEPT !.alloc[w] = n, !.d[w] = f]
  IN  {Assign(new(f), w, Get(s, s.d[u], AbSiz(s, u)), s.size[u]) :
         f \in Fresh(s)}

\* A slip: the block of an integer that is 0 is forgotten.
OwnsNonzero(s, x) == s.size[x] # 0
Owns(s, x) == s.alloc[x] # 0

\* The struct of a cleared integer is not read again: it is Unborn from then on.
MpzClear(s, x) ==
  LET t == IF Owns(s, x) THEN Free(s, s.d[x], s.alloc[x]) ELSE s
  IN  {[t EXCEPT !.live = @ \ {x},
                 !.alloc[x] = 0, !.size[x] = 0, !.d[x] = Null]}

MpzRealloc2(s, x, bits) == Resize(s, x, BitsToLimbs(bits))

MpzSet(s, w, u) ==
  {Assign(t, w, Source(s, t, u, AbSiz(t, u)), t.size[u]) :
     t \in Grow(s, w, AbSiz(s, u))}

\* A slip: without a temporary the second assignment sees the first.
CopiedField(field, u, v) == [field EXCEPT ![u] = field[v]]
SwappedField(field, u, v) == [field EXCEPT ![u] = field[v], ![v] = field[u]]
MpzSwap(s, u, v) ==
  {[s EXCEPT !.alloc = SwappedField(@, u, v), !.size = SwappedField(@, u, v),
             !.d = SwappedField(@, u, v)]}

\* mpz_neg and mpz_abs: size is the signed size of the result.
Resign(s, w, u, size) ==
  IF u = w THEN {[s EXCEPT !.size[w] = size]}
  ELSE {Assign(t, w, Source(s, t, u, AbSiz(t, u)), size) :
          t \in Grow(s, w, AbSiz(s, u))}
MpzNeg(s, w, u) == Resign(s, w, u, -s.size[u])
MpzAbs(s, w, u) == Resign(s, w, u, AbSiz(s, u))

MpzSetSi(s, w, n) ==
  {Assign(t, w, Abs(n), Signed(n < 0, Bit(n # 0))) : t \in Grow(s, w, 1)}

-----------------------------------------------------------------------------
(* Addition and subtraction. *)

\* aors.h: mpz_add, and mpz_sub when sub holds. The operand with more limbs
\* comes first: a of asize limbs, then b of bsize limbs.
MpzAors(s, w, u, v, sub) ==
  LET vsize == Signed(sub, s.size[v])
      swap  == AbSiz(s, u) < AbSiz(s, v)
      a     == IF swap THEN v ELSE u
      b     == IF swap THEN u ELSE v
      asize == IF swap THEN vsize ELSE s.size[u]
      bsize == IF swap THEN s.size[u] ELSE vsize
      n     == Abs(asize)
      add(t, av, bv) ==
        [Put(t, t.d[w], n + 1, av + bv) EXCEPT
           !.size[w] = Signed(asize < 0, n + Bit(av + bv >= B^n))]
      diff(t, av, bv) ==
        LET less == Abs(bsize) = n /\ av < bv
            r    == Low(IF less THEN bv - av ELSE av - bv, n)
        IN  [Put(t, t.d[w], n, r) EXCEPT
               !.size[w] = Signed((asize < 0) # less, Normalize(r, n))]
      \* PTR (u) and PTR (v) are read after the reallocation of w
      result(t) ==
        LET av == Source(s, t, a, n)
            bv == Source(s, t, b, Abs(bsize))
            r  == IF (asize < 0) = (bsize < 0) THEN add(t, av, bv)
                  ELSE diff(t, av, bv)
        IN  SetSiz(r, w, r.size[w])
  IN  {result(t) : t \in Grow(s, w, n + 1)}

MpzAdd(s, w, u, v) == MpzAors(s, w, u, v, FALSE)
MpzSub(s, w, u, v) == MpzAors(s, w, u, v, TRUE)

\* aors_ui.h: mpz_add_ui, and mpz_sub_ui when sub holds.
MpzAorsUi(s, w, u, vval, sub) ==
  LET usize == s.size[u]
      n == Abs(usize)
      away == IF sub THEN usize < 0 ELSE usize >= 0     \* |u| grows
      add(t) ==
        LET sum == Source(s, t, u, n) + vval
            wp  == Put(t, t.d[w], n + 1, sum)
        IN  SetSiz(wp, w, Signed(sub, n + Bit(sum >= B^n)))
      diff(t) ==
        LET up == Source(s, t, u, n)
            less == n = 1 /\ up < vval
            r == Low(IF less THEN vval - up ELSE up - vval, n)
            size == IF less THEN 1 ELSE n - Bit(High(r, n - 1) = 0)
        IN  SetSiz(Put(t, t.d[w], n, r), w, Signed(sub # ~less, size))
  IN  IF usize = 0
      THEN {SetSiz(Put(t, t.d[w], 1, vval), w, Signed(sub, Bit(vval # 0))) :
              t \in Grow(s, w, 1)}
      ELSE IF away THEN {add(t) : t \in Grow(s, w, n + 1)}
      ELSE {diff(t) : t \in Grow(s, w, n)}

MpzAddUi(s, w, u, n) == MpzAorsUi(s, w, u, n, FALSE)
MpzSubUi(s, w, u, n) == MpzAorsUi(s, w, u, n, TRUE)

MpzUiSub(s, w, uval, v) ==
  LET vn == s.size[v]
      n == Abs(vn)
      vp0 == IF vn = 0 THEN 0 ELSE Get(s, s.d[v], 1)    \* before the realloc
      many(t) ==
        LET r == Low(Source(s, t, v, n) - uval, n)
        IN  SetSiz(Put(t, t.d[w], n, r), w, -(n - Bit(High(r, n - 1) = 0)))
      one(t) ==
        SetSiz(Put(t, t.d[w], 1, Abs(uval - vp0)), w,
               IF uval >= vp0 THEN Bit(uval # vp0) ELSE -1)
      negative(t) ==
        LET sum == Source(s, t, v, n) + uval
        IN  SetSiz(Put(t, t.d[w], n + 1, sum), w, n + Bit(sum >= B^n))
  IN  IF vn > 1 THEN {many(t) : t \in Grow(s, w, n)}
      ELSE IF vn >= 0 THEN {one(t) : t \in Grow(s, w, 1)}
      ELSE {negative(t) : t \in Grow(s, w, n + 1)}

-----------------------------------------------------------------------------
(* Multiplication. *)

\* mpn_mul and mpn_sqr: u and v are the numbers of un and vn limbs at up and vp.
\* The product must not overlap an operand; when it does, the operand is
\* overwritten while it is still needed.
MpnMul(s, wp, up, un, vp, vn) ==
  LET operand(p, n) == IF p = wp THEN B^n - 1 ELSE Get(s, p, n)
  IN  operand(up, un) * operand(vp, vn)

\* w holds an operand. The slip looks at the first one only.
OverlapsFirst(s, w, a, b) == s.d[w] = s.d[a]
Overlaps(s, w, a, b) == s.d[w] = s.d[a] \/ s.d[w] = s.d[b]

\* The block w had before the call, kept while it holds an operand (free_me).
\* The slip loses it.
ForgetMe(s, w, overlap, t) == t
FreeMe(s, w, overlap, t) ==
  IF s.alloc[w] # 0 /\ overlap THEN Free(t, s.d[w], s.alloc[w]) ELSE t

\* mpz_mul with more than one limb in the shorter operand: a of an limbs and b
\* of bn <= an limbs.
MulMany(s, w, a, an, b, bn, neg) ==
  LET up == s.d[a]
      vp == s.d[b]
      wp == s.d[w]
      wsize == an + bn
      overlap == Overlaps(s, w, a, b)
      finish(t, p, product) ==
        LET r == Put(t, p, wsize, product)
        IN  SetSiz(r, w, Signed(neg, wsize - Bit(High(product, wsize - 1) = 0)))
      \* w gets a new block. Its old block is freed at once, or, when it still
      \* holds an operand, after the product is there.
      freed == IF s.alloc[w] # 0 /\ ~overlap THEN Free(s, wp, s.alloc[w]) ELSE s
      new(f) ==
        LET t == [Allocate(freed, f, wsize) EXCEPT
                    !.alloc[w] = ToInt(wsize), !.d[w] = f]
        IN  FreeMe(s, w, overlap, finish(t, f, MpnMul(t, f, up, an, vp, bn)))
      \* w has room, and the operand that is w is copied to TMP space.
      copied(f) ==
        LET n == IF wp = up THEN an ELSE bn
            t == Put(Allocate(s, f, n), f, n, Get(s, wp, n))
            apart(p) == IF p = wp THEN f ELSE p
        IN  Free(finish(t, wp, MpnMul(t, wp, apart(up), an, apart(vp), bn)), f, n)
  IN  CASE s.alloc[w] < wsize -> {new(f) : f \in Fresh(freed)}
        [] s.alloc[w] >= wsize /\ overlap -> {copied(f) : f \in Fresh(s)}
        [] OTHER -> {finish(s, wp, MpnMul(s, wp, up, an, vp, bn))}

\* |u| times one limb, into w, as mpz_mul, mpz_mul_ui and mpz_mul_si do it:
\* mpn_mul_1 may work in place. limb(t) is read after the reallocation of w.
MulLimb(s, w, u, neg, limb(_)) ==
  LET n == AbSiz(s, u)
      result(t) ==
        LET product == Source(s, t, u, n) * limb(t)
        IN  SetSiz(Put(t, t.d[w], n + 1, product), w,
                   Signed(neg, n + Bit(product >= B^n)))
  IN  {result(t) : t \in Grow(s, w, n + 1)}

MpzMul(s, w, u, v) ==
  LET swap == AbSiz(s, u) < AbSiz(s, v)
      a == IF swap THEN v ELSE u
      b == IF swap THEN u ELSE v
      an == AbSiz(s, a)
      bn == AbSiz(s, b)
      neg == (s.size[u] < 0) # (s.size[v] < 0)
      low(t) == Source(s, t, b, 1)
  IN  CASE bn = 0 -> {SetSiz(s, w, 0)}
        [] bn = 1 -> MulLimb(s, w, a, neg, low)
        [] OTHER  -> MulMany(s, w, a, an, b, bn, neg)

\* mpz_mul_ui and mpz_mul_si.
MpzMulSi(s, w, u, n) ==
  LET limb(t) == Abs(n)
  IN  IF s.size[u] = 0 \/ n = 0 THEN {SetSiz(s, w, 0)}
      ELSE MulLimb(s, w, u, (s.size[u] < 0) # (n < 0), limb)

\* The quotient of cnt by GMP_NUMB_BITS moves whole limbs, the rest is a shift.
MpzMul2Exp(s, r, u, cnt) ==
  LET un == AbSiz(s, u)
      rn == un + cnt \div W
      result(t) ==
        LET shifted == Source(s, t, u, un) * 2^cnt
        IN  SetSiz(Put(t, t.d[r], rn + 1, shifted), r,
                   Signed(t.size[u] < 0, rn + Bit(shifted >= B^rn)))
  IN  IF un = 0 THEN {SetSiz(s, r, 0)}
      ELSE {result(t) : t \in Grow(s, r, rn + 1)}

-----------------------------------------------------------------------------
(* w += x * y and w -= x * y. The sign of w is kept, unless a subtraction of *)
(* absolute values underflows.                                             *)

\* mpn_submul_1 gave w - x*y on min(wsize, xsize) limbs and a borrow cy. What
\* follows is on the limbs of t at w: wsize of them from w, xsize from x.
\* x has no more limbs than w: negate when there was a borrow out of w.
SubmulShort(wv, wsize, xv, y) ==
  LET r  == wv - xv * y
      cy == -High(r, wsize)
      lo == Low(r, wsize)
  IN  IF cy = 0 THEN [limbs |-> lo, n |-> wsize, flip |-> FALSE]
      ELSE LET neg == Low(-lo, wsize)
               top == cy - Bit(lo # 0)                    \* cy -= mpn_neg
           IN  [limbs |-> neg + top * B^wsize,
                n |-> wsize + Bit(top # 0), flip |-> TRUE]

\* x has more limbs than w: two's complement of the low part, mpn_mul_1 for the
\* high part, and a borrow that is held back while cy would be -1.
SubmulBorrow(wv, wsize, xv, y) == -High(wv - Low(xv, wsize) * y, wsize)
NeverHeld(cy) == 0                                       \* a slip
Held(cy) == Bit(cy = B - 1)
SubmulLong(wv, wsize, xv, xsize, y) ==
  LET lo   == Low(wv - Low(xv, wsize) * y, wsize)
      cy   == (SubmulBorrow(wv, wsize, xv, y) - Bit(lo # 0)) % B   \* cy -= mpn_neg
      held == Held(cy)
      hi   == High(xv, wsize) * y + ((cy + held) % B)
      n    == xsize + Bit(hi >= B^(xsize - wsize))
  IN  [limbs |-> Low(-lo, wsize) + (hi - held) * B^wsize, n |-> n, flip |-> TRUE]

\* mpz_aorsmul_1: w += x * y, or w -= x * y when sub holds, y a single limb.
MpzAorsmul1(s, w, x, y, sub) ==
  LET xsize == AbSiz(s, x)
      wsize == AbSiz(s, w)
      n == Larger(wsize, xsize)
      minus == (sub # (s.size[x] < 0)) # (s.size[w] < 0)
      limb(t) == y
      add(t, wv, xv) ==
        LET sum == wv + xv * y
        IN  SetSiz(Put(t, t.d[w], n + 1, sum), w,
                   Signed(s.size[w] < 0, n + Bit(sum >= B^n)))
      subtract(t, wv, xv) ==
        LET r == IF wsize >= xsize THEN SubmulShort(wv, wsize, xv, y)
                 ELSE SubmulLong(wv, wsize, xv, xsize, y)
        IN  SetSiz(Put(t, t.d[w], n + 1, r.limbs), w,
                   Signed((s.size[w] < 0) # r.flip, Normalize(r.limbs, r.n)))
      result(t) ==
        LET wv == Source(s, t, w, wsize)
            xv == Source(s, t, x, xsize)
        IN  IF minus THEN subtract(t, wv, xv) ELSE add(t, wv, xv)
  IN  CASE xsize = 0 \/ y = 0 -> {s}
        [] xsize # 0 /\ y # 0 /\ wsize = 0 ->
             MulLimb(s, w, x, sub # (s.size[x] < 0), limb)
        [] OTHER -> {result(t) : t \in Grow(s, w, n + 1)}

\* mpz_aorsmul: a and b are x and y, the one with more limbs first.
MpzAorsmul(s, w, x, y, sub) ==
  LET swap == AbSiz(s, y) > AbSiz(s, x)
      a == IF swap THEN y ELSE x
      b == IF swap THEN x ELSE y
      an == AbSiz(s, a)
      bn == AbSiz(s, b)
      wsize == AbSiz(s, w)
      neg == (sub # (s.size[a] < 0)) # (s.size[b] < 0)
      minus == neg # (s.size[w] < 0)
      room == Larger(wsize, an + bn) + 1
      short(product) == an + bn - Bit(High(product, an + bn - 1) = 0)
      \* w was 0: the product goes straight to w.
      fresh(t) ==
        LET product == MpnMul(t, t.d[w], t.d[a], an, t.d[b], bn)
        IN  SetSiz(Put(t, t.d[w], an + bn, product), w, Signed(neg, short(product)))
      \* The product is in TMP space tp; wp and tp are added, or the smaller
      \* is subtracted from the larger.
      combine(t) ==
        LET tv == MpnMul(t, Null, t.d[a], an, t.d[b], bn)
            tsize == short(tv)
            wv == Source(s, t, w, wsize)
            n == Larger(wsize, tsize)
            less == wsize < tsize \/ (wsize = tsize /\ wv < tv)
            diff == IF less THEN tv - wv ELSE wv - tv
        IN  IF minus
            THEN SetSiz(Put(t, t.d[w], n, diff), w,
                        Signed((s.size[w] < 0) # less, Normalize(diff, n)))
            ELSE SetSiz(Put(t, t.d[w], n + 1, wv + tv), w,
                        Signed(s.size[w] < 0, n + Bit(wv + tv >= B^n)))
  IN  CASE an = 0 \/ bn = 0 -> {s}
        [] an # 0 /\ bn = 1 ->
             MpzAorsmul1(s, w, a, Get(s, s.d[b], 1), sub # (s.size[b] < 0))
        [] OTHER -> {IF wsize = 0 THEN fresh(t) ELSE combine(t) :
                       t \in Grow(s, w, room)}

MpzAddmul(s, w, x, y) == MpzAorsmul(s, w, x, y, FALSE)
MpzSubmul(s, w, x, y) == MpzAorsmul(s, w, x, y, TRUE)
MpzAddmulUi(s, w, x, n) == MpzAorsmul1(s, w, x, n, FALSE)
MpzSubmulUi(s, w, x, n) == MpzAorsmul1(s, w, x, n, TRUE)

-----------------------------------------------------------------------------
(* Comparison and conversion. They look at sizes before limbs. p[0] of an    *)
(* integer without a block is read but not used: the dummy limb is there for *)
(* that.                                                                     *)

SgnOf(n) == Bit(n > 0) - Bit(n < 0)

MpzCmpabs(s, u, v) ==
  LET n == AbSiz(s, u)
  IN  IF n # AbSiz(s, v) THEN SgnOf(n - AbSiz(s, v))
      ELSE SgnOf(Get(s, s.d[u], n) - Get(s, s.d[v], n))

\* A slip: the limbs of two negative integers compare the other way round.
CmpLimbs(s, u, v) == MpzCmpabs(s, u, v)
CmpSigned(s, u, v) ==
  IF s.size[u] >= 0 THEN MpzCmpabs(s, u, v) ELSE -MpzCmpabs(s, u, v)
MpzCmp(s, u, v) ==
  IF s.size[u] # s.size[v] THEN SgnOf(s.size[u] - s.size[v]) ELSE CmpSigned(s, u, v)

MpzCmpSi(s, u, n) ==
  LET usize == s.size[u]
      limb == Get(s, s.d[u], 1)
  IN  IF usize = 0 \/ usize # SgnOf(n) THEN usize - SgnOf(n)
      ELSE usize * SgnOf(limb - Abs(n))

MpzCmpUi(s, u, n) ==
  LET usize == s.size[u]
  IN  CASE usize = 0 -> -Bit(n # 0)
        [] usize = 1 -> SgnOf(Get(s, s.d[u], 1) - n)
        [] OTHER -> SgnOf(usize)

\* mpz_fits_slong_p.
MpzFitsSlong(s, z) ==
  LET n == s.size[z]
      limb == Get(s, s.d[z], 1)
  IN  CASE n = 0 -> TRUE
        [] n = 1 -> limb <= (B \div 2) - 1
        [] n = -1 -> limb <= B \div 2
        [] OTHER -> FALSE

\* The low bits of a negative integer, so that LONG_MIN comes out right. The slip
\* takes the bits first and negates them.
NegatedBits(limb) == -(limb % (B \div 2))
NegativeLong(limb) == -1 - ((limb - 1) % (B \div 2))
MpzGetSi(s, z) ==
  LET limb == Get(s, s.d[z], 1)
  IN  CASE s.size[z] > 0 -> limb % (B \div 2)
        [] s.size[z] < 0 -> NegativeLong(limb)
        [] OTHER -> 0

MpzGetUi(s, z) == IF s.size[z] # 0 THEN Get(s, s.d[z], 1) ELSE 0
=============================================================================
