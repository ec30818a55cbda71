------------------------------- MODULE MpzDiv -------------------------------
(***************************************************************************)
(* The division functions of mpz/, and mpz_gcd and the exact divisions,    *)
(* which the rationals are reduced with. The quotient, the remainder and   *)
(* both operands may be the same objects in every way but one: quotient    *)
(* and remainder are different variables. An mpn division destroys an      *)
(* operand that overlaps a result, so the code copies such an operand to   *)
(* temporary space first, and the functions that round need the divisor    *)
(* after mpz_tdiv_qr has assigned the results.                             *)
(***************************************************************************)
EXTENDS MpzArith
LOCAL INSTANCE FiniteSetsExt

\* What comes next is called in every store of T, unless the process is over.
Then(T, F(_)) == UNION {IF t.status = "run" THEN F(t) ELSE {t} : t \in T}

DivideByZero(s) == {Exception(s, "div0")}

\* The limbs at p, where p is not one of the results an mpn function writes.
Operand(s, p, n, results) == IF p \in results THEN B^n - 1 ELSE Get(s, p, n)

\* Slips: the operand is used where it is, the copy is never freed.
NoCopy(s, p, n, results) == {[store |-> s, p |-> p]}
TmpKeep(s, p, old, n) == s

\* n limbs at p are copied to TMP space when p is one of the results.
TmpCopy(s, p, n, results) ==
  IF p \notin results THEN {[store |-> s, p |-> p]}
  ELSE {[store |-> Put(Allocate(s, f, n), f, n, Get(s, p, n)), p |-> f] :
          f \in Fresh(s)}
TmpFree(s, p, old, n) == IF p = old THEN s ELSE Free(s, p, n)

\* MPZ_TMP_INIT (Tmp, n) and the TMP_FREE that ends it.
TmpInit(s, n) ==
  {[Allocate(s, f, n) EXCEPT !.alloc[Tmp] = n, !.d[Tmp] = f,
                             !.live = @ \cup {Tmp}] : f \in Fresh(s)}
\* A slip: MPZ_TMP_INIT without TMP_FREE.
TmpLeft(s) ==
  [s EXCEPT !.alloc[Tmp] = 0, !.size[Tmp] = 0, !.d[Tmp] = Null, !.live = @ \ {Tmp}]
TmpGone(s) ==
  [(IF s.alloc[Tmp] = 0 THEN s ELSE Free(s, s.d[Tmp], s.alloc[Tmp])) EXCEPT
     !.alloc[Tmp] = 0, !.size[Tmp] = 0, !.d[Tmp] = Null, !.live = @ \ {Tmp}]

-----------------------------------------------------------------------------
(* Division that rounds the quotient towards zero. *)

\* The size of a quotient computed in n limbs, the highest of which may be zero.
QSizeFull(q, n) == n                                                 \* a slip
QSize(q, n) == n - Bit(High(q, n - 1) = 0)

MpzTdivQr(s, quot, rem, num, den) ==
  LET ns == s.size[num]
      nl == Abs(ns)
      dl == AbSiz(s, den)
      ql == nl - dl + 1
      neg == (ns < 0) # (s.size[den] < 0)
      small(t) ==                       \* rem first: quot may be num
        LET r == IF num = rem THEN t
                 ELSE Assign(t, rem, Source(s, t, num, nl), t.size[num])
        IN  {SetSiz(r, quot, 0)}
      divide(rp, t) ==
        LET qp == t.d[quot]
            np == t.d[num]
            dp == t.d[den]
            results == {qp, rp}
            \* mpn_tdiv_qr, with the operands at n and d
            finish(t2, n, d) ==
              LET nv == Operand(t2, n, nl, results)
                  dv == Operand(t2, d, dl, results)
                  q == nv \div dv
                  r == Put(Put(t2, qp, ql, q), rp, dl, nv % dv)
                  rq == SetSiz(r, quot, Signed(neg, QSize(q, ql)))
              IN  SetSiz(rq, rem, Signed(ns < 0, Normalize(nv % dv, dl)))
        IN  UNION {{TmpFree(TmpFree(finish(c.store, c.p, e.p), c.p, np, nl),
                            e.p, dp, dl) :
                      c \in TmpCopy(e.store, np, nl, results)} :
                     e \in TmpCopy(t, dp, dl, results)}
      grown(t) == LET into(t2) == divide(t.d[rem], t2)
                  IN  Then(Grow(t, quot, ql), into)
  IN  CASE dl = 0 -> DivideByZero(s)
        [] dl # 0 /\ ql <= 0 -> Then(Grow(s, rem, dl), small)
        [] OTHER -> Then(Grow(s, rem, dl), grown)

\* The quotient goes to TMP space of its own.
MpzTdivR(s, rem, num, den) ==
  LET ns == s.size[num]
      nl == Abs(ns)
      dl == AbSiz(s, den)
      \* SIZ (rem) is set before rem has room
      sized == [s EXCEPT !.size[rem] = ns]
      copy(t) == {Assign(t, rem, Source(s, t, num, nl), ns)}
      divide(t) ==
        LET rp == t.d[rem]
            np == t.d[num]
            dp == t.d[den]
            finish(t2, n, d) ==
              LET r == Operand(t2, n, nl, {rp}) % Operand(t2, d, dl, {rp})
              IN  SetSiz(Put(t2, rp, dl, r), rem, Signed(ns < 0, Normalize(r, dl)))
        IN  UNION {{TmpFree(TmpFree(finish(c.store, c.p, e.p), c.p, np, nl),
                            e.p, dp, dl) :
                      c \in TmpCopy(e.store, np, nl, {rp})} :
                     e \in TmpCopy(t, dp, dl, {rp})}
  IN  CASE dl = 0 -> DivideByZero(s)
        [] dl # 0 /\ nl < dl -> IF num = rem THEN {s} ELSE Then(Grow(sized, rem, nl), copy)
        [] OTHER -> Then(Grow(s, rem, dl), divide)

\* The dividend is copied into the scratch space mpn_div_q needs anyway.
MpzTdivQ(s, quot, num, den) ==
  LET ns == s.size[num]
      nl == Abs(ns)
      dl == AbSiz(s, den)
      ql == nl - dl + 1
      neg == (ns < 0) # (s.size[den] < 0)
      divide(t) ==
        LET qp == t.d[quot]
            np == t.d[num]
            dp == t.d[den]
            scratch(t2, f) ==
              LET t3 == Allocate(t2, f, nl + 1)
              IN  IF np = qp THEN Put(t3, f, nl, Get(t3, np, nl)) ELSE t3
            finish(t2, n, d) ==
              LET q == Operand(t2, n, nl, {qp}) \div Operand(t2, d, dl, {qp})
              IN  SetSiz(Put(t2, qp, ql, q), quot,
                         Signed(neg, QSize(q, ql)))
        IN  UNION {{TmpFree(Free(finish(scratch(e.store, f),
                                        IF np = qp THEN f ELSE np, e.p), f, nl + 1),
                            e.p, dp, dl) :
                      f \in Fresh(e.store)} :
                     e \in TmpCopy(t, dp, dl, {qp})}
  IN  CASE dl = 0 -> DivideByZero(s)
        [] dl # 0 /\ ql <= 0 -> {SetSiz(s, quot, 0)}
        [] OTHER -> Then(Grow(s, quot, ql), divide)

-----------------------------------------------------------------------------
(* Division that rounds down (up = FALSE) or up. The truncated results are   *)
(* corrected when the remainder is not zero and its sign is the wrong one.   *)

SameWay(s, num, den, up) == up = ((s.size[num] < 0) # (s.size[den] < 0))   \* a slip
Away(s, num, den, up) == up # ((s.size[num] < 0) # (s.size[den] < 0))

\* The divisor is kept in Tmp when it is one of the results.
KeepDivisor(s, den, results) ==
  LET set(t) == MpzSet(t, Tmp, den)
  IN  IF den \in results THEN Then(TmpInit(s, AbSiz(s, den)), set) ELSE {s}
NotKept(den, results) == den                                         \* a slip
Kept(den, results) == IF den \in results THEN Tmp ELSE den

\* mpz_fdiv_qr and mpz_cdiv_qr.
FixQr(s, quot, rem, num, den, up) ==
  LET d == Kept(den, {quot, rem})
      truncate(t) == MpzTdivQr(t, quot, rem, num, d)
      fixQ(t) == IF up THEN MpzAddUi(t, quot, quot, 1) ELSE MpzSubUi(t, quot, quot, 1)
      fixR(t) == MpzAors(t, rem, rem, d, up)
      correct(t) == IF Away(s, num, den, up) /\ t.size[rem] # 0
                    THEN Then(fixQ(t), fixR) ELSE {t}
      end(t) == {TmpGone(t)}
  IN  Then(Then(Then(KeepDivisor(s, den, {quot, rem}), truncate), correct), end)
MpzFdivQr(s, quot, rem, num, den) == FixQr(s, quot, rem, num, den, FALSE)
MpzCdivQr(s, quot, rem, num, den) == FixQr(s, quot, rem, num, den, TRUE)

\* mpz_fdiv_q and mpz_cdiv_q: the remainder is Tmp.
FixQ(s, quot, num, den, up) ==
  LET truncate(t) == MpzTdivQr(t, quot, Tmp, num, den)
      correct(t) == IF ~(Away(s, num, den, up) /\ t.size[Tmp] # 0) THEN {t}
                    ELSE IF up THEN MpzAddUi(t, quot, quot, 1)
                    ELSE MpzSubUi(t, quot, quot, 1)
      end(t) == {TmpGone(t)}
  IN  Then(Then(Then(TmpInit(s, AbSiz(s, den)), truncate), correct), end)
MpzFdivQ(s, quot, num, den) == FixQ(s, quot, num, den, FALSE)
MpzCdivQ(s, quot, num, den) == FixQ(s, quot, num, den, TRUE)

\* mpz_fdiv_r and mpz_cdiv_r: the sign of the dividend is read after rem, which
\* may be the dividend, has been assigned.
FixR(s, rem, num, den, up) ==
  LET d == Kept(den, {rem})
      truncate(t) == MpzTdivR(t, rem, num, d)
      wrong(t) == up # ((s.size[den] < 0) # (t.size[num] < 0))
      correct(t) == IF wrong(t) /\ t.size[rem] # 0 THEN MpzAors(t, rem, rem, d, up)
                    ELSE {t}
      end(t) == {TmpGone(t)}
  IN  Then(Then(Then(KeepDivisor(s, den, {rem}), truncate), correct), end)
MpzFdivR(s, rem, num, den) == FixR(s, rem, num, den, FALSE)
MpzCdivR(s, rem, num, den) == FixR(s, rem, num, den, TRUE)

\* mpz_mod: Tmp is |divisor|, a copy of its limbs when rem is the divisor and
\* the divisor's own limbs when not. It never owns them: _mp_alloc stays unset.
MpzMod(s, rem, num, den) ==
  LET bn == AbSiz(s, den)
      truncate(t) == MpzTdivR(t, rem, num, Tmp)
      correct(t) == IF t.size[rem] < 0 THEN MpzAdd(t, rem, rem, Tmp) ELSE {t}
      point(t, p) == [t EXCEPT !.size[Tmp] = bn, !.d[Tmp] = p]
      drop(t) == [t EXCEPT !.size[Tmp] = 0, !.d[Tmp] = Null]
      run(t) == Then(Then({t}, truncate), correct)
      copied(f) == LET t == Put(Allocate(s, f, bn), f, bn, Get(s, s.d[den], bn))
                       end(t2) == {drop(Free(t2, f, bn))}
                   IN  Then(run(point(t, f)), end)
      shared == LET end(t) == {drop(t)} IN Then(run(point(s, s.d[den])), end)
  IN  IF rem = den THEN UNION {copied(f) : f \in Fresh(s)} ELSE shared

-----------------------------------------------------------------------------
(* Division by one limb d. away says whether a nonzero remainder moves the   *)
(* quotient away from zero: never in mpz_tdiv_*, when the dividend is        *)
(* negative in mpz_fdiv_*, when it is not in mpz_cdiv_*.                     *)

Modes == {"t", "f", "c"}
AwayUi(mode, n) == CASE mode = "t" -> FALSE
                     [] mode = "f" -> n < 0
                     [] mode = "c" -> n >= 0
RemNeg(mode, n) == CASE mode = "t" -> n < 0
                     [] mode = "f" -> FALSE
                     [] mode = "c" -> TRUE

\* |quotient| and |remainder| of the integer of size n and absolute value nv.
Divrem1(mode, n, nv, d) ==
  LET fix == AwayUi(mode, n) /\ nv % d # 0
  IN  [q |-> (nv \div d) + Bit(fix), r |-> IF fix THEN d - (nv % d) ELSE nv % d]

\* A slip: rem is taken to have a limb already.
StoreRemUnallocated(s, rem, r, neg) ==
  IF r = 0 THEN {SetSiz(s, rem, 0)} ELSE {Assign(s, rem, r, Signed(neg, 1))}
StoreRem(s, rem, r, neg) ==
  IF r = 0 THEN {SetSiz(s, rem, 0)}
  ELSE {Assign(t, rem, r, Signed(neg, 1)) : t \in Grow(s, rem, 1)}

\* mpz_tdiv_q_ui, mpz_fdiv_q_ui, mpz_cdiv_q_ui.
MpzDivQUi(s, mode, quot, num, d) ==
  LET ns == s.size[num]
      nn == Abs(ns)
      result(t) ==
        LET q == Divrem1(mode, ns, Source(s, t, num, nn), d).q
        IN  Assign(t, quot, q, Signed(ns < 0, QSize(q, nn)))
  IN  CASE d = 0 -> DivideByZero(s)
        [] d # 0 /\ ns = 0 -> {SetSiz(s, quot, 0)}
        [] OTHER -> {result(t) : t \in Grow(s, quot, nn)}

\* mpz_tdiv_qr_ui, mpz_fdiv_qr_ui, mpz_cdiv_qr_ui: the limbs of the quotient,
\* then the remainder, then the size of the quotient.
MpzDivQrUi(s, mode, quot, rem, num, d) ==
  LET ns == s.size[num]
      nn == Abs(ns)
      result(t) ==
        LET qr == Divrem1(mode, ns, Source(s, t, num, nn), d)
            size == Signed(ns < 0, QSize(qr.q, nn))
        IN  {SetSiz(t2, quot, size) :
               t2 \in StoreRem(Put(t, t.d[quot], nn, qr.q), rem, qr.r,
                               RemNeg(mode, ns))}
  IN  CASE d = 0 -> DivideByZero(s)
        [] d # 0 /\ ns = 0 -> {SetSiz(SetSiz(s, quot, 0), rem, 0)}
        [] OTHER -> Then(Grow(s, quot, nn), result)

\* mpz_tdiv_r_ui, mpz_fdiv_r_ui, mpz_cdiv_r_ui.
MpzDivRUi(s, mode, rem, num, d) ==
  LET ns == s.size[num]
      nv == Get(s, s.d[num], Abs(ns))
  IN  CASE d = 0 -> DivideByZero(s)
        [] d # 0 /\ ns = 0 -> {SetSiz(s, rem, 0)}
        [] OTHER -> StoreRem(s, rem, Divrem1(mode, ns, nv, d).r, RemNeg(mode, ns))

-----------------------------------------------------------------------------
(* Division by 2^cnt: cnt \div W whole limbs are dropped, the rest shifted.  *)

MpzTdivQ2Exp(s, r, u, cnt) ==
  LET un == AbSiz(s, u)
      rn == un - cnt \div W
      result(t) ==
        LET q == Source(s, t, u, un) \div 2^cnt
        IN  Assign(t, r, q, Signed(s.size[u] < 0,
                                   rn - Bit(cnt % W # 0 /\ High(q, rn - 1) = 0)))
  IN  IF rn <= 0 THEN {SetSiz(s, r, 0)}
      ELSE {result(t) : t \in Grow(s, r, rn)}

MpzTdivR2Exp(s, res, in, cnt) ==
  LET n == AbSiz(s, in)
      lc == cnt \div W
      v == Get(s, s.d[in], n)
      x == High(v, lc) % 2^(cnt % W)               \* the partial limb
      size == CASE n <= lc -> n
                [] n > lc /\ x # 0 -> lc + 1
                [] OTHER -> Normalize(Low(v, lc), lc)
      \* with x = 0 the limbs of res are made room for before in is normalized
      room == IF n > lc /\ x # 0 THEN lc + 1 ELSE size
      r == IF n > lc THEN v % 2^cnt ELSE v
  IN  {Assign(t, res, r, Signed(t.size[in] < 0, size)) : t \in Grow(s, res, room)}

\* Rounding can carry into one limb more. The slip makes no room for it.
NoCarryRoom(n) == n
CarryRoom(n) == n + 1

\* mpz_cdiv_q_2exp (up) and mpz_fdiv_q_2exp.
CfdivQ2Exp(s, w, u, cnt, up) ==
  LET usize == s.size[u]
      n == Abs(usize)
      wsize == n - cnt \div W
      away == (usize < 0) = ~up                \* usize ^ dir >= 0
      one == IF usize = 0 \/ ~away THEN 0 ELSE IF up THEN 1 ELSE -1
      result(t) ==
        LET v == Source(s, t, u, n)
            q == v \div 2^cnt
            k == wsize - Bit(cnt % W # 0 /\ High(q, wsize - 1) = 0)
            round == away /\ v % 2^cnt # 0
            size == CASE ~round -> k
                      [] round /\ k = 0 -> 1
                      [] OTHER -> k + Bit(q + 1 >= B^k)
            written == IF round THEN k + 1 ELSE wsize
        IN  SetSiz(Put(t, t.d[w], written, q + Bit(round)), w,
                   Signed(usize < 0, size))
  IN  IF wsize <= 0
      THEN {SetSiz(Put(t, t.d[w], 1, 1), w, one) : t \in Grow(s, w, 1)}
      ELSE {result(t) : t \in Grow(s, w, CarryRoom(wsize))}
MpzCdivQ2Exp(s, w, u, cnt) == CfdivQ2Exp(s, w, u, cnt, TRUE)
MpzFdivQ2Exp(s, w, u, cnt) == CfdivQ2Exp(s, w, u, cnt, FALSE)

\* mpz_cdiv_r_2exp (up) and mpz_fdiv_r_2exp: truncate, or negate modulo 2^cnt.
CfdivR2Exp(s, w, u, cnt, up) ==
  LET usize == s.size[u]
      n == Abs(usize)
      lc == cnt \div W
      trunc == (usize < 0) = up                \* usize ^ dir < 0
      nonzero == n <= lc \/ Get(s, s.d[u], n) % 2^cnt # 0
      strip(t, r, neg) ==
        SetSiz(Put(t, t.d[w], lc + 1, r), w, Signed(neg, Normalize(r, lc + 1)))
      truncated(t) ==
        IF n <= lc THEN IF w = u THEN t
                        ELSE Assign(t, w, Source(s, t, u, n), usize)
        ELSE strip(t, Source(s, t, u, n) % 2^cnt, usize < 0)
      negated(t) == strip(t, (-Source(s, t, u, n)) % 2^cnt, usize >= 0)
  IN  CASE usize = 0 -> {SetSiz(s, w, 0)}
        [] usize # 0 /\ trunc ->
             {truncated(t) : t \in IF w = u THEN {s} ELSE Grow(s, w, Smaller(n, lc + 1))}
        [] usize # 0 /\ ~trunc /\ nonzero -> {negated(t) : t \in Grow(s, w, lc + 1)}
        [] OTHER -> {SetSiz(s, w, 0)}
MpzCdivR2Exp(s, w, u, cnt) == CfdivR2Exp(s, w, u, cnt, TRUE)
MpzFdivR2Exp(s, w, u, cnt) == CfdivR2Exp(s, w, u, cnt, FALSE)

-----------------------------------------------------------------------------
(* gcd and exact division. The copies mpz_gcd makes of its operands, and   *)
(* the quotient mpz_divexact computes beside its destination, are plain    *)
(* numbers.                                                                *)


\* mpn_gcd and mpn_gcd_1, by their result: the steps of Lehmer's algorithm are left out.
MpnGcd(a, b) == Max({d \in 1..Smaller(a, b) : a % d = 0 /\ b % d = 0})

\* count_trailing_zeros, by its result: v is not 0.
TrailingZeros(v) == CHOOSE i \in 0..v : v % 2^i = 0 /\ v % 2^(i + 1) # 0

\* The limbs a shift by bits < GMP_NUMB_BITS adds to the n at v. The slip counts
\* one for every shift.
LimbForShift(v, n, bits) == Bit(bits # 0)
ShiftedOut(v, n, bits) == Bit(bits # 0 /\ High(v * 2^bits, n) # 0)

MpzGcd(s, g, u, v) ==
  LET un == AbSiz(s, u)
      vn == AbSiz(s, v)
      \* up and vp are read before g is reallocated
      uv(t) == Get(t, s.d[u], un)
      vv(t) == Get(t, s.d[v], vn)
      sized(n) == [s EXCEPT !.size[g] = n]
      copy(x, n) == IF g = x THEN {SetSiz(s, g, n)}
                    ELSE {Assign(t, g, Get(t, s.d[x], n), n) : t \in Grow(sized(n), g, n)}
      one == {Assign(t, g, MpnGcd(uv(t), vv(t)), 1) : t \in Grow(sized(1), g, 1)}
      \* the common power of two is taken out limb by limb and put back
      many ==
        LET uzero == TrailingZeros(uv(s))
            vzero == TrailingZeros(vv(s))
            odd   == MpnGcd(uv(s) \div 2^uzero, vv(s) \div 2^vzero)
            n     == Normalize(odd, Smaller(un, vn))
            limbs == Smaller(uzero \div W, vzero \div W)
            bits  == CASE uzero \div W > vzero \div W -> vzero % W
                       [] uzero \div W < vzero \div W -> uzero % W
                       [] OTHER -> Smaller(uzero % W, vzero % W)
            gsize == n + limbs + ShiftedOut(odd, n, bits)
        IN  {Assign(t, g, odd * 2^bits * B^limbs, gsize) : t \in Grow(s, g, gsize)}
  IN  CASE un = 0 -> copy(v, vn)
        [] un # 0 /\ vn = 0 -> copy(u, un)
        [] un # 0 /\ vn # 0 /\ (un = 1 \/ vn = 1) -> one
        [] OTHER -> many

-----------------------------------------------------------------------------
(* Division known to be exact. *)

\* mpz_divexact_by3, mpz_divexact_by5 and mpz_divexact_limb.
DivexactLimb(s, q, a, d) ==
  LET size == s.size[a]
      n == Abs(size)
      result(t) == LET r == Source(s, t, a, n) \div d
                   IN  SetSiz(Put(t, t.d[q], n, r), q, Signed(size < 0, QSize(r, n)))
  IN  {result(t) : t \in Grow(s, q, n)}

\* A quotient that overlaps an operand is computed beside it and copied.
MpzDivexact(s, quot, num, den) ==
  LET nn == AbSiz(s, num)
      dn == AbSiz(s, den)
      qn == nn - dn + 1
      neg == (s.size[num] < 0) # (s.size[den] < 0)
      q(t) == Source(s, t, num, nn) \div Source(s, t, den, dn)
      size(v) == Signed(neg, Normalize(v, qn))
      direct(t) == SetSiz(Put(t, t.d[quot], qn, q(t)), quot, size(q(t)))
      beside == {Assign(t, quot, q(s), size(q(s))) :
                   t \in Grow(s, quot, Normalize(q(s), qn))}
  IN  CASE nn < dn -> {SetSiz(s, quot, 0)}
        [] nn >= dn /\ quot \in {num, den} -> beside
        [] OTHER -> {direct(t) : t \in Grow(s, quot, qn)}

\* q = a / d for a d > 0 that is usually small: a power of two is shifted out
\* first, into q, and what is left divided by the odd part of one limb.
MpzDivexactGcd(s, q, a, d) ==
  LET dl == Get(s, s.d[d], 1)
      twos == TrailingZeros(dl)
      odd == dl \div 2^twos
      by(t, x) == CASE odd # 1 -> DivexactLimb(t, q, x, odd)
                    [] odd = 1 /\ q # x -> MpzSet(t, q, x)
                    [] OTHER -> {t}
  IN  CASE s.size[a] = 0 -> {SetSiz(s, q, 0)}
        [] s.size[a] # 0 /\ s.size[d] = 1 ->
             IF twos = 0 THEN by(s, a)
             ELSE Then(MpzTdivQ2Exp(s, q, a, twos), LAMBDA t : by(t, q))
        [] OTHER -> MpzDivexact(s, q, a, d)
=============================================================================
