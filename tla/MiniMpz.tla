------------------------------- MODULE MiniMpz -------------------------------
(***************************************************************************)
(* The mpz functions of mini-gmp, each an operator from the store it is    *)
(* called in to the store it returns in. They are made of one another: a   *)
(* call is a tuple of the function's name and its arguments, and a body is *)
(* mostly a sequence of calls. Results are built in integers of the        *)
(* function's own and swapped into the destination, which may be an        *)
(* operand; the functions that write to the destination directly read      *)
(* their operands after its reallocation. A local integer is a struct of   *)
(* its C name, with the function's in front where two would meet.          *)
(*                                                                         *)
(* A reallocation moves the block: then a pointer read before it is stale. *)
(* gmp_die ends the program; the functions are called only where they do   *)
(* not reach it. The mpn functions underneath are arithmetic on naturals.  *)
(***************************************************************************)
EXTENDS MpzClient, Sequences

RECURSIVE Calls(_, _), Do(_, _)
Calls(s, calls) == IF calls = <<>> THEN s ELSE Calls(Do(s, Head(calls)), Tail(calls))
If(p, call) == IF p THEN <<call>> ELSE <<>>        \* a call made if p

NewBlock(s) == CHOOSE b \in Fresh(s) : TRUE
Mag(s, x) == Get(s, s.d[x], AbSiz(s, x))
\* The number of zeros below the lowest 1.
Zeros(v) == CHOOSE z \in 0..(IntMax * W) : v % 2^z = 0 /\ v % 2^(z + 1) # 0

mpz_init(s, r) == [s EXCEPT !.alloc[r] = 0, !.size[r] = 0, !.d[r] = Null]

\* mpz_init2, by limbs.
mpz_init2(s, r, rn) ==
  LET f == NewBlock(s)
  IN  [Allocate(s, f, rn) EXCEPT !.alloc[r] = rn, !.size[r] = 0, !.d[r] = f]

mpz_clear(s, r) ==
  mpz_init(IF s.alloc[r] # 0 THEN Free(s, s.d[r], s.alloc[r]) ELSE s, r)

mpz_realloc(s, r, size) ==
  LET n == Larger(size, 1)
      f == NewBlock(s)
      t == IF s.alloc[r] # 0 THEN Reallocate(s, s.d[r], s.alloc[r], n, f) ELSE Allocate(s, f, n)
  IN  [t EXCEPT !.alloc[r] = n, !.d[r] = f, !.size[r] = IF Abs(@) > n THEN 0 ELSE @]

MPZ_REALLOC(s, r, n) == Calls(s, If(n > s.alloc[r], <<"mpz_realloc", r, n>>))

mpz_set_ui(s, r, x) ==
  IF x > 0 THEN Assign(MPZ_REALLOC([s EXCEPT !.size[r] = 1], r, 1), r, x, 1) ELSE SetSiz(s, r, 0)
mpz_set_si(s, r, x) ==
  IF x >= 0 THEN mpz_set_ui(s, r, x)
  ELSE Assign(MPZ_REALLOC([s EXCEPT !.size[r] = -1], r, 1), r, -x, -1)
mpz_init_set_ui(s, r, x) == Calls(s, <<<<"mpz_init", r>>, <<"mpz_set_ui", r, x>>>>)

mpz_set(s, r, x) ==
  LET t == MPZ_REALLOC(s, r, AbSiz(s, x))
  IN  IF r = x THEN s ELSE Assign(t, r, Mag(t, x), t.size[x])
mpz_abs(s, r, u) == [Do(s, <<"mpz_set", r, u>>) EXCEPT !.size[r] = Abs(@)]
mpz_neg(s, r, u) == [Do(s, <<"mpz_set", r, u>>) EXCEPT !.size[r] = -@]
mpz_swap(s, u, v) ==
  [s EXCEPT !.alloc = SwappedField(@, u, v), !.size = SwappedField(@, u, v),
            !.d = SwappedField(@, u, v)]

-----------------------------------------------------------------------------
(* Addition and multiplication. *)

\* The limbs of the result are in r, and n of them, negative when b is the larger one.
mpz_abs_add(s, r, a, b) ==
  LET an == Larger(AbSiz(s, a), AbSiz(s, b))
      t == MPZ_REALLOC(s, r, an + 1)
      sum == Mag(t, a) + Mag(t, b)
  IN  [s |-> Put(t, t.d[r], an + 1, sum), n |-> an + Bit(sum >= B^an)]
mpz_abs_sub(s, r, a, b) ==
  LET more == Mag(s, a) > Mag(s, b)
      n == AbSiz(s, IF more THEN a ELSE b)
      t == MPZ_REALLOC(s, r, n)
      rest == Abs(Mag(t, a) - Mag(t, b))
  IN  IF Mag(s, a) = Mag(s, b) THEN [s |-> s, n |-> 0]
      ELSE [s |-> Put(t, t.d[r], n, rest), n |-> Signed(~more, Normalize(rest, n))]

SameSign(s, a, b) == (s.size[a] < 0) = (s.size[b] < 0)
\* r->_mp_size is assigned by the sign of a, which is read now. A slip reads that of b.
SignOfB(s, r, a, b, n) == SetSiz(s, r, Signed(s.size[b] < 0, n))
SignOf(s, r, a, b, n) == SetSiz(s, r, Signed(s.size[a] < 0, n))
mpz_add(s, r, a, b) ==
  LET w == IF SameSign(s, a, b) THEN mpz_abs_add(s, r, a, b) ELSE mpz_abs_sub(s, r, a, b)
  IN  SignOf(w.s, r, a, b, w.n)
mpz_sub(s, r, a, b) ==
  LET w == IF SameSign(s, a, b) THEN mpz_abs_sub(s, r, a, b) ELSE mpz_abs_add(s, r, a, b)
  IN  SignOf(w.s, r, a, b, w.n)

mpz_add_ui(s, r, a, b) ==
  Calls(s, <<<<"mpz_init_set_ui", "bb", b>>, <<"mpz_add", r, a, "bb">>, <<"mpz_clear", "bb">>>>)
mpz_ui_sub(s, r, a, b) == Calls(s, <<<<"mpz_neg", r, b>>, <<"mpz_add_ui", r, r, a>>>>)
mpz_sub_ui(s, r, a, b) == Calls(s, <<<<"mpz_ui_sub", r, b, a>>, <<"mpz_neg", r, r>>>>)

\* The product is made in new space and swapped into r, which may be an operand.
mpz_mul(s, r, u, v) ==
  LET un == AbSiz(s, u)
      vn == AbSiz(s, v)
      t == Do(s, <<"mpz_init2", "mul.t", un + vn>>)
      product == Mag(t, u) * Mag(t, v)
      rn == un + vn - Bit(High(product, un + vn - 1) = 0)
      done == SetSiz(Put(t, t.d["mul.t"], un + vn, product), "mul.t", Signed(~SameSign(s, u, v), rn))
  IN  IF un = 0 \/ vn = 0 THEN SetSiz(s, r, 0)
      ELSE Calls(done, <<<<"mpz_swap", r, "mul.t">>, <<"mpz_clear", "mul.t">>>>)

mpz_mul_ui(s, r, u, v) ==
  Calls(s, <<<<"mpz_init_set_ui", "vv", v>>, <<"mpz_mul", r, u, "vv">>, <<"mpz_clear", "vv">>>>)
mpz_mul_si(s, r, u, v) ==
  Calls(s, <<<<"mpz_mul_ui", r, u, Abs(v)>>>> \o If(v < 0, <<"mpz_neg", r, r>>))

\* r plus or minus u v: t is the product, made before r changes.
Product(u, v) == <<<<"mpz_init", "t">>, <<"mpz_mul", "t", u, v>>>>
ProductUi(u, v) == <<<<"mpz_init_set_ui", "t", v>>, <<"mpz_mul", "t", u, "t">>>>
To(f, r) == <<<<f, r, r, "t">>, <<"mpz_clear", "t">>>>
mpz_addmul(s, r, u, v) == Calls(s, Product(u, v) \o To("mpz_add", r))
mpz_submul(s, r, u, v) == Calls(s, Product(u, v) \o To("mpz_sub", r))
mpz_addmul_ui(s, r, u, v) == Calls(s, ProductUi(u, v) \o To("mpz_add", r))
mpz_submul_ui(s, r, u, v) == Calls(s, ProductUi(u, v) \o To("mpz_sub", r))

mpz_mul_2exp(s, r, u, bits) ==
  LET un == AbSiz(s, u)
      rn == un + bits \div W + Bit(bits % W > 0)
      t == MPZ_REALLOC(s, r, rn)
      v == Mag(t, u) * 2^bits
      size == rn - Bit(bits % W > 0 /\ High(v, rn - 1) = 0)
  IN  IF un = 0 THEN SetSiz(s, r, 0)
      ELSE SetSiz(Put(t, t.d[r], rn, v), r, Signed(t.size[u] < 0, size))

-----------------------------------------------------------------------------
(* Division. mode is "f", "c" or "t"; the quotient q or the remainder r can be NULL. *)

\* The remainder is stored in r before the quotient in q, or both at the end. A slip
\* stores the quotient first.
QuotientFirst(remainder, quotient) == quotient \o remainder
RemainderFirst(remainder, quotient) == remainder \o quotient

\* |n| has fewer limbs than |d|: the quotient is 0, 1 or -1.
DivSmall(s, q, r, n, d, mode) ==
  LET up == mode = "c" /\ SameSign(s, n, d)
      down == mode = "f" /\ ~SameSign(s, n, d)
      rest == IF up THEN <<"mpz_sub", r, n, d>>
              ELSE IF down THEN <<"mpz_add", r, n, d>> ELSE <<"mpz_set", r, n>>
  IN  Calls(s, RemainderFirst(If(r # Null, rest),
                              If(q # Null, <<"mpz_set_si", q, Bit(up) - Bit(down)>>)))

\* The qn limbs of the quotient go to tq, if that is asked, and the remainder takes the
\* place of the dividend in tr. The limbs of tr above its size keep what was there:
\* mpz_gcd reads the lowest of a remainder 0.
Divided(s, wanted, d, qn, neg, negRest) ==
  LET nv == Mag(s, "tr")
      dv == Mag(s, d)
      dn == AbSiz(s, d)
      rn == Normalize(nv % dv, dn)
      rest == [Put(s, s.d["tr"], dn, nv % dv) EXCEPT !.size["tr"] = Signed(negRest, rn)]
      used == qn - Bit(High(nv \div dv, qn - 1) = 0)
  IN  IF wanted THEN SetSiz(Put(rest, rest.d["tq"], qn, nv \div dv), "tq", Signed(neg, used))
      ELSE rest
\* And both are rounded and swapped into q and r.
Rounded(t, q, r, d, mode, neg) ==
  LET down == mode = "f" /\ neg /\ t.size["tr"] # 0
      up == mode = "c" /\ ~neg /\ t.size["tr"] # 0
  IN  Calls(t, If(down /\ q # Null, <<"mpz_sub_ui", "tq", "tq", 1>>)
                 \o If(down /\ r # Null, <<"mpz_add", "tr", "tr", d>>)
                 \o If(up /\ q # Null, <<"mpz_add_ui", "tq", "tq", 1>>)
                 \o If(up /\ r # Null, <<"mpz_sub", "tr", "tr", d>>)
                 \o If(q # Null, <<"mpz_swap", "tq", q>>) \o If(q # Null, <<"mpz_clear", "tq">>)
                 \o If(r # Null, <<"mpz_swap", "tr", r>>) \o <<<<"mpz_clear", "tr">>>>)
DivLarge(s, q, r, n, d, mode) ==
  LET qn == AbSiz(s, n) - AbSiz(s, d) + 1
      neg == ~SameSign(s, n, d)
      room == Calls(s, <<<<"mpz_init", "tr">>, <<"mpz_set", "tr", n>>>>
                         \o If(q # Null, <<"mpz_init2", "tq", qn>>))
  IN  Rounded(Divided(room, q # Null, d, qn, neg, s.size[n] < 0), q, r, d, mode, neg)

mpz_div_qr(s, q, r, n, d, mode) ==
  CASE s.size[n] = 0 ->
         Calls(s, If(q # Null, <<"mpz_set_ui", q, 0>>) \o If(r # Null, <<"mpz_set_ui", r, 0>>))
    [] s.size[n] # 0 /\ AbSiz(s, n) < AbSiz(s, d) -> DivSmall(s, q, r, n, d, mode)
    [] OTHER -> DivLarge(s, q, r, n, d, mode)

mpz_mod(s, r, n, d) == Do(s, <<"mpz_div_qr", Null, r, n, d, IF s.size[d] >= 0 THEN "f" ELSE "c">>)
mpz_tdiv_q(s, q, n, d) == Do(s, <<"mpz_div_qr", q, Null, n, d, "t">>)
mpz_tdiv_r(s, r, n, d) == Do(s, <<"mpz_div_qr", Null, r, n, d, "t">>)

\* The remainder by a machine word is in rr: swapped into r, or only its limb returned.
DivUiLocal(s, q, n, d, mode) ==
  Calls(s, <<<<"mpz_init", "rr">>, <<"mpz_init_set_ui", "dd", d>>,
             <<"mpz_div_qr", q, "rr", n, "dd", mode>>, <<"mpz_clear", "dd">>>>)
mpz_div_qr_ui(s, q, r, n, d, mode) ==
  Calls(DivUiLocal(s, q, n, d, mode),
        If(r # Null, <<"mpz_swap", r, "rr">>) \o <<<<"mpz_clear", "rr">>>>)

\* Rounding away from zero: up for u > 0, down for u < 0.
FromZero(s, u, mode) == mode = IF s.size[u] > 0 THEN "c" ELSE "f"

mpz_div_q_2exp(s, q, u, bits, mode) ==
  LET un == AbSiz(s, u)
      qn == un - bits \div W
      adjust == FromZero(s, u, mode) /\ (qn <= 0 \/ Mag(s, u) % 2^bits # 0)
      t == MPZ_REALLOC(s, q, qn)
      v == Mag(t, u) \div 2^bits
      shifted == IF qn <= 0 THEN SetSiz(s, q, 0)
                 ELSE SetSiz(Put(t, t.d[q], qn, v), q, qn - Bit(bits % W # 0 /\ High(v, qn - 1) = 0))
  IN  IF s.size[u] = 0 THEN SetSiz(s, q, 0)
      ELSE Calls(shifted, If(adjust, <<"mpz_add_ui", q, q, 1>>)
                            \o If(s.size[u] < 0, <<"mpz_neg", q, q>>))

mpz_div_r_2exp(s, r, u, bits, mode) ==
  LET rn == (bits + W - 1) \div W
      un == AbSiz(s, u)
      t == MPZ_REALLOC(s, r, rn)
      low == Mag(t, u) % 2^bits
      \* negated in rn limbs and masked
      v == IF FromZero(s, u, mode) THEN (2^bits - low) % 2^bits ELSE low
      n == IF rn > un /\ ~FromZero(s, u, mode) THEN un ELSE rn
  IN  IF s.size[u] = 0 \/ bits = 0 THEN SetSiz(s, r, 0)
      ELSE SetSiz(Put(t, t.d[r], n, v), r,
                  Signed((s.size[u] < 0) # FromZero(s, u, mode), Normalize(v, n)))

-----------------------------------------------------------------------------
(* Bits. *)

mpz_tstbit(s, d, i) ==
  LET v == Mag(s, d)
  IN  IF i \div W >= AbSiz(s, d) THEN s.size[d] < 0
      ELSE (i \in BitsIn(v, AbSiz(s, d))) # (s.size[d] < 0 /\ v % 2^i # 0)

\* mpz_abs_add_bit and mpz_abs_sub_bit. A slip: no limb for the carry.
NoRoom(s, d, n) == s
RoomFor(s, d, n) == MPZ_REALLOC(s, d, n)
mpz_abs_add_bit(s, d, i) ==
  LET dn == AbSiz(s, d)
      sum == Mag(s, d) + 2^i
      n == IF i \div W >= dn THEN i \div W + 1 ELSE dn + Bit(sum >= B^dn)
      t == RoomFor(s, d, n)
  IN  Assign(t, d, sum, Signed(s.size[d] < 0, n))
mpz_abs_sub_bit(s, d, i) ==
  LET rest == Mag(s, d) - 2^i
  IN  Assign(s, d, rest, Signed(s.size[d] < 0, Normalize(rest, AbSiz(s, d))))

mpz_setbit(s, d, i) ==
  IF mpz_tstbit(s, d, i) THEN s
  ELSE IF s.size[d] >= 0 THEN mpz_abs_add_bit(s, d, i) ELSE mpz_abs_sub_bit(s, d, i)
mpz_clrbit(s, d, i) ==
  IF ~mpz_tstbit(s, d, i) THEN s
  ELSE IF s.size[d] >= 0 THEN mpz_abs_sub_bit(s, d, i) ELSE mpz_abs_add_bit(s, d, i)
mpz_combit(s, d, i) ==
  IF mpz_tstbit(s, d, i) # (s.size[d] < 0) THEN mpz_abs_sub_bit(s, d, i) ELSE mpz_abs_add_bit(s, d, i)
mpz_com(s, r, u) == Calls(s, <<<<"mpz_add_ui", r, u, 1>>, <<"mpz_neg", r, r>>>>)

\* Two's complement of x in n limbs, with its sign repeated; x has m <= n of its own.
TwosIn(s, x, m, n) == IF s.size[x] < 0 THEN B^n - Low(Mag(s, x), m) ELSE Low(Mag(s, x), m)

\* mpz_and, mpz_ior and mpz_xor on u with at least as many limbs as v, v not 0: rn limbs,
\* and room for the carry of the negation when the result is negative (rc).
Bitwise(s, r, u, v, rn, rc, op(_, _, _)) ==
  LET t == MPZ_REALLOC(s, r, rn + Bit(rc))
      un == Smaller(AbSiz(t, u), rn)
      bits == op(Low(TwosIn(t, u, un, rn), rn), Low(TwosIn(t, v, AbSiz(t, v), rn), rn), rn)
      value == IF rc THEN B^rn - bits ELSE bits
      size == IF value >= B^rn THEN rn + 1 ELSE Normalize(value, rn)
  IN  SetSiz(Put(t, t.d[r], rn + Bit(value >= B^rn), value), r, Signed(rc, size))

Shorter(s, u, v) == IF AbSiz(s, u) < AbSiz(s, v) THEN u ELSE v
Other(s, u, v) == IF AbSiz(s, u) < AbSiz(s, v) THEN v ELSE u
Negative(s, x) == s.size[x] < 0

mpz_and(s, r, u, v) ==
  LET a == Other(s, u, v)
      b == Shorter(s, u, v)
      rn == AbSiz(s, IF Negative(s, b) THEN a ELSE b)
  IN  IF s.size[b] = 0 THEN SetSiz(s, r, 0)
      ELSE Bitwise(s, r, a, b, rn, Negative(s, a) /\ Negative(s, b), AndN)
mpz_ior(s, r, u, v) ==
  LET a == Other(s, u, v)
      b == Shorter(s, u, v)
      rn == AbSiz(s, IF Negative(s, b) THEN b ELSE a)
  IN  IF s.size[b] = 0 THEN Do(s, <<"mpz_set", r, a>>)
      ELSE Bitwise(s, r, a, b, rn, Negative(s, a) \/ Negative(s, b), IorN)
mpz_xor(s, r, u, v) ==
  LET a == Other(s, u, v)
      b == Shorter(s, u, v)
  IN  IF s.size[b] = 0 THEN Do(s, <<"mpz_set", r, a>>)
      ELSE Bitwise(s, r, a, b, AbSiz(s, a), Negative(s, a) # Negative(s, b), XorN)

-----------------------------------------------------------------------------
(* Greatest common divisors. *)

\* mpn_gcd_11
mpn_gcd_11(u, v) ==
  LET odd(n) == n \div 2^Zeros(n)
      gcd[p \in Nat \X Nat] ==
        CASE p[1] > p[2] -> gcd[<<odd(p[1] - p[2]), p[2]>>]
          [] p[1] < p[2] -> gcd[<<p[1], odd(p[2] - p[1])>>]
          [] OTHER -> p[1]
  IN  CASE u = 0 -> v
        [] u # 0 /\ v = 0 -> u
        [] OTHER -> gcd[<<odd(u), odd(v)>>] * 2^Smaller(Zeros(u), Zeros(v))

mpz_make_odd(s, r) == Do(s, <<"mpz_div_q_2exp", r, r, Zeros(Mag(s, r)), "t">>)

\* The loop of mpz_gcd: g is the gcd of tu and the odd tv.
RECURSIVE GcdLoop(_, _)
GcdLoop(s, g) ==
  LET odd == mpz_make_odd(s, "tu")
      t == Calls(odd, If(Mag(odd, "tu") < Mag(odd, "tv"), <<"mpz_swap", "tu", "tv">>))
      less == MPZ_REALLOC(Do(t, <<"mpz_tdiv_r", "tu", "tu", "tv">>), g, 1)
      \* the limb of tu is read whatever its size
      limb == mpn_gcd_11(Get(less, less.d["tu"], 1), Mag(less, "tv"))
  IN  CASE Mag(odd, "tu") = Mag(odd, "tv") -> Do(odd, <<"mpz_swap", g, "tu">>)
        [] Mag(odd, "tu") # Mag(odd, "tv") /\ t.size["tv"] = 1 -> Assign(less, g, limb, Bit(limb # 0))
        [] OTHER -> GcdLoop(Do(t, <<"mpz_sub", "tu", "tu", "tv">>), g)

\* |u| and |v| without their powers of two, in tu and tv, the one with more limbs first.
OddOf(x, u) == <<<<"mpz_init", x>>, <<"mpz_abs", x, u>>, <<"mpz_make_odd", x>>>>
OddParts(s, u, v) ==
  LET t == Calls(s, OddOf("tu", u) \o OddOf("tv", v))
  IN  Calls(t, If(t.size["tu"] < t.size["tv"], <<"mpz_swap", "tu", "tv">>))

mpz_gcd(s, g, u, v) ==
  LET gz == Smaller(Zeros(Mag(s, u)), Zeros(Mag(s, v)))
      first == Do(OddParts(s, u, v), <<"mpz_tdiv_r", "tu", "tu", "tv">>)
      t == IF first.size["tu"] = 0 THEN Do(first, <<"mpz_swap", g, "tv">>) ELSE GcdLoop(first, g)
  IN  CASE s.size[u] = 0 -> Do(s, <<"mpz_abs", g, v>>)
        [] s.size[u] # 0 /\ s.size[v] = 0 -> Do(s, <<"mpz_abs", g, u>>)
        [] OTHER -> Calls(t, <<<<"mpz_clear", "tu">>, <<"mpz_clear", "tv">>,
                               <<"mpz_mul_2exp", g, g, gz>>>>)

\* mpz_gcd_ui: the gcd in gcd.t, swapped into g or only read.
GcdUiLocal(s, u, v) ==
  Calls(s, <<<<"mpz_init_set_ui", "gcd.t", v>>, <<"mpz_gcd", "gcd.t", u, "gcd.t">>>>)
mpz_gcd_ui(s, g, u, v) ==
  Calls(GcdUiLocal(s, u, v),
        If(g # Null, <<"mpz_swap", "gcd.t", g>>) \o <<<<"mpz_clear", "gcd.t">>>>)

\* The loop of mpz_gcdext, until tu = tv: both odd, with cofactors of 2^power times them.
RECURSIVE GcdextLoop(_)
GcdextLoop(w) ==
  LET s == w.s
      less(big, small, b0, b1, a0, a1) ==   \* the larger one loses the smaller
        Calls(s, <<<<"mpz_sub", big, big, small>>, <<"mpz_add", b0, b0, a0>>, <<"mpz_add", b1, b1, a1>>>>)
      odd(t, big, a0, a1, shift) ==
        [s |-> Calls(t, <<<<"mpz_make_odd", big>>, <<"mpz_mul_2exp", a0, a0, shift>>,
                          <<"mpz_mul_2exp", a1, a1, shift>>>>),
         power |-> w.power + shift]
      v == less("tv", "tu", "t0", "s0", "t1", "s1")
      u == less("tu", "tv", "t1", "s1", "t0", "s0")
  IN  CASE Mag(s, "tu") = Mag(s, "tv") -> w
        [] Mag(s, "tu") < Mag(s, "tv") -> GcdextLoop(odd(v, "tv", "t1", "s1", Zeros(Mag(v, "tv"))))
        [] OTHER -> GcdextLoop(odd(u, "tu", "t0", "s0", Zeros(Mag(u, "tu"))))

\* One factor of two less in the cofactors s0 and t0. A slip looks at t0 only.
OddT0(s) == Mag(s, "t0") % 2 = 1
OddCofactor(s) == Mag(s, "s0") % 2 = 1 \/ Mag(s, "t0") % 2 = 1
RECURSIVE Halve(_, _)
Halve(s, power) ==
  IF power = 0 THEN s
  ELSE Halve(Calls(s, (IF OddCofactor(s) THEN <<<<"mpz_sub", "s0", "s0", "s1">>, <<"mpz_add", "t0", "t0", "t1">>>>
                       ELSE <<>>)
                        \o <<<<"mpz_div_q_2exp", "s0", "s0", 1, "t">>, <<"mpz_div_q_2exp", "t0", "t0", 1, "t">>>>),
             power - 1)

\* The cofactors and the power of two they stand for, after the first division.
Cofactors(s, z, power) ==
  LET shift == Zeros(Mag(s, "tu"))
  IN  IF s.size["tu"] = 0 THEN [s |-> Do(s, <<"mpz_setbit", "t0", z>>), power |-> power]
      ELSE GcdextLoop([s |-> Calls(s, <<<<"mpz_make_odd", "tu">>, <<"mpz_setbit", "t0", z + shift>>>>),
                       power |-> power + shift])
\* The smaller of the two pairs of cofactors.
SmallerPair(s) ==
  LET other == Do(s, <<"mpz_add", "s1", "s0", "s1">>)
  IN  IF Mag(other, "s0") > Mag(other, "s1")
      THEN Calls(other, <<<<"mpz_swap", "s0", "s1">>, <<"mpz_sub", "t0", "t0", "t1">>>>)
      ELSE other
Gcdext6 == <<"tu", "tv", "s0", "s1", "t0", "t1">>

\* u and v are not 0, and swapped with their cofactors when v has more limbs.
GcdextMany(s, g, first, second, u, v) ==
  LET uz == Zeros(Mag(s, u))
      vz == Zeros(Mag(s, v))
      gz == Smaller(uz, vz)
      matrix == Calls(OddParts(s, u, v),
                      <<<<"mpz_div_qr", "t1", "tu", "tu", "tv", "t">>, <<"mpz_mul_2exp", "t1", "t1", uz - gz>>,
                        <<"mpz_setbit", "s1", vz - gz>>>>)
      end == Cofactors(matrix, uz - gz, uz + vz - 2 * gz)
      scaled == Calls(end.s, <<<<"mpz_mul_2exp", "tv", "tv", gz>>, <<"mpz_neg", "s0", "s0">>,
                               <<"mpz_tdiv_q", "s1", v, "tv">>, <<"mpz_abs", "s1", "s1">>,
                               <<"mpz_tdiv_q", "t1", u, "tv">>, <<"mpz_abs", "t1", "t1">>>>)
  IN  Calls(SmallerPair(Halve(scaled, end.power)),
            If(s.size[u] < 0, <<"mpz_neg", "s0", "s0">>) \o If(s.size[v] < 0, <<"mpz_neg", "t0", "t0">>)
              \o <<<<"mpz_swap", g, "tv">>>>
              \o If(first # Null, <<"mpz_swap", first, "s0">>)
              \o If(second # Null, <<"mpz_swap", second, "t0">>)
              \o [k \in 1..6 |-> <<"mpz_clear", Gcdext6[k]>>])

Sign(s, x) == IF s.size[x] > 0 THEN 1 ELSE IF s.size[x] < 0 THEN -1 ELSE 0
Swapped(s, u, v) ==
  LET n(x) == Normalize(Mag(s, x) \div 2^Zeros(Mag(s, x)), AbSiz(s, x)) IN n(u) < n(v)

\* The signs are read before g, which may be an operand, is written. A slip reads later.
SignLate(s, t, x) == Sign(t, x)
SignRead(s, t, x) == Sign(s, x)
\* One operand is 0 and the gcd is that of x alone, with its sign for a cofactor.
Alone(s, g, x, zero, one) ==
  LET t == Calls(s, <<<<"mpz_abs", g, x>>>> \o If(zero # Null, <<"mpz_set_ui", zero, 0>>))
  IN  Calls(t, If(one # Null, <<"mpz_set_si", one, SignRead(s, t, x)>>))
mpz_gcdext(s, g, a, b, u, v) ==
  CASE s.size[u] = 0 -> Alone(s, g, v, a, b)
    [] s.size[u] # 0 /\ s.size[v] = 0 -> Alone(s, g, u, b, a)
    [] s.size[u] # 0 /\ s.size[v] # 0 /\ Swapped(s, u, v) -> GcdextMany(s, g, b, a, v, u)
    [] OTHER -> GcdextMany(s, g, a, b, u, v)

mpz_lcm(s, r, u, v) ==
  IF s.size[u] = 0 \/ s.size[v] = 0 THEN SetSiz(s, r, 0)
  ELSE Calls(s, <<<<"mpz_init", "g">>, <<"mpz_gcd", "g", u, v>>, <<"mpz_tdiv_q", "g", u, "g">>,
                  <<"mpz_mul", r, "g", v>>, <<"mpz_clear", "g">>, <<"mpz_abs", r, r>>>>)
mpz_lcm_ui(s, r, u, v) ==
  LET gcd == Mag(GcdUiLocal(s, u, v), "gcd.t")
  IN  IF v = 0 \/ s.size[u] = 0 THEN SetSiz(s, r, 0)
      ELSE Calls(s, <<<<"mpz_gcd_ui", Null, u, v>>, <<"mpz_mul_ui", r, u, v \div gcd>>, <<"mpz_abs", r, r>>>>)

mpz_invert(s, r, u, m) ==
  LET t == Calls(s, <<<<"mpz_init", "g">>, <<"mpz_init", "inv">>, <<"mpz_gcdext", "g", "inv", Null, u, m>>>>)
      correction == <<IF t.size[m] >= 0 THEN "mpz_add" ELSE "mpz_sub", "inv", "inv", m>>
      invertible == Mag(t, "g") = 1 /\ t.size["g"] = 1
  IN  IF s.size[u] = 0 \/ Mag(s, m) <= 1 THEN s
      ELSE Calls(t, If(invertible /\ t.size["inv"] < 0, correction)
                      \o If(invertible, <<"mpz_swap", r, "inv">>)
                      \o <<<<"mpz_clear", "g">>, <<"mpz_clear", "inv">>>>)

-----------------------------------------------------------------------------
(* Powers and roots. *)

\* tr raised to the power e of b by the bits of e from the highest down: squared, times b
\* where the bit is 1, and reduced.
RaisedBy(tr, b, e, bits, reduced) ==
  LET calls[k \in 0..bits] ==
        IF k = 0 THEN <<>>
        ELSE calls[k - 1] \o <<<<"mpz_mul", tr, tr, tr>>>>
               \o If((e \div 2^(bits - k)) % 2 = 1, <<"mpz_mul", tr, tr, b>>) \o reduced
  IN  calls[bits]

UlongBits == 5
mpz_pow_ui(s, r, b, e) ==
  Calls(s, <<<<"mpz_init_set_ui", "pow", 1>>>> \o RaisedBy("pow", b, e, UlongBits, <<>>)
             \o <<<<"mpz_swap", "pow", r>>, <<"mpz_clear", "pow">>>>)
mpz_ui_pow_ui(s, r, blimb, e) ==
  Calls(s, <<<<"mpz_init_set_ui", "b", blimb>>, <<"mpz_pow_ui", r, "b", e>>, <<"mpz_clear", "b">>>>)

\* x with at least so many limbs becomes its remainder by a modulus of mn limbs.
ReducedBy(s, x, modulus, mn, least) ==
  LET v == Mag(s, x) % modulus
  IN  IF s.size[x] < least THEN s ELSE SetSiz(Put(s, s.d[x], mn, v), x, Normalize(v, mn))

\* mpz_powm: all reductions but the last one are by m shifted left.
ShiftedModulus(m, mn) ==
  LET shift == CHOOSE c \in 0..(W - 1) : High(m, mn - 1) * 2^c \in (B \div 2)..(B - 1) IN m * 2^shift
\* The modulus less a base of at most mn limbs; for 0 it stays the modulus.
Complement(s, modulus, mn) ==
  LET t == MPZ_REALLOC(s, "base", mn)
      v == modulus - Mag(s, "base")
  IN  SetSiz(Put(t, t.d["base"], mn, v), "base", Normalize(v, mn))
PowmBase(s, b, e, m, modulus, mn) ==
  LET positive == Calls(s, <<<<"mpz_init", "base">>, <<"mpz_abs", "base", b>>,
                             <<"ReducedBy", "base", modulus, mn, mn>>>>)
  IN  CASE s.size[e] < 0 -> Calls(s, <<<<"mpz_init", "base">>, <<"mpz_invert", "base", b, m>>>>)
        [] s.size[e] > 0 /\ s.size[b] < 0 -> Complement(positive, modulus, mn)
        [] OTHER -> positive
mpz_powm(s, r, b, e, m) ==
  LET mn == AbSiz(s, m)
      modulus == ShiftedModulus(Mag(s, m), mn)
  IN  IF s.size[e] = 0 THEN mpz_set_ui(s, r, Bit(Mag(s, m) > 1))
      ELSE Calls(PowmBase(s, b, e, m, modulus, mn),
                 <<<<"mpz_init_set_ui", "powm", 1>>>>
                   \o RaisedBy("powm", "base", Mag(s, e), AbSiz(s, e) * W,
                             <<<<"ReducedBy", "powm", modulus, mn, mn + 1>>>>)
                   \o <<<<"ReducedBy", "powm", Mag(s, m), mn, mn>>, <<"mpz_swap", r, "powm">>,
                        <<"mpz_clear", "powm">>, <<"mpz_clear", "base">>>>)
mpz_powm_ui(s, r, b, elimb, m) ==
  Calls(s, <<<<"mpz_init_set_ui", "e", elimb>>, <<"mpz_powm", r, b, "e", m>>, <<"mpz_clear", "e">>>>)

\* mpz_rootrem's iteration: root.t is the next approximation of the root of y, which falls
\* until the root is reached, and root.u is the last one.
RECURSIVE RootLoop(_, _, _)
RootLoop(s, y, z) ==
  LET t == "root.t"
      u == "root.u"
      v == "root.v"
      next == Calls(s, <<<<"mpz_swap", u, t>>>> \o
                IF z = 2 THEN <<<<"mpz_tdiv_q", t, y, u>>, <<"mpz_add", t, t, u>>, <<"mpz_div_q_2exp", t, t, 1, "t">>>>
                ELSE <<<<"mpz_pow_ui", t, u, z - 1>>, <<"mpz_tdiv_q", t, y, t>>, <<"mpz_mul_ui", v, u, z - 1>>,
                       <<"mpz_add", t, t, v>>, <<"mpz_div_qr_ui", t, Null, t, z, "t">>>>)
  IN  IF Mag(next, t) < Mag(next, u) THEN RootLoop(next, y, z) ELSE next

\* A slip: the first approximation may be below the root.
BelowRoot(bits, z) == (bits - 1) \div z
FirstBit(bits, z) == (bits - 1) \div z + 1
mpz_rootrem(s, x, r, y, z) ==
  LET t == "root.t"
      u == "root.u"
      bits == CHOOSE n \in 1..(IntMax * W) : Mag(s, y) \in 2^(n - 1)..(2^n - 1)
      first == Calls(s, <<<<"mpz_init", u>>, <<"mpz_init", t>>, <<"mpz_setbit", t, FirstBit(bits, z)>>>>
                          \o If(z # 2 /\ s.size[y] < 0, <<"mpz_neg", t, t>>))
  IN  IF Mag(s, y) <= 1
      THEN Calls(s, If(x # Null, <<"mpz_set", x, y>>) \o If(r # Null, <<"mpz_set_ui", r, 0>>))
      ELSE Calls(RootLoop(first, y, z),
                 <<<<"mpz_clear", "root.v">>>>
                   \o If(r # Null, <<"mpz_pow_ui", t, u, z>>) \o If(r # Null, <<"mpz_sub", r, y, t>>)
                   \o If(x # Null, <<"mpz_swap", x, u>>)
                   \o <<<<"mpz_clear", u>>, <<"mpz_clear", t>>>>)
mpz_root(s, x, y, z) ==
  Calls(s, <<<<"mpz_init", "rest">>, <<"mpz_rootrem", x, "rest", y, z>>, <<"mpz_clear", "rest">>>>)

-----------------------------------------------------------------------------
(* The function a call names. *)

Do(s, c) ==
  CASE c[1] = "mpz_init" -> mpz_init(s, c[2])
    [] c[1] = "mpz_init2" -> mpz_init2(s, c[2], c[3])
    [] c[1] = "mpz_clear" -> mpz_clear(s, c[2])
    [] c[1] = "mpz_realloc" -> mpz_realloc(s, c[2], c[3])
    [] c[1] = "mpz_set_ui" -> mpz_set_ui(s, c[2], c[3])
    [] c[1] = "mpz_set_si" -> mpz_set_si(s, c[2], c[3])
    [] c[1] = "mpz_init_set_ui" -> mpz_init_set_ui(s, c[2], c[3])
    [] c[1] = "mpz_set" -> mpz_set(s, c[2], c[3])
    [] c[1] = "mpz_abs" -> mpz_abs(s, c[2], c[3])
    [] c[1] = "mpz_neg" -> mpz_neg(s, c[2], c[3])
    [] c[1] = "mpz_swap" -> mpz_swap(s, c[2], c[3])
    [] c[1] = "mpz_add" -> mpz_add(s, c[2], c[3], c[4])
    [] c[1] = "mpz_sub" -> mpz_sub(s, c[2], c[3], c[4])
    [] c[1] = "mpz_add_ui" -> mpz_add_ui(s, c[2], c[3], c[4])
    [] c[1] = "mpz_ui_sub" -> mpz_ui_sub(s, c[2], c[3], c[4])
    [] c[1] = "mpz_sub_ui" -> mpz_sub_ui(s, c[2], c[3], c[4])
    [] c[1] = "mpz_mul" -> mpz_mul(s, c[2], c[3], c[4])
    [] c[1] = "mpz_mul_ui" -> mpz_mul_ui(s, c[2], c[3], c[4])
    [] c[1] = "mpz_mul_si" -> mpz_mul_si(s, c[2], c[3], c[4])
    [] c[1] = "mpz_addmul" -> mpz_addmul(s, c[2], c[3], c[4])
    [] c[1] = "mpz_submul" -> mpz_submul(s, c[2], c[3], c[4])
    [] c[1] = "mpz_addmul_ui" -> mpz_addmul_ui(s, c[2], c[3], c[4])
    [] c[1] = "mpz_submul_ui" -> mpz_submul_ui(s, c[2], c[3], c[4])
    [] c[1] = "mpz_mul_2exp" -> mpz_mul_2exp(s, c[2], c[3], c[4])
    [] c[1] = "mpz_div_qr" -> mpz_div_qr(s, c[2], c[3], c[4], c[5], c[6])
    [] c[1] = "mpz_mod" -> mpz_mod(s, c[2], c[3], c[4])
    [] c[1] = "mpz_tdiv_q" -> mpz_tdiv_q(s, c[2], c[3], c[4])
    [] c[1] = "mpz_tdiv_r" -> mpz_tdiv_r(s, c[2], c[3], c[4])
    [] c[1] = "mpz_div_qr_ui" -> mpz_div_qr_ui(s, c[2], c[3], c[4], c[5], c[6])
    [] c[1] = "mpz_div_q_2exp" -> mpz_div_q_2exp(s, c[2], c[3], c[4], c[5])
    [] c[1] = "mpz_div_r_2exp" -> mpz_div_r_2exp(s, c[2], c[3], c[4], c[5])
    [] c[1] = "mpz_setbit" -> mpz_setbit(s, c[2], c[3])
    [] c[1] = "mpz_clrbit" -> mpz_clrbit(s, c[2], c[3])
    [] c[1] = "mpz_combit" -> mpz_combit(s, c[2], c[3])
    [] c[1] = "mpz_com" -> mpz_com(s, c[2], c[3])
    [] c[1] = "mpz_and" -> mpz_and(s, c[2], c[3], c[4])
    [] c[1] = "mpz_ior" -> mpz_ior(s, c[2], c[3], c[4])
    [] c[1] = "mpz_xor" -> mpz_xor(s, c[2], c[3], c[4])
    [] c[1] = "mpz_make_odd" -> mpz_make_odd(s, c[2])
    [] c[1] = "mpz_gcd" -> mpz_gcd(s, c[2], c[3], c[4])
    [] c[1] = "mpz_gcd_ui" -> mpz_gcd_ui(s, c[2], c[3], c[4])
    [] c[1] = "mpz_gcdext" -> mpz_gcdext(s, c[2], c[3], c[4], c[5], c[6])
    [] c[1] = "mpz_lcm" -> mpz_lcm(s, c[2], c[3], c[4])
    [] c[1] = "mpz_lcm_ui" -> mpz_lcm_ui(s, c[2], c[3], c[4])
    [] c[1] = "mpz_invert" -> mpz_invert(s, c[2], c[3], c[4])
    [] c[1] = "mpz_pow_ui" -> mpz_pow_ui(s, c[2], c[3], c[4])
    [] c[1] = "mpz_ui_pow_ui" -> mpz_ui_pow_ui(s, c[2], c[3], c[4])
    [] c[1] = "ReducedBy" -> ReducedBy(s, c[2], c[3], c[4], c[5])
    [] c[1] = "mpz_powm" -> mpz_powm(s, c[2], c[3], c[4], c[5])
    [] c[1] = "mpz_powm_ui" -> mpz_powm_ui(s, c[2], c[3], c[4], c[5])
    [] c[1] = "mpz_rootrem" -> mpz_rootrem(s, c[2], c[3], c[4], c[5])
    [] c[1] = "mpz_root" -> mpz_root(s, c[2], c[3], c[4])
=============================================================================
