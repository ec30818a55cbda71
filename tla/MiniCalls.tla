------------------------------ MODULE MiniCalls ------------------------------
(***************************************************************************)
(* The calls of a client of mini-gmp on mpz integers. mini-gmp declares    *)
(* the functions of GMP and promises what they promise: each call is one   *)
(* of Mpz, with the same integers in val, made of other functions.         *)
(* mini-gmp has no temporary allocation; its local integers are structs of *)
(* the store. Where its function does not accept what GMP's does, the      *)
(* client does not ask for it: a power of the inverse of an integer modulo *)
(* 1 or -1, the inverse modulo these, an extended gcd that is not stored,  *)
(* whether 0 divides an integer.                                           *)
(***************************************************************************)
EXTENDS MiniMpz

\* The structs a call can need besides the client's.
Locals == {"bb", "mul.t", "vv", "t", "tr", "tq", "rr", "dd", "tu", "tv", "gcd.t", "s0", "s1", "t0",
           "t1", "g", "inv", "pow", "b", "base", "powm", "e", "root.t", "root.u", "root.v", "rest"}

(* The calls the client makes. *)

MiniUnary ==
  {"mpz_set", "mpz_neg", "mpz_abs", "mpz_swap", "mpz_com"} \X Var \X Var
    \cup {"mpz_mul_2exp"} \X Var \X Var \X Counts

MiniWithWord ==
  {"mpz_set_si"} \X Var \X Long
    \cup {"mpz_mul_si"} \X Var \X Var \X Long
    \cup {"mpz_add_ui", "mpz_sub_ui", "mpz_mul_ui", "mpz_addmul_ui", "mpz_submul_ui"} \X Var \X Var \X Limb
    \cup {"mpz_ui_sub"} \X Var \X Limb \X Var

MiniBinary ==
  {"mpz_add", "mpz_sub", "mpz_mul", "mpz_addmul", "mpz_submul", "mpz_and", "mpz_ior", "mpz_xor"}
    \X Var \X Var \X Var

Divisors == {d \in Var : val[d] # 0}
Nonzero == Limb \ {0}
\* q and r are different variables, or one of them is not asked for.
MiniDivide ==
  LET results == {p \in Optional \X Optional : p[1] # p[2]}
  IN  {<<"mpz_div_qr", p[1], p[2], n, d, mode>> :
         p \in results, n \in Var, d \in Divisors, mode \in Modes}
        \cup {<<"mpz_div_qr_ui", p[1], p[2], n, d, mode>> :
                p \in results, n \in Var, d \in Nonzero, mode \in Modes}
        \cup {"mpz_mod"} \X Var \X Var \X Divisors
        \cup {"mpz_div_q_2exp", "mpz_div_r_2exp"} \X Var \X Var \X Counts \X Modes

MiniBits == {"mpz_setbit", "mpz_clrbit", "mpz_combit"} \X Var \X Positions

MiniDivisors ==
  {"mpz_gcd", "mpz_lcm"} \X Var \X Var \X Var
    \cup {"mpz_gcd_ui", "mpz_lcm_ui"} \X Var \X Var \X Limb
    \cup {"mpz_invert"} \X Var \X Var \X {m \in Var : Abs(val[m]) > 1}
    \cup {<<"mpz_gcdext", g, s, t, a, b>> :
            g \in Var, s \in Optional, t \in Optional, a \in Var, b \in Var}

Orders == (Exponents \cap Limb) \ {0}
MiniPowers ==
  {c \in {"mpz_root"} \X Var \X Var \X Orders : c[4] % 2 = 0 => val[c[3]] >= 0}
    \cup {c \in {"mpz_rootrem"} \X Var \X Optional \X Var \X Orders :
            c[2] # c[3] /\ (c[5] % 2 = 0 => val[c[4]] >= 0)}
    \cup {c \in {"mpz_pow_ui"} \X Var \X Var \X Exponents : AbSiz(store, c[3]) * c[4] <= PowMax}
    \cup {c \in {"mpz_ui_pow_ui"} \X Var \X Limb \X Exponents : c[4] <= PowMax}
    \cup {c \in {"mpz_powm"} \X Var \X Var \X Var \X Divisors :
            val[c[4]] < 0 => Abs(val[c[5]]) > 1 /\ Integer!InversesOf(val[c[3]], val[c[5]]) # {}}
    \cup {"mpz_powm_ui"} \X Var \X Var \X (Exponents \cap Limb) \X Divisors

MiniAsked ==
  MiniUnary \cup MiniWithWord \cup MiniBinary \cup MiniDivide \cup MiniBits \cup MiniPowers
    \cup {c \in MiniDivisors : c[1] = "mpz_gcdext" =>
             Cardinality({c[2], c[3], c[4]}) = 3 \/ (c[2] # c[3] /\ c[3] = Null /\ c[4] = Null)}

(* What GMP promises of them. *)

\* The manual singles out one pair of cofactors. Where an operand is twice the gcd there
\* are two pairs with the smallest cofactor of the other, and mini-gmp can return either.
Twins(a, b, m, n) ==
  LET d == Integer!GcdOf(a, b)
  IN  /\ a * m + b * n = d
      /\ (Abs(b) = 2 * d /\ Abs(m) = 1) \/ (Abs(a) = 2 * d /\ Abs(n) = 1)
MiniGcdext(u, g, s, t, a, b) ==
  LET d == Integer!GcdOf(val[a], val[b])
      m == IF s # Null THEN Value(u, s) ELSE (d - val[b] * Value(u, t)) \div val[a]
      n == IF t # Null THEN Value(u, t) ELSE (d - val[a] * Value(u, s)) \div val[b]
  IN  IF {s, t} # {Null} /\ val[a] # 0 /\ val[b] # 0 /\ Twins(val[a], val[b], m, n)
      THEN val' = [x \in Var |-> CASE x = g -> d [] x = s -> m [] x = t -> n [] OTHER -> val[x]]
      ELSE Integer!Gcdext(g, s, t, a, b)

Quotients(mode, q, r, n, d) ==
  CASE r = Null -> Integer!DivQ(mode, q, n, d)
    [] q = Null -> Integer!DivR(mode, r, n, d)
    [] OTHER -> Integer!DivQr(mode, q, r, n, d)
QuotientsUi(mode, q, r, n, d) ==
  CASE r = Null -> Integer!DivQUi(mode, q, n, d)
    [] q = Null -> Integer!DivRUi(mode, r, n, d)
    [] OTHER -> Integer!DivQrUi(mode, q, r, n, d)

\* Promised(c, t): the integers after the call c, which leaves the store t.
Promised(c, t) ==
  CASE c[1] = "mpz_set" -> Integer!Set(c[2], c[3])
    [] c[1] = "mpz_neg" -> Integer!Neg(c[2], c[3])
    [] c[1] = "mpz_abs" -> Integer!AbsOf(c[2], c[3])
    [] c[1] = "mpz_swap" -> Integer!Swap(c[2], c[3])
    [] c[1] = "mpz_com" -> Integer!Com(c[2], c[3])
    [] c[1] = "mpz_mul_2exp" -> Integer!Mul2Exp(c[2], c[3], c[4])
    [] c[1] = "mpz_set_si" -> Integer!SetSi(c[2], c[3])
    [] c[1] \in {"mpz_mul_si", "mpz_mul_ui"} -> Integer!MulSi(c[2], c[3], c[4])
    [] c[1] = "mpz_add_ui" -> Integer!AddUi(c[2], c[3], c[4])
    [] c[1] = "mpz_sub_ui" -> Integer!SubUi(c[2], c[3], c[4])
    [] c[1] = "mpz_ui_sub" -> Integer!UiSub(c[2], c[3], c[4])
    [] c[1] = "mpz_addmul_ui" -> Integer!AddmulUi(c[2], c[3], c[4])
    [] c[1] = "mpz_submul_ui" -> Integer!SubmulUi(c[2], c[3], c[4])
    [] c[1] = "mpz_add" -> Integer!Add(c[2], c[3], c[4])
    [] c[1] = "mpz_sub" -> Integer!Sub(c[2], c[3], c[4])
    [] c[1] = "mpz_mul" -> Integer!Mul(c[2], c[3], c[4])
    [] c[1] = "mpz_addmul" -> Integer!Addmul(c[2], c[3], c[4])
    [] c[1] = "mpz_submul" -> Integer!Submul(c[2], c[3], c[4])
    [] c[1] = "mpz_and" -> Integer!And(c[2], c[3], c[4])
    [] c[1] = "mpz_ior" -> Integer!Ior(c[2], c[3], c[4])
    [] c[1] = "mpz_xor" -> Integer!Xor(c[2], c[3], c[4])
    [] c[1] = "mpz_mod" -> Integer!Mod(c[2], c[3], c[4])
    [] c[1] = "mpz_setbit" -> Integer!Setbit(c[2], c[3])
    [] c[1] = "mpz_clrbit" -> Integer!Clrbit(c[2], c[3])
    [] c[1] = "mpz_combit" -> Integer!Combit(c[2], c[3])
    [] c[1] = "mpz_gcd_ui" -> Integer!Gcd(c[2], c[3], c[4])
    [] c[1] = "mpz_lcm_ui" -> Integer!Lcm(c[2], c[3], c[4])
    [] c[1] = "mpz_invert" -> Integer!Invert(c[2], c[3], c[4])
    [] c[1] = "mpz_root" -> Integer!RootQ(c[2], c[3], c[4])
    [] c[1] = "mpz_div_qr" -> Quotients(c[6], c[2], c[3], c[4], c[5])
    [] c[1] = "mpz_div_qr_ui" -> QuotientsUi(c[6], c[2], c[3], c[4], c[5])
    [] c[1] = "mpz_div_q_2exp" -> Integer!DivQUi(c[5], c[2], c[3], 2^c[4])
    [] c[1] = "mpz_div_r_2exp" -> Integer!DivRUi(c[5], c[2], c[3], 2^c[4])
    [] c[1] = "mpz_gcd" -> Integer!Gcd(c[2], c[3], val[c[4]])
    [] c[1] = "mpz_lcm" -> Integer!Lcm(c[2], c[3], val[c[4]])
    [] c[1] = "mpz_gcdext" -> MiniGcdext(t, c[2], c[3], c[4], c[5], c[6])
    [] c[1] = "mpz_rootrem" -> IF c[3] = Null THEN Integer!RootQ(c[2], c[4], c[5])
                             ELSE Integer!RootRem(c[2], c[3], c[4], c[5])
    [] c[1] = "mpz_pow_ui" -> Integer!Pow(c[2], val[c[3]], c[4])
    [] c[1] = "mpz_ui_pow_ui" -> Integer!Pow(c[2], c[3], c[4])
    [] c[1] = "mpz_powm" -> Integer!Powm(c[2], c[3], val[c[4]], c[5])
    [] c[1] = "mpz_powm_ui" -> Integer!Powm(c[2], c[3], c[4], c[5])

\* mpz_limbs_write or mpz_limbs_modify, the client's limbs, mpz_limbs_finish.
mpz_limbs_finish(s, x, n, neg) == SetSiz(s, x, Signed(neg, Normalize(Get(s, s.d[x], n), n)))
mpz_limbs_write(s, x, n) == MPZ_REALLOC(s, x, n)
Written(w, n, v, neg) ==
  LET t == mpz_limbs_write(store, w, n)
  IN  Return({mpz_limbs_finish(Put(t, t.d[w], n, v), w, n, neg)}, Integer!Limbs(w, Signed(neg, v)))
Modified(w, n) ==
  LET t == mpz_limbs_write(store, w, n)
      old == Get(t, t.d[w], Smaller(n, AbSiz(store, w)))
  IN  Return({mpz_limbs_finish(Put(t, t.d[w], n, old), w, n, store.size[w] < 0)},
             Integer!KeepLimbs(w, B^n))
MiniLimbs ==
  \E w \in Var, n \in 1..3 :
    Modified(w, n) \/ \E v \in Limb, neg \in BOOLEAN : Written(w, n, v, neg)

MiniCall ==
  /\ Running
  /\ \/ \E c \in MiniAsked : \E t \in {Do(store, c)} : Return({t}, Promised(c, t))
     \/ MiniLimbs

-----------------------------------------------------------------------------
(* What is only read. *)

mpn_absfits_ulong_p(un) == un <= 1
mpz_get_ui(s, u) == IF s.size[u] = 0 THEN 0 ELSE Get(s, s.d[u], 1)
mpz_get_si(s, u) ==
  LET r == mpz_get_ui(s, u) IN IF s.size[u] < 0 THEN -1 - ((r - 1) % (B \div 2)) ELSE r % (B \div 2)
mpz_cmpabs_ui(s, u, v) ==
  IF ~mpn_absfits_ulong_p(AbSiz(s, u)) THEN 1 ELSE SgnOf(mpz_get_ui(s, u) - v)
mpz_cmp_ui(s, u, v) == IF s.size[u] < 0 THEN -1 ELSE mpz_cmpabs_ui(s, u, v)
mpz_cmp_si(s, u, v) ==
  CASE v >= 0 -> mpz_cmp_ui(s, u, v)
    [] v < 0 /\ s.size[u] >= 0 -> 1
    [] v < 0 /\ s.size[u] < 0 -> -mpz_cmpabs_ui(s, u, -v)
mpz_cmp(s, a, b) ==
  CASE s.size[a] # s.size[b] -> SgnOf(s.size[a] - s.size[b])
    [] s.size[a] = s.size[b] -> SgnOf(Signed(s.size[a] < 0, Mag(s, a) - Mag(s, b)))
mpz_cmpabs(s, u, v) ==
  IF AbSiz(s, u) # AbSiz(s, v) THEN SgnOf(AbSiz(s, u) - AbSiz(s, v)) ELSE SgnOf(Mag(s, u) - Mag(s, v))
mpz_fits_slong_p(s, u) == mpz_cmp_si(s, u, (B \div 2) - 1) <= 0 /\ mpz_cmp_si(s, u, -(B \div 2)) >= 0

\* Whether mpz_div_qr and mpz_div_qr_ui tell of a remainder.
mpz_divisible_p(s, n, d) ==
  s.size[n] = 0 \/ (AbSiz(s, n) >= AbSiz(s, d) /\ Mag(s, n) % Mag(s, d) = 0)
mpz_congruent_p(s, a, b, m) ==
  IF s.size[m] = 0 THEN mpz_cmp(s, a, b) = 0
  ELSE mpz_divisible_p(Calls(s, <<<<"mpz_init", "t">>, <<"mpz_sub", "t", a, b>>>>), "t", m)
mpz_div_ui(s, n, d, mode) == mpz_get_ui(DivUiLocal(s, Null, n, d, mode), "rr")
mpz_perfect_square_p(s, u) ==
  IF s.size[u] <= 0 THEN s.size[u] = 0
  ELSE Calls(s, <<<<"mpz_init", "rest">>, <<"mpz_rootrem", Null, "rest", u, 2>>>>).size["rest"] = 0

\* From limb i up: limb is what is left of it, ones the complement of the limbs above.
mpn_common_scan(limb, i, v, m, ones) ==
  LET from == (i + 1) * W
  IN  IF limb # 0 THEN i * W + Zeros(limb)
      ELSE IF ones THEN LowestOf(ClearFrom(v, m, from), m * W) ELSE LowestOf(From(v, m, from), Never)
Masked(limb, bit) == limb - (limb % 2^(bit % W))

mpz_scan1(s, u, bit) ==
  LET m == AbSiz(s, u)
      i == bit \div W
      v == Mag(s, u)
      zero == Twos(v, i)
      limb == Low(B - 1 - LimbAt(v, i) + zero, 1)
  IN  CASE i >= m -> IF s.size[u] >= 0 THEN Never ELSE bit
        [] i < m /\ bit = 0 -> mpn_common_scan(LimbAt(v, i), i, v, m, FALSE)
        [] i < m /\ bit # 0 /\ s.size[u] >= 0 ->
             mpn_common_scan(Masked(LimbAt(v, i), bit), i, v, m, FALSE)
        [] OTHER -> mpn_common_scan(Masked(limb, bit), i, v, m, limb >= zero)
mpz_scan0(s, u, bit) ==
  LET m == AbSiz(s, u)
      i == bit \div W
      v == Mag(s, u)
      limb == IF s.size[u] >= 0 THEN B - 1 - LimbAt(v, i) ELSE Low(LimbAt(v, i) - Twos(v, i), 1)
  IN  IF i >= m THEN IF s.size[u] >= 0 THEN bit ELSE Never
      ELSE mpn_common_scan(Masked(limb, bit), i, v, m, s.size[u] >= 0)

mpz_popcount(s, u) == IF s.size[u] < 0 THEN Never ELSE Popcount(Mag(s, u), AbSiz(s, u))
mpz_hamdist(s, u, v) ==
  LET n == Larger(AbSiz(s, u), AbSiz(s, v))
      twos(x) == TwosIn(s, x, AbSiz(s, x), n)
  IN  IF Negative(s, u) # Negative(s, v) THEN Never ELSE Popcount(XorN(twos(u), twos(v), n), n)

\* What mini-gmp reads of integers agrees with the integers, as Readers and
\* DivisorReaders say of GMP.
MiniReaders ==
  \A u \in Var :
    /\ \A n \in Long : mpz_cmp_si(store, u, n) = Integer!Sgn(val[u] - n)
    /\ \A n \in Limb :
         /\ mpz_cmp_ui(store, u, n) = Integer!Sgn(val[u] - n)
         /\ n # 0 => \A mode \in Modes :
              mpz_div_ui(store, u, n, mode) = Abs(Integer!Rest(mode, val[u], n))
    /\ mpz_fits_slong_p(store, u) <=> val[u] \in Long
    /\ val[u] \in Long => mpz_get_si(store, u) = val[u]
    /\ mpz_get_ui(store, u) = Abs(val[u]) % B
    /\ mpz_perfect_square_p(store, u) <=> val[u] >= 0 /\ Integer!Root(val[u], 2)^2 = val[u]
    /\ mpz_popcount(store, u) = Count(BitsOf(u))
    /\ \A i \in Positions :
         /\ mpz_tstbit(store, u, i) <=> i \in BitsOf(u)
         /\ mpz_scan1(store, u, i) = LowestOf({j \in BitsOf(u) : j >= i}, Never)
         /\ mpz_scan0(store, u, i) = LowestOf((i..Integer!Width) \ BitsOf(u), Never)
    /\ \A v \in Var :
         /\ mpz_cmp(store, u, v) = Integer!Sgn(val[u] - val[v])
         /\ mpz_cmpabs(store, u, v) = Integer!Sgn(Abs(val[u]) - Abs(val[v]))
         /\ mpz_hamdist(store, u, v) = Count((BitsOf(u) \ BitsOf(v)) \cup (BitsOf(v) \ BitsOf(u)))
         /\ val[v] # 0 => (mpz_divisible_p(store, u, v) <=> Integer!Congruent(val[u], 0, val[v]))
         /\ \A d \in Var :
              mpz_congruent_p(store, u, v, d) <=> Integer!Congruent(val[u], val[v], val[d])
=============================================================================
