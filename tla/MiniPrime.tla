------------------------------ MODULE MiniPrime ------------------------------
(***************************************************************************)
(* The number theory of mini-gmp that works above the limbs: the primality *)
(* test, which joins a Miller-Rabin test with a Lucas test, and factorials *)
(* and binomials. Integers are naturals or integers here: the operations   *)
(* of mini-gmp on them are those of arithmetic.                            *)
(***************************************************************************)
EXTENDS MiniLimb, FiniteSetsExt

Odd(n) == n % 2
\* mpz_tdiv_r: the remainder has the sign of the dividend.
TdivR(a, n) == IF a < 0 THEN -((-a) % n) ELSE a % n
\* How many zeros are below the lowest 1 of n > 0 (gmp_ctz, mpn_scan1).
LowZeros(n) == LET ctz[m \in Nat] == IF Odd(m) = 1 THEN 0 ELSE 1 + ctz[m \div 2] IN ctz[n]
\* mpz_sizeinbase (n, 2)
BitLength(n) == LET size[m \in Nat] == IF m = 0 THEN 0 ELSE 1 + size[m \div 2] IN size[n]
\* mpz_powm and mpz_root.
PowerMod(base, exp, n) ==
  LET pow[e \in Nat] ==
        IF e = 0 THEN 1
        ELSE LET h == pow[e \div 2]
             IN  (((h * h) % n) * (IF Odd(e) = 1 THEN base ELSE 1)) % n
  IN  pow[exp]
Root(n) == CHOOSE r \in 0..n : r * r <= n /\ n < (r + 1) * (r + 1)

-----------------------------------------------------------------------------

\* gmp_jacobi_coprime (a, b), b odd. Inside, b lost its lowest bit and a is to lose c.
JacobiCoprime(first, second) ==
  LET loop[s \in Nat \X Nat \X Nat \X Nat] ==
        LET a == s[1] \div 2^s[4]
            b == s[2]
            bit == s[3] + s[4] * (b + b \div 2)     \* only the parity counts
        IN  CASE a < b /\ a = 0 -> IF Odd(bit) = 1 THEN -1 ELSE 1
              [] a < b /\ a > 0 -> loop[<<b - a, a, bit + a * b, LowZeros(b - a) + 1>>]
              [] OTHER -> loop[<<a - b, b, bit, LowZeros(a - b) + 1>>]
  IN  loop[<<first \div 2, second \div 2, 0, LowZeros(first)>>]

\* gmp_lucas_step_k_2k
Doubled(v, qk, n) ==
  LET q == qk % n IN [v |-> TdivR(v * v - 2 * q, n), qk |-> q * q]

\* gmp_lucas_mod: V and Q^k for k = (n >> b0) | 1, and whether U is 0. The slip takes the
\* step k -> k + 1 by the bits of n alone, which has a 0 at b0.
BitsAlone(n, bs, b0) == Odd(n \div 2^bs) = 1
StepsUp(n, bs, b0) == bs = b0 \/ Odd(n \div 2^bs) = 1
LucasMod(Q, b0, n) ==
  LET size == BitLength(n)
      after[bs \in Nat] ==
        IF bs >= size - 1 THEN [u |-> 1, v |-> 1, qk |-> Q]
        ELSE LET k == after[bs + 1]
                 two == Doubled(k.v, k.qk, n)
                 u == k.u * k.v
                 sum == two.v + u
                 up == (sum + (IF Odd(sum) = 1 THEN n ELSE 0)) \div 2
             IN  IF StepsUp(n, bs, b0)
                 THEN [u |-> TdivR(up, n), v |-> TdivR(up - 2 * Q * u, n), qk |-> two.qk * Q]
                 ELSE [u |-> TdivR(u, n), v |-> two.v, qk |-> two.qk]
  IN  after[b0]

\* The D that gmp_stronglucas takes from 5, 7, 9, ... for the odd n that is no square, or
\* the result it returns at once: 0 for a divisor, 2 when D has reached the root.
Search(n) ==
  LET last == Root(n) - 1
      from[D \in Nat] ==
        CASE D >= last -> [D |-> 0, result |-> 2]
          [] D < last /\ n % (D + 2) = 0 -> [D |-> 0, result |-> 0]
          [] OTHER -> IF JacobiCoprime(n % (D + 2), D + 2) = 1 THEN from[D + 2]
                      ELSE [D |-> D + 2, result |-> 1]
  IN  from[3]

\* gmp_stronglucas. The slip has the sign of Q wrong.
Negated(D) == IF Odd(D \div 2) = 1 THEN -(D \div 4) - 1 ELSE D \div 4
QOf(D) == IF Odd(D \div 2) = 1 THEN D \div 4 + 1 ELSE -(D \div 4)
StrongLucas(n) ==
  LET found == Search(n)
      b0 == LowZeros(n + 1)
      lucas == LucasMod(QOf(found.D), b0, n)
      doubled[j \in 0..(b0 - 1)] ==
        IF j = 0 THEN lucas ELSE LET w == doubled[j - 1] IN Doubled(w.v, w.qk, n)
  IN  CASE Root(n)^2 = n -> 0
        [] Root(n)^2 # n /\ found.D = 0 -> found.result
        [] OTHER -> Bit(lucas.u = 0 \/ \E j \in 0..(b0 - 1) : doubled[j].v = 0)

\* gmp_millerrabin: the base y, n = 1 + 2^k q. The slip squares once too little.
TooFew(k) == k - 2
Squarings(k) == k - 1
MillerRabin(n, y, q, k) ==
  LET first == PowerMod(y, q, n)
      power[j \in 0..k] == IF j = 0 THEN first ELSE PowerMod(power[j - 1], 2, n)
  IN  first = 1 \/ \E j \in 0..Squarings(k) : power[j] = n - 1

\* GMP_PRIME_MASK, 0xc96996dc, has bit (p + 1) / 2 set for every odd prime p below 64.
PrimeMaskBit(b) == Odd(IF b < 16 THEN 38620 \div 2^b ELSE 51561 \div 2^(b - 16))
PrimeProduct == {3, 5, 7, 11, 13, 17, 19, 23, 29}

\* The further bases, while they are below n - 1.
Bases(n, reps) ==
  LET many == {j \in 0..(reps - 25) : j * j + j + 41 >= n - 1}
  IN  {j * j + j + 41 : j \in {i \in 0..(reps - 25) : \A m \in many : i < m}}

\* mpz_probab_prime_p: whether n passes. The slip leaves the Lucas test out.
MillerRabinAlone(n, q, k) == MillerRabin(n, 2, q, k)
Bpsw(n, q, k) == MillerRabin(n, 2, q, k) /\ StrongLucas(n) # 0
ProbabPrime(n, reps) ==
  LET k == LowZeros(n - 1)
      q == (n - 1) \div 2^k
  IN  CASE Odd(n) = 0 -> n = 2
        [] Odd(n) = 1 /\ n < 64 -> PrimeMaskBit(n \div 2 + 1) = 1
        [] OTHER -> /\ \A p \in PrimeProduct : n % p # 0
                    /\ n >= 31 * 31 =>
                         /\ Bpsw(n, q, k)
                         /\ \A y \in Bases(n, reps) : MillerRabin(n, y, q, k)

-----------------------------------------------------------------------------
(* mpz_mfac_uiui and mpz_bin_uiui of unsigned longs below max. *)

Mfac(n, m, max) ==
  LET times[i \in Nat] == IF i > m + 1 THEN (i - m) * times[i - m] ELSE 1
  IN  (IF n = 0 THEN 1 ELSE n) * (IF (m + 1) % max < 2 THEN 1 ELSE times[n])

Fewer(n, k) == IF k > n \div 2 THEN (IF k <= n THEN n - k ELSE 0) ELSE k
Bin(n, k, max) ==
  LET times[i \in Nat] == IF i = 0 THEN Bit(k <= n) ELSE times[i - 1] * (n - i + 1)
  IN  times[Fewer(n, k)] \div Mfac(Fewer(n, k), 1, max)

-----------------------------------------------------------------------------
(* Properties. *)

IsPrime(n) == n > 1 /\ \A d \in 2..Root(n) : n % d # 0

\* The factorials are the products they are named for, and the binomials count subsets.
Combines(n, k, max) ==
  LET factors == {f \in 1..n : f = n \/ (k > 0 /\ (n - f) % k = 0)}
  IN  /\ Mfac(n, k, max) = ProductSet(factors)
      /\ Bin(n, k, max) * Mfac(k, 1, max) = IF k <= n THEN ProductSet((n - k + 1)..n) ELSE 0
=============================================================================
