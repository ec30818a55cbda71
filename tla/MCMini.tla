------------------------------ MODULE MCMini ------------------------------
(***************************************************************************)
(* The division of mini-gmp, and its other functions on the operands of    *)
(* the division before it begins.                                          *)
(***************************************************************************)
EXTENDS MiniDiv, MiniText, MiniPrime

\* Every limb of the quotient is right when it is stored, and the division in the end.
Divides == TypeOK /\ Progress /\ Divided

\* The first adjustment of a reciprocal is needed twice from limbs of 8 bits on only.
WideBits == 2 * LimbBits
Wide == INSTANCE MiniLimb WITH LimbBits <- WideBits

\* The reciprocal by two limbs is exact, for every limb with its highest bit set and
\* every limb below it. Here the limbs of the divisor and the dividend are its halves.
Reciprocals ==
  LET u1 == den[0] * B + num[0]
  IN  nn = 1 /\ 2 * u1 >= Wide!B =>
        \A u0 \in Wide!Limb :
          Wide!Invert3by2(u1, u0) = (Wide!B^3 - 1) \div (Wide!B * u1 + u0) - Wide!B

\* The dividend, printed in the base of the divisor and read again, with leading zeros.
Converts ==
  dn = 1 /\ den[0] \in 2..(B \div 2) /\ num[nn - 1] # 0 =>
    LET s == GetStr(num, nn, den[0])
    IN  /\ Printed(s, num, nn, den[0])
        /\ \A z \in 0..LimbBits : Read([k \in 1..z |-> 0] \o s, den[0])

\* mpz_probab_prime_p decides every number of 13 bits, made of two limbs of the dividend
\* and the divisor, with the fewest repetitions and with more: the Miller-Rabin test
\* passes composites, and so does the Lucas test, but not the same ones.
Candidate == Number(num, 2) + B^2 * (Number(den, dn) - 1)
PrimesBelow == {n \in 0..8191 : IsPrime(n)}
Decides ==
  nn = 2 /\ Number(den, dn) <= 32 =>
    \A reps \in {1, 26} : ProbabPrime(Candidate, reps) <=> Candidate \in PrimesBelow

Computes ==
  pc = "start" =>
    /\ Reciprocals
    /\ Converts
    /\ Decides
    /\ nn = 1 /\ num[0] <= 12 /\ den[0] <= 12 => Combines(num[0], den[0] - 1, B)
===========================================================================
