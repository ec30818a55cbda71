------------------------------ MODULE MiniDiv ------------------------------
(***************************************************************************)
(* mpn_div_qr of mini-gmp: schoolbook division of the nn limbs at np by    *)
(* the dn limbs at dp, one quotient limb at a time from the highest. A     *)
(* limb of the quotient is estimated from the highest limbs alone, by a    *)
(* product with a reciprocal, and corrected when the estimate was too      *)
(* large. The remainder takes the place of the dividend.                   *)
(***************************************************************************)
EXTENDS MiniLimb

CONSTANTS
  Few,      \* the limbs of operands of more than two limbs
  MaxNum,   \* the most limbs of a dividend
  MaxDen    \* and of a divisor

ASSUME FewAssumption == Few \subseteq Limb
ASSUME LengthAssumption == MaxNum \in Nat \ {0} /\ MaxDen \in 1..MaxNum

VARIABLES
  num, den,   \* the operands
  nn, dn,     \* their lengths
  np,         \* the array at np
  dp,         \* the divisor, shifted when it has more than two limbs
  qp,         \* the quotient
  inv,        \* struct gmp_div_inverse: shift, d1, d0, di
  high,       \* the limbs of the remainder kept in variables: r1 and r0, or 0 and n1
  i,          \* the next limb of the quotient
  pc

vars == <<num, den, nn, dn, np, dp, qp, inv, high, i, pc>>

Arrays(n) == [0..(n - 1) -> IF n <= 2 THEN Limb ELSE Few]

Init ==
  \E n \in 1..MaxNum, d \in 1..MaxDen :
    /\ d <= n
    /\ nn = n /\ dn = d
    /\ num \in Arrays(n)
    /\ den \in {a \in Arrays(d) : a[d - 1] # 0}
    /\ np = num /\ dp = den
    /\ qp = [k \in 0..(n - d) |-> 0]
    /\ inv = [shift |-> 0, d1 |-> 0, d0 |-> 0, di |-> 0]
    /\ high = <<0, 0>>
    /\ i = 0
    /\ pc = "start"

-----------------------------------------------------------------------------

\* The operands shifted; the highest limbs of the dividend go to variables.
Normalize ==
  /\ pc = "start"
  /\ inv' = InverseOf(den, dn)
  /\ LET shift == inv'.shift
         n == IF shift > 0 THEN Lshift(num, nn, shift) ELSE [limbs |-> num, cy |-> 0]
     IN  IF dn = 1
         THEN /\ LET qr == DivQr1(num, nn, inv')
                 IN  qp' = qr.q /\ np' = [num EXCEPT ![0] = qr.r]
              /\ pc' = "done"
              /\ UNCHANGED <<dp, high, i>>
         ELSE /\ np' = n.limbs
              /\ dp' = IF dn > 2 /\ shift > 0 THEN Lshift(den, dn, shift).limbs ELSE den
              /\ high' = IF dn = 2 THEN <<n.cy, n.limbs[nn - 1]>> ELSE <<0, n.cy>>
              /\ i' = nn - dn
              /\ pc' = IF dn = 2 THEN "by two" ELSE "by more"
              /\ UNCHANGED qp
  /\ UNCHANGED <<num, den, nn, dn>>

NextLimb(loop) == i' = i - 1 /\ pc' = IF i = 0 THEN "shift back" ELSE loop

\* mpn_div_qr_2_preinv: a limb of the quotient by two limbs.
StepByTwo ==
  /\ pc = "by two"
  /\ LET qr == Udiv3by2(high[1], high[2], np[i], <<inv.d1, inv.d0>>, inv.di)
     IN  qp' = [qp EXCEPT ![i] = qr.q] /\ high' = qr.r
  /\ NextLimb("by two")
  /\ UNCHANGED <<num, den, nn, dn, np, dp, inv>>

\* mpn_div_qr_pi1: a limb of the quotient by more than two limbs.

\* The two highest limbs are the divisor's: the estimate does not fit in a limb.
StepAtMost ==
  /\ pc = "by more"
  /\ high[2] = inv.d1 /\ np[dn - 1 + i] = inv.d0
  /\ np' = Splice(np, i, dn, Submul1(Part(np, i, dn), dp, dn, B - 1).limbs)
  /\ high' = <<0, np'[dn - 1 + i]>>
  /\ qp' = [qp EXCEPT ![i] = B - 1]
  /\ NextLimb("by more")
  /\ UNCHANGED <<num, den, nn, dn, dp, inv>>

\* Slip: the borrow is taken from the lower of the two limbs only.
BorrowLost(n1, n0, cy) == <<n1, Wrap(n0 - cy)>>
Borrow(n1, n0, cy) == <<Wrap(n1 - Bit(n0 < cy)), Wrap(n0 - cy)>>
\* The estimate was one too large when the borrow goes beyond the highest limb.
TooLarge(n1, n0, cy) == n1 < Bit(n0 < cy)

StepByMore ==
  /\ pc = "by more"
  /\ ~(high[2] = inv.d1 /\ np[dn - 1 + i] = inv.d0)
  /\ LET qr == Udiv3by2(high[2], np[dn - 1 + i], np[dn - 2 + i], <<inv.d1, inv.d0>>, inv.di)
         rest == Submul1(Part(np, i, dn - 2), dp, dn - 2, qr.q)
         top == Borrow(qr.r[1], qr.r[2], rest.cy)
         less == [Splice(np, i, dn - 2, rest.limbs) EXCEPT ![dn - 2 + i] = top[2]]
         back == AddN(Part(less, i, dn - 1), dp, dn - 1)
     IN  IF TooLarge(qr.r[1], qr.r[2], rest.cy)
         THEN /\ np' = Splice(less, i, dn - 1, back.limbs)
              /\ high' = <<0, Wrap(top[1] + inv.d1 + back.cy)>>
              /\ qp' = [qp EXCEPT ![i] = Wrap(qr.q - 1)]
         ELSE /\ np' = less
              /\ high' = <<0, top[1]>>
              /\ qp' = [qp EXCEPT ![i] = qr.q]
  /\ NextLimb("by more")
  /\ UNCHANGED <<num, den, nn, dn, dp, inv>>

\* The remainder, shifted back, in the lowest dn limbs at np.
ShiftBack ==
  /\ pc = "shift back"
  /\ LET low == IF dn = 2 THEN [np EXCEPT ![0] = high[2], ![1] = high[1]]
                ELSE [np EXCEPT ![dn - 1] = high[2]]
     IN  np' = IF inv.shift = 0 THEN low ELSE Splice(low, 0, dn, Rshift(low, dn, inv.shift).limbs)
  /\ pc' = "done"
  /\ UNCHANGED <<num, den, nn, dn, dp, qp, inv, high, i>>

Next == Normalize \/ StepByTwo \/ StepAtMost \/ StepByMore \/ ShiftBack

Spec == Init /\ [][Next]_vars

-----------------------------------------------------------------------------
(* Properties. *)

TypeOK ==
  /\ \A k \in 0..(nn - 1) : np[k] \in Limb
  /\ \A k \in 0..(nn - dn) : qp[k] \in Limb
  /\ high[1] \in Limb /\ high[2] \in Limb
  /\ i \in -1..(nn - dn)

\* The limbs of np that still belong to the dividend, and the value of what is left.
Below == IF dn = 2 THEN i + 1 ELSE dn + i
Left == (high[1] * B + high[2]) * B^Below + Number(np, Below)
Shifted == Number(den, dn) * 2^inv.shift

\* Between two limbs of the quotient the limbs found so far times the divisor, and what
\* is left, make up the dividend, and what is left is less than the divisor at that
\* place: every estimate was right after at most the corrections the code makes.
Progress ==
  pc \in {"by two", "by more", "shift back"} =>
    /\ Number(num, nn) * 2^inv.shift = Number(qp, nn - dn + 1) * Shifted + Left
    /\ Left < Shifted * B^(i + 1)

\* The quotient and the remainder at the end.
Divided ==
  pc = "done" =>
    /\ Number(qp, nn - dn + 1) = Number(num, nn) \div Number(den, dn)
    /\ Number(np, dn) = Number(num, nn) % Number(den, dn)
=============================================================================
