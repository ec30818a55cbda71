----------------------------- MODULE MpfProofs -----------------------------
(***************************************************************************)
(* A call of an mpf function changes no float but its destination, for any *)
(* floats, precisions, limb size and arguments that coincide (Elsewhere).  *)
(*                                                                         *)
(* The argument. Every function ends by writing to its destination r, and  *)
(* whatever limbs, size and exponent it writes there, it changes r and the *)
(* limbs of r's block only (Writes). The functions that need a temporary   *)
(* float take a block that is free, so that it is nobody else's, and give  *)
(* it back. Floats have blocks of their own (Apart), so a float that is    *)
(* not the destination keeps its fields and its limbs.                     *)
(***************************************************************************)
EXTENDS Mpf, FiniteSetTheorems, WellFoundedInduction, TLAPS

-----------------------------------------------------------------------------
(* What a function may change. *)

Fields(s) ==
  s = [prec |-> s.prec, size |-> s.size, exp |-> s.exp, d |-> s.d, len |-> s.len,
       limbs |-> s.limbs, live |-> s.live, fault |-> s.fault, status |-> s.status]
Typed(s) ==
  /\ Fields(s)
  /\ s.prec = [x \in Struct |-> s.prec[x]]
  /\ s.size = [x \in Struct |-> s.size[x]]
  /\ s.exp = [x \in Struct |-> s.exp[x]]
  /\ s.d = [x \in Struct |-> s.d[x]]
  /\ s.len = [b \in Block |-> s.len[b]]
  /\ s.limbs = [b \in Block |-> s.limbs[b]]

\* t is s but for the size and exponent of r and the limbs of its block.
Writes(s, t, r) ==
  /\ Typed(t)
  /\ t.prec = s.prec /\ t.d = s.d /\ t.len = s.len /\ t.live = s.live /\ t.status = s.status
  /\ \A x \in Struct \ {r} : t.size[x] = s.size[x] /\ t.exp[x] = s.exp[x]
  /\ \A b \in Block \ {s.d[r]} : t.limbs[b] = s.limbs[b]

-----------------------------------------------------------------------------
(* The primitives. *)

LEMMA WritesNothing ==
  ASSUME NEW s, Typed(s), NEW r
  PROVE  Writes(s, s, r)
BY DEF Writes

LEMMA WritesTwice ==
  ASSUME NEW s, NEW t, NEW u, NEW r, Writes(s, t, r), Writes(t, u, r)
  PROVE  Writes(s, u, r)
BY DEF Writes

\* Limbs, a size, an exponent and a fault are all that a function leaves.
LEMMA WritesLimbs ==
  ASSUME NEW s, Typed(s), NEW r, NEW v
  PROVE  Writes(s, [s EXCEPT !.limbs[s.d[r]] = v], r)
<1> DEFINE t == [s EXCEPT !.limbs[s.d[r]] = v]
<1>0. Fields(s)
  BY DEF Typed
<1>1. t = [prec |-> s.prec, size |-> s.size, exp |-> s.exp, d |-> s.d, len |-> s.len,
           limbs |-> [s.limbs EXCEPT ![s.d[r]] = v], live |-> s.live, fault |-> s.fault,
           status |-> s.status]
  BY <1>0 DEF Fields
<1> HIDE DEF t
<1> QED BY <1>1 DEF Fields, Typed, Writes, t

LEMMA WritesSize ==
  ASSUME NEW s, Typed(s), NEW r \in Struct, NEW n
  PROVE  Writes(s, [s EXCEPT !.size[r] = n], r)
<1> DEFINE t == [s EXCEPT !.size[r] = n]
<1>0. Fields(s)
  BY DEF Typed
<1>1. t = [prec |-> s.prec, size |-> [s.size EXCEPT ![r] = n], exp |-> s.exp, d |-> s.d,
           len |-> s.len, limbs |-> s.limbs, live |-> s.live, fault |-> s.fault,
           status |-> s.status]
  BY <1>0 DEF Fields
<1> HIDE DEF t
<1> QED BY <1>1 DEF Fields, Typed, Writes, t

LEMMA WritesExp ==
  ASSUME NEW s, Typed(s), NEW r \in Struct, NEW n
  PROVE  Writes(s, [s EXCEPT !.exp[r] = n], r)
<1> DEFINE t == [s EXCEPT !.exp[r] = n]
<1>0. Fields(s)
  BY DEF Typed
<1>1. t = [prec |-> s.prec, size |-> s.size, exp |-> [s.exp EXCEPT ![r] = n], d |-> s.d,
           len |-> s.len, limbs |-> s.limbs, live |-> s.live, fault |-> s.fault,
           status |-> s.status]
  BY <1>0 DEF Fields
<1> HIDE DEF t
<1> QED BY <1>1 DEF Fields, Typed, Writes, t

LEMMA WritesFault ==
  ASSUME NEW s, Typed(s), NEW r, NEW f
  PROVE  Writes(s, [s EXCEPT !.fault = f], r)
<1> DEFINE t == [s EXCEPT !.fault = f]
<1>0. Fields(s)
  BY DEF Typed
<1>1. t = [prec |-> s.prec, size |-> s.size, exp |-> s.exp, d |-> s.d, len |-> s.len,
           limbs |-> s.limbs, live |-> s.live, fault |-> f, status |-> s.status]
  BY <1>0 DEF Fields
<1> HIDE DEF t
<1> QED BY <1>1 DEF Fields, Typed, Writes, t

LEMMA PutWrites ==
  ASSUME NEW s, Typed(s), NEW r, NEW n, NEW v
  PROVE  Writes(s, Put(s, s.d[r], n, v), r)
<1> DEFINE t == Put(s, s.d[r], n, v)
<1>1. t = s \/ (\E l : t = [s EXCEPT !.limbs[s.d[r]] = l]) \/ t = [s EXCEPT !.fault = TRUE]
  BY DEF Put
<1>2. ASSUME NEW l, t = [s EXCEPT !.limbs[s.d[r]] = l] PROVE Writes(s, t, r)
  BY <1>2, WritesLimbs
<1>3. CASE t = [s EXCEPT !.fault = TRUE]
  BY <1>3, WritesFault
<1>4. CASE t = s
  BY <1>4, WritesNothing
<1> QED BY <1>1, <1>2, <1>3, <1>4

LEMMA PutAtWrites ==
  ASSUME NEW s, Typed(s), NEW r, NEW off, NEW n, NEW v
  PROVE  Writes(s, PutAt(s, s.d[r], off, n, v), r)
BY WritesNothing, PutWrites DEF PutAt

LEMMA SetSizWrites ==
  ASSUME NEW s, Typed(s), NEW r \in Struct, NEW n
  PROVE  Writes(s, SetSiz(s, r, n), r)
<1> DEFINE t == [s EXCEPT !.size[r] = n]
<1>1. Writes(s, t, r)
  BY WritesSize
<1>2. SetSiz(s, r, n) = t \/ \E l : SetSiz(s, r, n) = [t EXCEPT !.limbs[s.d[r]] = l]
  BY DEF SetSiz
<1> HIDE DEF t
<1>3. t.d = s.d /\ Typed(t)
  BY <1>1 DEF Writes
<1>4. ASSUME NEW l PROVE Writes(t, [t EXCEPT !.limbs[s.d[r]] = l], r)
  BY <1>3, WritesLimbs
<1> QED BY <1>1, <1>2, <1>4, WritesTwice

\* What every function ends with.
LEMMA AssignWrites ==
  ASSUME NEW s, Typed(s), NEW r \in Struct, NEW neg, NEW n, NEW exp, NEW v
  PROVE  Writes(s, Assign(s, r, neg, n, exp, v), r)
<1> DEFINE p == PutAt(s, s.d[r], 0, n, v)
           t == SetSiz(p, r, Signed(neg, n))
<1>1. Writes(s, p, r)
  BY PutAtWrites
<1> HIDE DEF p
<1>2. Writes(s, t, r)
  BY <1>1, SetSizWrites, WritesTwice DEF Writes
<1>3. Assign(s, r, neg, n, exp, v) = [t EXCEPT !.exp[r] = exp]
  BY DEF Assign, p
<1> HIDE DEF t
<1>4. Typed(t)
  BY <1>2 DEF Writes
<1>5. Writes(t, [t EXCEPT !.exp[r] = exp], r)
  BY <1>4, WritesExp
<1> QED BY <1>2, <1>3, <1>5, WritesTwice

\* More limbs than those of the result are written first.
LEMMA AssignAfterWrites ==
  ASSUME NEW s, Typed(s), NEW r \in Struct, NEW m, NEW w, NEW neg, NEW n, NEW exp, NEW v
  PROVE  Writes(s, Assign(PutAt(s, s.d[r], 0, m, w), r, neg, n, exp, v), r)
<1> DEFINE p == PutAt(s, s.d[r], 0, m, w)
<1>1. Writes(s, p, r)
  BY PutAtWrites
<1> HIDE DEF p
<1>2. Writes(p, Assign(p, r, neg, n, exp, v), r)
  BY <1>1, AssignWrites DEF Writes
<1> QED BY <1>1, <1>2, WritesTwice DEF p

LEMMA ZeroWrites ==
  ASSUME NEW s, Typed(s), NEW r \in Struct
  PROVE  Writes(s, Zero(s, r), r)
BY AssignWrites DEF Zero
-----------------------------------------------------------------------------
(* The functions that compute a float. *)

LEMMA SetWrites ==
  ASSUME NEW s, Typed(s), NEW r \in Struct, NEW u
  PROVE  Writes(s, MpfSet(s, r, u), r)
BY AssignWrites DEF MpfSet

LEMMA ResizedWrites ==
  ASSUME NEW s, Typed(s), NEW r \in Struct, NEW u, NEW neg
  PROVE  Writes(s, Resized(s, r, u, neg), r)
BY WritesSize, SetWrites DEF Resized

LEMMA NegWrites ==
  ASSUME NEW s, Typed(s), NEW r \in Struct, NEW u
  PROVE  Writes(s, MpfNeg(s, r, u), r) /\ Writes(s, MpfAbs(s, r, u), r)
BY ResizedWrites DEF MpfNeg, MpfAbs

LEMMA SetWordWrites ==
  ASSUME NEW s, Typed(s), NEW r \in Struct, NEW n
  PROVE  Writes(s, MpfSetUi(s, r, n), r) /\ Writes(s, MpfSetSi(s, r, n), r)
BY AssignWrites DEF MpfSetUi, MpfSetSi

LEMMA AddSameWrites ==
  ASSUME NEW s, Typed(s), NEW r \in Struct, NEW u, NEW v
  PROVE  Writes(s, AddSame(s, r, u, v), r)
BY AssignWrites, AssignAfterWrites DEF AddSame

LEMMA StrippedWrites ==
  ASSUME NEW s, Typed(s), NEW r \in Struct, NEW neg, NEW n, NEW exp, NEW v
  PROVE  Writes(s, Stripped(s, r, neg, n, exp, v), r)
BY AssignWrites, ZeroWrites DEF Stripped

LEMMA SubGeneralWrites ==
  ASSUME NEW s, Typed(s), NEW r \in Struct, NEW neg, NEW exp, NEW n, NEW a, NEW m, NEW b,
         NEW ediff, NEW prec
  PROVE  Writes(s, SubGeneral(s, r, neg, exp, n, a, m, b, ediff, prec), r)
BY AssignWrites, StrippedWrites DEF SubGeneral

LEMMA SubCloseWrites ==
  ASSUME NEW s, Typed(s), NEW r \in Struct, NEW neg, NEW exp, NEW n, NEW a, NEW m, NEW b, NEW prec
  PROVE  Writes(s, SubClose(s, r, neg, exp, n, a, m, b, prec), r)
BY AssignWrites, StrippedWrites, ZenonT(90) DEF SubClose

LEMMA SubNearWrites ==
  ASSUME NEW s, Typed(s), NEW r \in Struct, NEW neg, NEW exp, NEW n, NEW a, NEW m, NEW b, NEW prec
  PROVE  Writes(s, SubNear(s, r, neg, exp, n, a, m, b, prec), r)
BY SubGeneralWrites, SubCloseWrites DEF SubNear

LEMMA SubLevelWrites ==
  ASSUME NEW s, Typed(s), NEW r \in Struct, NEW neg, NEW exp, NEW n, NEW a, NEW m, NEW b, NEW prec
  PROVE  Writes(s, SubLevel(s, r, neg, exp, n, a, m, b, prec), r)
BY AssignWrites, ZeroWrites, SubGeneralWrites, SubCloseWrites DEF SubLevel

LEMMA SubSameWrites ==
  ASSUME NEW s, Typed(s), NEW r \in Struct, NEW u, NEW v, NEW neg
  PROVE  Writes(s, SubSame(s, r, u, v, neg), r)
BY SubLevelWrites, SubNearWrites, SubGeneralWrites DEF SubSame

LEMMA SignedWrites ==
  ASSUME NEW s, Typed(s), NEW r \in Struct, NEW u, NEW v
  PROVE  Writes(s, AddSigned(s, r, u, v), r) /\ Writes(s, SubSigned(s, r, u, v), r)
BY AddSameWrites, SubSameWrites DEF AddSigned, SubSigned

LEMMA SetMaybeWrites ==
  ASSUME NEW s, Typed(s), NEW r \in Struct, NEW v
  PROVE  Writes(s, SetMaybe(s, r, v), r)
BY WritesNothing, SetWrites DEF SetMaybe

LEMMA AddWrites ==
  ASSUME NEW s, Typed(s), NEW r \in Struct, NEW u, NEW v
  PROVE  Writes(s, MpfAdd(s, r, u, v), r)
BY SetMaybeWrites, SignedWrites DEF MpfAdd

LEMMA SubWrites ==
  ASSUME NEW s, Typed(s), NEW r \in Struct, NEW u, NEW v
  PROVE  Writes(s, MpfSub(s, r, u, v), r)
BY SetMaybeWrites, NegWrites, SignedWrites DEF MpfSub

LEMMA MulWrites ==
  ASSUME NEW s, Typed(s), NEW r \in Struct, NEW u, NEW v
  PROVE  Writes(s, MpfMul(s, r, u, v), r) /\ Writes(s, MpfMulUi(s, r, u, v), r)
<1>1. Writes(s, MpfMul(s, r, u, v), r)
  <2>1. \A un, vn : Writes(s, Multiplied(s, r, u, un, v, vn), r)
    BY AssignWrites DEF Multiplied
  <2> QED BY <2>1, ZeroWrites DEF MpfMul
<1>2. Writes(s, MpfMulUi(s, r, u, v), r)
  BY AssignAfterWrites, ZeroWrites DEF MpfMulUi
<1> QED BY <1>1, <1>2

LEMMA QuotientWrites ==
  ASSUME NEW s, Typed(s), NEW r \in Struct, NEW neg, NEW exp, NEW u, NEW un, NEW v, NEW vn
  PROVE  Writes(s, Quotient(s, r, neg, exp, u, un, v, vn), r)
BY AssignAfterWrites DEF Quotient, StripHigh

\* Division by zero is left out: it ends the process.
LEMMA DivWrites ==
  ASSUME NEW s, Typed(s), NEW r \in Struct, NEW u, NEW v, v.size # 0
  PROVE  Writes(s, MpfDiv(s, r, u, v), r) /\ Writes(s, MpfUiDiv(s, r, u, v), r)
<1>1. Writes(s, MpfDiv(s, r, u, v), r)
  BY QuotientWrites, ZeroWrites DEF MpfDiv
<1>2. Writes(s, MpfUiDiv(s, r, u, v), r)
  BY QuotientWrites, ZeroWrites DEF MpfUiDiv
<1> QED BY <1>1, <1>2

LEMMA DivUiWrites ==
  ASSUME NEW s, Typed(s), NEW r \in Struct, NEW u, NEW n, n # 0
  PROVE  Writes(s, MpfDivUi(s, r, u, n), r)
BY AssignAfterWrites, ZeroWrites DEF MpfDivUi, StripHigh

LEMMA SqrtWrites ==
  ASSUME NEW s, Typed(s), NEW r \in Struct, NEW u, ~(u.size < 0)
  PROVE  Writes(s, MpfSqrt(s, r, u), r)
BY AssignWrites, ZeroWrites DEF MpfSqrt

LEMMA SqrtUiWrites ==
  ASSUME NEW s, Typed(s), NEW r \in Struct, NEW n
  PROVE  Writes(s, MpfSqrtUi(s, r, n), r)
BY AssignWrites, SetWordWrites DEF MpfSqrtUi

LEMMA ShiftedWrites ==
  ASSUME NEW s, Typed(s), NEW r \in Struct, NEW u, NEW n
  PROVE  Writes(s, MpfMul2Exp(s, r, u, n), r) /\ Writes(s, MpfDiv2Exp(s, r, u, n), r)
<1>1. \A e : Writes(s, Copied(s, r, u, e), r)
  BY SetWrites DEF Copied
<1>2. \A up, e : Writes(s, Shifted(s, r, u, up, e), r)
  BY AssignAfterWrites DEF Shifted
<1>3. Writes(s, Zero(s, r), r)
  BY ZeroWrites
<1>4. Writes(s, MpfMul2Exp(s, r, u, n), r)
  BY <1>1, <1>2, <1>3 DEF MpfMul2Exp
<1>5. Writes(s, MpfDiv2Exp(s, r, u, n), r)
  BY <1>1, <1>2, <1>3 DEF MpfDiv2Exp
<1> QED BY <1>4, <1>5

LEMMA RoundWrites ==
  ASSUME NEW s, Typed(s), NEW r \in Struct, NEW u, NEW dir
  PROVE  Writes(s, MpfTrunc(s, r, u), r) /\ Writes(s, MpfCeilOrFloor(s, r, u, dir), r)
<1>1. Writes(s, MpfTrunc(s, r, u), r)
  BY AssignWrites, ZeroWrites DEF MpfTrunc
<1>2. Writes(s, MpfCeilOrFloor(s, r, u, dir), r)
  BY AssignWrites, ZeroWrites DEF MpfCeilOrFloor
<1> QED BY <1>1, <1>2

LEMMA SubUiWrites ==
  ASSUME NEW s, Typed(s), NEW r \in Struct, NEW u, NEW n
  PROVE  Writes(s, MpfSubUi(s, r, u, n), r) /\ Writes(s, MpfUiSub(s, r, n, u), r)
BY SetWrites, NegWrites, SubWrites DEF MpfSubUi, MpfUiSub

LEMMA AddUiWrites ==
  ASSUME NEW s, Typed(s), NEW r \in Struct, NEW u, NEW n
  PROVE  Writes(s, MpfAddUi(s, r, u, n), r)
<1> DEFINE t == MpfSubUi(s, r, Negated(u), n)
           neg == [t EXCEPT !.size[r] = -@]
<1>1. Writes(s, neg, r)
  <2>1. Writes(s, t, r)
    BY SubUiWrites
  <2> HIDE DEF t
  <2>2. \A k : Writes(t, [t EXCEPT !.size[r] = k], r)
    BY <2>1, WritesSize DEF Writes
  <2>3. neg = [t EXCEPT !.size[r] = -t.size[r]]
    OBVIOUS
  <2>4. Writes(t, neg, r)
    BY <2>2, <2>3
  <2> QED BY <2>1, <2>4, WritesTwice
<1>2. Writes(s, Raise(s, r, u, n), r)
  BY AssignWrites DEF Raise
<1>3. Writes(s, Within(s, r, u, n), r)
  BY AssignAfterWrites DEF Within
<1>4. Writes(s, Below(s, r, u, n), r)
  BY AssignWrites DEF Below
<1>5. Writes(s, MpfSetUi(s, r, n), r) /\ Writes(s, SetMaybe(s, r, u), r)
  BY SetWordWrites, SetMaybeWrites
<1>6. MpfAddUi(s, r, u, n) \in
        {MpfSetUi(s, r, n), neg, SetMaybe(s, r, u), Raise(s, r, u, n), Within(s, r, u, n),
         Below(s, r, u, n)}
  BY Zenon DEF MpfAddUi
<1> HIDE DEF neg
<1> QED BY <1>1, <1>2, <1>3, <1>4, <1>5, <1>6

LEMMA SetZWrites ==
  ASSUME NEW s, Typed(s), NEW r \in Struct, NEW n
  PROVE  Writes(s, MpfSetZ(s, r, n), r)
BY AssignWrites DEF MpfSetZ

LEMMA SetQWrites ==
  ASSUME NEW s, Typed(s), NEW r \in Struct, NEW n, NEW d
  PROVE  Writes(s, MpfSetQ(s, r, n, d), r)
BY QuotientWrites, ZeroWrites DEF MpfSetQ

-----------------------------------------------------------------------------
(* Functions that change blocks. *)

\* t is s but for the structs X and the blocks P.
Touches(s, t, X, P) ==
  /\ Typed(t) /\ t.status = s.status
  /\ \A x \in Struct \ X : t.size[x] = s.size[x] /\ t.exp[x] = s.exp[x] /\ t.d[x] = s.d[x]
  /\ \A b \in Block \ P : t.len[b] = s.len[b] /\ t.limbs[b] = s.limbs[b]

LEMMA WritesTouches ==
  ASSUME NEW s, NEW t, NEW r, Writes(s, t, r)
  PROVE  Touches(s, t, {r}, {s.d[r]}) /\ Typed(t) /\ t.d = s.d
BY DEF Writes, Touches

LEMMA TouchesTwice ==
  ASSUME NEW s, NEW t, NEW u, NEW X, NEW P, NEW Y, NEW Q, Touches(s, t, X, P), Touches(t, u, Y, Q)
  PROVE  Touches(s, u, X \cup Y, P \cup Q)
BY DEF Touches

\* A function changed in one place.
LEMMA OneChanged ==
  ASSUME NEW S, NEW f, f = [x \in S |-> f[x]], NEW a, NEW v, NEW g, g = [f EXCEPT ![a] = v]
  PROVE  g = [x \in S |-> g[x]] /\ \A x \in S \ {a} : g[x] = f[x]
OBVIOUS

LEMMA InitPrecTouches ==
  ASSUME NEW s, Typed(s), NEW r \in Struct, NEW prec, \E b \in Block : s.len[b] = 0
  PROVE  \E b \in Block :
           /\ s.len[b] = 0 /\ InitPrec(s, r, prec).d = [s.d EXCEPT ![r] = b]
           /\ Touches(s, InitPrec(s, r, prec), {r}, {b})
<1>1. PICK b \in Block : b = FreshBlock(s) /\ s.len[b] = 0
  BY DEF FreshBlock
<1>2. PICK n : n = prec + 1
  OBVIOUS
<1>3. PICK ones : ones = B^n - 1
  OBVIOUS
<1>4. Fields(s)
  BY DEF Typed
<1>5. InitPrec(s, r, prec) =
        [[s EXCEPT !.len[b] = n, !.limbs[b] = ones] EXCEPT
           !.prec[r] = prec, !.size[r] = 0, !.exp[r] = 0, !.d[r] = b, !.live = @ \cup {r}]
  BY <1>1, <1>2, <1>3, Zenon DEF InitPrec, Allocate
<1>6. InitPrec(s, r, prec) =
        [prec |-> [s.prec EXCEPT ![r] = prec], size |-> [s.size EXCEPT ![r] = 0],
         exp |-> [s.exp EXCEPT ![r] = 0], d |-> [s.d EXCEPT ![r] = b],
         len |-> [s.len EXCEPT ![b] = n], limbs |-> [s.limbs EXCEPT ![b] = ones],
         live |-> s.live \cup {r}, fault |-> s.fault, status |-> s.status]
  BY <1>4, <1>5 DEF Fields
<1>7. PICK t : t = InitPrec(s, r, prec)
  OBVIOUS
<1>8. /\ t.prec = [s.prec EXCEPT ![r] = prec] /\ t.size = [s.size EXCEPT ![r] = 0]
      /\ t.exp = [s.exp EXCEPT ![r] = 0] /\ t.d = [s.d EXCEPT ![r] = b]
      /\ t.len = [s.len EXCEPT ![b] = n] /\ t.limbs = [s.limbs EXCEPT ![b] = ones]
      /\ t.live = s.live \cup {r} /\ t.fault = s.fault /\ t.status = s.status
  BY <1>6, <1>7
<1>9. /\ t.prec = [x \in Struct |-> t.prec[x]]
      /\ t.size = [x \in Struct |-> t.size[x]] /\ \A x \in Struct \ {r} : t.size[x] = s.size[x]
      /\ t.exp = [x \in Struct |-> t.exp[x]] /\ \A x \in Struct \ {r} : t.exp[x] = s.exp[x]
      /\ t.d = [x \in Struct |-> t.d[x]] /\ \A x \in Struct \ {r} : t.d[x] = s.d[x]
      /\ t.len = [x \in Block |-> t.len[x]] /\ \A x \in Block \ {b} : t.len[x] = s.len[x]
      /\ t.limbs = [x \in Block |-> t.limbs[x]] /\ \A x \in Block \ {b} : t.limbs[x] = s.limbs[x]
  BY <1>8, OneChanged DEF Typed
<1>10. Fields(t)
  BY <1>6, <1>7, <1>8 DEF Fields
<1>11. Touches(s, t, {r}, {b})
  BY <1>8, <1>9, <1>10 DEF Touches, Typed
<1> QED BY <1>1, <1>7, <1>8, <1>11

LEMMA ClearTouches ==
  ASSUME NEW s, Typed(s), NEW r \in Struct
  PROVE  Touches(s, MpfClear(s, r), {r}, {s.d[r]})
<1>1. PICK f : f = (s.fault \/ s.prec[r] + 1 = 0 \/ s.len[s.d[r]] # s.prec[r] + 1)
  OBVIOUS
<1>4. Fields(s)
  BY DEF Typed
<1>5. MpfClear(s, r) =
        [[s EXCEPT !.len[s.d[r]] = 0, !.limbs[s.d[r]] = 0, !.fault = f] EXCEPT
           !.prec[r] = 0, !.size[r] = 0, !.exp[r] = 0, !.d[r] = Null, !.live = @ \ {r}]
  BY <1>1, Zenon DEF MpfClear, FreeLimbs, Free
<1>6. MpfClear(s, r) =
        [prec |-> [s.prec EXCEPT ![r] = 0], size |-> [s.size EXCEPT ![r] = 0],
         exp |-> [s.exp EXCEPT ![r] = 0], d |-> [s.d EXCEPT ![r] = Null],
         len |-> [s.len EXCEPT ![s.d[r]] = 0], limbs |-> [s.limbs EXCEPT ![s.d[r]] = 0],
         live |-> s.live \ {r}, fault |-> f, status |-> s.status]
  BY <1>4, <1>5 DEF Fields
<1>7. PICK t : t = MpfClear(s, r)
  OBVIOUS
<1>2. PICK b : b = s.d[r]
  OBVIOUS
<1>8. /\ t.prec = [s.prec EXCEPT ![r] = 0] /\ t.size = [s.size EXCEPT ![r] = 0]
      /\ t.exp = [s.exp EXCEPT ![r] = 0] /\ t.d = [s.d EXCEPT ![r] = Null]
      /\ t.len = [s.len EXCEPT ![b] = 0] /\ t.limbs = [s.limbs EXCEPT ![b] = 0]
      /\ t.live = s.live \ {r} /\ t.fault = f /\ t.status = s.status
  BY <1>2, <1>6, <1>7
<1>9. /\ t.prec = [x \in Struct |-> t.prec[x]]
      /\ t.size = [x \in Struct |-> t.size[x]] /\ \A x \in Struct \ {r} : t.size[x] = s.size[x]
      /\ t.exp = [x \in Struct |-> t.exp[x]] /\ \A x \in Struct \ {r} : t.exp[x] = s.exp[x]
      /\ t.d = [x \in Struct |-> t.d[x]] /\ \A x \in Struct \ {r} : t.d[x] = s.d[x]
      /\ t.len = [x \in Block |-> t.len[x]] /\ \A x \in Block \ {b} : t.len[x] = s.len[x]
      /\ t.limbs = [x \in Block |-> t.limbs[x]] /\ \A x \in Block \ {b} : t.limbs[x] = s.limbs[x]
  BY <1>8, OneChanged DEF Typed
<1>10. Fields(t)
  BY <1>2, <1>6, <1>7, <1>8 DEF Fields
<1>11. Touches(s, t, {r}, {b})
  BY <1>8, <1>9, <1>10 DEF Touches, Typed
<1> QED BY <1>2, <1>7, <1>11

LEMMA SetPrecTouches ==
  ASSUME NEW s, Typed(s), NEW r \in Struct, NEW bits
  PROVE  Touches(s, MpfSetPrec(s, r, bits), {r}, {s.d[r]})
<1> DEFINE new == BitsToPrec(bits)
<1>1. PICK t : t = IF AbSiz(s, r) > new + 1 THEN Shrunk(s, r, new + 1) ELSE s
  OBVIOUS
<1>2. Writes(s, t, r)
  BY <1>1, AssignWrites, WritesNothing DEF Shrunk
<1>3. Touches(s, t, {r}, {s.d[r]}) /\ Typed(t) /\ t.d = s.d
  BY <1>2, WritesTouches
<1>4. MpfSetPrec(s, r, bits) = s
        \/ MpfSetPrec(s, r, bits) =
             [Reallocate(t, s.d[r], s.prec[r] + 1, new + 1, s.d[r]) EXCEPT !.prec[r] = new]
  BY <1>1, Zenon DEF MpfSetPrec
<1>5. PICK b, m, n, p : b = s.d[r] /\ m = s.prec[r] + 1 /\ n = new + 1 /\ p = new
  OBVIOUS
<1> HIDE DEF new
<1>6. PICK l, f : /\ l = Low(t.limbs[b], Smaller(m, n)) + Ones(Smaller(m, n), n)
                  /\ f = (t.fault \/ t.len[b] # m)
  OBVIOUS
<1>7. PICK q : q = [t EXCEPT !.len = [@ EXCEPT ![b] = 0, ![b] = n],
                             !.limbs = [@ EXCEPT ![b] = 0, ![b] = l], !.fault = f]
  OBVIOUS
<1>8. Reallocate(t, b, m, n, b) = q
  BY <1>6, <1>7, Zenon DEF Reallocate
<1>9. Fields(t)
  BY <1>3 DEF Typed
<1>10. q = [prec |-> t.prec, size |-> t.size, exp |-> t.exp, d |-> t.d,
            len |-> [t.len EXCEPT ![b] = 0, ![b] = n],
            limbs |-> [t.limbs EXCEPT ![b] = 0, ![b] = l],
            live |-> t.live, fault |-> f, status |-> t.status]
  BY <1>7, <1>9 DEF Fields
<1>11. PICK u : u = [q EXCEPT !.prec[r] = p]
  OBVIOUS
<1>12. u = [prec |-> [t.prec EXCEPT ![r] = p], size |-> t.size, exp |-> t.exp, d |-> t.d,
            len |-> [t.len EXCEPT ![b] = 0, ![b] = n],
            limbs |-> [t.limbs EXCEPT ![b] = 0, ![b] = l],
            live |-> t.live, fault |-> f, status |-> t.status]
  BY <1>10, <1>11
<1>13. /\ u.prec = [t.prec EXCEPT ![r] = p] /\ u.size = t.size /\ u.exp = t.exp /\ u.d = t.d
       /\ u.len = [[t.len EXCEPT ![b] = 0] EXCEPT ![b] = n]
       /\ u.limbs = [[t.limbs EXCEPT ![b] = 0] EXCEPT ![b] = l]
       /\ u.status = t.status
  BY <1>12
<1>14. PICK g, h : g = [t.len EXCEPT ![b] = 0] /\ h = [t.limbs EXCEPT ![b] = 0]
  OBVIOUS
<1>15. /\ u.prec = [x \in Struct |-> u.prec[x]]
       /\ g = [x \in Block |-> g[x]] /\ \A x \in Block \ {b} : g[x] = t.len[x]
       /\ h = [x \in Block |-> h[x]] /\ \A x \in Block \ {b} : h[x] = t.limbs[x]
  BY <1>3, <1>13, <1>14, OneChanged DEF Typed
<1>16. /\ u.len = [x \in Block |-> u.len[x]] /\ \A x \in Block \ {b} : u.len[x] = g[x]
       /\ u.limbs = [x \in Block |-> u.limbs[x]] /\ \A x \in Block \ {b} : u.limbs[x] = h[x]
  BY <1>13, <1>14, <1>15, OneChanged
<1>17. Fields(u)
  BY <1>12, <1>13 DEF Fields
<1>18. Touches(t, u, {r}, {b})
  BY <1>3, <1>13, <1>15, <1>16, <1>17 DEF Touches, Typed
<1>19. Touches(s, u, {r}, {s.d[r]})
  BY <1>3, <1>5, <1>18 DEF Touches
<1>20. Touches(s, s, {r}, {s.d[r]})
  BY DEF Touches
<1> QED BY <1>4, <1>5, <1>8, <1>11, <1>19, <1>20

-----------------------------------------------------------------------------
(* Functions with a temporary float. *)

\* t is s but for r, and the temporary float lies in block b.
WithTmp(s, t, r, b) ==
  Touches(s, t, {Tmp, r}, {b, s.d[r]}) /\ t.d = [s.d EXCEPT ![Tmp] = b]

LEMMA TmpMade ==
  ASSUME NEW s, Typed(s), NEW r \in Var, NEW prec, \E b \in Block : s.len[b] = 0
  PROVE  \E b \in Block : s.len[b] = 0 /\ WithTmp(s, InitPrec(s, Tmp, prec), r, b)
<1> DEFINE t == InitPrec(s, Tmp, prec)
<1>1. Tmp \in Struct
  BY DEF Struct
<1>2. PICK b \in Block : s.len[b] = 0 /\ t.d = [s.d EXCEPT ![Tmp] = b] /\ Touches(s, t, {Tmp}, {b})
  BY <1>1, InitPrecTouches
<1> HIDE DEF t
<1>3. Touches(s, t, {Tmp, r}, {b, s.d[r]})
  BY <1>2 DEF Touches
<1> QED BY <1>2, <1>3 DEF WithTmp, t

LEMMA TmpWritten ==
  ASSUME NEW s, Typed(s), NEW r \in Var, NEW b, NEW t, NEW u, WithTmp(s, t, r, b),
         Writes(t, u, Tmp) \/ Writes(t, u, r)
  PROVE  WithTmp(s, u, r, b)
<1>1. r # Tmp /\ r \in Struct /\ Tmp \in Struct
  BY TmpAssumption DEF Struct
<1>2. t.d[Tmp] = b /\ t.d[r] = s.d[r]
  BY <1>1 DEF WithTmp, Typed
<1>3. Touches(s, t, {Tmp, r}, {b, s.d[r]}) /\ t.d = [s.d EXCEPT ![Tmp] = b]
  BY DEF WithTmp
<1>4. CASE Writes(t, u, Tmp)
  <2>1. Touches(t, u, {Tmp}, {b}) /\ u.d = t.d
    BY <1>2, <1>4, WritesTouches
  <2>2. Touches(s, u, {Tmp, r} \cup {Tmp}, {b, s.d[r]} \cup {b})
    BY <1>3, <2>1, TouchesTwice
  <2>3. {Tmp, r} \cup {Tmp} = {Tmp, r} /\ {b, s.d[r]} \cup {b} = {b, s.d[r]}
    OBVIOUS
  <2> QED BY <1>3, <2>1, <2>2, <2>3 DEF WithTmp
<1>5. CASE Writes(t, u, r)
  <2>1. Touches(t, u, {r}, {s.d[r]}) /\ u.d = t.d
    BY <1>2, <1>5, WritesTouches
  <2>2. Touches(s, u, {Tmp, r} \cup {r}, {b, s.d[r]} \cup {s.d[r]})
    BY <1>3, <2>1, TouchesTwice
  <2>3. {Tmp, r} \cup {r} = {Tmp, r} /\ {b, s.d[r]} \cup {s.d[r]} = {b, s.d[r]}
    OBVIOUS
  <2> QED BY <1>3, <2>1, <2>2, <2>3 DEF WithTmp
<1> QED BY <1>4, <1>5

LEMMA TmpGone ==
  ASSUME NEW s, Typed(s), NEW r \in Var, NEW b, NEW t, WithTmp(s, t, r, b)
  PROVE  Touches(s, TmpCleared(t), {Tmp, r}, {b, s.d[r]})
<1>1. Tmp \in Struct
  BY DEF Struct
<1>2. t.d[Tmp] = b
  BY <1>1 DEF WithTmp, Typed
<1>3. Touches(s, t, {Tmp, r}, {b, s.d[r]}) /\ Typed(t)
  BY DEF WithTmp, Touches
<1>4. Touches(t, TmpCleared(t), {Tmp}, {b})
  BY <1>1, <1>2, <1>3, ClearTouches DEF TmpCleared
<1>5. Touches(s, TmpCleared(t), {Tmp, r} \cup {Tmp}, {b, s.d[r]} \cup {b})
  BY <1>3, <1>4, TouchesTwice
<1>6. {Tmp, r} \cup {Tmp} = {Tmp, r} /\ {b, s.d[r]} \cup {b} = {b, s.d[r]}
  OBVIOUS
<1> QED BY <1>5, <1>6

\* t is s but for r and a block that was free.
Changes(s, t, r) ==
  \E b \in Block : s.len[b] = 0 /\ Touches(s, t, {Tmp, r}, {b, s.d[r]})

LEMMA WritesChanges ==
  ASSUME NEW s, NEW t, NEW r, Writes(s, t, r), \E b \in Block : s.len[b] = 0
  PROVE  Changes(s, t, r)
BY DEF Writes, Touches, Changes

LEMMA ReldiffChanges ==
  ASSUME NEW s, Typed(s), NEW r \in Var, NEW x, NEW y, \E b \in Block : s.len[b] = 0
  PROVE  Changes(s, MpfReldiff(s, r, x, y), r)
<1> DEFINE i == InitPrec(s, Tmp, s.prec[r] + Len(x))
           t == MpfSub(i, Tmp, x, y)
           d == Float(t, Tmp)
           u == MpfDiv(t, r, [d EXCEPT !.size = Len(d)], x)
<1>0. r \in Struct /\ Tmp \in Struct
  BY DEF Struct
<1>1. CASE x.size = 0
  <2>1. MpfReldiff(s, r, x, y) = MpfSetUi(s, r, Bit(y.size # 0))
    BY <1>1 DEF MpfReldiff
  <2>2. Writes(s, MpfReldiff(s, r, x, y), r)
    BY <1>0, <2>1, SetWordWrites
  <2> QED BY <2>2, WritesChanges
<1>2. CASE x.size # 0
  <2>1. PICK b \in Block : s.len[b] = 0 /\ WithTmp(s, i, r, b)
    BY TmpMade
  <2>2. Typed(i)
    BY <2>1 DEF WithTmp, Touches
  <2> HIDE DEF i
  <2>3. Writes(i, t, Tmp)
    BY <1>0, <2>2, SubWrites
  <2> HIDE DEF t
  <2>4. WithTmp(s, t, r, b) /\ Typed(t)
    BY <2>1, <2>3, TmpWritten DEF Writes
  <2>5. Writes(t, u, r)
    BY <1>0, <1>2, <2>4, DivWrites
  <2>6. MpfReldiff(s, r, x, y) = TmpCleared(u)
    BY <1>2, Zenon DEF MpfReldiff, i, t
  <2> HIDE DEF u
  <2>7. WithTmp(s, u, r, b)
    BY <2>4, <2>5, TmpWritten
  <2> QED BY <2>1, <2>6, <2>7, TmpGone DEF Changes
<1> QED BY <1>1, <1>2

\* A set of natural numbers has a least one.
LEMMA LeastOf ==
  ASSUME NEW S \in SUBSET Nat, S # {}
  PROVE  \E n \in S : \A k \in S : n <= k
<1> DEFINE UpTo == {0..n : n \in S}
<1>1. UpTo \subseteq FiniteSubsetsOf(Nat) /\ UpTo # {}
  <2>1. ASSUME NEW n \in S PROVE 0..n \in FiniteSubsetsOf(Nat)
    BY FS_Interval DEF FiniteSubsetsOf
  <2> HIDE DEF FiniteSubsetsOf
  <2> QED BY <2>1
<1>2. IsWellFoundedOn(StrictSubsetOrdering(Nat), FiniteSubsetsOf(Nat))
  BY FS_StrictSubsetOrderingWellFounded
<1> HIDE DEF UpTo
<1>3. PICK I \in UpTo : \A J \in UpTo : ~(<<J, I>> \in StrictSubsetOrdering(Nat))
  BY <1>1, <1>2, WFMin
<1>4. PICK n \in S : I = 0..n
  BY <1>3 DEF UpTo
<1>5. ASSUME NEW k \in S PROVE n <= k
  <2>1. 0..k \in UpTo /\ k \in Nat /\ n \in Nat
    BY <1>4 DEF UpTo
  <2>2. ~(<<0..k, 0..n>> \in StrictSubsetOrdering(Nat))
    BY <1>3, <1>4, <2>1
  <2>3. 0..k \in SUBSET Nat /\ 0..n \in SUBSET Nat
    BY <2>1
  <2>4. ~(0..k \subseteq 0..n) \/ 0..k = 0..n
    BY <2>2, <2>3 DEF StrictSubsetOrdering
  <2> QED BY <2>1, <2>4
<1> QED BY <1>4, <1>5

LEMMA LogTwoNat ==
  ASSUME NEW e \in Nat
  PROVE  LogTwo(e) \in Nat \ {0}
<1>1. PICK S : S = {k \in 2..e : 2^k <= e}
  OBVIOUS
<1>2. IsFiniteSet(2..e)
  BY FS_Interval
<1>3. S \subseteq 2..e
  BY <1>1
<1>4. IsFiniteSet(S)
  BY <1>2, <1>3, FS_Subset
<1>5. Cardinality(S) \in Nat
  BY <1>4, FS_CardinalityType
<1>6. LogTwo(e) = 1 + Cardinality(S)
  BY <1>1 DEF LogTwo
<1> QED BY <1>5, <1>6

\* Every product but the last goes to the temporary float.
LEMMA PowUiChanges ==
  ASSUME NEW s, Typed(s), NEW r \in Var, NEW u, NEW e \in Nat, \E b \in Block : s.len[b] = 0
  PROVE  Changes(s, MpfPowUi(s, r, u, e), r)
<1> DEFINE cnt == LogTwo(e)
           t0 == InitPrec(s, Tmp, BitsToPrec(PrecToBits(s.prec[r]) + cnt))
           first == MpfSet(t0, Tmp, u)
           times(t, v) == MpfMul(t, Tmp, Float(t, Tmp), v)
           step(t, i) == LET t2 == times(t, Float(t, Tmp))
                         IN  IF BitAt(e, i) = 1 THEN times(t2, u) ELSE t2
           UpTo(n, g) == g = [i \in 0..n |-> IF i = 0 THEN first ELSE step(g[i - 1], cnt - i)]
           f == CHOOSE g : UpTo(cnt, g)
           last == f[cnt - 1]
           square == times(last, Float(last, Tmp))
           done == IF BitAt(e, 0) = 1 THEN MpfMul(square, r, Float(square, Tmp), u)
                   ELSE MpfMul(last, r, Float(last, Tmp), Float(last, Tmp))
<1>0. r \in Struct /\ Tmp \in Struct /\ cnt \in Nat \ {0}
  BY LogTwoNat DEF Struct
<1>1. CASE e = 0 \/ e = 1
  <2>1. MpfPowUi(s, r, u, e) \in {MpfSetUi(s, r, 1), MpfSet(s, r, u)}
    BY <1>1 DEF MpfPowUi
  <2>2. Writes(s, MpfPowUi(s, r, u, e), r)
    BY <1>0, <2>1, SetWordWrites, SetWrites
  <2> QED BY <2>2, WritesChanges
<1>2. CASE e # 0 /\ e # 1
  <2>1. MpfPowUi(s, r, u, e) = TmpCleared(done)
    BY <1>2, Zenon DEF MpfPowUi
  <2>2. PICK b \in Block : s.len[b] = 0 /\ WithTmp(s, t0, r, b)
    BY TmpMade
  <2>3. WithTmp(s, first, r, b)
    <3>1. Typed(t0)
      BY <2>2 DEF WithTmp, Touches
    <3> HIDE DEF t0
    <3>2. Writes(t0, first, Tmp)
      BY <1>0, <3>1, SetWrites
    <3> QED BY <2>2, <3>2, TmpWritten
  <2>4. ASSUME NEW t, WithTmp(s, t, r, b), NEW v
        PROVE  WithTmp(s, times(t, v), r, b)
    <3>1. Typed(t)
      BY <2>4 DEF WithTmp, Touches
    <3>2. Writes(t, times(t, v), Tmp)
      BY <1>0, <3>1, MulWrites
    <3> HIDE DEF times
    <3> QED BY <2>4, <3>2, TmpWritten
  <2>5. ASSUME NEW t, WithTmp(s, t, r, b), NEW i
        PROVE  WithTmp(s, step(t, i), r, b)
    <3>1. WithTmp(s, times(t, Float(t, Tmp)), r, b)
      BY <2>4, <2>5
    <3>2. WithTmp(s, times(times(t, Float(t, Tmp)), u), r, b)
      BY <2>4, <3>1
    <3> HIDE DEF times
    <3>3. step(t, i) \in {times(t, Float(t, Tmp)), times(times(t, Float(t, Tmp)), u)}
      OBVIOUS
    <3> QED BY <3>1, <3>2, <3>3
  <2> HIDE DEF step, first, cnt
  <2>6. \A n \in Nat : \E g : UpTo(n, g)
    <3> DEFINE M == {n \in Nat : ~ \E g : UpTo(n, g)}
    <3> SUFFICES ASSUME M # {} PROVE FALSE
      OBVIOUS
    <3>1. PICK m \in M : \A k \in M : m <= k
      <4>1. M \in SUBSET Nat
        OBVIOUS
      <4> HIDE DEF M
      <4> QED BY <4>1, LeastOf
    <3>2. m \in Nat /\ ~ \E g : UpTo(m, g)
      BY <3>1
    <3>3. m # 0
      <4>1. UpTo(0, [i \in 0..0 |-> first])
        OBVIOUS
      <4> QED BY <3>2, <4>1
    <3>4. PICK g : UpTo(m - 1, g)
      <4>1. m - 1 \in Nat /\ ~(m <= m - 1)
        BY <3>2, <3>3
      <4>2. m - 1 \notin M
        BY <3>1, <4>1
      <4> QED BY <4>1, <4>2
    <3>5. PICK h : h = [i \in 0..m |-> IF i = m THEN step(g[m - 1], cnt - m) ELSE g[i]]
      OBVIOUS
    <3>6. ASSUME NEW i \in 0..m
          PROVE  h[i] = IF i = 0 THEN first ELSE step(h[i - 1], cnt - i)
      <4>1. CASE i = m
        <5>1. m - 1 \in 0..m /\ m - 1 # m
          BY <3>2, <3>3
        <5>2. h[m - 1] = g[m - 1] /\ h[m] = step(g[m - 1], cnt - m)
          BY <3>2, <3>5, <5>1
        <5> QED BY <3>3, <4>1, <5>2
      <4>2. CASE i # m
        <5>1. i \in 0..(m - 1) /\ h[i] = g[i]
          BY <3>2, <3>5, <4>2
        <5>2. g[i] = IF i = 0 THEN first ELSE step(g[i - 1], cnt - i)
          BY <3>4, <5>1
        <5>3. i # 0 => h[i - 1] = g[i - 1]
          BY <3>2, <3>5, <5>1
        <5> QED BY <5>1, <5>2, <5>3
      <4> QED BY <4>1, <4>2
    <3>7. h = [i \in 0..m |-> h[i]]
      BY <3>5
    <3>8. UpTo(m, h)
      BY <3>6, <3>7
    <3> QED BY <3>2, <3>8
  <2>7. UpTo(cnt, f)
    BY <1>0, <2>6
  <2>8. f = [i \in 0..cnt |-> IF i = 0 THEN first ELSE step(f[i - 1], cnt - i)]
    BY <2>7
  <2> HIDE DEF f
  <2>9. \A i \in 0..cnt : WithTmp(s, f[i], r, b)
    <3> DEFINE M == {i \in 0..cnt : ~ WithTmp(s, f[i], r, b)}
    <3> SUFFICES ASSUME M # {} PROVE FALSE
      OBVIOUS
    <3>1. PICK m \in M : \A k \in M : m <= k
      <4>1. M \in SUBSET Nat
        OBVIOUS
      <4> HIDE DEF M
      <4> QED BY <4>1, LeastOf
    <3>2. m \in 0..cnt /\ ~ WithTmp(s, f[m], r, b)
      BY <3>1
    <3>3. m # 0
      BY <2>3, <2>8, <3>2
    <3>4. m - 1 \in 0..cnt /\ WithTmp(s, f[m - 1], r, b)
      BY <1>0, <3>1, <3>2, <3>3
    <3>5. f[m] = step(f[m - 1], cnt - m)
      BY <2>8, <3>2, <3>3
    <3> QED BY <2>5, <3>2, <3>4, <3>5
  <2>10. WithTmp(s, last, r, b)
    BY <1>0, <2>9
  <2> HIDE DEF last
  <2>11. WithTmp(s, square, r, b)
    BY <2>4, <2>10
  <2> HIDE DEF square
  <2>12. \A t, v, w : WithTmp(s, t, r, b) => WithTmp(s, MpfMul(t, r, v, w), r, b)
    <3> SUFFICES ASSUME NEW t, NEW v, NEW w, WithTmp(s, t, r, b)
                 PROVE  WithTmp(s, MpfMul(t, r, v, w), r, b)
      OBVIOUS
    <3>1. Typed(t)
      BY DEF WithTmp, Touches
    <3>2. Writes(t, MpfMul(t, r, v, w), r)
      BY <1>0, <3>1, MulWrites
    <3> QED BY <3>2, TmpWritten
  <2>13. WithTmp(s, done, r, b)
    BY <2>10, <2>11, <2>12
  <2> HIDE DEF done
  <2> QED BY <2>1, <2>2, <2>13, TmpGone DEF Changes
<1> QED BY <1>1, <1>2

-----------------------------------------------------------------------------
(* Floats that are not the destination. *)

LEMMA ApartTyped ==
  ASSUME NEW s, Apart(s)
  PROVE  Typed(s) /\ s.status = "run" /\ s.live \subseteq Var /\ \E b \in Block : s.len[b] = 0
BY DEF Apart, Typed, Fields

LEMMA SameNumber ==
  ASSUME NEW s, NEW t, NEW x, s.size[x] = t.size[x], s.exp[x] = t.exp[x], s.d[x] = t.d[x],
         DOMAIN s.len = DOMAIN t.len, s.len[s.d[x]] = t.len[s.d[x]],
         s.limbs[s.d[x]] = t.limbs[s.d[x]]
  PROVE  FloatRat(t, Float(t, x)) = FloatRat(s, Float(s, x))
<1>1. PICK u : u = Float(s, x)
  OBVIOUS
<1>2. Float(t, x) = u
  BY <1>1 DEF Float
<1>3. u.p = s.d[x]
  BY <1>1 DEF Float
<1>4. \A n : Get(t, u.p, n) = Get(s, u.p, n)
  BY <1>3 DEF Get
<1>5. All(t, u) = All(s, u)
  BY <1>4, Zenon DEF All, Limbs
<1>6. FloatRat(t, u) = FloatRat(s, u)
  BY <1>5, Zenon DEF FloatRat
<1> QED BY <1>1, <1>2, <1>6

\* What a function does not touch keeps its value.
LEMMA OthersSame ==
  ASSUME NEW s, Apart(s), NEW t, NEW X, NEW P, Touches(s, t, X, P),
         NEW x \in s.live, x \notin X, s.d[x] \notin P
  PROVE  FloatRat(t, Float(t, x)) = FloatRat(s, Float(s, x))
<1>1. x \in Struct /\ s.d[x] \in Block
  BY ApartTyped DEF Apart, Struct
<1>2. DOMAIN s.len = Block /\ DOMAIN t.len = Block
  BY ApartTyped DEF Touches, Typed
<1>3. /\ s.size[x] = t.size[x] /\ s.exp[x] = t.exp[x] /\ s.d[x] = t.d[x]
      /\ s.len[s.d[x]] = t.len[s.d[x]] /\ s.limbs[s.d[x]] = t.limbs[s.d[x]]
  BY <1>1 DEF Touches
<1> QED BY <1>2, <1>3, SameNumber

LEMMA ChangesOnly ==
  ASSUME NEW s, Apart(s), NEW t, NEW r \in s.live, Changes(s, t, r), NEW x \in s.live \ {r}
  PROVE  FloatRat(t, Float(t, x)) = FloatRat(s, Float(s, x))
<1>1. PICK b \in Block : s.len[b] = 0 /\ Touches(s, t, {Tmp, r}, {b, s.d[r]})
  BY DEF Changes
<1>2. x # Tmp /\ x # r
  BY ApartTyped, TmpAssumption
<1>3. s.d[x] # b /\ s.d[x] # s.d[r]
  BY <1>1 DEF Apart
<1> QED BY <1>1, <1>2, <1>3, OthersSame

-----------------------------------------------------------------------------
(* The calls. *)

\* The step Elsewhere asks for.
Step ==
  LET then(x) == FloatRat(store', Float(store', x))
  IN  CASE goal'.kind = "swap" -> /\ then(goal'.to) = RatOf(goal'.and)
                                  /\ then(goal'.and) = RatOf(goal'.to)
        [] goal'.kind = "same" -> then(goal'.to) = goal'.of
        [] goal'.kind \in {"exact", "near", "root", "life"} ->
             \A x \in store.live \ {goal'.to} : then(x) = RatOf(x)
        [] OTHER -> TRUE
Good == Step /\ goal' # NoGoal

\* A call with a result other than an exchange.
LEMMA GoodCall ==
  ASSUME goal'.kind \in {"exact", "near", "root", "life"},
         \A x \in store.live \ {goal'.to} : FloatRat(store', Float(store', x)) = RatOf(x)
  PROVE  Good
<1>1. goal' # NoGoal
  BY DEF NoGoal
<1> QED BY <1>1 DEF Good, Step

LEMMA GoodReturn ==
  ASSUME Apart(store), NEW r \in store.live, NEW t, Changes(store, t, r), NEW g,
         g.kind \in {"exact", "near", "root"}, g.to = r, Returns(t, g)
  PROVE  Good
<1>1. t.status = "run"
  BY ApartTyped DEF Changes, Touches
<1>2. store' = t /\ goal' = g
  BY <1>1 DEF Returns
<1>3. \A x \in store.live \ {r} : FloatRat(store', Float(store', x)) = RatOf(x)
  BY <1>2, ChangesOnly DEF RatOf, Of
<1> QED BY <1>2, <1>3, GoodCall

LEMMA GoodWrites ==
  ASSUME Apart(store), NEW r \in store.live, NEW t, Writes(store, t, r), NEW g,
         g.kind \in {"exact", "near", "root"}, g.to = r, Returns(t, g)
  PROVE  Good
BY ApartTyped, WritesChanges, GoodReturn

\* The kinds of a result.
LEMMA Kinds ==
  ASSUME NEW x, NEW q
  PROVE  /\ Exact(x, q).kind = "exact" /\ Exact(x, q).to = x
         /\ Near(x, q).kind = "near" /\ Near(x, q).to = x
         /\ Sum(x, q).kind = "near" /\ Sum(x, q).to = x
         /\ Product(x, q).kind = "near" /\ Product(x, q).to = x
         /\ Root(x, q).kind = "root" /\ Root(x, q).to = x
BY DEF Exact, Near, Sum, Product, Root, Goal

LEMMA GoodOutside ==
  ASSUME NEW t, Returns(t, Outside)
  PROVE  Good
<1>1. goal'.kind = "outside"
  BY DEF Returns, Outside
<1>2. goal' # NoGoal
  BY <1>1 DEF NoGoal
<1> QED BY <1>1, <1>2 DEF Good, Step

LEMMA GoodInit2 ==
  ASSUME Apart(store), NEW x \in Var, NEW bits, Init2(x, bits)
  PROVE  Good
<1>1. x \in Struct /\ x \notin store.live
  BY DEF Init2, Unused, Struct
<1>2. PICK b \in Block : store.len[b] = 0 /\ Touches(store, store', {x}, {b})
  BY <1>1, ApartTyped, InitPrecTouches DEF Init2, MpfInit2
<1>3. goal'.kind = "life" /\ goal'.to = x
  BY DEF Init2, Kept
<1>4. ASSUME NEW y \in store.live PROVE FloatRat(store', Float(store', y)) = RatOf(y)
  <2>1. y # x /\ store.d[y] # b
    BY <1>1, <1>2 DEF Apart
  <2> QED BY <1>2, <2>1, OthersSame DEF RatOf, Of
<1> QED BY <1>3, <1>4, GoodCall

LEMMA GoodInitSet ==
  ASSUME Apart(store), NEW x \in Var, NEW u, NEW bits, InitSet(x, u, bits)
  PROVE  Good
<1> DEFINE t == InitPrec(store, x, BitsToPrec(bits))
<1>1. x \in Struct /\ x \notin store.live
  BY DEF InitSet, Unused, Struct
<1>2. PICK b \in Block : /\ store.len[b] = 0 /\ t.d = [store.d EXCEPT ![x] = b]
                         /\ Touches(store, t, {x}, {b})
  BY <1>1, ApartTyped, InitPrecTouches
<1>3. store' = MpfSet(t, x, Of(u))
  BY DEF InitSet, MpfInitSet
<1> HIDE DEF t
<1>4. Typed(t) /\ t.d[x] = b
  BY <1>1, <1>2, ApartTyped DEF Touches, Typed
<1>5. Touches(t, store', {x}, {b})
  BY <1>1, <1>3, <1>4, SetWrites, WritesTouches
<1>6. Touches(store, store', {x}, {b})
  BY <1>2, <1>5 DEF Touches
<1>7. goal'.kind = "exact" /\ goal'.to = x
  BY Kinds DEF InitSet
<1>8. ASSUME NEW y \in store.live PROVE FloatRat(store', Float(store', y)) = RatOf(y)
  <2>1. y # x /\ store.d[y] # b
    BY <1>1, <1>2 DEF Apart
  <2> QED BY <1>6, <2>1, OthersSame DEF RatOf, Of
<1> QED BY <1>7, <1>8, GoodCall

\* A float and its block.
LEMMA GoodAlone ==
  ASSUME Apart(store), NEW x \in store.live, Touches(store, store', {x}, {store.d[x]}),
         goal'.kind \in {"exact", "life"}, goal'.to = x
  PROVE  Good
<1>1. ASSUME NEW y \in store.live \ {x} PROVE FloatRat(store', Float(store', y)) = RatOf(y)
  <2>1. y # x /\ store.d[y] # store.d[x]
    BY DEF Apart
  <2> QED BY <2>1, OthersSame DEF RatOf, Of
<1> QED BY <1>1, GoodCall

LEMMA GoodClear ==
  ASSUME Apart(store), NEW x, Clear(x)
  PROVE  Good
<1>1. x \in store.live /\ x \in Struct
  BY ApartTyped DEF Clear, Ready, Struct
<1>2. Touches(store, store', {x}, {store.d[x]})
  BY <1>1, ApartTyped, ClearTouches DEF Clear
<1>3. goal'.kind = "life" /\ goal'.to = x
  BY DEF Clear, Kept
<1> QED BY <1>1, <1>2, <1>3, GoodAlone

LEMMA GoodSetPrec ==
  ASSUME Apart(store), NEW x, NEW bits, SetPrec(x, bits)
  PROVE  Good
<1>1. x \in store.live /\ x \in Struct
  BY ApartTyped DEF SetPrec, Ready, Struct
<1>2. Touches(store, store', {x}, {store.d[x]})
  BY <1>1, ApartTyped, SetPrecTouches DEF SetPrec
<1>3. goal'.kind = "exact" /\ goal'.to = x
  BY Kinds DEF SetPrec
<1> QED BY <1>1, <1>2, <1>3, GoodAlone

LEMMA GoodSetPrecRaw ==
  ASSUME Apart(store), NEW x, NEW bits, SetPrecRaw(x, bits)
  PROVE  Good
<1>1. PICK p : store' = [store EXCEPT !.prec[x] = p]
  BY DEF SetPrecRaw, MpfSetPrecRaw
<1>2. Fields(store)
  BY ApartTyped DEF Typed
<1>3. store' = [prec |-> [store.prec EXCEPT ![x] = p], size |-> store.size, exp |-> store.exp,
                d |-> store.d, len |-> store.len, limbs |-> store.limbs, live |-> store.live,
                fault |-> store.fault, status |-> store.status]
  BY <1>1, <1>2 DEF Fields
<1>4. /\ store'.size = store.size /\ store'.exp = store.exp /\ store'.d = store.d
      /\ store'.len = store.len /\ store'.limbs = store.limbs
  BY <1>3
<1>5. FloatRat(store', Float(store', x)) = RatOf(x)
  BY <1>4, SameNumber DEF RatOf, Of
<1>6. goal'.kind = "same" /\ goal'.to = x /\ goal'.of = RatOf(x)
  BY DEF SetPrecRaw, Same
<1>7. goal' # NoGoal
  BY <1>6 DEF NoGoal
<1>8. goal'.kind # "swap"
  BY <1>6
<1> QED BY <1>5, <1>6, <1>7, <1>8 DEF Good, Step

LEMMA GoodSwap ==
  ASSUME Apart(store), NEW x, NEW y, Swap(x, y)
  PROVE  Good
<1>1. x \in Struct /\ y \in Struct /\ x # y
  BY ApartTyped DEF Swap, Ready, Struct
<1>2. Typed(store)
  BY ApartTyped
<1>3. Fields(store)
  BY <1>2 DEF Typed
<1>4. store' = [store EXCEPT !.prec = SwappedPrec(@, x, y), !.size = SwappedPair(@, x, y),
                             !.exp = SwappedPair(@, x, y), !.d = SwappedPair(@, x, y)]
  BY DEF Swap, MpfSwap
<1>5. store' = [prec |-> SwappedPrec(store.prec, x, y), size |-> SwappedPair(store.size, x, y),
                exp |-> SwappedPair(store.exp, x, y), d |-> SwappedPair(store.d, x, y),
                len |-> store.len, limbs |-> store.limbs, live |-> store.live,
                fault |-> store.fault, status |-> store.status]
  BY <1>3, <1>4 DEF Fields
<1>6. /\ store'.size = SwappedPair(store.size, x, y) /\ store'.exp = SwappedPair(store.exp, x, y)
      /\ store'.d = SwappedPair(store.d, x, y)
      /\ store'.len = store.len /\ store'.limbs = store.limbs
  BY <1>5
<1>7. \A f : f = [w \in Struct |-> f[w]] =>
               SwappedPair(f, x, y)[x] = f[y] /\ SwappedPair(f, x, y)[y] = f[x]
  BY <1>1 DEF SwappedPair
<1>8. /\ store'.size[x] = store.size[y] /\ store'.size[y] = store.size[x]
      /\ store'.exp[x] = store.exp[y] /\ store'.exp[y] = store.exp[x]
      /\ store'.d[x] = store.d[y] /\ store'.d[y] = store.d[x]
  BY <1>2, <1>6, <1>7 DEF Typed
<1>9. ASSUME NEW v, NEW w, store'.size[v] = store.size[w], store'.exp[v] = store.exp[w],
             store'.d[v] = store.d[w]
      PROVE  FloatRat(store', Float(store', v)) = RatOf(w)
  <2>1. PICK u : u = Float(store', v)
    OBVIOUS
  <2>2. PICK z : z = Float(store, w)
    OBVIOUS
  <2>3. u.size = z.size /\ u.exp = z.exp /\ u.p = z.p /\ u.limbs = z.limbs
    BY <1>9, <2>1, <2>2 DEF Float
  <2>4. \A n : Get(store', u.p, n) = Get(store, z.p, n)
    BY <1>6, <2>3 DEF Get
  <2>5. Len(u) = Len(z)
    BY <2>3 DEF Len
  <2>6. All(store', u) = All(store, z)
    BY <2>3, <2>4, <2>5, Zenon DEF All, Limbs
  <2>7. FloatRat(store', u) = FloatRat(store, z)
    BY <2>3, <2>5, <2>6, Zenon DEF FloatRat
  <2> QED BY <2>1, <2>2, <2>7 DEF RatOf, Of
<1>10. goal'.kind = "swap" /\ goal'.to = x /\ goal'.and = y
  BY DEF Swap
<1>11. goal' # NoGoal
  BY <1>10 DEF NoGoal
<1> QED BY <1>8, <1>9, <1>10, <1>11 DEF Good, Step

LEMMA GoodLife == Apart(store) /\ Life => Good
BY GoodInit2, GoodInitSet, GoodClear, GoodSetPrec, GoodSetPrecRaw, GoodSwap DEF Life

\* r is what the functions write to: a float, in a store with a free block.
LEMMA Target ==
  ASSUME Apart(store), NEW r, Ready(r)
  PROVE  /\ r \in store.live /\ r \in Var /\ r \in Struct /\ Typed(store)
         /\ \E b \in Block : store.len[b] = 0
BY ApartTyped DEF Ready, Struct

LEMMA GoodUnary == Apart(store) /\ Unary => Good
<1> SUFFICES ASSUME Apart(store), Unary PROVE Good
  OBVIOUS
<1>1. ASSUME NEW r, NEW u, Set(r, u) PROVE Good
  <2>1. Ready(r) /\ Returns(MpfSet(store, r, Of(u)), Exact(r, RatOf(u)))
    BY <1>1 DEF Set
  <2> QED BY <2>1, Target, SetWrites, Kinds, GoodWrites
<1>2. ASSUME NEW r, NEW u, Neg(r, u) PROVE Good
  <2>1. Ready(r) /\ Returns(MpfNeg(store, r, Of(u)), Exact(r, MinusRat(IntRat(0), RatOf(u))))
    BY <1>2 DEF Neg
  <2> QED BY <2>1, Target, NegWrites, Kinds, GoodWrites
<1>3. ASSUME NEW r, NEW u, AbsCall(r, u) PROVE Good
  <2>1. Ready(r) /\ Returns(MpfAbs(store, r, Of(u)), Exact(r, AbsRat(RatOf(u))))
    BY <1>3 DEF AbsCall
  <2> QED BY <2>1, Target, NegWrites, Kinds, GoodWrites
<1>4. ASSUME NEW r, NEW u, Sqrt(r, u) PROVE Good
  <2>1. CASE store.size[u] < 0
    BY <1>4, <2>1, GoodOutside DEF Sqrt
  <2>2. CASE ~(store.size[u] < 0)
    <3>1. Ready(r) /\ Returns(MpfSqrt(store, r, Of(u)), Root(r, RatOf(u)))
      BY <1>4, <2>2 DEF Sqrt
    <3>2. ~(Of(u).size < 0)
      BY <2>2 DEF Of, Float
    <3> QED BY <3>1, <3>2, Target, SqrtWrites, Kinds, GoodWrites
  <2> QED BY <2>1, <2>2
<1>5. ASSUME NEW r, NEW u, TruncCall(r, u) PROVE Good
  <2>1. Ready(r) /\ Returns(MpfTrunc(store, r, Of(u)), Exact(r, IntRat(Rounded(RatOf(u), 0))))
    BY <1>5 DEF TruncCall
  <2> QED BY <2>1, Target, RoundWrites, Kinds, GoodWrites
<1>6. ASSUME NEW r, NEW u, NEW dir, Round(r, u, dir) PROVE Good
  <2>1. Ready(r) /\ Returns(MpfCeilOrFloor(store, r, Of(u), dir),
                            Near(r, IntRat(Rounded(RatOf(u), dir))))
    BY <1>6 DEF Round
  <2> QED BY <2>1, Target, RoundWrites, Kinds, GoodWrites
<1>7. ASSUME NEW r, NEW u, NEW n, Shift(r, u, n) PROVE Good
  <2>1. Ready(r)
    BY <1>7 DEF Shift
  <2>2. \/ Returns(MpfMul2Exp(store, r, Of(u), n), Near(r, TimesRat(RatOf(u), IntRat(2^n))))
        \/ Returns(MpfDiv2Exp(store, r, Of(u), n), Near(r, OverRat(RatOf(u), IntRat(2^n))))
    BY <1>7 DEF Shift
  <2> QED BY <2>1, <2>2, Target, ShiftedWrites, Kinds, GoodWrites
<1>8. ASSUME NEW r, NEW u, NEW n \in 0..3, PowUi(r, u, n) PROVE Good
  <2>1. Ready(r) /\ Returns(MpfPowUi(store, r, Of(u), n), Product(r, PowerRat(RatOf(u), n)))
    BY <1>8 DEF PowUi
  <2>2. Changes(store, MpfPowUi(store, r, Of(u), n), r)
    BY <2>1, Target, PowUiChanges
  <2> QED BY <2>1, <2>2, Target, Kinds, GoodReturn
<1> QED BY <1>1, <1>2, <1>3, <1>4, <1>5, <1>6, <1>7, <1>8 DEF Unary

LEMMA GoodWord == Apart(store) /\ WithWord => Good
<1> SUFFICES ASSUME Apart(store), WithWord PROVE Good
  OBVIOUS
<1>1. ASSUME NEW r, NEW u, NEW n, AddUi(r, u, n) PROVE Good
  <2>1. Ready(r) /\ Returns(MpfAddUi(store, r, Of(u), n), Sum(r, PlusRat(RatOf(u), IntRat(n))))
    BY <1>1 DEF AddUi
  <2> QED BY <2>1, Target, AddUiWrites, Kinds, GoodWrites
<1>2. ASSUME NEW r, NEW u, NEW n, SubUi(r, u, n) PROVE Good
  <2>1. Ready(r) /\ Returns(MpfSubUi(store, r, Of(u), n), Sum(r, MinusRat(RatOf(u), IntRat(n))))
    BY <1>2 DEF SubUi
  <2> QED BY <2>1, Target, SubUiWrites, Kinds, GoodWrites
<1>3. ASSUME NEW r, NEW n, NEW v, UiSub(r, n, v) PROVE Good
  <2>1. Ready(r) /\ Returns(MpfUiSub(store, r, n, Of(v)), Sum(r, MinusRat(IntRat(n), RatOf(v))))
    BY <1>3 DEF UiSub
  <2> QED BY <2>1, Target, SubUiWrites, Kinds, GoodWrites
<1>4. ASSUME NEW r, NEW u, NEW n, MulUi(r, u, n) PROVE Good
  <2>1. Ready(r) /\ Returns(MpfMulUi(store, r, Of(u), n), Exact(r, TimesRat(RatOf(u), IntRat(n))))
    BY <1>4 DEF MulUi
  <2> QED BY <2>1, Target, MulWrites, Kinds, GoodWrites
<1>5. ASSUME NEW r, NEW u, NEW n, DivUi(r, u, n) PROVE Good
  <2>1. CASE n = 0
    BY <1>5, <2>1, GoodOutside DEF DivUi, Dividing
  <2>2. CASE n # 0
    <3>1. Ready(r) /\ Returns(MpfDivUi(store, r, Of(u), n), Exact(r, OverRat(RatOf(u), IntRat(n))))
      BY <1>5, <2>2 DEF DivUi, Dividing
    <3> QED BY <2>2, <3>1, Target, DivUiWrites, Kinds, GoodWrites
  <2> QED BY <2>1, <2>2
<1>6. ASSUME NEW r, NEW n, NEW v, UiDiv(r, n, v) PROVE Good
  <2>1. CASE Of(v).size = 0
    BY <1>6, <2>1, GoodOutside DEF UiDiv, Dividing
  <2>2. CASE Of(v).size # 0
    <3>1. Ready(r) /\ Returns(MpfUiDiv(store, r, n, Of(v)), Exact(r, OverRat(IntRat(n), RatOf(v))))
      BY <1>6, <2>2 DEF UiDiv, Dividing
    <3> QED BY <2>2, <3>1, Target, DivWrites, Kinds, GoodWrites
  <2> QED BY <2>1, <2>2
<1>7. ASSUME NEW r, NEW n, SetWord(r, n) PROVE Good
  <2>1. Ready(r)
    BY <1>7 DEF SetWord
  <2>2. \/ Returns(MpfSetUi(store, r, n), Exact(r, IntRat(n)))
        \/ Returns(MpfSetSi(store, r, -n), Exact(r, IntRat(-n)))
        \/ Returns(MpfSqrtUi(store, r, n), Root(r, IntRat(n)))
    BY <1>7 DEF SetWord
  <2> QED BY <2>1, <2>2, Target, SetWordWrites, SqrtUiWrites, Kinds, GoodWrites
<1>8. ASSUME NEW r, NEW n, SetZ(r, n) PROVE Good
  <2>1. Ready(r) /\ Returns(MpfSetZ(store, r, n), Exact(r, IntRat(n)))
    BY <1>8 DEF SetZ
  <2> QED BY <2>1, Target, SetZWrites, Kinds, GoodWrites
<1>9. ASSUME NEW r, NEW n, NEW d, SetQ(r, n, d) PROVE Good
  <2>1. Ready(r) /\ Returns(MpfSetQ(store, r, n, d), Exact(r, Rat(n, d, 0)))
    BY <1>9 DEF SetQ
  <2> QED BY <2>1, Target, SetQWrites, Kinds, GoodWrites
<1> QED BY <1>1, <1>2, <1>3, <1>4, <1>5, <1>6, <1>7, <1>8, <1>9 DEF WithWord

LEMMA GoodBinary == Apart(store) /\ Binary => Good
<1> SUFFICES ASSUME Apart(store), Binary PROVE Good
  OBVIOUS
<1>1. ASSUME NEW r, NEW u, NEW v, Add(r, u, v) PROVE Good
  <2>1. Ready(r) /\ Returns(MpfAdd(store, r, Of(u), Of(v)), Sum(r, PlusRat(RatOf(u), RatOf(v))))
    BY <1>1 DEF Add
  <2> QED BY <2>1, Target, AddWrites, Kinds, GoodWrites
<1>2. ASSUME NEW r, NEW u, NEW v, Sub(r, u, v) PROVE Good
  <2>1. Ready(r) /\ Returns(MpfSub(store, r, Of(u), Of(v)), Sum(r, MinusRat(RatOf(u), RatOf(v))))
    BY <1>2 DEF Sub
  <2> QED BY <2>1, Target, SubWrites, Kinds, GoodWrites
<1>3. ASSUME NEW r, NEW u, NEW v, Mul(r, u, v) PROVE Good
  <2>1. Ready(r) /\ Returns(MpfMul(store, r, Of(u), Of(v)),
                            Product(r, TimesRat(RatOf(u), RatOf(v))))
    BY <1>3 DEF Mul
  <2> QED BY <2>1, Target, MulWrites, Kinds, GoodWrites
<1>4. ASSUME NEW r, NEW u, NEW v, Div(r, u, v) PROVE Good
  <2>1. CASE Of(v).size = 0
    BY <1>4, <2>1, GoodOutside DEF Div, Dividing
  <2>2. CASE Of(v).size # 0
    <3>1. Ready(r) /\ Returns(MpfDiv(store, r, Of(u), Of(v)), Exact(r, OverRat(RatOf(u), RatOf(v))))
      BY <1>4, <2>2 DEF Div, Dividing
    <3> QED BY <2>2, <3>1, Target, DivWrites, Kinds, GoodWrites
  <2> QED BY <2>1, <2>2
<1>5. ASSUME NEW r, NEW x, NEW y, Reldiff(r, x, y) PROVE Good
  <2>1. PICK q : Ready(r) /\ Returns(MpfReldiff(store, r, Of(x), Of(y)), Near(r, q))
    BY <1>5 DEF Reldiff
  <2>2. Changes(store, MpfReldiff(store, r, Of(x), Of(y)), r)
    BY <2>1, Target, ReldiffChanges
  <2> QED BY <2>1, <2>2, Target, Kinds, GoodReturn
<1> QED BY <1>1, <1>2, <1>3, <1>4, <1>5 DEF Binary

-----------------------------------------------------------------------------
(* The theorem. *)

\* The call is made in a state the client may be in.
StartsApart == goal = NoGoal => Apart(store)

\* Every action is a call, and the client makes one call only.
LEMMA CallsOnce == Next => goal = NoGoal
<1>1. Life => goal = NoGoal
  BY DEF Life, Init2, SetPrec, SetPrecRaw, InitSet, Swap, Clear, Ready, Unused
<1>2. Unary => goal = NoGoal
  BY DEF Unary, Set, Neg, AbsCall, Sqrt, TruncCall, Round, Shift, PowUi, Ready
<1>3. WithWord => goal = NoGoal
  BY DEF WithWord, AddUi, SubUi, UiSub, MulUi, DivUi, UiDiv, SetWord, SetZ, SetQ, Ready
<1>4. Binary => goal = NoGoal
  BY DEF Binary, Add, Sub, Mul, Div, Reldiff, Ready
<1> QED BY <1>1, <1>2, <1>3, <1>4 DEF Next

LEMMA NextGood == StartsApart /\ Next => Good
BY CallsOnce, GoodLife, GoodUnary, GoodWord, GoodBinary DEF StartsApart, Next

\* No call changes a float other than its destination, whatever the floats, their
\* precisions and blocks, the operands that coincide with the destination, and the
\* temporary float mpf_reldiff and mpf_pow_ui make; mpf_swap exchanges two values and
\* mpf_set_prec_raw keeps one.
THEOREM ElsewhereAlways == Spec => Elsewhere
<1>1. Init => StartsApart
  BY StartsAssumption DEF Init, StartsApart
<1>2. StartsApart /\ [Next]_vars => StartsApart'
  <2>1. StartsApart /\ Next => StartsApart'
    BY NextGood DEF Good, StartsApart
  <2>2. StartsApart /\ UNCHANGED vars => StartsApart'
    BY DEF vars, StartsApart
  <2> QED BY <2>1, <2>2
<1>3. StartsApart /\ [Next]_vars => [Step]_vars
  BY NextGood DEF Good
<1> QED BY <1>1, <1>2, <1>3, PTL DEF Spec, Elsewhere, Step
=============================================================================
