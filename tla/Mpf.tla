-------------------------------- MODULE Mpf --------------------------------
(***************************************************************************)
(* A client that holds floats of different precisions and makes a call of  *)
(* an mpf function with any of them as the destination and the operands.   *)
(* The floats it starts from are all those of a few shapes; one of them    *)
(* may have its precision lowered by mpf_set_prec_raw.                     *)
(*                                                                         *)
(* goal is a history variable: what the last call was to compute, as an    *)
(* exact rational, and where.                                              *)
(***************************************************************************)
EXTENDS MpfMulDiv

CONSTANTS
  Starts,   \* pairs: the floats the client holds and the precision of each block
  Words,    \* the unsigned long operands
  Wholes,\* the mpz operands
  BitCounts \* shifts, precisions and numbers of leading bits

\* Floats in blocks of their own, and a block that is free.
Apart(s) ==
  /\ s \in [prec : [Struct -> Nat], size : [Struct -> Int], exp : [Struct -> Int],
            d : [Struct -> Block \cup {Null}], len : [Block -> Nat], limbs : [Block -> Nat],
            live : SUBSET Var, fault : {FALSE}, status : {"run"}]
  /\ \A x \in s.live : s.d[x] \in Block /\ s.len[s.d[x]] # 0
  /\ \A x, y \in s.live : s.d[x] = s.d[y] => x = y
  /\ \E b \in Block : s.len[b] = 0

ASSUME StartsAssumption == \A f \in Starts : Apart(f.store)
ASSUME WordsAssumption == Words \subseteq Nat /\ Wholes \subseteq Int /\ BitCounts \subseteq Nat

VARIABLES
  store,
  full,     \* full[x]: the precision the block of x was allocated for
  goal

vars == <<store, full, goal>>

-----------------------------------------------------------------------------
(* Rationals n / d * B^e. *)

Rat(n, d, e) == [n |-> n, d |-> d, e |-> e]
IntRat(n) == Rat(n, 1, 0)
FloatRat(s, u) == Rat(Signed(u.size < 0, All(s, u)), 1, u.exp - Len(u))
Aligned(a, e) == a.n * B^(a.e - e)
PlusRat(a, b) ==
  LET e == Min2(a.e, b.e) IN Rat(Aligned(a, e) * b.d + Aligned(b, e) * a.d, a.d * b.d, e)
MinusRat(a, b) == PlusRat(a, [b EXCEPT !.n = -@])
TimesRat(a, b) == Rat(a.n * b.n, a.d * b.d, a.e + b.e)
OverRat(a, b) == IF b.n < 0 THEN Rat(-a.n * b.d, a.d * Abs(b.n), a.e - b.e)
                 ELSE Rat(a.n * b.d, a.d * b.n, a.e - b.e)
AbsRat(a) == [a EXCEPT !.n = Abs(@)]
LessRat(a, b) == MinusRat(a, b).n < 0
SgnRat(a) == SgnOf(a.n)
\* The integer below (dir < 0), above (dir > 0) or towards zero.
Down(a) == IF a.e >= 0 THEN a.n * B^a.e ELSE a.n \div B^(-a.e)
Rounded(a, dir) ==
  CASE dir < 0 -> Down(a)
    [] dir > 0 -> -Down([a EXCEPT !.n = -@])
    [] OTHER -> SgnRat(a) * Down(AbsRat(a))
PowerRat(a, n) == IF n = 0 THEN IntRat(1) ELSE Rat(a.n^n, 1, n * a.e)

-----------------------------------------------------------------------------

NoGoal == [kind |-> "none"]
Goal(x, q, units) == [kind |-> "near", to |-> x, of |-> q, units |-> units]
Near(x, q) == Goal(x, q, 1)
Sum(x, q) == Goal(x, q, 2)
Product(x, q) == Goal(x, q, 3)
Exact(x, q) == [kind |-> "exact", to |-> x, of |-> q]
Root(x, q) == [kind |-> "root", to |-> x, of |-> q]
Same(x, q) == [kind |-> "same", to |-> x, of |-> q]

Init == \E f \in Starts : store = f.store /\ full = f.full /\ goal = NoGoal

Ready(x) == goal = NoGoal /\ x \in store.live
Unused(x) == goal = NoGoal /\ x \in Var \ store.live
\* A call ends with result t. Outside its domain it must end the process.
Outside == [kind |-> "outside"]
Returns(t, g) ==
  /\ goal' = g
  /\ store' = IF t.status = "run" THEN t ELSE Exception(EmptyFloats, t.status)
  /\ UNCHANGED full
Of(x) == Float(store, x)
RatOf(x) == FloatRat(store, Of(x))

(* Life cycle. The precision of a float must be restored before its block   *)
(* is freed or reallocated (the manual's rule).                             *)

Unlowered(x) == store.prec[x] = full[x]
Kept(x) == [kind |-> "life", to |-> x]
Init2(x, bits) ==
  /\ Unused(x)
  /\ store' = MpfInit2(store, x, bits) /\ goal' = Kept(x)
  /\ full' = [full EXCEPT ![x] = BitsToPrec(bits)]
InitSet(x, u, bits) ==
  /\ Unused(x) /\ Ready(u)
  /\ store' = MpfInitSet(store, x, Of(u), BitsToPrec(bits))
  /\ goal' = Exact(x, RatOf(u))
  /\ full' = [full EXCEPT ![x] = BitsToPrec(bits)]
Clear(x) ==
  /\ Ready(x) /\ Unlowered(x)
  /\ store' = MpfClear(store, x) /\ goal' = Kept(x) /\ full' = [full EXCEPT ![x] = 0]
SetPrec(x, bits) ==
  /\ Ready(x) /\ Unlowered(x)
  /\ store' = MpfSetPrec(store, x, bits) /\ goal' = Exact(x, RatOf(x))
  /\ full' = [full EXCEPT ![x] = BitsToPrec(bits)]
SetPrecRaw(x, bits) ==
  /\ Ready(x) /\ BitsToPrec(bits) <= full[x]
  /\ store' = MpfSetPrecRaw(store, x, bits) /\ goal' = Same(x, RatOf(x)) /\ UNCHANGED full
Swap(x, y) ==
  /\ Ready(x) /\ Ready(y) /\ x # y
  /\ store' = MpfSwap(store, x, y) /\ full' = SwappedPair(full, x, y)
  /\ goal' = [kind |-> "swap", to |-> x, and |-> y]

(* One operand. *)

Set(r, u) == Ready(r) /\ Ready(u) /\ Returns(MpfSet(store, r, Of(u)), Exact(r, RatOf(u)))
Neg(r, u) ==
  Ready(r) /\ Ready(u)
    /\ Returns(MpfNeg(store, r, Of(u)), Exact(r, MinusRat(IntRat(0), RatOf(u))))
AbsCall(r, u) ==
  Ready(r) /\ Ready(u) /\ Returns(MpfAbs(store, r, Of(u)), Exact(r, AbsRat(RatOf(u))))
Sqrt(r, u) ==
  Ready(r) /\ Ready(u)
    /\ Returns(MpfSqrt(store, r, Of(u)),
               IF store.size[u] < 0 THEN Outside ELSE Root(r, RatOf(u)))
TruncCall(r, u) ==
  Ready(r) /\ Ready(u)
    /\ Returns(MpfTrunc(store, r, Of(u)), Exact(r, IntRat(Rounded(RatOf(u), 0))))
Round(r, u, dir) ==
  Ready(r) /\ Ready(u)
    /\ Returns(MpfCeilOrFloor(store, r, Of(u), dir), Near(r, IntRat(Rounded(RatOf(u), dir))))
Shift(r, u, n) ==
  Ready(r) /\ Ready(u)
    /\ \/ Returns(MpfMul2Exp(store, r, Of(u), n), Near(r, TimesRat(RatOf(u), IntRat(2^n))))
       \/ Returns(MpfDiv2Exp(store, r, Of(u), n), Near(r, OverRat(RatOf(u), IntRat(2^n))))
PowUi(r, u, n) ==
  Ready(r) /\ Ready(u)
    /\ Returns(MpfPowUi(store, r, Of(u), n), Product(r, PowerRat(RatOf(u), n)))

(* An operand and a machine word, an integer or a rational. *)

Dividing(r, t, divisor, q) ==
  Returns(t, IF divisor = 0 THEN Outside ELSE Exact(r, q))

AddUi(r, u, n) ==
  Ready(r) /\ Ready(u)
    /\ Returns(MpfAddUi(store, r, Of(u), n), Sum(r, PlusRat(RatOf(u), IntRat(n))))
SubUi(r, u, n) ==
  Ready(r) /\ Ready(u)
    /\ Returns(MpfSubUi(store, r, Of(u), n), Sum(r, MinusRat(RatOf(u), IntRat(n))))
UiSub(r, n, v) ==
  Ready(r) /\ Ready(v)
    /\ Returns(MpfUiSub(store, r, n, Of(v)), Sum(r, MinusRat(IntRat(n), RatOf(v))))
MulUi(r, u, n) ==
  Ready(r) /\ Ready(u)
    /\ Returns(MpfMulUi(store, r, Of(u), n), Exact(r, TimesRat(RatOf(u), IntRat(n))))
DivUi(r, u, n) ==
  Ready(r) /\ Ready(u)
    /\ Dividing(r, MpfDivUi(store, r, Of(u), n), n, OverRat(RatOf(u), IntRat(n)))
UiDiv(r, n, v) ==
  Ready(r) /\ Ready(v)
    /\ Dividing(r, MpfUiDiv(store, r, n, Of(v)), Of(v).size,
                OverRat(IntRat(n), RatOf(v)))
SetWord(r, n) ==
  Ready(r) /\ \/ Returns(MpfSetUi(store, r, n), Exact(r, IntRat(n)))
              \/ Returns(MpfSetSi(store, r, -n), Exact(r, IntRat(-n)))
              \/ Returns(MpfSqrtUi(store, r, n), Root(r, IntRat(n)))
SetZ(r, n) == Ready(r) /\ Returns(MpfSetZ(store, r, n), Exact(r, IntRat(n)))
SetQ(r, n, d) == Ready(r) /\ Returns(MpfSetQ(store, r, n, d), Exact(r, Rat(n, d, 0)))

(* Two operands. *)

Add(r, u, v) ==
  Ready(r) /\ Ready(u) /\ Ready(v)
    /\ Returns(MpfAdd(store, r, Of(u), Of(v)), Sum(r, PlusRat(RatOf(u), RatOf(v))))
Sub(r, u, v) ==
  Ready(r) /\ Ready(u) /\ Ready(v)
    /\ Returns(MpfSub(store, r, Of(u), Of(v)), Sum(r, MinusRat(RatOf(u), RatOf(v))))
Mul(r, u, v) ==
  Ready(r) /\ Ready(u) /\ Ready(v)
    /\ Returns(MpfMul(store, r, Of(u), Of(v)), Product(r, TimesRat(RatOf(u), RatOf(v))))
Div(r, u, v) ==
  Ready(r) /\ Ready(u) /\ Ready(v)
    /\ Dividing(r, MpfDiv(store, r, Of(u), Of(v)), Of(v).size,
                OverRat(RatOf(u), RatOf(v)))
Reldiff(r, x, y) ==
  Ready(r) /\ Ready(x) /\ Ready(y)
    /\ Returns(MpfReldiff(store, r, Of(x), Of(y)),
               Near(r, IF Of(x).size = 0 THEN IntRat(Bit(Of(y).size # 0))
                        ELSE OverRat(AbsRat(MinusRat(RatOf(x), RatOf(y))), RatOf(x))))

-----------------------------------------------------------------------------

Life ==
  \/ \E x \in Var, bits \in BitCounts : Init2(x, bits) \/ SetPrec(x, bits) \/ SetPrecRaw(x, bits)
  \/ \E x, y \in Var, bits \in BitCounts : InitSet(x, y, bits)
  \/ \E x, y \in Var : Swap(x, y)
  \/ \E x \in Var : Clear(x)

Unary ==
  \/ \E r, u \in Var : Set(r, u) \/ Neg(r, u) \/ AbsCall(r, u) \/ Sqrt(r, u) \/ TruncCall(r, u)
  \/ \E r, u \in Var, dir \in {-1, 1} : Round(r, u, dir)
  \/ \E r, u \in Var, n \in BitCounts : Shift(r, u, n)
  \/ \E r, u \in Var, n \in 0..3 : PowUi(r, u, n)

WithWord ==
  \/ \E r, u \in Var, n \in Words : \/ AddUi(r, u, n) \/ SubUi(r, u, n) \/ UiSub(r, n, u)
                                    \/ MulUi(r, u, n) \/ DivUi(r, u, n) \/ UiDiv(r, n, u)
  \/ \E r \in Var, n \in Words : SetWord(r, n)
  \/ \E r \in Var, n \in Wholes : SetZ(r, n)
  \/ \E r \in Var, n, d \in Wholes : d > 0 /\ SetQ(r, n, d)

Binary ==
  \E r, u, v \in Var :
    Add(r, u, v) \/ Sub(r, u, v) \/ Mul(r, u, v) \/ Div(r, u, v) \/ Reldiff(r, u, v)

Next == Life \/ Unary \/ WithWord \/ Binary

Spec == Init /\ [][Next]_vars

-----------------------------------------------------------------------------
(* Properties. *)

\* |r - q| * B^(prec - 1) < units * |q|, or both are zero
CloseTo(r, q, units, prec) ==
  LET gap == AbsRat(MinusRat(r, q))
  IN  \/ gap.n = 0
      \/ LessRat([gap EXCEPT !.e = @ + prec - 1], [AbsRat(q) EXCEPT !.n = units * @])

\* The float u is q with the limbs below its last one dropped, and that one is no
\* higher than limb number prec.
CutFrom(u, q, prec) ==
  LET r == FloatRat(store, u)
      next == [r EXCEPT !.n = SgnRat(q) * (Abs(@) + 1)]
      left == [AbsRat(MinusRat(q, r)) EXCEPT !.e = @ + prec - u.exp]
  IN  \/ MinusRat(q, r).n = 0
      \/ /\ SgnRat(r) = SgnRat(q) /\ ~LessRat(AbsRat(q), AbsRat(r))
         /\ LessRat(AbsRat(q), AbsRat(next)) /\ LessRat(left, IntRat(1))

\* r <= sqrt(q) < r (1 + B^(1 - prec))
NearRoot(r, q, prec) ==
  LET up == TimesRat(r, Rat(B^(prec - 1) + 1, 1, 1 - prec))
  IN  /\ r.n >= 0 /\ ~LessRat(q, TimesRat(r, r))
      /\ q.n = 0 \/ LessRat(q, TimesRat(up, up))

\* Every call computes its result to the precision of the destination, whatever
\* it cut from the operands and however many of their leading limbs cancelled.
\* Assignments, quotients and products with a word are the exact value with the
\* limbs below the last one dropped; a root is below the exact one by less than a
\* unit of limb number prec; shifts and roundings are off by less than one unit,
\* sums and differences by two, products by three; nothing is zero that should not
\* be. A call outside its domain, and no other, ends the process.
Accurate ==
  /\ store.status = "run" <=> goal.kind # "outside"
  /\ goal.kind = "exact" => CutFrom(Of(goal.to), goal.of, store.prec[goal.to])
  /\ goal.kind = "near" =>
       CloseTo(RatOf(goal.to), goal.of, goal.units, store.prec[goal.to])
  /\ goal.kind = "root" =>
       NearRoot(RatOf(goal.to), goal.of, store.prec[goal.to])

\* Every float lies in a block of its own for its precision plus one limb, which is
\* all that mpf_clear and mpf_set_prec have to go by, and no call writes beyond it:
\* not the carry of an addition, the high limb of a product, nor mpf_set_prec_raw
\* with a value longer than the precision it sets. Every block has its float: no
\* call leaves its temporary float behind.
Ownership ==
  /\ ~store.fault /\ Tmp \notin store.live
  /\ \A x \in store.live : /\ store.len[store.d[x]] = full[x] + 1
                           /\ store.prec[x] <= full[x] /\ AbSiz(store, x) <= full[x] + 1
  /\ \A b \in Block : Cardinality({x \in Var : store.d[x] = b}) = Bit(store.len[b] # 0)

\* What MPF_CHECK_FORMAT asserts: the most significant limb is not zero, and zero
\* has exponent 0. Every function takes the leading limbs it needs for granted.
Normalized ==
  \A x \in store.live :
    IF store.size[x] = 0 THEN store.exp[x] = 0 ELSE Top(store, Of(x), 1) # 0

\* A call changes no float but its destination, even where it makes a struct with
\* the limbs of an operand, and mpf_swap exchanges two values.
Elsewhere ==
  [][LET then(x) == FloatRat(store', Float(store', x))
     IN  CASE goal'.kind = "swap" -> /\ then(goal'.to) = RatOf(goal'.and)
                                     /\ then(goal'.and) = RatOf(goal'.to)
           [] goal'.kind = "same" -> then(goal'.to) = goal'.of
           [] goal'.kind \in {"exact", "near", "root", "life"} ->
                \A x \in store.live \ {goal'.to} : then(x) = RatOf(x)
           [] OTHER -> TRUE]_vars

\* The bits of q from the first one that is set to the n-th after it.
CutBits(q, n) ==
  LET k == CHOOSE k \in 1..64 : Abs(q.n) < 2^k /\ Abs(q.n) >= 2^(k - 1)
  IN  IF q.n = 0 \/ k <= n THEN q ELSE [q EXCEPT !.n = @ - SgnOf(@) * (Abs(@) % 2^(k - n))]
Long == -HalfB..(HalfB - 1)

\* The functions that read floats agree with the numbers, although they look at
\* exponents and sizes first and operands may have zero limbs at their low end:
\* the comparisons; mpf_eq, which says whether the numbers cut to their first bits
\* are equal; the conversions to a machine word and the tests for them, of the
\* value cut to an integer, at the ends of the range of a long too.
Readers ==
  goal = NoGoal => \A x \in store.live :
    LET q == RatOf(x)
        n == Rounded(q, 0)
        cmp(r) == SgnRat(MinusRat(q, r))
    IN  /\ \A y \in store.live \ {x} :
             /\ MpfCmp(store, Of(x), Of(y)) = cmp(RatOf(y))
             /\ \A k \in BitCounts :
                  MpfEq(store, Of(x), Of(y), k) =
                    {MinusRat(CutBits(q, k), CutBits(RatOf(y), k)).n = 0}
        /\ \A k \in Words : /\ MpfCmpUi(store, Of(x), k) = cmp(IntRat(k))
                            /\ MpfCmpSi(store, Of(x), -k) = cmp(IntRat(-k))
        /\ \A k \in Wholes : MpfCmpZ(store, Of(x), k) = cmp(IntRat(k))
        /\ MpfIntegerP(store, Of(x)) <=> cmp(IntRat(n)) = 0
        /\ MpfGetUi(store, Of(x)) = Abs(n) % B
        /\ n \in Long => MpfGetSi(store, Of(x)) = n
        /\ MpfFitsUlong(store, Of(x)) <=> n \in 0..(B - 1)
        /\ MpfFitsSlong(store, Of(x)) <=> n \in Long
=============================================================================
