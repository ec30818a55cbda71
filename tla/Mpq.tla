-------------------------------- MODULE Mpq --------------------------------
(***************************************************************************)
(* A client with rationals and integers that calls the mpq functions, any  *)
(* of its rationals being the result and the operands of one call. store   *)
(* is the memory the library works on; val and ended are history variables *)
(* that follow MpqRat, the fractions the same calls would leave. The       *)
(* functions that need canonical operands are given no others.             *)
(***************************************************************************)
EXTENDS MpqArith

CONSTANTS
  Rat,      \* the mpq_t variables of the client
  Whole,    \* its mpz_t variables
  Given,    \* the rationals it computes with; any of Rat can be the result
  Counts,   \* the numbers of bits it shifts by
  Words,    \* the machine words it passes
  Floats    \* mpf values: records of size, exp and the limbs m

Client == Rat \cup Whole
Int1(z) == <<z, "int">>

ASSUME VarAssumption ==
  Var = UNION {{Num(x), Den(x)} : x \in Rat} \cup {Int1(z) : z \in Whole}
          \cup TmpSpace
ASSUME GivenAssumption == Given \subseteq Rat /\ Words \subseteq Long \cup Limb

VARIABLES store, val, ended

vars == <<store, val, ended>>

Q == INSTANCE MpqRat

\* No block of the heap, and TMP space idle.
Nothing == [EmptyStore EXCEPT !.len = [b \in Block |-> IF b \in TmpSpace THEN Idle ELSE 0]]

Init ==
  /\ store = [Nothing EXCEPT !.live = {Int1(z) : z \in Whole}]
  /\ Q!InitRat

\* A call returns with one of the outcomes, or the process is over.
Return(outcomes, promise) ==
  /\ promise
  /\ \E t \in outcomes :
       store' = IF t.status = "run" THEN t ELSE Exception(Nothing, t.status)

Running == store.status = "run"
Live(x) == Running /\ Num(x) \in store.live
Unused(x) == Running /\ Num(x) \notin store.live
Good(x) == Live(x) /\ Q!Canonical(val[x])

-----------------------------------------------------------------------------
(* Life cycle and assignment. *)

InitCall(x) == Unused(x) /\ Return(MpqInit(store, x), Q!Zero(x))
Clear(x) == Live(x) /\ Return(MpqClear(store, x), Q!Zero(x))
Set(w, u) == Live(w) /\ Live(u) /\ Return(MpqSet(store, w, u), Q!Set(w, u))
Swap(u, v) == Live(u) /\ Live(v) /\ Return(MpqSwap(store, u, v), Q!Swap(u, v))
SetZ(w, z) == Live(w) /\ Return(MpqSetZ(store, w, Int1(z)), Q!Set(w, z))
SetNum(w, z) == Live(w) /\ Return(MpqSetNum(store, w, Int1(z)), Q!SetNum(w, z))
SetDen(w, z) == Live(w) /\ Return(MpqSetDen(store, w, Int1(z)), Q!SetDen(w, z))
GetNum(z, u) == Live(u) /\ Return(MpqGetNum(store, Int1(z), u), Q!GetNum(z, u))
GetDen(z, u) == Good(u) /\ Return(MpqGetDen(store, Int1(z), u), Q!GetDen(z, u))
SetWords(w, n, d) == Live(w) /\ Return(MpqSetWords(store, w, n, d), Q!SetWords(w, n, d))
SetF(w, f) ==
  Live(w) /\ Return(MpqSetF(store, w, f),
                    LET n == Signed(f.size < 0, f.m)
                        e == f.exp - Abs(f.size)
                    IN  Q!SetFloat(w, IF e > 0 THEN n * B^e ELSE n, IF e < 0 THEN B^(-e) ELSE 1))

(* Arithmetic. *)

Canonicalize(x) == Live(x) /\ Return(MpqCanonicalize(store, x), Q!Canonicalize(x))
Neg(w, u) == Live(w) /\ Good(u) /\ Return(MpqNeg(store, w, u), Q!Neg(w, u))
AbsCall(w, u) == Live(w) /\ Good(u) /\ Return(MpqAbs(store, w, u), Q!AbsOf(w, u))
Inv(w, u) == Live(w) /\ Good(u) /\ Return(MpqInv(store, w, u), Q!Inv(w, u))
Mul2Exp(w, u, n) ==
  Live(w) /\ Good(u) /\ Return(MpqMul2Exp(store, w, u, n), Q!Mul2Exp(w, u, n))
Div2Exp(w, u, n) ==
  Live(w) /\ Good(u) /\ Return(MpqDiv2Exp(store, w, u, n), Q!Div2Exp(w, u, n))

Add(w, u, v) ==
  Live(w) /\ Good(u) /\ Good(v) /\ Return(MpqAdd(store, w, u, v), Q!Add(w, u, v))
Sub(w, u, v) ==
  Live(w) /\ Good(u) /\ Good(v) /\ Return(MpqSub(store, w, u, v), Q!Sub(w, u, v))
Mul(w, u, v) ==
  Live(w) /\ Good(u) /\ Good(v) /\ Return(MpqMul(store, w, u, v), Q!Mul(w, u, v))
Div(w, u, v) ==
  Live(w) /\ Good(u) /\ Good(v) /\ Return(MpqDiv(store, w, u, v), Q!Div(w, u, v))

-----------------------------------------------------------------------------

Life == \E x \in Rat : InitCall(x) \/ Clear(x) \/ Canonicalize(x)

Assignment ==
  \E w \in Rat :
    \/ \E u \in Given : Set(w, u) \/ Swap(w, u)
    \/ \E z \in Whole : \/ SetZ(w, z) \/ SetNum(w, z) \/ SetDen(w, z)
                        \/ GetNum(z, w) \/ GetDen(z, w)
    \/ \E n \in Words, d \in Words \cap Limb : SetWords(w, n, d)
    \/ \E f \in Floats : SetF(w, f)

Unary ==
  \E w \in Rat, u \in Given :
    \/ Neg(w, u) \/ AbsCall(w, u) \/ Inv(w, u)
    \/ \E n \in Counts : Mul2Exp(w, u, n) \/ Div2Exp(w, u, n)

Binary ==
  \E w \in Rat, u, v \in Given : Add(w, u, v) \/ Sub(w, u, v) \/ Mul(w, u, v) \/ Div(w, u, v)

Next == Life \/ Assignment \/ Unary \/ Binary

Spec == Init /\ [][Next]_vars

-----------------------------------------------------------------------------
(* Properties. *)

Holds(x) == x \in store.live /\ store.alloc[x] > 0

\* The heap and the structs agree: numerators and denominators have blocks of their
\* own, of exactly _mp_alloc limbs, no block is lost or written out of its bounds.
\* Blocks change hands between the two parts of a rational (mpq_inv, x = y / x).
\* And no mpz function ever outgrows the temporary space mpq_add, mpq_mul and
\* mpq_div gave it, which it would free and reallocate as if it were of the heap.
Ownership ==
  /\ ~store.fault
  /\ \A x \in store.live :
       /\ AbSiz(store, x) <= store.alloc[x]
       /\ Holds(x) => store.d[x] \in Block /\ store.len[store.d[x]] = store.alloc[x]
  /\ \A b \in Block \ TmpSpace :
       Cardinality({x \in store.live : Holds(x) /\ store.d[x] = b}) = Bit(store.len[b] # 0)
  /\ \A b \in TmpSpace : store.len[b] = Idle

\* The integer x is n, and its size is exact.
IsInteger(x, n) ==
  /\ Value(store, x) = n
  /\ n # 0 => High(Abs(n), AbSiz(store, x) - 1) # 0

\* Every rational holds the fraction the call should have given it, in lowest terms
\* with a positive denominator whenever the operands were: no part of the result was
\* overwritten while an operand that is the result was still needed, and no common
\* factor is left although mpq_add looks for it in two steps and mpq_mul and mpq_div
\* only across the operands. Division by zero, and nothing else, ends the process.
Represents ==
  /\ Running <=> ~ended
  /\ Running => /\ \A x \in Rat : Live(x) => /\ IsInteger(Num(x), val[x].num)
                                             /\ IsInteger(Den(x), val[x].den)
                /\ \A z \in Whole : IsInteger(Int1(z), val[z].num)

\* The comparisons agree with the fractions although they look at the numbers of
\* limbs and of bits first, with bounds that depend on which operand is an integer.
Readers ==
  \A x \in Given : Good(x) =>
    /\ \A y \in Given : Good(y) =>
         /\ MpqCmp(store, x, y) = Q!Compare(val[x], val[y])
         /\ MpqEqual(store, x, y) <=> val[x] = val[y]
    /\ \A z \in Whole : MpqCmpZ(store, x, Int1(z)) = Q!Compare(val[x], val[z])
    /\ \A d \in Limb \ {0} :
         /\ \A n \in Limb : MpqCmpUi(store, x, n, d) = Q!Compare(val[x], Q!Frac(n, d))
         /\ \A n \in Long : MpqCmpSi(store, x, n, d) = Q!Compare(val[x], Q!Frac(n, d))
=============================================================================
