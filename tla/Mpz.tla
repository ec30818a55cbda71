-------------------------------- MODULE Mpz --------------------------------
(***************************************************************************)
(* A client program that calls the mpz functions on its variables, in any  *)
(* order and with any of them given as several arguments of one call.      *)
(*                                                                         *)
(* store is the memory the library works on, and every action applies one  *)
(* function of MpzArith to it. val is a history variable: it follows       *)
(* MpzInt, the integers the same calls would leave if an mpz_t were        *)
(* mathematical. Represents says that the two agree.                       *)
(***************************************************************************)
EXTENDS MpzArith

CONSTANTS
  Bits,     \* the bit counts the client asks mpz_init2 and mpz_realloc2 for
  Counts,   \* the bit counts it shifts by
  MulMax    \* the most limbs it lets the operands of an mpz_mul have together

VARIABLES store, val

vars == <<store, val>>

Integer == INSTANCE MpzInt

ASSUME BitsAssumption == Bits \subseteq Nat /\ Counts \subseteq Nat
ASSUME MulMaxAssumption == MulMax \in Nat
\* Every variable can own a block and one is left for the call in progress.
ASSUME BlockAssumption == Cardinality(Block) > Cardinality(Var)

Init == store = EmptyStore /\ Integer!InitInt

\* A call returns with one of the outcomes, or the process is over.
Return(outcomes, promise) ==
  \E t \in outcomes :
     IF t.status = "run" THEN store' = t /\ promise
     ELSE /\ store' = Exception(EmptyStore, t.status)
          /\ val' = [x \in Var |-> 0]

Running == store.status = "run"
Live(x) == Running /\ x \in store.live
Unused(x) == Running /\ x \notin store.live

-----------------------------------------------------------------------------
(* The functions that take a variable from uninitialised to initialised and *)
(* back.                                                                   *)

InitCall(x) == Unused(x) /\ Return(MpzInit(store, x), Integer!Zero(x))
Init2(x, bits) == Unused(x) /\ Return(MpzInit2(store, x, bits), Integer!Zero(x))
InitSet(w, u) ==
  Unused(w) /\ Live(u) /\ Return(MpzInitSet(store, w, u), Integer!Set(w, u))
Clear(x) == Live(x) /\ Return(MpzClear(store, x), Integer!Zero(x))
Realloc2(x, bits) ==
  Live(x) /\ Return(MpzRealloc2(store, x, bits),
                    Integer!Realloc2(x, B^BitsToLimbs(bits)))

(* One operand. *)

Set(w, u) == Live(w) /\ Live(u) /\ Return(MpzSet(store, w, u), Integer!Set(w, u))
Neg(w, u) == Live(w) /\ Live(u) /\ Return(MpzNeg(store, w, u), Integer!Neg(w, u))
AbsCall(w, u) ==
  Live(w) /\ Live(u) /\ Return(MpzAbs(store, w, u), Integer!AbsOf(w, u))
Swap(u, v) ==
  Live(u) /\ Live(v) /\ Return(MpzSwap(store, u, v), Integer!Swap(u, v))
SetSi(w, n) == Live(w) /\ Return(MpzSetSi(store, w, n), Integer!SetSi(w, n))
Mul2Exp(w, u, cnt) ==
  Live(w) /\ Live(u) /\ Return(MpzMul2Exp(store, w, u, cnt), Integer!Mul2Exp(w, u, cnt))

(* An operand and a machine word. *)

AddUi(w, u, n) ==
  Live(w) /\ Live(u) /\ Return(MpzAddUi(store, w, u, n), Integer!AddUi(w, u, n))
SubUi(w, u, n) ==
  Live(w) /\ Live(u) /\ Return(MpzSubUi(store, w, u, n), Integer!SubUi(w, u, n))
UiSub(w, n, v) ==
  Live(w) /\ Live(v) /\ Return(MpzUiSub(store, w, n, v), Integer!UiSub(w, n, v))
MulSi(w, u, n) ==
  Live(w) /\ Live(u) /\ Return(MpzMulSi(store, w, u, n), Integer!MulSi(w, u, n))
AddmulUi(w, x, n) ==
  Live(w) /\ Live(x)
    /\ Return(MpzAddmulUi(store, w, x, n), Integer!AddmulUi(w, x, n))
SubmulUi(w, x, n) ==
  Live(w) /\ Live(x)
    /\ Return(MpzSubmulUi(store, w, x, n), Integer!SubmulUi(w, x, n))

(* Two operands. *)

Add(w, u, v) ==
  Live(w) /\ Live(u) /\ Live(v)
    /\ Return(MpzAdd(store, w, u, v), Integer!Add(w, u, v))
Sub(w, u, v) ==
  Live(w) /\ Live(u) /\ Live(v)
    /\ Return(MpzSub(store, w, u, v), Integer!Sub(w, u, v))
Mul(w, u, v) ==
  Live(w) /\ Live(u) /\ Live(v) /\ AbSiz(store, u) + AbSiz(store, v) <= MulMax
    /\ Return(MpzMul(store, w, u, v), Integer!Mul(w, u, v))
Addmul(w, x, y) ==
  Live(w) /\ Live(x) /\ Live(y)
    /\ Return(MpzAddmul(store, w, x, y), Integer!Addmul(w, x, y))
Submul(w, x, y) ==
  Live(w) /\ Live(x) /\ Live(y)
    /\ Return(MpzSubmul(store, w, x, y), Integer!Submul(w, x, y))

-----------------------------------------------------------------------------

Life ==
  \/ \E x \in Var : InitCall(x) \/ Clear(x)
  \/ \E x \in Var, bits \in Bits : Init2(x, bits) \/ Realloc2(x, bits)
  \/ \E w, u \in Var : InitSet(w, u)

Unary ==
  \/ \E w, u \in Var : Set(w, u) \/ Neg(w, u) \/ AbsCall(w, u) \/ Swap(w, u)
  \/ \E w \in Var, n \in Long : SetSi(w, n)
  \/ \E w, u \in Var, cnt \in Counts : Mul2Exp(w, u, cnt)

WithWord ==
  \E w, u \in Var :
    \/ \E n \in Limb : \/ AddUi(w, u, n) \/ SubUi(w, u, n) \/ UiSub(w, n, u)
                       \/ AddmulUi(w, u, n) \/ SubmulUi(w, u, n)
    \/ \E n \in Long \cup Limb : MulSi(w, u, n)          \* mpz_mul_si, mpz_mul_ui

Binary ==
  \E w, u, v \in Var :
    Add(w, u, v) \/ Sub(w, u, v) \/ Mul(w, u, v) \/ Addmul(w, u, v) \/ Submul(w, u, v)

Next == Life \/ Unary \/ WithWord \/ Binary

Spec == Init /\ [][Next]_vars

-----------------------------------------------------------------------------
(* Properties. *)

Holds(x) == x \in store.live /\ store.alloc[x] > 0

TypeOK ==
  /\ store.live \subseteq Var
  /\ store.status \in {"run", "overflow", "div0", "sqrtneg"}
  /\ \A x \in Struct : store.alloc[x] \in 0..IntMax /\ store.size[x] \in -IntMax..IntMax
  /\ \A b \in Block : store.len[b] \in Nat
  /\ val \in [Var -> Int]

\* The heap and the objects agree: a live integer with _mp_alloc > 0 has a block
\* of exactly that many limbs, |_mp_size| is within it, no two integers share a
\* block and every block has its integer, so that nothing leaks, not even the block
\* mpz_mul replaces or its temporary space. No block was freed with another size,
\* freed twice or written out of its bounds. This is what realloc, clear, swap and
\* mpz_mul's own reallocation must keep in step, whichever arguments coincide.
Ownership ==
  /\ ~store.fault
  /\ \A x \in store.live :
       /\ AbSiz(store, x) <= store.alloc[x]
       /\ Holds(x) => store.d[x] \in DOMAIN store.len /\ store.len[store.d[x]] = store.alloc[x]
  /\ \A x, y \in store.live : Holds(x) /\ Holds(y) /\ store.d[x] = store.d[y] => x = y
  /\ \A b \in DOMAIN store.len : store.len[b] # 0 => \E x \in store.live : Holds(x) /\ store.d[x] = b

\* Every integer holds the value the calls so far should have given it: aliased
\* operands, reallocation in the middle of a call and the sign and size that are
\* worked out apart from the limbs never change a result.
Represents ==
  Running => \A x \in store.live : Value(store, x) = val[x]

\* _mp_size is exact: the highest limb that counts is not zero. Every function
\* reads sizes as if this held, mpz_cmp first of all.
Normalized ==
  \A x \in store.live :
    LET n == AbSiz(store, x)
    IN  n > 0 => High(Get(store, store.d[x], n), n - 1) # 0

\* The comparisons and conversions, see Readers.
NumberReaders ==
  Running => \A u \in store.live :
    /\ \A v \in store.live :
         /\ MpzCmp(store, u, v) = Integer!Sgn(val[u] - val[v])
         /\ MpzCmpabs(store, u, v) = Integer!Sgn(Abs(val[u]) - Abs(val[v]))
    /\ \A n \in Long : SgnOf(MpzCmpSi(store, u, n)) = Integer!Sgn(val[u] - n)
    /\ \A n \in Limb : MpzCmpUi(store, u, n) = Integer!Sgn(val[u] - n)
    /\ MpzFitsSlong(store, u) <=> val[u] \in Long
    /\ val[u] \in Long => MpzGetSi(store, u) = val[u]
    /\ MpzGetUi(store, u) = Abs(val[u]) % B

\* What NEWS says of the mpz_t type: when it overflows the library aborts, so a
\* number of limbs never exceeds what the fields can hold.
OverflowAborts ==
  \A x \in store.live : store.alloc[x] >= 0
=============================================================================
