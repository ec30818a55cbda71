------------------------------ MODULE MpfArith ------------------------------
(***************************************************************************)
(* The memory behind the mpf_t floats, and the functions of mpf/ that      *)
(* compute one. A float is                                                 *)
(*     +-  limbs * B^(exp - |size|)                                        *)
(* kept in a block of prec + 1 limbs, the most significant one nonzero. No *)
(* function but mpf_set_prec ever reallocates: results are cut to the room *)
(* there is. mpf_set_prec_raw lowers prec and leaves the block and the     *)
(* value alone, so that a size may exceed prec + 1 for a while.            *)
(*                                                                         *)
(* A store has the fields of a store of MpzStore, whose primitives work on *)
(* it, but alloc, and in addition                                          *)
(*   prec, exp   the fields _mp_prec and _mp_exp of every struct.          *)
(* A function of the library is an operator from a store to a store. An    *)
(* operand is a record, because the code passes structs it makes up: a     *)
(* float with its sign changed that shares the limbs, or one local limb.   *)
(*                                                                         *)
(* Assignment, addition, subtraction with its search for cancelling limbs, *)
(* multiplication, division, square root, shifts and rounding to an        *)
(* integer each cut their operands and their result to the precision of    *)
(* the destination in their own way, and the destination may be an         *)
(* operand. Temporary limbs (TMP_ALLOC) are values here: every function    *)
(* has read its operands when it writes to the destination, and where it   *)
(* has not the steps are separate.                                         *)
(***************************************************************************)
EXTENDS MpzStore

CONSTANT MinBits      \* 53: no precision is below that of a double

ASSUME MinBitsAssumption == MinBits \in Nat

Min2(m, n) == Smaller(m, n)
BitsToPrec(n) == (Larger(MinBits, n) + 2 * W - 1) \div W
PrecToBits(n) == n * W - W

\* Limbs off .. off + n - 1 at p.
Limbs(s, p, off, n) == High(Get(s, p, off + n), off)
PutAt(s, p, off, n, v) ==
  IF n = 0 THEN s ELSE Put(s, p, off + n, Get(s, p, off) + Low(v, n) * B^off)

-----------------------------------------------------------------------------
(* Operands. *)

Local == "local"
Float(s, x) ==
  [id |-> x, size |-> s.size[x], exp |-> s.exp[x], p |-> s.d[x], limbs |-> 0]
\* A float on the stack whose limbs are on the stack too.
Made(size, exp, limbs) ==
  [id |-> Local, size |-> size, exp |-> exp, p |-> Local, limbs |-> limbs]
\* A float on the stack that shares the limbs of u.
Negated(u) == [u EXCEPT !.id = Local, !.size = -u.size]

Len(u) == Abs(u.size)
All(s, u) == IF u.p = Local THEN u.limbs ELSE Limbs(s, u.p, 0, Len(u))
\* The n most significant limbs.
Top(s, u, n) == High(All(s, u), Len(u) - n)

\* The leading n limbs with the sign and exponent given become the value of r.
Assign(s, r, neg, n, exp, v) ==
  LET t == SetSiz(PutAt(s, s.d[r], 0, n, v), r, Signed(neg, n))
  IN  [t EXCEPT !.exp[r] = exp]
Zero(s, r) == Assign(s, r, FALSE, 0, 0, 0)

-----------------------------------------------------------------------------
(* Life cycle and precision. *)

FreshBlock(s) == CHOOSE b \in Block : s.len[b] = 0

InitPrec(s, r, prec) ==
  LET b == FreshBlock(s)
  IN  [Allocate(s, b, prec + 1) EXCEPT
         !.prec[r] = prec, !.size[r] = 0, !.exp[r] = 0, !.d[r] = b, !.live = @ \cup {r}]
MpfInit2(s, r, bits) == InitPrec(s, r, BitsToPrec(bits))

\* Slip: the precision is taken for the length of the block.
FreeShort(s, x) == Free(s, s.d[x], s.prec[x])
FreeLimbs(s, x) == Free(s, s.d[x], s.prec[x] + 1)
MpfClear(s, x) ==
  [FreeLimbs(s, x) EXCEPT
     !.prec[x] = 0, !.size[x] = 0, !.exp[x] = 0, !.d[x] = Null, !.live = @ \ {x}]

\* The most significant limbs are moved down before the block shrinks.
Shrunk(s, x, n) ==
  Assign(s, x, s.size[x] < 0, n, s.exp[x], Top(s, Float(s, x), n))
MpfSetPrec(s, x, bits) ==
  LET old == s.prec[x]
      new == BitsToPrec(bits)
      t == IF AbSiz(s, x) > new + 1 THEN Shrunk(s, x, new + 1) ELSE s
  IN  IF new = old THEN s
      ELSE [Reallocate(t, s.d[x], old + 1, new + 1, s.d[x]) EXCEPT !.prec[x] = new]

MpfSetPrecRaw(s, x, bits) == [s EXCEPT !.prec[x] = BitsToPrec(bits)]

\* Slip: the second half of the exchange is missing.
CopiedPair(f, u, v) == [f EXCEPT ![u] = f[v]]
SwappedPair(f, u, v) == [f EXCEPT ![u] = f[v], ![v] = f[u]]
\* Slip: the precision stays with the variable.
KeptPair(f, u, v) == f
SwappedPrec(f, u, v) == SwappedPair(f, u, v)
MpfSwap(s, u, v) ==
  [s EXCEPT !.prec = SwappedPrec(@, u, v), !.size = SwappedPair(@, u, v),
            !.exp = SwappedPair(@, u, v), !.d = SwappedPair(@, u, v)]

EmptyFloats ==
  [prec   |-> [x \in Struct |-> 0],
   size   |-> [x \in Struct |-> 0],
   exp    |-> [x \in Struct |-> 0],
   d      |-> [x \in Struct |-> Null],
   len    |-> [b \in Block |-> 0],
   limbs  |-> [b \in Block |-> 0],
   live   |-> {},
   fault  |-> FALSE,
   status |-> "run"]

-----------------------------------------------------------------------------
(* The functions that compute a float.                                     *)

Prec1(s, r) == s.prec[r] + 1

\* mpf_set. One limb more than the precision is kept.
MpfSet(s, r, u) ==
  LET n == Min2(Len(u), Prec1(s, r))
  IN  Assign(s, r, u.size < 0, n, u.exp, Top(s, u, n))
\* mpf_neg and mpf_abs. In place no limb is touched, not even those in excess.
Resized(s, r, u, neg) ==
  IF u.id = r THEN [s EXCEPT !.size[r] = Signed(neg, Len(u))]
  ELSE MpfSet(s, r, [u EXCEPT !.size = Signed(neg, Len(u))])
MpfNeg(s, r, u) == Resized(s, r, u, u.size > 0)
MpfAbs(s, r, u) == Resized(s, r, u, FALSE)

MpfSetUi(s, r, n) == Assign(s, r, FALSE, Bit(n # 0), Bit(n # 0), n)
MpfSetSi(s, r, n) == Assign(s, r, n < 0, Bit(n # 0), Bit(n # 0), Abs(n))

\* mpf_init_set: an mpf_init and an mpf_set.
MpfInitSet(s, r, u, prec) == MpfSet(InitPrec(s, r, prec), r, u)

-----------------------------------------------------------------------------
(* Addition and subtraction of operands of one sign, u with the larger     *)
(* exponent. *)

\* An operand of n limbs cut at the limb that is prec limbs below the leading
\* limb of u; it starts ediff limbs lower.
CutTo(n, ediff, prec) == IF n + ediff > prec THEN prec - ediff ELSE n

\* Slip: the carry has no limb of its own.
RoomWithoutCarry(prec) == prec + 1
AddRoom(prec) == prec

AddSame(s, r, u, v) ==
  LET prec == AddRoom(s.prec[r])
      ediff == u.exp - v.exp
      un == Min2(Len(u), prec)
      vn == CutTo(Len(v), ediff, prec)
      n == Larger(un, vn + ediff)
      sum == Top(s, u, un) * B^(n - un) + Top(s, v, vn) * B^(n - ediff - vn)
      cy == High(sum, n)
      neg == u.size < 0
  IN  IF ediff >= prec THEN Assign(s, r, neg, un, u.exp, Top(s, u, un))
      ELSE Assign(PutAt(s, s.d[r], 0, n + 1, sum), r, neg, n + cy, u.exp + cy, sum)

\* n limbs at v without the zero ones at the top.
Stripped(s, r, neg, n, exp, v) ==
  LET k == Normalize(v, n)
  IN  IF k = 0 THEN Zero(s, r) ELSE Assign(s, r, neg, k, exp - (n - k), v)

LowZeros(v, n) == Cardinality({k \in 1..n : Low(v, k) = 0})

\* The general case: a is n limbs, b is m limbs and starts ediff limbs lower,
\* a > b. prec is one limb more than the precision of r.
SubGeneral(s, r, neg, exp, n, a, m, b, ediff, prec) ==
  LET an == Min2(n, prec)
      bn == CutTo(m, ediff, prec)
      ah == High(a, n - an)
      bh == High(b, m - bn)
      \* the low zero limbs of both are dropped
      l == an - LowZeros(ah, an)
      k == Larger(l, ediff + bn - LowZeros(bh, bn))
      diff == High(ah * B^prec, an + prec - k) - High(bh * B^prec, bn + prec + ediff - k)
  IN  IF ediff >= prec \/ bh = 0 THEN Assign(s, r, neg, an, exp, ah)
      ELSE Stripped(s, r, neg, k, exp, diff)

\* The operands differ by 1 in a leading limb and may still be extremely close:
\* 1 a - 0 b, a of n limbs and b of m, which start at the same limb.
SubClose(s, r, neg, exp, n, a, m, b, prec) ==
  LET Pair(i) == Low(High(a, n - i), 1) = 0 /\ Low(High(b, m - i), 1) = B - 1
      run == Cardinality({i \in 1..Min2(n, m) : \A j \in 1..i : Pair(j)})
      \* a has ended: the limbs of b that are all ones go on
      tail == IF n > run THEN 0
              ELSE Cardinality({i \in (run + 1)..m :
                                  \A j \in (run + 1)..i : Low(High(b, m - j), 1) = B - 1})
      an == Min2(n - run, prec - 1)
      bl == m - run - tail
      bn == Min2(bl, prec - 1)
      k == Larger(an, bn)
      diff == B^k + High(Low(a, n - run), n - run - an) * B^(k - an)
                  - High(Low(b, bl), bl - bn) * B^(k - bn)
      e == exp - run - tail
  IN  IF High(diff, k) # 0 THEN Assign(s, r, neg, k + 1, e + 1, diff)
      ELSE Stripped(s, r, neg, k, e, diff)

\* A slip: operands one limb apart are never looked at closely.
SubApart(s, r, neg, exp, n, a, m, b, prec) ==
  SubGeneral(s, r, neg, exp, n, a, m, b, 1, prec)

\* ediff = 1.
SubNear(s, r, neg, exp, n, a, m, b, prec) ==
  IF High(a, n - 1) = 1 /\ High(b, m - 1) = B - 1
       /\ (n >= 2 => Low(High(a, n - 2), 1) = 0)
  THEN SubClose(s, r, neg, exp - 1, n - 1, Low(a, n - 1), m, b, prec)
  ELSE SubGeneral(s, r, neg, exp, n, a, m, b, 1, prec)

\* ediff = 0. Leading limbs that are equal are skipped.
SubLevel(s, r, neg, exp, n, a, m, b, prec) ==
  LET same == Cardinality({i \in 1..Min2(n, m) : High(a, n - i) = High(b, m - i)})
      e == exp - same
      n1 == n - same
      m1 == m - same
      a1 == Low(a, n1)
      b1 == Low(b, m1)
      rest(neg2, k, v) ==
        LET z == Normalize(v, k)
            c == Min2(z, prec)
        IN  IF z = 0 THEN Zero(s, r)
            ELSE Assign(s, r, neg2, c, e - (k - z), High(v, z - c))
      ordered(neg2, k, x, l, y) ==
        IF High(x, k - 1) = High(y, l - 1) + 1
        THEN SubClose(s, r, neg2, e - 1, k - 1, Low(x, k - 1), l - 1, Low(y, l - 1), prec)
        ELSE SubGeneral(s, r, neg2, e, k, x, l, y, 0, prec)
  IN  CASE n1 = 0 -> rest(~neg, m1, b1)
        [] n1 # 0 /\ m1 = 0 -> rest(neg, n1, a1)
        [] n1 # 0 /\ m1 # 0 /\ High(a1, n1 - 1) < High(b1, m1 - 1) ->
             ordered(~neg, m1, b1, n1, a1)
        [] OTHER -> ordered(neg, n1, a1, m1, b1)

SubSame(s, r, u, v, neg) ==
  LET ediff == u.exp - v.exp
      prec == Prec1(s, r)
  IN  CASE ediff = 0 -> SubLevel(s, r, neg, u.exp, Len(u), All(s, u), Len(v), All(s, v), prec)
        [] ediff = 1 -> SubNear(s, r, neg, u.exp, Len(u), All(s, u), Len(v), All(s, v), prec)
        [] OTHER -> SubGeneral(s, r, neg, u.exp, Len(u), All(s, u), Len(v), All(s, v), ediff, prec)

OneSign(u, v) == (u.size < 0) = (v.size < 0)
SetMaybe(s, r, v) == IF v.id = r THEN s ELSE MpfSet(s, r, v)

\* mpf_add and mpf_sub call each other when the signs differ.
AddSigned(s, r, u, v) ==
  IF u.exp < v.exp THEN AddSame(s, r, v, u) ELSE AddSame(s, r, u, v)
SubSigned(s, r, u, v) ==
  IF u.exp < v.exp THEN SubSame(s, r, v, u, u.size >= 0)
  ELSE SubSame(s, r, u, v, u.size < 0)

MpfAdd(s, r, u, v) ==
  CASE u.size = 0 -> SetMaybe(s, r, v)
    [] u.size # 0 /\ v.size = 0 -> SetMaybe(s, r, u)
    [] OTHER -> IF OneSign(u, v) THEN AddSigned(s, r, u, v)
                ELSE SubSigned(s, r, u, Negated(v))
MpfSub(s, r, u, v) ==
  CASE u.size = 0 -> MpfNeg(s, r, v)
    [] u.size # 0 /\ v.size = 0 -> SetMaybe(s, r, u)
    [] OTHER -> IF OneSign(u, v) THEN SubSigned(s, r, u, v)
                ELSE AddSigned(s, r, u, Negated(v))
=============================================================================
