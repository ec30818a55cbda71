------------------------------ MODULE MpzStore ------------------------------
(***************************************************************************)
(* The memory behind the mpz_t integers of GMP: the objects, the heap      *)
(* blocks their limbs live in, and the primitives every mpz function is    *)
(* built from: allocate, reallocate and free a block, MPZ_REALLOC, read    *)
(* and write limbs, set SIZ.                                               *)
(*                                                                         *)
(* A store is a record                                                     *)
(*   alloc, size, d  the fields _mp_alloc, _mp_size (its sign is the sign  *)
(*                   of the integer) and _mp_d of every mpz_t struct       *)
(*   len             the length in limbs of every block, 0 when it is not  *)
(*                   allocated                                             *)
(*   limbs           the limbs of every block, read as one natural number  *)
(*   live            the structs initialised and not yet cleared           *)
(*   fault           a block was freed with a wrong size, freed twice, or  *)
(*                   written out of its bounds                             *)
(*   status          "run", or why the library aborted the process         *)
(*                                                                         *)
(* A function of the library is an operator from a store to the SET of     *)
(* stores it can leave: the allocator is free to choose where a block      *)
(* lives. Limbs nobody has given a value hold ones: what malloc leaves in  *)
(* a block is arbitrary, and ones is the content that does the most harm   *)
(* when it is read. The limbs from |SIZ| up are meaningless and are put    *)
(* back to ones whenever SIZ is set.                                       *)
(***************************************************************************)
EXTENDS Integers, FiniteSets

CONSTANTS
  Var,      \* the mpz_t variables of the client
  Tmp,      \* the mpz_t a function declares for itself
  Block,    \* the addresses the allocation functions can return
  Null,     \* the address of mpz_init's dummy limb, which is no heap block
  W,        \* GMP_NUMB_BITS
  IntMax    \* INT_MAX, the largest _mp_alloc and _mp_size

ASSUME WAssumption == W \in Nat \ {0}
ASSUME IntMaxAssumption == IntMax \in Nat \ {0}
ASSUME NullAssumption == Null \notin Block
ASSUME TmpAssumption == Tmp \notin Var

Struct == Var \cup {Tmp}

B == 2^W                                  \* one more than the largest limb
Abs(n) == IF n < 0 THEN -n ELSE n
Larger(m, n) == IF m > n THEN m ELSE n
Smaller(m, n) == IF m < n THEN m ELSE n
Bit(p) == IF p THEN 1 ELSE 0
Signed(neg, n) == IF neg THEN -n ELSE n

Low(v, n) == v % (B^n)                    \* limbs 0..n-1 of v
High(v, n) == v \div (B^n)                \* limbs n.. of v
Ones(m, n) == B^n - B^m                   \* limbs m..n-1 all ones

\* A slip: one zero limb at most is dropped.
NormalizeOnce(v, n) == IF n > 0 /\ High(v, n - 1) = 0 THEN n - 1 ELSE n

\* MPN_NORMALIZE: the limbs of the n at v left when the zero ones above the
\* highest nonzero one are dropped.
Normalize(v, n) == Cardinality({k \in 0..(n - 1) : High(v, k) # 0})

\* An int field assigned a count up to 2 * INT_MAX keeps its low bits.
ToInt(n) == IF n <= IntMax THEN n ELSE n - 2 * (IntMax + 1)

AbSiz(s, x) == Abs(s.size[x])
Fresh(s) == {b \in DOMAIN s.len : s.len[b] = 0}

-----------------------------------------------------------------------------
(* The allocation functions. *)

Allocate(s, b, n) ==
  [s EXCEPT !.len[b] = n, !.limbs[b] = B^n - 1]

Free(s, b, n) ==
  [s EXCEPT !.len[b] = 0, !.limbs[b] = 0,
            !.fault = s.fault \/ n = 0 \/ s.len[b] # n]

\* The block moves from b to f, or stays where it is when f = b.
Reallocate(s, b, old, new, f) ==
  LET kept == Low(s.limbs[b], Smaller(old, new)) + Ones(Smaller(old, new), new)
  IN  [s EXCEPT !.len = [@ EXCEPT ![b] = 0, ![f] = new],
                !.limbs = [@ EXCEPT ![b] = 0, ![f] = kept],
                !.fault = s.fault \/ s.len[b] # old]

-----------------------------------------------------------------------------
(* Limbs. *)

\* The n limbs at p. A block that is gone or shorter than n reads as ones.
Get(s, p, n) ==
  IF p \in DOMAIN s.len /\ s.len[p] >= n THEN Low(s.limbs[p], n) ELSE B^n - 1

\* Limbs 0..n-1 at p become those of v.
Put(s, p, n, v) ==
  CASE n = 0 -> s
    [] n # 0 /\ p \in DOMAIN s.len /\ s.len[p] >= n ->
         [s EXCEPT !.limbs[p] = High(@, n) * B^n + Low(v, n)]
    [] OTHER -> [s EXCEPT !.fault = TRUE]

\* SIZ (x) = n. The limbs from |n| up are meaningless from here on.
SetSiz(s, x, n) ==
  LET p == s.d[x]
      t == [s EXCEPT !.size[x] = n]
  IN  IF p \in DOMAIN s.len /\ s.len[p] >= Abs(n)
      THEN [t EXCEPT !.limbs[p] = Low(@, Abs(n)) + Ones(Abs(n), s.len[p])]
      ELSE t

-----------------------------------------------------------------------------
(* mpz objects. *)

\* __gmp_exception raises SIGFPE and aborts: the end of the process.
Exception(s, why) == [s EXCEPT !.status = why]

\* Where the allocator can put the block of x when it grows or shrinks.
Homes(s, x) ==
  Fresh(s) \cup (IF s.alloc[x] = 0 THEN {} ELSE {s.d[x]})

\* Slips: an allocation one limb too long, and a size no longer backed by limbs.
TooLongByOne(n) == n > IntMax + 1
KeptAnyway(s, x, n) == s.size[x]

TooLong(n) == n > IntMax
\* A value that no longer fits is cleared to 0.
KeptSize(s, x, n) == IF s.alloc[x] # 0 /\ AbSiz(s, x) > n THEN 0 ELSE s.size[x]

\* The part _mpz_realloc and mpz_realloc2 share: the block of x gets n limbs.
Resize(s, x, n) ==
  LET room(f) == IF s.alloc[x] = 0 THEN Allocate(s, f, n)
                 ELSE Reallocate(s, s.d[x], s.alloc[x], n, f)
  IN  IF TooLong(n) THEN {Exception(s, "overflow")}
      ELSE {[room(f) EXCEPT !.alloc[x] = n, !.size[x] = KeptSize(s, x, n),
                    !.d[x] = f] :
              f \in Homes(s, x)}

MpzRealloc(s, x, n) == Resize(s, x, Larger(n, 1))      \* never zero space

\* MPZ_REALLOC and MPZ_NEWALLOC: reallocate only when there is too little room.
Grow(s, x, n) == IF n > s.alloc[x] THEN MpzRealloc(s, x, n) ELSE {s}

\* The n limbs of operand x, with PTR (x) read after the call that was made in s
\* reallocated its destination, which may be x, and left t.
StaleSource(s, t, x, n) == Get(t, s.d[x], n)          \* a slip: PTR (x) read before
Source(s, t, x, n) == Get(t, t.d[x], n)

\* The integer x holds.
Value(s, x) == Signed(s.size[x] < 0, Get(s, s.d[x], AbSiz(s, x)))

\* The structs before the program initialises any.
EmptyStore ==
  [alloc  |-> [x \in Struct |-> 0],
   size   |-> [x \in Struct |-> 0],
   d      |-> [x \in Struct |-> Null],
   len    |-> [b \in Block |-> 0],
   limbs  |-> [b \in Block |-> 0],
   live   |-> {},
   fault  |-> FALSE,
   status |-> "run"]
=============================================================================
