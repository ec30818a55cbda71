----------------------------- MODULE MpzProofs -----------------------------
(***************************************************************************)
(* What holds of the mpz functions for every number of variables and       *)
(* blocks, limb size and INT_MAX, if no product that mpz_mul stores has    *)
(* more limbs than INT_MAX.                                                *)
(*                                                                         *)
(* First, they keep the heap and the objects in step: Ownership is an      *)
(* invariant of the specification. A function takes a store to the stores  *)
(* it can return, so the proofs are about one store s and the stores made  *)
(* from it. Good(s) is the invariant of a store between two calls. Most    *)
(* functions make room in their destination (Grow), write limbs there      *)
(* (Put) and set its size: Grow keeps a store good (GrowGood), and so does *)
(* a write that stays in the room there is (WriteGood), whatever the limbs *)
(* are. What a proof about a function has to show is that it asked for as  *)
(* much room as it uses.                                                   *)
(*                                                                         *)
(* Then, they compute what they should: Represents and Normalized are      *)
(* invariants. Sound(s) is Good(s) with exact sizes: the n limbs an        *)
(* integer counts make a number from B^(n-1) to B^n - 1 (Exact). Making    *)
(* room keeps what is read of every integer (GrowValue), and so does a     *)
(* write to the others (WriteValue); Gives(s, r, w, n) says that w is n in *)
(* r and every other integer what it was in s. The lemma of a function     *)
(* says what it gives, and rests on one about the limbs it stores: that    *)
(* they are the number meant, and how many of them there are.              *)
(*                                                                         *)
(* At last, two results that rest on these: the comparisons and            *)
(* conversions answer as the integers do (NumberReaders), and TypeOK.      *)
(***************************************************************************)
EXTENDS Mpz, FiniteSetTheorems, WellFoundedInduction, TLAPS

-----------------------------------------------------------------------------
(* The invariant. *)

Typed(s) ==
  /\ s = [alloc |-> s.alloc, size |-> s.size, d |-> s.d, len |-> s.len,
          limbs |-> s.limbs, live |-> s.live, fault |-> s.fault, status |-> s.status]
  /\ s.alloc \in [Struct -> Nat]
  /\ s.size \in [Struct -> Int]
  /\ s.d \in [Struct -> Block \cup {Null}]
  /\ s.len \in [Block -> Nat]
  /\ s.live \subseteq Var

\* The size of every integer is within its block, which is no longer than INT_MAX.
Fits(s) == \A x \in s.live : Abs(s.size[x]) <= s.alloc[x] /\ s.alloc[x] <= IntMax

Backed(s) ==
  \A x \in s.live : s.alloc[x] > 0 => s.d[x] \in Block /\ s.len[s.d[x]] = s.alloc[x]

OneOwner(s) ==
  \A x, y \in s.live : s.alloc[x] > 0 /\ s.alloc[y] > 0 /\ s.d[x] = s.d[y] => x = y

Owned(s) == \A b \in Block : s.len[b] # 0 => \E x \in s.live : s.alloc[x] > 0 /\ s.d[x] = b

\* mpz_init_set writes to an integer before it sets its size.
Unborn(s) == \A x \in Struct \ s.live : s.size[x] = 0

Good(s) ==
  /\ Typed(s) /\ s.fault = FALSE
  /\ Fits(s) /\ Backed(s) /\ OneOwner(s) /\ Owned(s) /\ Unborn(s)

\* t differs from s in nothing but limbs and sizes.
SameBlocks(s, t) ==
  /\ t.alloc = s.alloc /\ t.d = s.d /\ t.len = s.len /\ t.live = s.live
  /\ t.fault = s.fault /\ t.status = s.status

-----------------------------------------------------------------------------
(* Numbers. *)

\* Bit is 0 or 1.
LEMMA BitRange == ASSUME NEW p PROVE Bit(p) \in {0, 1}
BY DEF Bit

\* Signed has the magnitude it is given.
LEMMA SignedRange ==
  ASSUME NEW p, NEW n \in Nat
  PROVE  Signed(p, n) \in Int /\ Abs(Signed(p, n)) = n
BY DEF Signed, Abs

\* The magnitude of an integer is a natural number, 0 for 0 only.
LEMMA AbsRange ==
  ASSUME NEW n \in Int
  PROVE  Abs(n) \in Nat /\ (Abs(n) = 0 <=> n = 0) /\ Abs(-n) = Abs(n)
BY DEF Abs

\* MPN_NORMALIZE leaves no more limbs than there were.
LEMMA NormalizeRange ==
  ASSUME NEW v, NEW n \in Nat
  PROVE  Normalize(v, n) \in 0..n
<1> DEFINE nonzero == {k \in 0..(n - 1) : High(v, k) # 0}
<1>1. IsFiniteSet(0..(n - 1)) /\ Cardinality(0..(n - 1)) = n
  BY FS_Interval
<1>2. IsFiniteSet(nonzero) /\ Cardinality(nonzero) <= n
  BY <1>1, FS_Subset
<1>3. Cardinality(nonzero) \in Nat
  BY <1>2, FS_CardinalityType
<1> QED BY <1>2, <1>3 DEF Normalize

-----------------------------------------------------------------------------
(* The primitives. *)

\* Limbs are of no concern.
LEMMA LimbsGood ==
  ASSUME NEW s, Good(s), NEW l
  PROVE  LET t == [s EXCEPT !.limbs = l]
         IN  Good(t) /\ SameBlocks(s, t) /\ t.size = s.size
<1> DEFINE t == [s EXCEPT !.limbs = l]
<1>1. t = [alloc |-> s.alloc, size |-> s.size, d |-> s.d, len |-> s.len,
           limbs |-> l, live |-> s.live, fault |-> s.fault, status |-> s.status]
  BY DEF Good, Typed
<1> HIDE DEF t
<1>2. SameBlocks(s, t) /\ t.size = s.size /\ Typed(t)
  BY <1>1 DEF SameBlocks, Good, Typed
<1>3. Good(t)
  BY <1>2 DEF SameBlocks, Good, Fits, Backed, OneOwner, Owned, Unborn
<1> QED BY <1>2, <1>3 DEF t

\* Writing limbs into a block that has room for them.
LEMMA PutGood ==
  ASSUME NEW s, Good(s), NEW p, NEW n \in Nat, NEW v,
         n = 0 \/ (p \in Block /\ s.len[p] >= n)
  PROVE  LET t == Put(s, p, n, v)
         IN  Good(t) /\ SameBlocks(s, t) /\ t.size = s.size
<1>1. CASE n = 0
  BY <1>1 DEF Put, SameBlocks
<1>2. CASE n # 0
  <2>1. \E l : Put(s, p, n, v) = [s EXCEPT !.limbs = l]
    BY <1>2 DEF Put, Good, Typed
  <2> QED BY <2>1, LimbsGood
<1> QED BY <1>1, <1>2

\* Setting a size that the block has room for.
LEMMA SizeGood ==
  ASSUME NEW s, Good(s), NEW x \in s.live, NEW n \in Int, Abs(n) <= s.alloc[x]
  PROVE  LET t == [s EXCEPT !.size[x] = n]
         IN  Good(t) /\ SameBlocks(s, t) /\ t.size = [s.size EXCEPT ![x] = n]
<1> DEFINE t == [s EXCEPT !.size[x] = n]
<1>1. t = [alloc |-> s.alloc, size |-> [s.size EXCEPT ![x] = n], d |-> s.d, len |-> s.len,
           limbs |-> s.limbs, live |-> s.live, fault |-> s.fault, status |-> s.status]
  BY DEF Good, Typed
<1>2. x \in Struct /\ s.size \in [Struct -> Int]
  BY DEF Good, Typed, Struct
<1> HIDE DEF t
<1>3. SameBlocks(s, t) /\ t.size = [s.size EXCEPT ![x] = n] /\ Typed(t)
  BY <1>1, <1>2 DEF SameBlocks, Good, Typed
<1>4. \A y \in Struct : t.size[y] = IF y = x THEN n ELSE s.size[y]
  BY <1>2, <1>3
<1>5. Fits(t) /\ Unborn(t)
  BY <1>2, <1>3, <1>4 DEF SameBlocks, Good, Typed, Fits, Unborn, Struct
<1>6. Good(t)
  BY <1>3, <1>5 DEF SameBlocks, Good, Backed, OneOwner, Owned
<1> QED BY <1>3, <1>6 DEF t

\* What a write changes, also in a store that is not good.
LEMMA PutShape ==
  ASSUME NEW s, Typed(s), NEW p \in Block, NEW n \in Nat, NEW v, s.len[p] >= n
  PROVE  \E l : Put(s, p, n, v) =
           [alloc |-> s.alloc, size |-> s.size, d |-> s.d, len |-> s.len, limbs |-> l,
            live |-> s.live, fault |-> s.fault, status |-> s.status]
<1>1. Put(s, p, n, v) = s \/ \E l : Put(s, p, n, v) = [s EXCEPT !.limbs = l]
  BY DEF Put, Typed
<1> QED BY <1>1 DEF Typed

\* SIZ (x) = n changes that size and limbs.
LEMMA SetSizShape ==
  ASSUME NEW s, Typed(s), NEW x \in Struct, NEW n \in Int
  PROVE  \E l : SetSiz(s, x, n) =
           [alloc |-> s.alloc, size |-> [s.size EXCEPT ![x] = n], d |-> s.d, len |-> s.len,
            limbs |-> l, live |-> s.live, fault |-> s.fault, status |-> s.status]
<1>1. \/ SetSiz(s, x, n) = [s EXCEPT !.size[x] = n]
      \/ \E l : SetSiz(s, x, n) = [[s EXCEPT !.size[x] = n] EXCEPT !.limbs = l]
  BY DEF SetSiz
<1> QED BY <1>1 DEF Typed

\* A size within the block of its integer keeps a store good.
LEMMA SetSizGood ==
  ASSUME NEW s, Good(s), NEW x \in s.live, NEW n \in Int, Abs(n) <= s.alloc[x]
  PROVE  LET t == SetSiz(s, x, n)
         IN  Good(t) /\ SameBlocks(s, t) /\ t.size = [s.size EXCEPT ![x] = n]
<1> DEFINE t == [s EXCEPT !.size[x] = n]
<1>1. Good(t) /\ SameBlocks(s, t) /\ t.size = [s.size EXCEPT ![x] = n]
  BY SizeGood
<1>2. SetSiz(s, x, n) = t \/ \E l : SetSiz(s, x, n) = [t EXCEPT !.limbs = l]
  BY DEF SetSiz
<1> HIDE DEF t
<1>3. ASSUME NEW l, SetSiz(s, x, n) = [t EXCEPT !.limbs = l]
      PROVE  LET r == SetSiz(s, x, n)
             IN  Good(r) /\ SameBlocks(t, r) /\ r.size = t.size
  BY <1>1, <1>3, LimbsGood
<1> QED BY <1>1, <1>2, <1>3 DEF SameBlocks

\* A result: m limbs are written to w, which then has size k.
LEMMA WriteGood ==
  ASSUME NEW s, Good(s), NEW w \in s.live, NEW m \in Nat, NEW v, NEW k \in Int,
         m <= s.alloc[w], Abs(k) <= s.alloc[w]
  PROVE  LET t == SetSiz(Put(s, s.d[w], m, v), w, k)
         IN  Good(t) /\ SameBlocks(s, t)
<1> DEFINE p == Put(s, s.d[w], m, v)
<1>1. w \in Struct /\ s.alloc[w] \in Nat
  BY DEF Good, Typed, Struct
<1>2. m = 0 \/ (s.d[w] \in Block /\ s.len[s.d[w]] >= m)
  BY <1>1 DEF Good, Backed
<1>3. Good(p) /\ SameBlocks(s, p)
  BY <1>2, PutGood
<1> HIDE DEF p
<1>4. w \in p.live /\ Abs(k) <= p.alloc[w]
  BY <1>3 DEF SameBlocks
<1>5. Good(SetSiz(p, w, k)) /\ SameBlocks(p, SetSiz(p, w, k))
  BY <1>3, <1>4, SetSizGood
<1> QED BY <1>3, <1>5 DEF SameBlocks, p

\* The process is over, or goes on, whatever is written.
LEMMA PutStatus ==
  ASSUME NEW s, Typed(s), NEW p, NEW m, NEW v
  PROVE  Typed(Put(s, p, m, v)) /\ Put(s, p, m, v).status = s.status
<1> DEFINE u == Put(s, p, m, v)
<1>1. u = s \/ (\E l : u = [s EXCEPT !.limbs = l]) \/ u = [s EXCEPT !.fault = TRUE]
  BY DEF Put
<1> QED BY <1>1 DEF Typed

\* Setting a size does not end the process.
LEMMA SetSizStatus ==
  ASSUME NEW s, Typed(s), NEW w \in Struct, NEW k \in Int
  PROVE  SetSiz(s, w, k).status = s.status
<1>1. \/ SetSiz(s, w, k) = [s EXCEPT !.size[w] = k]
      \/ \E l : SetSiz(s, w, k) = [[s EXCEPT !.size[w] = k] EXCEPT !.limbs = l]
  BY DEF SetSiz
<1> QED BY <1>1 DEF Typed

-----------------------------------------------------------------------------
(* Room. *)

\* In t the integer x has a block f of n limbs, its old one is gone, and its size is z.
Moved(s, t, x, n, z, f) ==
  /\ t = [alloc |-> [s.alloc EXCEPT ![x] = n], size |-> [s.size EXCEPT ![x] = z],
          d |-> [s.d EXCEPT ![x] = f], len |-> t.len, limbs |-> t.limbs,
          live |-> s.live, fault |-> FALSE, status |-> t.status]
  /\ t.len \in [Block -> Nat] /\ t.len[f] = n
  /\ \A c \in Block \ {f} :
       t.len[c] = IF s.alloc[x] > 0 /\ c = s.d[x] THEN 0 ELSE s.len[c]
  /\ s.len[f] = 0 \/ (s.alloc[x] > 0 /\ f = s.d[x])

\* A new block of n limbs for x keeps a store good when the size fits, whether
\* the block is a free one or the one x had.
LEMMA MovedGood ==
  ASSUME NEW s, Good(s), NEW x \in s.live, NEW n \in 1..IntMax, NEW z \in Int, Abs(z) <= n,
         NEW f \in Block, NEW t, Moved(s, t, x, n, z, f)
  PROVE  Good(t)
<1> DEFINE old == s.alloc[x]
           b == s.d[x]
<1>1. x \in Struct /\ old \in Nat /\ n \in Nat \ {0} /\ n <= IntMax
  BY IntMaxAssumption DEF Good, Typed, Struct
<1>2. Typed(t) /\ t.fault = FALSE
  BY <1>1 DEF Moved, Good, Typed
<1>3. \A y \in Struct : /\ t.alloc[y] = IF y = x THEN n ELSE s.alloc[y]
                        /\ t.size[y] = IF y = x THEN z ELSE s.size[y]
                        /\ t.d[y] = IF y = x THEN f ELSE s.d[y]
  BY <1>1 DEF Moved, Good, Typed
<1>4. t.live = s.live /\ \A y \in s.live : y \in Struct
  BY DEF Moved, Good, Typed, Struct
<1>5. /\ t.len[f] = n
      /\ \A c \in Block : c # f => t.len[c] = IF old > 0 /\ c = b THEN 0 ELSE s.len[c]
      /\ s.len[f] = 0 \/ (old > 0 /\ f = b)
  BY DEF Moved
<1>6. Fits(t) /\ Unborn(t)
  BY <1>1, <1>3, <1>4 DEF Good, Fits, Unborn
\* f is the block of no other integer.
<1>7. \A y \in s.live \ {x} : s.alloc[y] > 0 => s.d[y] # f /\ s.d[y] \in Block
                                                /\ (old > 0 => s.d[y] # b)
  BY <1>4, <1>5 DEF Good, Backed, OneOwner
<1> HIDE DEF old, b
<1>8. Backed(t)
  BY <1>3, <1>4, <1>5, <1>7 DEF Good, Backed
<1>9. OneOwner(t)
  BY <1>3, <1>4, <1>7 DEF Good, OneOwner
<1>10. Owned(t)
  <2> SUFFICES ASSUME NEW c \in Block, t.len[c] # 0
               PROVE  \E y \in s.live : t.alloc[y] > 0 /\ t.d[y] = c
    BY <1>4 DEF Owned
  <2>1. CASE c = f
    BY <2>1, <1>1, <1>3
  <2>2. CASE c # f
    <3>1. s.len[c] # 0 /\ ~(old > 0 /\ c = b)
      BY <2>2, <1>5
    <3>2. PICK y \in s.live : s.alloc[y] > 0 /\ s.d[y] = c
      BY <3>1 DEF Good, Owned
    <3>3. y # x
      BY <3>1, <3>2 DEF old, b
    <3> QED BY <1>3, <1>4, <3>2, <3>3
  <2> QED BY <2>1, <2>2
<1> QED BY <1>2, <1>6, <1>8, <1>9, <1>10 DEF Good

\* _mpz_realloc and mpz_realloc2: when they return, the block of x has n limbs and still
\* no other owner, and the old one is gone.
LEMMA ResizeGood ==
  ASSUME NEW s, Good(s), s.status = "run", NEW x \in s.live, NEW n \in Nat \ {0},
         NEW t \in Resize(s, x, n)
  PROVE  /\ Typed(t) /\ t.live = s.live
         /\ t.status # "run" => t.size = s.size
         /\ t.status = "run" =>
              /\ Good(t)
              /\ t.alloc = [s.alloc EXCEPT ![x] = n]
              /\ t.size = [s.size EXCEPT ![x] = KeptSize(s, x, n)]
<1>1. x \in Struct /\ s.alloc[x] \in Nat /\ s.size[x] \in Int
  BY DEF Good, Typed, Struct
<1>2. CASE TooLong(n)
  <2>1. t = Exception(s, "overflow")
    BY <1>2 DEF Resize
  <2> QED BY <2>1 DEF Exception, Good, Typed
<1>3. CASE ~TooLong(n)
  <2> DEFINE old == s.alloc[x]
             b == s.d[x]
             z == KeptSize(s, x, n)
             room(f) == IF old = 0 THEN Allocate(s, f, n) ELSE Reallocate(s, b, old, n, f)
  <2>1. z \in Int /\ Abs(z) <= n /\ n \in 1..IntMax
    <3>1. s.alloc[x] = 0 => s.size[x] = 0
      BY <1>1, SMTT(30) DEF Good, Fits, Abs
    <3> QED BY <1>1, <1>3, <3>1, IntMaxAssumption DEF KeptSize, AbSiz, Abs, TooLong
  <2>2. PICK f \in Homes(s, x) :
          t = [room(f) EXCEPT !.alloc[x] = n, !.size[x] = z, !.d[x] = f]
    BY <1>3 DEF Resize
  <2> HIDE DEF z
  <2>3. s.fault = FALSE /\ s.len \in [Block -> Nat]
    BY DEF Good, Typed
  <2>4. CASE old = 0
    <3>1. f \in Block /\ s.len[f] = 0
      BY <2>4, <1>1, <2>2 DEF Homes, Fresh, Good, Typed
    <3>2. PICK m : Allocate(s, f, n) = [s EXCEPT !.len[f] = n, !.limbs = m]
      BY DEF Allocate
    <3>3. t = [alloc |-> [s.alloc EXCEPT ![x] = n], size |-> [s.size EXCEPT ![x] = z],
               d |-> [s.d EXCEPT ![x] = f], len |-> [s.len EXCEPT ![f] = n],
               limbs |-> m, live |-> s.live, fault |-> FALSE, status |-> s.status]
      BY <2>4, <2>2, <2>3, <3>2 DEF Good, Typed
    <3>4. /\ [s.len EXCEPT ![f] = n] \in [Block -> Nat]
          /\ [s.len EXCEPT ![f] = n][f] = n
          /\ \A c \in Block \ {f} : [s.len EXCEPT ![f] = n][c] = s.len[c]
      BY <2>3, <3>1
    <3>5. ~(s.alloc[x] > 0)
      BY <2>4
    <3>6. Moved(s, t, x, n, z, f)
      BY ONLY <3>1, <3>3, <3>4, <3>5 DEF Moved
    <3> QED BY <2>1, <3>1, <3>3, <3>6, MovedGood DEF Good, z
  <2>5. CASE old # 0
    <3>1. b \in Block /\ s.len[b] = old /\ f \in Block /\ (s.len[f] = 0 \/ f = b)
      BY <2>5, <1>1, <2>2 DEF Homes, Fresh, Good, Typed, Backed
    <3>2. PICK m : Reallocate(s, b, old, n, f) =
            [s EXCEPT !.len = [[@ EXCEPT ![b] = 0] EXCEPT ![f] = n],
                      !.limbs = m, !.fault = s.fault \/ s.len[b] # old]
      BY DEF Reallocate
    <3>3. (s.fault \/ s.len[b] # old) = FALSE
      BY <2>3, <3>1
    <3>4. PICK l : l = [[s.len EXCEPT ![b] = 0] EXCEPT ![f] = n]
      OBVIOUS
    <3>5. t = [alloc |-> [s.alloc EXCEPT ![x] = n], size |-> [s.size EXCEPT ![x] = z],
               d |-> [s.d EXCEPT ![x] = f], len |-> l,
               limbs |-> m, live |-> s.live, fault |-> FALSE, status |-> s.status]
      BY <2>5, <2>2, <3>2, <3>3, <3>4 DEF Good, Typed
    <3>6. /\ l \in [Block -> Nat] /\ l[f] = n
          /\ \A c \in Block \ {f} : l[c] = IF c = b THEN 0 ELSE s.len[c]
      BY <2>3, <3>1, <3>4
    <3>7. old > 0
      BY <2>5, <1>1
    <3>8. Moved(s, t, x, n, z, f)
      BY ONLY <3>1, <3>5, <3>6, <3>7 DEF Moved
    <3> QED BY <2>1, <3>1, <3>5, <3>8, MovedGood DEF Good, z
  <2> QED BY <2>4, <2>5
<1> QED BY <1>2, <1>3

\* MPZ_REALLOC: there is room, and the integer has its value still.
LEMMA GrowGood ==
  ASSUME NEW s, Good(s), s.status = "run", NEW x \in s.live, NEW n \in Nat,
         NEW t \in Grow(s, x, n)
  PROVE  /\ Typed(t) /\ t.live = s.live /\ t.size = s.size
         /\ t.status = "run" => Good(t) /\ t.alloc[x] >= n
<1>1. x \in Struct /\ s.alloc[x] \in Nat /\ s.size[x] \in Int
  BY DEF Good, Typed, Struct
<1>2. CASE n > s.alloc[x]
  <2>1. t \in Resize(s, x, n) /\ n \in Nat \ {0}
    BY <1>1, <1>2 DEF Grow, MpzRealloc, Larger
  <2>2. KeptSize(s, x, n) = s.size[x]
    BY <1>1, <1>2 DEF KeptSize, AbSiz, Abs, Good, Fits
  <2>3. [s.size EXCEPT ![x] = KeptSize(s, x, n)] = s.size
    BY <2>2, <1>1 DEF Good, Typed
  <2>4. /\ Typed(t) /\ t.live = s.live /\ t.size = s.size
        /\ t.status = "run" => Good(t) /\ t.alloc = [s.alloc EXCEPT ![x] = n]
    BY <2>1, <2>3, ResizeGood
  <2>5. [s.alloc EXCEPT ![x] = n][x] = n
    BY <1>1 DEF Good, Typed
  <2>6. t.status = "run" => t.alloc[x] = n
    BY <2>4, <2>5
  <2> QED BY <2>4, <2>6
<1>3. CASE ~(n > s.alloc[x])
  BY <1>1, <1>3 DEF Grow, Good
<1> QED BY <1>2, <1>3

\* A function that asks for n limbs in w and stores a result of no more.
LEMMA ResultGood ==
  ASSUME NEW s, Good(s), s.status = "run", NEW w \in s.live, NEW n \in Nat,
         NEW t \in Grow(s, w, n),
         NEW m \in Nat, NEW v, NEW k \in Int, m <= n, Abs(k) <= n,
         SetSiz(Put(t, t.d[w], m, v), w, k).status = "run"
  PROVE  Good(SetSiz(Put(t, t.d[w], m, v), w, k))
<1>1. w \in Struct
  BY DEF Good, Typed, Struct
<1>2. Typed(t)
  BY GrowGood
<1>6. t.status = "run"
  BY <1>1, <1>2, PutStatus, SetSizStatus
<1>3. Good(t) /\ w \in t.live /\ t.alloc[w] >= n
  BY <1>6, GrowGood
<1>4. t.alloc[w] \in Nat /\ Abs(k) \in Nat
  BY <1>1, <1>2, AbsRange DEF Typed
<1>5. m <= t.alloc[w] /\ Abs(k) <= t.alloc[w]
  BY <1>3, <1>4
<1> QED BY <1>3, <1>5, WriteGood

-----------------------------------------------------------------------------
(* Every function returns in a good store. In these lemmas s is the store  *)
(* it is called in and r one in which it returns.                          *)

\* A new integer with a block of its own.
NewBlock(s, x, n, f) ==
  [Allocate(Born(s, x), f, n) EXCEPT !.alloc[x] = n, !.d[x] = f]

\* mpz_init2 and mpz_init_set: one more integer, in a block of its own.
LEMMA NewGood ==
  ASSUME NEW s, Good(s), NEW x \in Var \ s.live, NEW n \in 1..IntMax, NEW f \in Fresh(s)
  PROVE  LET t == NewBlock(s, x, n, f)
         IN  /\ Good(t) /\ t.live = s.live \cup {x} /\ t.size = s.size
             /\ t.alloc[x] = n /\ t.status = s.status
<1> DEFINE t == NewBlock(s, x, n, f)
<1>1. x \in Struct /\ f \in Block /\ s.len[f] = 0 /\ n \in Nat \ {0} /\ n <= IntMax
  BY IntMaxAssumption DEF Good, Typed, Struct, Fresh
<1>0. PICK v : v = s.live \cup {x}
  OBVIOUS
<1>2. PICK l : t = [alloc |-> [s.alloc EXCEPT ![x] = n], size |-> s.size,
                    d |-> [s.d EXCEPT ![x] = f], len |-> [s.len EXCEPT ![f] = n],
                    limbs |-> l, live |-> v, fault |-> s.fault, status |-> s.status]
  <2>1. t = [[[s EXCEPT !.live = v] EXCEPT !.len[f] = n, !.limbs[f] = B^n - 1]
               EXCEPT !.alloc[x] = n, !.d[x] = f]
    BY <1>0 DEF NewBlock, Allocate, Born
  <2> HIDE DEF t
  <2> QED BY <2>1 DEF Good, Typed
<1> HIDE DEF t
<1>3. Typed(t) /\ t.fault = FALSE
  BY <1>0, <1>1, <1>2 DEF Good, Typed
<1>4. /\ \A y \in Struct : /\ t.alloc[y] = IF y = x THEN n ELSE s.alloc[y]
                           /\ t.d[y] = IF y = x THEN f ELSE s.d[y]
      /\ \A b \in Block : t.len[b] = IF b = f THEN n ELSE s.len[b]
      /\ t.live = s.live \cup {x} /\ t.size = s.size
  BY <1>0, <1>1, <1>2 DEF Good, Typed
<1>5. \A y \in s.live : y \in Struct /\ y # x
  BY DEF Good, Typed, Struct
<1>6. Fits(t)
  BY <1>1, <1>4, <1>5 DEF Good, Fits, Unborn, Abs
<1>7. Unborn(t)
  BY <1>4 DEF Good, Unborn
\* f is the block of no other integer.
<1>8. \A y \in s.live : s.alloc[y] > 0 => s.d[y] \in Block /\ s.d[y] # f
  BY <1>1 DEF Good, Backed
<1>9. Backed(t)
  BY <1>1, <1>4, <1>5, <1>8 DEF Good, Backed
<1>10. OneOwner(t)
  BY <1>1, <1>4, <1>5, <1>8 DEF Good, OneOwner
<1>11. Owned(t)
  BY <1>1, <1>4, <1>5 DEF Good, Owned
<1> QED BY <1>2, <1>3, <1>4, <1>1, <1>6, <1>7, <1>9, <1>10, <1>11 DEF Good, t

\* mpz_init.
LEMMA InitGood ==
  ASSUME NEW s, Good(s), NEW x \in Var \ s.live, NEW r \in MpzInit(s, x)
  PROVE  Good(r)
<1>1. r = [alloc |-> [s.alloc EXCEPT ![x] = 0], size |-> [s.size EXCEPT ![x] = 0],
           d |-> [s.d EXCEPT ![x] = Null], len |-> s.len, limbs |-> s.limbs,
           live |-> s.live \cup {x}, fault |-> s.fault, status |-> s.status]
  BY DEF MpzInit, Born, Good, Typed
<1>2. Typed(r) /\ r.fault = FALSE
  <2>1. x \in Struct /\ s.fault = FALSE
    BY DEF Good, Struct
  <2> QED BY <1>1, <2>1 DEF Good, Typed
<1>3. /\ \A y \in Struct : /\ r.alloc[y] = IF y = x THEN 0 ELSE s.alloc[y]
                           /\ r.size[y] = IF y = x THEN 0 ELSE s.size[y]
                           /\ r.d[y] = IF y = x THEN Null ELSE s.d[y]
      /\ r.live = s.live \cup {x} /\ r.len = s.len
  BY <1>1 DEF Good, Typed
<1>4. x \in Struct /\ \A y \in s.live : y \in Struct /\ y # x
  BY DEF Good, Typed, Struct
<1>5. Fits(r) /\ Unborn(r)
  BY <1>3, <1>4, IntMaxAssumption DEF Good, Fits, Unborn, Abs
<1>6. Backed(r) /\ OneOwner(r)
  BY <1>3, <1>4 DEF Good, Backed, OneOwner
<1>7. Owned(r)
  BY <1>3, <1>4 DEF Good, Owned
<1> QED BY <1>2, <1>5, <1>6, <1>7 DEF Good

\* The limbs for some bits.
LEMMA BitsRange ==
  ASSUME NEW bits \in Nat
  PROVE  BitsToLimbs(bits) \in Nat \ {0}
<1>1. PICK b \in Nat : b = bits - Bit(bits # 0)
  BY DEF Bit
<1>2. b \div W \in Nat
  BY WAssumption
<1> QED BY <1>1, <1>2 DEF BitsToLimbs

\* mpz_init2.
LEMMA Init2Good ==
  ASSUME NEW s, Good(s), NEW x \in Var \ s.live, NEW bits \in Nat,
         NEW r \in MpzInit2(s, x, bits), r.status = "run", s.status = "run"
  PROVE  Good(r)
<1> DEFINE n == BitsToLimbs(bits)
<1>1. CASE TooLong(n)
  BY <1>1 DEF MpzInit2, Exception, Good, Typed
<1>2. CASE ~TooLong(n)
  <2>1. n \in 1..IntMax
    BY <1>2, BitsRange, IntMaxAssumption DEF TooLong
  <2> HIDE DEF n
  <2>2. PICK f \in Fresh(s) :
          r = [Allocate(Born(s, x), f, n) EXCEPT !.alloc[x] = n, !.size[x] = 0, !.d[x] = f]
    BY <1>2 DEF MpzInit2, n
  <2> DEFINE t == NewBlock(s, x, n, f)
  <2>3. Good(t) /\ t.live = s.live \cup {x} /\ t.alloc[x] = n /\ t.size = s.size
    BY <2>1, NewGood
  <2>4. r = [t EXCEPT !.size[x] = 0]
    BY <2>2, ZenonT(60) DEF NewBlock, Allocate, Born, Good, Typed
  <2>5. Abs(0) <= t.alloc[x] /\ x \in t.live
    BY <2>1, <2>3 DEF Abs
  <2> QED BY <2>3, <2>4, <2>5, SizeGood
<1> QED BY <1>1, <1>2

\* The limbs of an integer are no more than its block has.
LEMMA SizeRange ==
  ASSUME NEW s, Good(s), NEW x \in s.live
  PROVE  /\ x \in Struct /\ s.size[x] \in Int /\ s.alloc[x] \in Nat
         /\ AbSiz(s, x) \in Nat /\ AbSiz(s, x) = Abs(s.size[x])
         /\ AbSiz(s, x) <= s.alloc[x] /\ AbSiz(s, x) <= IntMax /\ s.alloc[x] <= IntMax
<1>1. x \in Struct /\ s.size[x] \in Int /\ s.alloc[x] \in Nat
  BY DEF Good, Typed, Struct
<1>2. Abs(s.size[x]) \in Nat
  BY <1>1, AbsRange
<1> QED BY <1>1, <1>2, IntMaxAssumption DEF Good, Fits, AbSiz

\* mpz_init_set.
LEMMA InitSetGood ==
  ASSUME NEW s, Good(s), NEW w \in Var \ s.live, NEW u \in s.live,
         NEW r \in MpzInitSet(s, w, u)
  PROVE  Good(r)
<1> DEFINE n == Larger(AbSiz(s, u), 1)
<1>1. n \in 1..IntMax /\ Abs(s.size[u]) \in Nat /\ Abs(s.size[u]) <= n /\ s.size[u] \in Int
  BY SizeRange, IntMaxAssumption DEF Larger
<1> HIDE DEF n
<1>2. PICK f \in Fresh(s) :
        r = Assign(NewBlock(s, w, n, f), w, Get(s, s.d[u], AbSiz(s, u)), s.size[u])
  BY DEF MpzInitSet, NewBlock, n
<1>3. PICK t : t = NewBlock(s, w, n, f)
  OBVIOUS
<1>4. Good(t) /\ w \in t.live /\ t.alloc[w] = n
  BY <1>1, <1>3, NewGood
<1> QED BY <1>1, <1>2, <1>3, <1>4, WriteGood DEF Assign

\* mpz_clear: the block goes with its integer.
LEMMA ClearGood ==
  ASSUME NEW s, Good(s), NEW x \in s.live, NEW r \in MpzClear(s, x)
  PROVE  Good(r)
<1>0. PICK v : v = s.live \ {x}
  OBVIOUS
<1> DEFINE owns == s.alloc[x] # 0
<1>1. x \in Struct /\ s.alloc[x] \in Nat /\ s.fault = FALSE
      /\ (owns => s.d[x] \in Block /\ s.len[s.d[x]] = s.alloc[x])
  <2>1. x \in Struct /\ s.alloc[x] \in Nat
    BY SizeRange
  <2> QED BY <2>1 DEF Good, Backed
<1>2. PICK l, m : r = [alloc |-> [s.alloc EXCEPT ![x] = 0],
                       size |-> [s.size EXCEPT ![x] = 0], d |-> [s.d EXCEPT ![x] = Null],
                       len |-> m, limbs |-> l, live |-> v, fault |-> FALSE,
                       status |-> s.status]
                  /\ m = IF owns THEN [s.len EXCEPT ![s.d[x]] = 0] ELSE s.len
  <2>1. CASE ~owns
    <3>1. r = [s EXCEPT !.live = v, !.alloc[x] = 0, !.size[x] = 0, !.d[x] = Null]
      BY <1>0, <2>1 DEF MpzClear, Owns
    <3> QED BY <1>1, <2>1, <3>1 DEF Good, Typed
  <2>2. CASE owns
    <3>1. PICK l : Free(s, s.d[x], s.alloc[x]) =
                     [s EXCEPT !.len[s.d[x]] = 0, !.limbs = l,
                               !.fault = s.fault \/ s.alloc[x] = 0
                                         \/ s.len[s.d[x]] # s.alloc[x]]
      BY DEF Free
    <3>2. (s.fault \/ s.alloc[x] = 0 \/ s.len[s.d[x]] # s.alloc[x]) = FALSE
      BY <1>1, <2>2
    <3>3. r = [[s EXCEPT !.len[s.d[x]] = 0, !.limbs = l, !.fault = FALSE]
                 EXCEPT !.live = v, !.alloc[x] = 0, !.size[x] = 0, !.d[x] = Null]
      BY <1>0, <2>2, <3>1, <3>2 DEF MpzClear, Owns, Free, Good, Typed
    <3> QED BY <2>2, <3>3 DEF Good, Typed
  <2> QED BY <2>1, <2>2
<1>3. /\ \A y \in Struct : /\ r.alloc[y] = IF y = x THEN 0 ELSE s.alloc[y]
                           /\ r.size[y] = IF y = x THEN 0 ELSE s.size[y]
                           /\ r.d[y] = IF y = x THEN Null ELSE s.d[y]
      /\ \A b \in Block : r.len[b] = IF owns /\ b = s.d[x] THEN 0 ELSE s.len[b]
      /\ r.live = s.live \ {x}
  BY <1>0, <1>1, <1>2 DEF Good, Typed
<1>4. Typed(r) /\ r.fault = FALSE
  <2>1. m \in [Block -> Nat]
    BY <1>1, <1>2 DEF Good, Typed
  <2> HIDE DEF owns
  <2> QED BY <1>0, <1>1, <1>2, <2>1 DEF Good, Typed
<1> HIDE DEF owns
<1>5. \A y \in s.live : y \in Struct /\ (s.alloc[y] > 0 => s.d[y] \in Block)
  BY DEF Good, Typed, Struct, Backed
<1>6. Fits(r) /\ Unborn(r)
  BY <1>3, <1>5 DEF Good, Fits, Unborn
\* The block that was freed is the block of no other integer.
<1>7. \A y \in r.live : s.alloc[y] > 0 /\ owns => s.d[y] # s.d[x]
  BY <1>1, <1>3 DEF Good, OneOwner, owns
<1>8. Backed(r) /\ OneOwner(r)
  BY <1>3, <1>5, <1>7 DEF Good, Backed, OneOwner
<1>9. Owned(r)
  <2> SUFFICES ASSUME NEW b \in Block, r.len[b] # 0
               PROVE  \E y \in r.live : r.alloc[y] > 0 /\ r.d[y] = b
    BY DEF Owned
  <2>1. ~(owns /\ b = s.d[x]) /\ s.len[b] # 0
    BY <1>3
  <2>2. PICK y \in s.live : s.alloc[y] > 0 /\ s.d[y] = b
    BY <2>1 DEF Good, Owned
  <2>3. y # x
    BY <1>1, <2>1, <2>2 DEF owns
  <2> QED BY <1>3, <1>5, <2>2, <2>3
<1> QED BY <1>4, <1>6, <1>8, <1>9 DEF Good

\* mpz_realloc2.
LEMMA Realloc2Good ==
  ASSUME NEW s, Good(s), s.status = "run", NEW x \in s.live, NEW bits \in Nat,
         NEW r \in MpzRealloc2(s, x, bits), r.status = "run"
  PROVE  Good(r)
BY BitsRange, ResizeGood DEF MpzRealloc2

\* The operand of mpz_set, mpz_neg and mpz_abs fits into what it asks for.
LEMMA CopyGood ==
  ASSUME NEW s, Good(s), s.status = "run", NEW w \in s.live, NEW u \in s.live,
         NEW t \in Grow(s, w, AbSiz(s, u)), NEW v, NEW k \in Int, Abs(k) = AbSiz(s, u),
         Assign(t, w, v, k).status = "run"
  PROVE  Good(Assign(t, w, v, k))
<1>1. Abs(k) \in Nat /\ Abs(k) <= AbSiz(s, u) /\ AbSiz(s, u) \in Nat
  BY SizeRange
<1> QED BY <1>1, ResultGood DEF Assign

\* mpz_set.
LEMMA SetGood ==
  ASSUME NEW s, Good(s), s.status = "run", NEW w \in s.live, NEW u \in s.live,
         NEW r \in MpzSet(s, w, u), r.status = "run"
  PROVE  Good(r)
<1>1. PICK t \in Grow(s, w, AbSiz(s, u)) :
        r = Assign(t, w, Source(s, t, u, AbSiz(t, u)), t.size[u])
  BY DEF MpzSet
<1>2. t.size[u] \in Int /\ Abs(t.size[u]) = AbSiz(s, u)
  BY SizeRange, GrowGood
<1> QED BY <1>1, <1>2, CopyGood

\* What mpz_neg and mpz_abs share.
LEMMA ResignGood ==
  ASSUME NEW s, Good(s), s.status = "run", NEW w \in s.live, NEW u \in s.live,
         NEW k \in Int, Abs(k) = AbSiz(s, u),
         NEW r \in Resign(s, w, u, k), r.status = "run"
  PROVE  Good(r)
<1>1. CASE u = w
  <2>1. r = [s EXCEPT !.size[w] = k] /\ Abs(k) <= s.alloc[w]
    BY <1>1, SizeRange DEF Resign
  <2> QED BY <2>1, SizeGood
<1>2. CASE u # w
  <2>1. PICK t \in Grow(s, w, AbSiz(s, u)) :
          r = Assign(t, w, Source(s, t, u, AbSiz(t, u)), k)
    BY <1>2 DEF Resign
  <2> QED BY <2>1, CopyGood
<1> QED BY <1>1, <1>2

\* mpz_neg and mpz_abs.
LEMMA NegGood ==
  ASSUME NEW s, Good(s), s.status = "run", NEW w \in s.live, NEW u \in s.live,
         NEW r \in MpzNeg(s, w, u) \cup MpzAbs(s, w, u), r.status = "run"
  PROVE  Good(r)
<1>1. /\ -s.size[u] \in Int /\ Abs(-s.size[u]) = AbSiz(s, u)
      /\ AbSiz(s, u) \in Int /\ Abs(AbSiz(s, u)) = AbSiz(s, u)
  BY SizeRange, AbsRange DEF Abs
<1>2. r \in Resign(s, w, u, -s.size[u]) \/ r \in Resign(s, w, u, AbSiz(s, u))
  BY DEF MpzNeg, MpzAbs
<1> QED BY <1>1, <1>2, ResignGood

\* mpz_swap: the blocks change integers together with their lengths.
LEMMA SwapGood ==
  ASSUME NEW s, Good(s), NEW u \in s.live, NEW v \in s.live, NEW r \in MpzSwap(s, u, v)
  PROVE  Good(r)
<1> DEFINE other(x) == IF x = u THEN v ELSE IF x = v THEN u ELSE x
<1>1. /\ u \in Struct /\ v \in Struct /\ \A x \in s.live : x \in Struct
  BY DEF Good, Typed, Struct
<1>2. PICK a, z, e : /\ r = [alloc |-> a, size |-> z, d |-> e, len |-> s.len,
                             limbs |-> s.limbs, live |-> s.live, fault |-> s.fault,
                             status |-> s.status]
                     /\ a = SwappedField(s.alloc, u, v)
                     /\ z = SwappedField(s.size, u, v)
                     /\ e = SwappedField(s.d, u, v)
  BY DEF MpzSwap, Good, Typed
<1>3. Typed(r)
  BY <1>1, <1>2 DEF SwappedField, Good, Typed
<1>4. /\ \A x \in Struct : /\ r.alloc[x] = s.alloc[other(x)]
                           /\ r.size[x] = s.size[other(x)]
                           /\ r.d[x] = s.d[other(x)]
      /\ r.live = s.live /\ r.len = s.len /\ r.fault = s.fault
  BY <1>1, <1>2 DEF SwappedField, Good, Typed
<1>5. /\ \A x \in s.live : other(x) \in s.live /\ other(other(x)) = x
      /\ \A x \in Struct \ s.live : other(x) = x
  OBVIOUS
<1> HIDE DEF other
<1>6. Fits(r) /\ Unborn(r) /\ Backed(r)
  BY <1>1, <1>4, <1>5 DEF Good, Fits, Unborn, Backed
<1>7. OneOwner(r)
  BY <1>1, <1>4, <1>5 DEF Good, OneOwner
<1>8. Owned(r)
  <2> SUFFICES ASSUME NEW b \in Block, s.len[b] # 0
               PROVE  \E x \in s.live : r.alloc[x] > 0 /\ r.d[x] = b
    BY <1>4 DEF Owned
  <2>1. PICK y \in s.live : s.alloc[y] > 0 /\ s.d[y] = b
    BY DEF Good, Owned
  <2>2. other(y) \in s.live /\ r.alloc[other(y)] > 0 /\ r.d[other(y)] = b
    BY <2>1, <1>1, <1>4, <1>5
  <2> QED BY <2>2
<1> QED BY <1>3, <1>4, <1>6, <1>7, <1>8 DEF Good

\* mpz_set_si.
LEMMA SetSiGood ==
  ASSUME NEW s, Good(s), s.status = "run", NEW w \in s.live, NEW n \in Int,
         NEW r \in MpzSetSi(s, w, n), r.status = "run"
  PROVE  Good(r)
<1> DEFINE k == Signed(n < 0, Bit(n # 0))
<1>1. k \in Int /\ Abs(k) \in Nat /\ Abs(k) <= 1
  BY BitRange DEF Signed, Bit, Abs
<1> HIDE DEF k
<1>2. PICK t \in Grow(s, w, 1) : r = Assign(t, w, Abs(n), k)
  BY DEF MpzSetSi, k
<1> QED BY <1>1, <1>2, ResultGood DEF Assign

\* Addition and subtraction.

\* aors.h sets the size, and sets it again when the limbs above it are given up.
Sized(t, w, m, v, k) == [Put(t, t.d[w], m, v) EXCEPT !.size[w] = k]

\* A result whose size is set before its limbs are cut off.
LEMMA ResultAgain ==
  ASSUME NEW s, Good(s), s.status = "run", NEW w \in s.live, NEW n \in Nat,
         NEW t \in Grow(s, w, n),
         NEW m \in Nat, NEW v, NEW k \in Int, m <= n, Abs(k) <= n,
         SetSiz(Sized(t, w, m, v, k), w, Sized(t, w, m, v, k).size[w]).status = "run"
  PROVE  Good(SetSiz(Sized(t, w, m, v, k), w, Sized(t, w, m, v, k).size[w]))
<1> DEFINE p == Put(t, t.d[w], m, v)
           r == Sized(t, w, m, v, k)
<1>1. w \in Struct /\ Typed(t)
  BY SizeRange, GrowGood
<1>2. Typed(p) /\ p.status = t.status
  BY <1>1, PutStatus
<1> HIDE DEF p
<1>3. r = [p EXCEPT !.size[w] = k]
  BY DEF p, Sized
<1> HIDE DEF r
<1>4. r.size[w] = k /\ Typed(r) /\ r.status = p.status
  BY <1>1, <1>2, <1>3 DEF Typed
<1>5. t.status = "run"
  BY <1>1, <1>2, <1>4, SetSizStatus DEF r
<1>6. Good(t) /\ w \in t.live /\ t.alloc[w] >= n /\ t.alloc[w] \in Nat
  BY <1>1, <1>5, GrowGood DEF Typed
<1>7. m = 0 \/ (t.d[w] \in Block /\ t.len[t.d[w]] >= m)
  BY <1>6 DEF Good, Backed
<1>8. Good(p) /\ SameBlocks(t, p)
  BY <1>6, <1>7, PutGood DEF p
<1>9. w \in p.live /\ Abs(k) <= p.alloc[w] /\ Abs(k) \in Nat
  BY <1>6, <1>8, AbsRange DEF SameBlocks
<1>10. Good(r) /\ SameBlocks(p, r)
  BY <1>3, <1>8, <1>9, SizeGood
<1>11. w \in r.live /\ Abs(k) <= r.alloc[w]
  BY <1>9, <1>10 DEF SameBlocks
<1> QED BY <1>4, <1>10, <1>11, SetSizGood DEF r

\* mpz_add and mpz_sub.
LEMMA AorsGood ==
  ASSUME NEW s, Good(s), s.status = "run", NEW w \in s.live, NEW u \in s.live,
         NEW v \in s.live, NEW sub \in BOOLEAN,
         NEW r \in MpzAors(s, w, u, v, sub), r.status = "run"
  PROVE  Good(r)
<1> DEFINE vsize == Signed(sub, s.size[v])
           swap  == AbSiz(s, u) < AbSiz(s, v)
           a     == IF swap THEN v ELSE u
           b     == IF swap THEN u ELSE v
           asize == IF swap THEN vsize ELSE s.size[u]
           bsize == IF swap THEN s.size[u] ELSE vsize
           n     == Abs(asize)
           add(t, av, bv) ==
             Sized(t, w, n + 1, av + bv, Signed(asize < 0, n + Bit(av + bv >= B^n)))
           diff(t, av, bv) ==
             LET less == Abs(bsize) = n /\ av < bv
                 q    == Low(IF less THEN bv - av ELSE av - bv, n)
             IN  Sized(t, w, n, q, Signed((asize < 0) # less, Normalize(q, n)))
           sum(t, av, bv) == IF (asize < 0) = (bsize < 0) THEN add(t, av, bv)
                             ELSE diff(t, av, bv)
<1>0. PICK t \in Grow(s, w, n + 1) :
        LET av == Source(s, t, a, n)
            bv == Source(s, t, b, Abs(bsize))
        IN  r = SetSiz(sum(t, av, bv), w, sum(t, av, bv).size[w])
  BY ZenonT(60) DEF MpzAors, Sized
<1> DEFINE av == Source(s, t, a, n)
           bv == Source(s, t, b, Abs(bsize))
<1>1. r = SetSiz(sum(t, av, bv), w, sum(t, av, bv).size[w])
  BY <1>0, ZenonT(60)
<1>2. n \in Nat
  BY SizeRange, AbsRange DEF Signed
<1> HIDE DEF n, av, bv
<1>3. CASE (asize < 0) = (bsize < 0)
  <2> DEFINE k == Signed(asize < 0, n + Bit(av + bv >= B^n))
  <2>1. n + Bit(av + bv >= B^n) \in Nat /\ n + Bit(av + bv >= B^n) <= n + 1
    BY <1>2, BitRange
  <2>2. k \in Int /\ Abs(k) <= n + 1
    BY <2>1, SignedRange
  <2>3. sum(t, av, bv) = Sized(t, w, n + 1, av + bv, k)
    BY <1>3
  <2> HIDE DEF k, sum
  <2> QED BY <1>1, <1>2, <2>2, <2>3, ResultAgain
<1>4. CASE (asize < 0) # (bsize < 0)
  <2> DEFINE less == Abs(bsize) = n /\ av < bv
             q == Low(IF less THEN bv - av ELSE av - bv, n)
             k == Signed((asize < 0) # less, Normalize(q, n))
  <2>1. Normalize(q, n) \in Nat /\ Normalize(q, n) <= n + 1
    BY <1>2, NormalizeRange
  <2>2. k \in Int /\ Abs(k) <= n + 1
    BY <2>1, SignedRange
  <2>3. sum(t, av, bv) = Sized(t, w, n, q, k)
    BY <1>4
  <2> HIDE DEF less, q, k, sum
  <2> QED BY <1>1, <1>2, <2>2, <2>3, ResultAgain
<1> QED BY <1>3, <1>4, Zenon

\* A result of n limbs and one more for a carry.
LEMMA CarryGood ==
  ASSUME NEW s, Good(s), s.status = "run", NEW w \in s.live, NEW n \in Nat,
         NEW t \in Grow(s, w, n + 1), NEW v, NEW p, NEW c,
         SetSiz(Put(t, t.d[w], n + 1, v), w, Signed(p, n + Bit(c))).status = "run"
  PROVE  Good(SetSiz(Put(t, t.d[w], n + 1, v), w, Signed(p, n + Bit(c))))
<1> DEFINE room == n + 1
           k == Signed(p, n + Bit(c))
<1>1. n + Bit(c) \in Nat /\ n + Bit(c) <= room /\ room \in Nat /\ room <= room
  BY BitRange
<1>2. k \in Int /\ Abs(k) <= room
  BY <1>1, SignedRange
<1>3. t \in Grow(s, w, room) /\ SetSiz(Put(t, t.d[w], room, v), w, k).status = "run"
  OBVIOUS
<1> HIDE DEF room, k
<1>4. Good(SetSiz(Put(t, t.d[w], room, v), w, k))
  BY <1>1, <1>2, <1>3, ResultGood
<1> QED BY <1>4 DEF room, k

\* A result of m limbs, as many as there is room for or fewer.
LEMMA WithinGood ==
  ASSUME NEW s, Good(s), s.status = "run", NEW w \in s.live, NEW n \in Nat,
         NEW t \in Grow(s, w, n), NEW m \in 0..n, NEW v, NEW p, NEW k \in 0..n,
         SetSiz(Put(t, t.d[w], m, v), w, Signed(p, k)).status = "run"
  PROVE  Good(SetSiz(Put(t, t.d[w], m, v), w, Signed(p, k)))
<1>1. Signed(p, k) \in Int /\ Abs(Signed(p, k)) <= n
  BY SignedRange
<1> QED BY <1>1, ResultGood

\* mpz_add_ui and mpz_sub_ui.
LEMMA AorsUiGood ==
  ASSUME NEW s, Good(s), s.status = "run", NEW w \in s.live, NEW u \in s.live,
         NEW vval, NEW sub \in BOOLEAN,
         NEW r \in MpzAorsUi(s, w, u, vval, sub), r.status = "run"
  PROVE  Good(r)
<1> DEFINE usize == s.size[u]
           n == Abs(usize)
           away == IF sub THEN usize < 0 ELSE usize >= 0
<1>1. n \in Nat /\ (usize # 0 => n >= 1)
  BY SizeRange, AbsRange
<1>2. CASE usize = 0
  <2>1. PICK t \in Grow(s, w, 1) :
          r = SetSiz(Put(t, t.d[w], 1, vval), w, Signed(sub, Bit(vval # 0)))
    BY <1>2 DEF MpzAorsUi
  <2>2. Bit(vval # 0) \in 0..1
    BY BitRange
  <2> QED BY <2>1, <2>2, WithinGood
<1>3. CASE usize # 0 /\ away
  <2>1. PICK t \in Grow(s, w, n + 1) :
          LET sum == Source(s, t, u, n) + vval
          IN  r = SetSiz(Put(t, t.d[w], n + 1, sum), w, Signed(sub, n + Bit(sum >= B^n)))
    BY <1>3 DEF MpzAorsUi
  <2> HIDE DEF n
  <2> QED BY <1>1, <2>1, CarryGood
<1>4. CASE usize # 0 /\ ~away
  <2>1. PICK t \in Grow(s, w, n) :
          LET up == Source(s, t, u, n)
              less == n = 1 /\ up < vval
              q == Low(IF less THEN vval - up ELSE up - vval, n)
              size == IF less THEN 1 ELSE n - Bit(High(q, n - 1) = 0)
          IN  r = SetSiz(Put(t, t.d[w], n, q), w, Signed(sub # ~less, size))
    BY <1>4 DEF MpzAorsUi
  <2> DEFINE up == Source(s, t, u, n)
             less == n = 1 /\ up < vval
             q == Low(IF less THEN vval - up ELSE up - vval, n)
             size == IF less THEN 1 ELSE n - Bit(High(q, n - 1) = 0)
             neg == sub # ~less
  <2>2. r = SetSiz(Put(t, t.d[w], n, q), w, Signed(neg, size))
    BY <2>1
  <2> HIDE DEF n, q, neg
  <2>3. size \in 0..n /\ n \in 0..n
    <3> HIDE DEF less
    <3> QED BY <1>1, <1>4, BitRange
  <2> HIDE DEF size
  <2> QED BY <1>1, <2>2, <2>3, WithinGood
<1> QED BY <1>2, <1>3, <1>4

\* mpz_ui_sub.
LEMMA UiSubGood ==
  ASSUME NEW s, Good(s), s.status = "run", NEW w \in s.live, NEW v \in s.live,
         NEW uval, NEW r \in MpzUiSub(s, w, uval, v), r.status = "run"
  PROVE  Good(r)
<1> DEFINE vn == s.size[v]
           n == Abs(vn)
           vp0 == IF vn = 0 THEN 0 ELSE Get(s, s.d[v], 1)
<1>1. n \in Nat /\ vn \in Int /\ (vn > 1 => n >= 1)
  BY SizeRange DEF Abs
<1>2. CASE vn > 1
  <2>1. PICK t \in Grow(s, w, n) :
          LET q == Low(Source(s, t, v, n) - uval, n)
          IN  r = SetSiz(Put(t, t.d[w], n, q), w, -(n - Bit(High(q, n - 1) = 0)))
    BY <1>2 DEF MpzUiSub
  <2> DEFINE q == Low(Source(s, t, v, n) - uval, n)
             k == -(n - Bit(High(q, n - 1) = 0))
  <2>2. r = SetSiz(Put(t, t.d[w], n, q), w, k)
    BY <2>1
  <2> HIDE DEF n, q
  <2>3. k \in Int /\ Abs(k) <= n /\ n <= n
    BY <1>1, <1>2, BitRange DEF Abs
  <2> HIDE DEF k
  <2> QED BY <1>1, <2>2, <2>3, ResultGood
<1>3. CASE ~(vn > 1) /\ vn >= 0
  <2> DEFINE k == IF uval >= vp0 THEN Bit(uval # vp0) ELSE -1
  <2>1. PICK t \in Grow(s, w, 1) :
          r = SetSiz(Put(t, t.d[w], 1, Abs(uval - vp0)), w, k)
    BY <1>3 DEF MpzUiSub
  <2> HIDE DEF vp0
  <2>2. k \in Int /\ Abs(k) <= 1 /\ 1 <= 1 /\ 1 \in Nat
    BY BitRange DEF Abs
  <2> HIDE DEF k
  <2> QED BY <2>1, <2>2, ResultGood
<1>4. CASE ~(vn > 1) /\ ~(vn >= 0)
  <2>1. PICK t \in Grow(s, w, n + 1) :
          LET sum == Source(s, t, v, n) + uval
          IN  r = SetSiz(Put(t, t.d[w], n + 1, sum), w, n + Bit(sum >= B^n))
    BY <1>4 DEF MpzUiSub
  <2> DEFINE sum == Source(s, t, v, n) + uval
  <2>2. r = SetSiz(Put(t, t.d[w], n + 1, sum), w, Signed(FALSE, n + Bit(sum >= B^n)))
    BY <2>1 DEF Signed
  <2> HIDE DEF n, sum
  <2> QED BY <1>1, <2>2, CarryGood
<1> QED BY <1>2, <1>3, <1>4

\* Multiplication.

\* SIZ (w) = 0 needs no room.
LEMMA ZeroGood ==
  ASSUME NEW s, Good(s), NEW w \in s.live
  PROVE  Good(SetSiz(s, w, 0))
<1>1. 0 \in Int /\ Abs(0) <= s.alloc[w]
  BY SizeRange DEF Abs
<1> QED BY <1>1, SetSizGood

\* mpz_mul_si and mpz_mul_ui.
LEMMA MulSiGood ==
  ASSUME NEW s, Good(s), s.status = "run", NEW w \in s.live, NEW u \in s.live,
         NEW n, NEW r \in MpzMulSi(s, w, u, n), r.status = "run"
  PROVE  Good(r)
<1>1. CASE s.size[u] = 0 \/ n = 0
  BY <1>1, ZeroGood DEF MpzMulSi
<1>2. CASE ~(s.size[u] = 0 \/ n = 0)
  <2> DEFINE un == AbSiz(s, u)
             neg == (s.size[u] < 0) # (n < 0)
  <2>1. PICK t \in Grow(s, w, un + 1) :
          LET product == Source(s, t, u, un) * Abs(n)
          IN  r = SetSiz(Put(t, t.d[w], un + 1, product), w,
                         Signed(neg, un + Bit(product >= B^un)))
    BY <1>2 DEF MpzMulSi, MulLimb
  <2> DEFINE product == Source(s, t, u, un) * Abs(n)
  <2>2. r = SetSiz(Put(t, t.d[w], un + 1, product), w,
                   Signed(neg, un + Bit(product >= B^un)))
    BY <2>1
  <2>3. un \in Nat
    BY SizeRange
  <2> HIDE DEF product, neg, un
  <2> QED BY <2>2, <2>3, CarryGood
<1> QED BY <1>1, <1>2

\* mpz_mul_2exp.
LEMMA Mul2ExpGood ==
  ASSUME NEW s, Good(s), s.status = "run", NEW w \in s.live, NEW u \in s.live,
         NEW cnt \in Nat, NEW r \in MpzMul2Exp(s, w, u, cnt), r.status = "run"
  PROVE  Good(r)
<1> DEFINE un == AbSiz(s, u)
           rn == un + cnt \div W
<1>1. CASE un = 0
  BY <1>1, ZeroGood DEF MpzMul2Exp
<1>2. CASE un # 0
  <2>1. PICK t \in Grow(s, w, rn + 1) :
          LET shifted == Source(s, t, u, un) * 2^cnt
          IN  r = SetSiz(Put(t, t.d[w], rn + 1, shifted), w,
                         Signed(t.size[u] < 0, rn + Bit(shifted >= B^rn)))
    BY <1>2 DEF MpzMul2Exp
  <2> DEFINE shifted == Source(s, t, u, un) * 2^cnt
             neg == t.size[u] < 0
  <2>2. r = SetSiz(Put(t, t.d[w], rn + 1, shifted), w,
                   Signed(neg, rn + Bit(shifted >= B^rn)))
    BY <2>1
  <2>3. cnt \div W \in Nat
    BY WAssumption
  <2>4. rn \in Nat
    BY <2>3, SizeRange
  <2> HIDE DEF rn, un, shifted, neg
  <2> QED BY <2>2, <2>4, CarryGood
<1> QED BY <1>1, <1>2

\* mpz_mul stores a product of wsize limbs at p.
Product(t, p, wsize, product, w, k) == SetSiz(Put(t, p, wsize, product), w, k)

\* A product of n limbs written to a block with room for them: what it changes.
LEMMA ProductShape ==
  ASSUME NEW t, Typed(t), NEW p \in Block, NEW n \in Nat, NEW v, t.len[p] >= n,
         NEW w \in Struct, NEW k \in Int
  PROVE  \E l : Product(t, p, n, v, w, k) =
           [alloc |-> t.alloc, size |-> [t.size EXCEPT ![w] = k], d |-> t.d, len |-> t.len,
            limbs |-> l, live |-> t.live, fault |-> t.fault, status |-> t.status]
<1> DEFINE u == Put(t, p, n, v)
<1>1. PICK l : u = [alloc |-> t.alloc, size |-> t.size, d |-> t.d, len |-> t.len,
                    limbs |-> l, live |-> t.live, fault |-> t.fault, status |-> t.status]
  BY PutShape
<1> HIDE DEF u
<1>2. Typed(u)
  BY <1>1 DEF Typed
<1>3. PICK m : SetSiz(u, w, k) =
        [alloc |-> u.alloc, size |-> [u.size EXCEPT ![w] = k], d |-> u.d, len |-> u.len,
         limbs |-> m, live |-> u.live, fault |-> u.fault, status |-> u.status]
  BY <1>2, SetSizShape
<1>4. /\ u.alloc = t.alloc /\ u.size = t.size /\ u.d = t.d /\ u.len = t.len
      /\ u.live = t.live /\ u.fault = t.fault /\ u.status = t.status
  BY <1>1
<1>5. Product(t, p, n, v, w, k) = SetSiz(u, w, k)
  BY DEF Product, u
<1> QED BY <1>3, <1>4, <1>5

\* The three ways mpz_mul finds room for the product of more than one limb.
NewFor(t, f, n, w) ==
  [Allocate(t, f, n) EXCEPT !.alloc[w] = ToInt(n), !.d[w] = f]

\* A new block for w: what it changes.
LEMMA NewForShape ==
  ASSUME NEW t, Typed(t), NEW f \in Block, NEW n \in Nat, n <= IntMax, NEW w \in Struct
  PROVE  \E l : NewFor(t, f, n, w) =
           [alloc |-> [t.alloc EXCEPT ![w] = n], size |-> t.size, d |-> [t.d EXCEPT ![w] = f],
            len |-> [t.len EXCEPT ![f] = n], limbs |-> l, live |-> t.live,
            fault |-> t.fault, status |-> t.status]
<1>1. ToInt(n) = n
  BY DEF ToInt
<1>2. PICK l : Allocate(t, f, n) = [t EXCEPT !.len[f] = n, !.limbs = l]
  BY DEF Allocate
<1>3. NewFor(t, f, n, w) = [[t EXCEPT !.len[f] = n, !.limbs = l] EXCEPT !.alloc[w] = n, !.d[w] = f]
  BY <1>1, <1>2 DEF NewFor
<1> QED BY <1>3 DEF Typed

\* A block given back with its own length: what it changes.
LEMMA FreeShape ==
  ASSUME NEW t, Typed(t), NEW p \in Block, NEW n \in Nat \ {0}, t.len[p] = n,
         t.fault = FALSE
  PROVE  \E l : Free(t, p, n) =
           [alloc |-> t.alloc, size |-> t.size, d |-> t.d,
            len |-> [t.len EXCEPT ![p] = 0], limbs |-> l, live |-> t.live,
            fault |-> FALSE, status |-> t.status]
<1>1. PICK l : Free(t, p, n) = [t EXCEPT !.len[p] = 0, !.limbs = l,
                                         !.fault = t.fault \/ n = 0 \/ t.len[p] # n]
  BY DEF Free
<1>2. (t.fault \/ n = 0 \/ t.len[p] # n) = FALSE
  OBVIOUS
<1> QED BY <1>1, <1>2 DEF Typed

\* The product of mpz_mul when w holds an operand and has room: f holds a copy
\* of the operand, of n limbs, for as long as the product is made.
Copied(s, w, f, n, up, wsize, product, k) ==
  Free(Product(Put(Allocate(s, f, n), f, n, up), s.d[w], wsize, product, w, k), f, n)

\* The copy leaves no trace.
LEMMA CopiedGood ==
  ASSUME NEW s, Good(s), NEW w \in s.live, NEW f \in Fresh(s), NEW n \in Nat \ {0},
         NEW up, NEW wsize \in Nat \ {0}, wsize <= s.alloc[w], NEW product,
         NEW k \in Int, Abs(k) <= wsize
  PROVE  Good(Copied(s, w, f, n, up, wsize, product, k))
<1>1. PICK wp : wp = s.d[w]
  OBVIOUS
<1>2. /\ Typed(s) /\ s.fault = FALSE /\ w \in Struct /\ s.alloc[w] \in Nat
      /\ wp \in Block /\ s.len[wp] = s.alloc[w]
      /\ f \in Block /\ s.len[f] = 0 /\ s.len \in [Block -> Nat]
  BY <1>1 DEF Good, Typed, Backed, Struct, Fresh
<1>3. PICK y : y = [s.len EXCEPT ![f] = n]
  OBVIOUS
<1>4. /\ y \in [Block -> Nat] /\ y[f] = n
      /\ \A c \in Block \ {f} : y[c] = s.len[c]
      /\ [y EXCEPT ![f] = 0] = s.len
  BY <1>2, <1>3
<1>5. PICK u : u = Allocate(s, f, n)
  OBVIOUS
<1>6. PICK l : u = [alloc |-> s.alloc, size |-> s.size, d |-> s.d, len |-> y,
                    limbs |-> l, live |-> s.live, fault |-> FALSE, status |-> s.status]
  <2>1. PICK l : u = [s EXCEPT !.len[f] = n, !.limbs = l]
    BY <1>5 DEF Allocate
  <2> QED BY <1>2, <1>3, <2>1 DEF Typed
<1>7. Typed(u) /\ u.len[f] >= n /\ n \in Nat /\ f \in Block
  BY <1>2, <1>4, <1>6 DEF Typed
<1>8. PICK t : t = Put(u, f, n, up)
  OBVIOUS
<1>9. PICK m : t = [alloc |-> u.alloc, size |-> u.size, d |-> u.d, len |-> u.len,
                    limbs |-> m, live |-> u.live, fault |-> u.fault, status |-> u.status]
  BY <1>7, <1>8, PutShape
<1>10. t = [alloc |-> s.alloc, size |-> s.size, d |-> s.d, len |-> y,
            limbs |-> m, live |-> s.live, fault |-> FALSE, status |-> s.status]
  BY <1>6, <1>9
<1>11. Typed(t) /\ t.len[wp] >= wsize /\ wsize \in Nat
  BY <1>2, <1>4, <1>10 DEF Typed
<1>12. PICK v : v = Product(t, wp, wsize, product, w, k)
  OBVIOUS
<1>13. PICK q : v = [alloc |-> t.alloc, size |-> [t.size EXCEPT ![w] = k], d |-> t.d,
                     len |-> t.len, limbs |-> q, live |-> t.live, fault |-> t.fault,
                     status |-> t.status]
  <2>1. /\ Typed(t) /\ wp \in Block /\ wsize \in Nat /\ t.len[wp] >= wsize
        /\ w \in Struct /\ k \in Int
    BY <1>2, <1>11
  <2>2. \E q : Product(t, wp, wsize, product, w, k) =
                [alloc |-> t.alloc, size |-> [t.size EXCEPT ![w] = k], d |-> t.d,
                 len |-> t.len, limbs |-> q, live |-> t.live, fault |-> t.fault,
                 status |-> t.status]
    BY <2>1, ProductShape
  <2> QED BY <1>12, <2>2
<1>14. PICK z : z = [s.size EXCEPT ![w] = k]
  OBVIOUS
<1>15. v = [alloc |-> s.alloc, size |-> z, d |-> s.d, len |-> y,
            limbs |-> q, live |-> s.live, fault |-> FALSE, status |-> s.status]
  BY <1>10, <1>13, <1>14
<1>16. Typed(v) /\ v.len[f] = n /\ v.fault = FALSE
  BY <1>2, <1>4, <1>14, <1>15 DEF Typed
<1>17. PICK g : Free(v, f, n) =
                  [alloc |-> v.alloc, size |-> v.size, d |-> v.d,
                   len |-> [v.len EXCEPT ![f] = 0], limbs |-> g, live |-> v.live,
                   fault |-> FALSE, status |-> v.status]
  BY <1>2, <1>16, FreeShape
<1>18. Free(v, f, n) =
         [alloc |-> s.alloc, size |-> z, d |-> s.d, len |-> s.len, limbs |-> g,
          live |-> s.live, fault |-> FALSE, status |-> s.status]
  BY <1>4, <1>15, <1>17
<1>19. PICK x : x = [s EXCEPT !.size[w] = k]
  OBVIOUS
<1>20. x = [alloc |-> s.alloc, size |-> z, d |-> s.d, len |-> s.len, limbs |-> s.limbs,
            live |-> s.live, fault |-> FALSE, status |-> s.status]
  BY <1>2, <1>14, <1>19 DEF Typed
<1>21. Good(x)
  <2>1. Abs(k) <= s.alloc[w]
    BY <1>2, AbsRange
  <2> QED BY <1>19, <2>1, SizeGood
<1>22. Free(v, f, n) = [x EXCEPT !.limbs = g]
  <2>1. /\ x.alloc = s.alloc /\ x.size = z /\ x.d = s.d /\ x.len = s.len
        /\ x.live = s.live /\ x.fault = FALSE /\ x.status = s.status
    BY <1>20
  <2>2. [x EXCEPT !.limbs = g] =
          [alloc |-> x.alloc, size |-> x.size, d |-> x.d, len |-> x.len, limbs |-> g,
           live |-> x.live, fault |-> x.fault, status |-> x.status]
    BY <1>21 DEF Good, Typed
  <2> QED BY <1>18, <2>1, <2>2
<1>23. Good(Free(v, f, n))
  BY <1>21, <1>22, LimbsGood
<1> QED BY <1>1, <1>5, <1>8, <1>12, <1>23 DEF Copied

\* mpz_mul with more than one limb in each operand: the destination gets a new
\* block, or has room and holds an operand, or has room and holds none.
LEMMA MulManyGood ==
  ASSUME NEW s, Good(s), NEW w \in s.live, NEW a \in s.live, NEW b \in s.live,
         AbSiz(s, b) > 0, AbSiz(s, a) > 0, AbSiz(s, a) + AbSiz(s, b) <= IntMax,
         NEW neg, NEW r \in MulMany(s, w, a, AbSiz(s, a), b, AbSiz(s, b), neg)
  PROVE  Good(r)
<1> DEFINE an == AbSiz(s, a)
           bn == AbSiz(s, b)
           up == s.d[a]
           vp == s.d[b]
           wp == s.d[w]
           old == s.alloc[w]
           wsize == an + bn
           overlap == Overlaps(s, w, a, b)
           size(product) == Signed(neg, wsize - Bit(High(product, wsize - 1) = 0))
           finish(t, p, product) == Product(t, p, wsize, product, w, size(product))
           freed == IF old # 0 /\ ~overlap THEN Free(s, wp, old) ELSE s
           new(f) ==
             LET t == NewFor(freed, f, wsize, w)
             IN  FreeMe(s, w, overlap, finish(t, f, MpnMul(t, f, up, an, vp, bn)))
           copied(f) ==
             LET n == IF wp = up THEN an ELSE bn
                 t == Put(Allocate(s, f, n), f, n, Get(s, wp, n))
                 apart(p) == IF p = wp THEN f ELSE p
             IN  Free(finish(t, wp, MpnMul(t, wp, apart(up), an, apart(vp), bn)), f, n)
<1>1. /\ an \in Nat \ {0} /\ bn \in Nat \ {0} /\ wsize \in Nat \ {0} /\ wsize \in 1..IntMax
      /\ wsize <= IntMax
  BY SizeRange, IntMaxAssumption
<1>2. /\ w \in Struct /\ old \in Nat /\ s.size[w] \in Int
      /\ s.fault = FALSE /\ s.len \in [Block -> Nat] /\ Typed(s)
      /\ old # 0 => wp \in Block /\ s.len[wp] = old
  <2>1. w \in Struct /\ old \in Nat /\ s.size[w] \in Int
    BY SizeRange
  <2> QED BY <2>1 DEF Good, Backed, Typed
<1>3. \A product : size(product) \in Int /\ Abs(size(product)) <= wsize
  <2> SUFFICES ASSUME NEW product PROVE size(product) \in Int /\ Abs(size(product)) <= wsize
    OBVIOUS
  <2>1. PICK c : c = Bit(High(product, wsize - 1) = 0)
    OBVIOUS
  <2>2. c \in {0, 1}
    BY <2>1, BitRange
  <2>3. wsize - c \in Nat /\ wsize - c <= wsize
    BY <1>1, <2>2
  <2> QED BY <2>1, <2>3, SignedRange
<1>4. CASE old < wsize
  <2>1. old < wsize /\ ~(old >= wsize /\ overlap)
    BY <1>1, <1>2, <1>4, SMTT(30)
  <2>2. MulMany(s, w, a, an, b, bn, neg) = {new(f) : f \in Fresh(freed)}
    BY <2>1 DEF MulMany, Product, NewFor
  <2>3. PICK f \in Fresh(freed) : r = new(f)
    BY <2>2
  <2> DEFINE t == NewFor(freed, f, wsize, w)
             product == MpnMul(t, f, up, an, vp, bn)
             k == size(product)
             fin == finish(t, f, product)
             kept == IF old # 0 /\ ~overlap THEN [s.len EXCEPT ![wp] = 0] ELSE s.len
  <2>4. r = IF old # 0 /\ overlap THEN Free(fin, wp, old) ELSE fin
    BY <2>3 DEF FreeMe
  <2>5. k \in Int /\ Abs(k) <= wsize
    BY <1>3
  <2>16. fin = Product(t, f, wsize, product, w, k)
    OBVIOUS
  <2> HIDE DEF product, wsize, an, bn
  <2>6. PICK m : freed = [alloc |-> s.alloc, size |-> s.size, d |-> s.d, len |-> kept,
                          limbs |-> m, live |-> s.live, fault |-> FALSE, status |-> s.status]
    <3>1. CASE old # 0 /\ ~overlap
      BY <3>1, <1>2, FreeShape
    <3>2. CASE ~(old # 0 /\ ~overlap)
      BY <3>2, <1>2 DEF Typed
    <3> QED BY <3>1, <3>2
  <2>7. kept \in [Block -> Nat]
    BY <1>2
  <2> HIDE DEF freed
  <2>8. Typed(freed)
    BY <2>6, <2>7, <1>2 DEF Typed
  <2>9. f \in Block /\ kept[f] = 0
    BY <2>6, <2>7 DEF Fresh
  <2>10. /\ s.len[f] = 0 \/ (old > 0 /\ f = wp)
         /\ old # 0 /\ overlap => f # wp
    BY <1>2, <2>9
  <2>11. PICK l : t = [alloc |-> [s.alloc EXCEPT ![w] = wsize], size |-> s.size,
                       d |-> [s.d EXCEPT ![w] = f], len |-> [kept EXCEPT ![f] = wsize],
                       limbs |-> l, live |-> s.live, fault |-> FALSE, status |-> s.status]
    <3>1. PICK l : t = [alloc |-> [freed.alloc EXCEPT ![w] = wsize], size |-> freed.size,
                        d |-> [freed.d EXCEPT ![w] = f],
                        len |-> [freed.len EXCEPT ![f] = wsize], limbs |-> l,
                        live |-> freed.live, fault |-> freed.fault, status |-> freed.status]
      BY <1>1, <1>2, <2>8, <2>9, NewForShape
    <3> HIDE DEF t, kept
    <3> QED BY <2>6, <3>1
  <2>12. t.len[f] = wsize /\ Typed(t)
    <3> HIDE DEF t, kept
    <3> QED BY <1>1, <1>2, <2>7, <2>9, <2>11 DEF Typed
  <2> HIDE DEF k
  <2>13. PICK q : fin = [alloc |-> [s.alloc EXCEPT ![w] = wsize],
                         size |-> [s.size EXCEPT ![w] = k],
                         d |-> [s.d EXCEPT ![w] = f], len |-> [kept EXCEPT ![f] = wsize],
                         limbs |-> q, live |-> s.live, fault |-> FALSE, status |-> s.status]
    <3>1. PICK q : fin = [alloc |-> t.alloc, size |-> [t.size EXCEPT ![w] = k], d |-> t.d,
                          len |-> t.len, limbs |-> q, live |-> t.live, fault |-> t.fault,
                          status |-> t.status]
      <4>1. /\ Typed(t) /\ f \in Block /\ wsize \in Nat /\ t.len[f] >= wsize
            /\ w \in Struct /\ k \in Int
        BY <1>1, <1>2, <2>5, <2>9, <2>12
      <4> HIDE DEF t, fin
      <4>2. \E q : Product(t, f, wsize, product, w, k) =
                    [alloc |-> t.alloc, size |-> [t.size EXCEPT ![w] = k], d |-> t.d,
                     len |-> t.len, limbs |-> q, live |-> t.live, fault |-> t.fault,
                     status |-> t.status]
        BY <4>1, ProductShape
      <4> QED BY <2>16, <4>2
    <3> HIDE DEF t, kept, fin
    <3> QED BY <2>11, <3>1
  <2> HIDE DEF t, fin
  <2>14. CASE old # 0 /\ overlap
    <3>1. kept = s.len /\ f # wp /\ wp \in Block /\ s.len[wp] = old
      BY <1>2, <2>10, <2>14
    <3>2. Typed(fin) /\ fin.len[wp] = old /\ fin.fault = FALSE
      BY <1>1, <1>2, <2>5, <2>9, <2>13, <3>1 DEF Typed
    <3>3. PICK z : r = [alloc |-> fin.alloc, size |-> fin.size, d |-> fin.d,
                        len |-> [fin.len EXCEPT ![wp] = 0], limbs |-> z, live |-> fin.live,
                        fault |-> FALSE, status |-> fin.status]
      <4>1. r = Free(fin, wp, old) /\ old \in Nat \ {0}
        BY <1>2, <2>4, <2>14
      <4> QED BY <3>1, <3>2, <4>1, FreeShape
    <3>4. PICK y : y = [[s.len EXCEPT ![f] = wsize] EXCEPT ![wp] = 0]
      OBVIOUS
    <3>5. r = [alloc |-> [s.alloc EXCEPT ![w] = wsize], size |-> [s.size EXCEPT ![w] = k],
               d |-> [s.d EXCEPT ![w] = f], len |-> y, limbs |-> z, live |-> s.live,
               fault |-> FALSE, status |-> s.status]
      BY <2>13, <3>1, <3>3, <3>4
    <3>6. /\ y \in [Block -> Nat] /\ y[f] = wsize
          /\ \A c \in Block \ {f} : y[c] = IF c = wp THEN 0 ELSE s.len[c]
      BY <1>1, <1>2, <2>9, <3>1, <3>4
    <3>7. old > 0
      BY <1>2, <2>14
    <3>8. Moved(s, r, w, wsize, k, f)
      BY ONLY <2>10, <3>5, <3>6, <3>7 DEF Moved
    <3> QED BY <1>1, <2>5, <2>9, <3>8, MovedGood
  <2>15. CASE ~(old # 0 /\ overlap)
    <3>1. PICK y : y = [kept EXCEPT ![f] = wsize]
      OBVIOUS
    <3>2. r = [alloc |-> [s.alloc EXCEPT ![w] = wsize], size |-> [s.size EXCEPT ![w] = k],
               d |-> [s.d EXCEPT ![w] = f], len |-> y, limbs |-> q, live |-> s.live,
               fault |-> FALSE, status |-> s.status]
      BY <2>4, <2>13, <2>15, <3>1
    <3>3. /\ y \in [Block -> Nat] /\ y[f] = wsize
          /\ \A c \in Block \ {f} : y[c] = IF old > 0 /\ c = wp THEN 0 ELSE s.len[c]
      BY <1>1, <1>2, <2>7, <2>9, <2>15, <3>1
    <3>4. Moved(s, r, w, wsize, k, f)
      BY ONLY <2>10, <3>2, <3>3 DEF Moved
    <3> QED BY <1>1, <2>5, <2>9, <3>4, MovedGood
  <2> QED BY <2>14, <2>15
<1>5. CASE ~(old < wsize) /\ overlap
  <2>1. ~(old < wsize) /\ old >= wsize /\ overlap
    BY <1>1, <1>2, <1>5
  <2>2. MulMany(s, w, a, an, b, bn, neg) = {copied(f) : f \in Fresh(s)}
    BY <2>1 DEF MulMany, Product
  <2>3. PICK f \in Fresh(s) : r = copied(f)
    BY <2>2
  <2> DEFINE n == IF wp = up THEN an ELSE bn
             t == Put(Allocate(s, f, n), f, n, Get(s, wp, n))
             apart(p) == IF p = wp THEN f ELSE p
             product == MpnMul(t, wp, apart(up), an, apart(vp), bn)
             k == size(product)
  <2>4. r = Copied(s, w, f, n, Get(s, wp, n), wsize, product, k)
    BY <2>3 DEF Copied
  <2>5. k \in Int /\ Abs(k) <= wsize
    BY <1>3
  <2>6. n \in Nat \ {0}
    BY <1>1
  <2>7. wsize \in Nat \ {0} /\ wsize <= s.alloc[w]
    BY <1>1, <1>2, <2>1
  <2> HIDE DEF k, product, n, wsize
  <2> QED BY <2>4, <2>5, <2>6, <2>7, CopiedGood
<1>6. CASE ~(old < wsize) /\ ~overlap
  <2>1. r = finish(s, wp, MpnMul(s, wp, up, an, vp, bn))
    BY <1>2, <1>6 DEF MulMany, Product
  <2> DEFINE product == MpnMul(s, wp, up, an, vp, bn)
             k == size(product)
  <2>2. k \in Int /\ Abs(k) <= wsize
    BY <1>3
  <2>3. r = SetSiz(Put(s, s.d[w], wsize, product), w, k)
    BY <2>1 DEF Product
  <2> HIDE DEF k, product, wsize
  <2>4. wsize \in Nat /\ wsize <= s.alloc[w] /\ Abs(k) <= s.alloc[w]
    BY <1>1, <1>2, <1>6, <2>2, AbsRange
  <2> QED BY <2>2, <2>3, <2>4, WriteGood
<1> QED BY <1>4, <1>5, <1>6

\* mpz_mul.
LEMMA MulGood ==
  ASSUME NEW s, Good(s), s.status = "run", NEW w \in s.live, NEW u \in s.live,
         NEW v \in s.live, AbSiz(s, u) + AbSiz(s, v) <= IntMax,
         NEW r \in MpzMul(s, w, u, v), r.status = "run"
  PROVE  Good(r)
<1> DEFINE swap == AbSiz(s, u) < AbSiz(s, v)
           a == IF swap THEN v ELSE u
           b == IF swap THEN u ELSE v
           an == AbSiz(s, a)
           bn == AbSiz(s, b)
           neg == (s.size[u] < 0) # (s.size[v] < 0)
<1>1. /\ a \in s.live /\ b \in s.live /\ an \in Nat /\ bn \in Nat
      /\ bn <= an /\ an + bn <= IntMax
  BY SizeRange
<1>2. CASE bn = 0
  <2>1. r = SetSiz(s, w, 0)
    BY <1>2 DEF MpzMul
  <2> QED BY <2>1, ZeroGood
<1>3. CASE bn = 1
  <2>1. PICK t \in Grow(s, w, an + 1) :
          LET product == Source(s, t, a, an) * Source(s, t, b, 1)
          IN  r = SetSiz(Put(t, t.d[w], an + 1, product), w,
                         Signed(neg, an + Bit(product >= B^an)))
    BY <1>3 DEF MpzMul, MulLimb
  <2> DEFINE product == Source(s, t, a, an) * Source(s, t, b, 1)
  <2>2. r = SetSiz(Put(t, t.d[w], an + 1, product), w,
                   Signed(neg, an + Bit(product >= B^an)))
    BY <2>1
  <2> HIDE DEF product, neg, an, a
  <2> QED BY <1>1, <2>2, CarryGood
<1>4. CASE bn # 0 /\ bn # 1
  <2>1. r \in MulMany(s, w, a, an, b, bn, neg)
    BY <1>4 DEF MpzMul
  <2>2. bn > 0 /\ an > 0
    BY <1>1, <1>4
  <2> HIDE DEF a, b, neg
  <2> QED BY <1>1, <2>1, <2>2, MulManyGood
<1> QED BY <1>2, <1>3, <1>4

-----------------------------------------------------------------------------
(* w += x * y and w -= x * y. *)

\* The two ways mpn_submul_1 is completed give at most one limb more.
LEMMA SubmulRange ==
  ASSUME NEW wsize \in Nat, NEW xsize \in Nat, NEW wv, NEW xv, NEW y
  PROVE  /\ SubmulShort(wv, wsize, xv, y).n \in 0..(wsize + 1)
         /\ SubmulLong(wv, wsize, xv, xsize, y).n \in 0..(xsize + 1)
<1>1. SubmulLong(wv, wsize, xv, xsize, y).n \in 0..(xsize + 1)
  <2>1. PICK c : SubmulLong(wv, wsize, xv, xsize, y).n = xsize + Bit(c)
    BY DEF SubmulLong
  <2>2. Bit(c) \in {0, 1}
    BY BitRange
  <2> QED BY <2>1, <2>2
<1>2. SubmulShort(wv, wsize, xv, y).n \in 0..(wsize + 1)
  <2>1. \/ SubmulShort(wv, wsize, xv, y).n = wsize
        \/ \E c : SubmulShort(wv, wsize, xv, y).n = wsize + Bit(c)
    BY DEF SubmulShort
  <2>2. CASE SubmulShort(wv, wsize, xv, y).n = wsize
    BY <2>2
  <2>3. CASE \E c : SubmulShort(wv, wsize, xv, y).n = wsize + Bit(c)
    <3>1. PICK c : SubmulShort(wv, wsize, xv, y).n = wsize + Bit(c)
      BY <2>3
    <3>2. Bit(c) \in {0, 1}
      BY BitRange
    <3> QED BY <3>1, <3>2
  <2> QED BY <2>1, <2>2, <2>3
<1> QED BY <1>1, <1>2

\* mpz_addmul_ui and mpz_submul_ui.
LEMMA Aorsmul1Good ==
  ASSUME NEW s, Good(s), s.status = "run", NEW w \in s.live, NEW x \in s.live,
         NEW y, NEW sub, NEW r \in MpzAorsmul1(s, w, x, y, sub), r.status = "run"
  PROVE  Good(r)
<1> DEFINE xsize == AbSiz(s, x)
           wsize == AbSiz(s, w)
           n == Larger(wsize, xsize)
           minus == (sub # (s.size[x] < 0)) # (s.size[w] < 0)
           sum(t) == Source(s, t, w, wsize) + Source(s, t, x, xsize) * y
           sm(t) ==
             IF wsize >= xsize
             THEN SubmulShort(Source(s, t, w, wsize), wsize, Source(s, t, x, xsize), y)
             ELSE SubmulLong(Source(s, t, w, wsize), wsize, Source(s, t, x, xsize),
                             xsize, y)
<1>1. wsize \in Nat /\ xsize \in Nat
  BY SizeRange
<1>2. n \in Nat /\ wsize <= n /\ xsize <= n
  BY <1>1 DEF Larger
<1>3. CASE xsize = 0 \/ y = 0
  BY <1>3 DEF MpzAorsmul1
<1>4. CASE xsize # 0 /\ y # 0 /\ wsize = 0
  <2>1. ~(xsize = 0 \/ y = 0)
    BY <1>4
  <2>2. PICK t \in Grow(s, w, xsize + 1) :
          LET product == Source(s, t, x, xsize) * y
          IN  r = SetSiz(Put(t, t.d[w], xsize + 1, product), w,
                         Signed(sub # (s.size[x] < 0), xsize + Bit(product >= B^xsize)))
    BY <1>4, <2>1 DEF MpzAorsmul1, MulLimb
  <2> DEFINE product == Source(s, t, x, xsize) * y
             neg == sub # (s.size[x] < 0)
  <2>3. r = SetSiz(Put(t, t.d[w], xsize + 1, product), w,
                   Signed(neg, xsize + Bit(product >= B^xsize)))
    BY <2>2
  <2> HIDE DEF product, neg, xsize
  <2> QED BY <1>1, <2>3, CarryGood
<1>5. CASE ~(xsize = 0 \/ y = 0) /\ wsize # 0
  <2>1. PICK t \in Grow(s, w, n + 1) :
          r = IF minus
              THEN SetSiz(Put(t, t.d[w], n + 1, sm(t).limbs), w,
                          Signed((s.size[w] < 0) # sm(t).flip,
                                 Normalize(sm(t).limbs, sm(t).n)))
              ELSE SetSiz(Put(t, t.d[w], n + 1, sum(t)), w,
                          Signed(s.size[w] < 0, n + Bit(sum(t) >= B^n)))
    BY <1>5 DEF MpzAorsmul1
  <2>2. CASE minus
    <3>1. PICK a : a = sm(t)
      OBVIOUS
    <3> DEFINE p == (s.size[w] < 0) # a.flip
               k == Normalize(a.limbs, a.n)
    <3>2. r = SetSiz(Put(t, t.d[w], n + 1, a.limbs), w, Signed(p, k))
      BY <2>1, <2>2, <3>1
    <3>3. a.n \in 0..(wsize + 1) \/ a.n \in 0..(xsize + 1)
      BY <1>1, <3>1, SubmulRange
    <3> HIDE DEF xsize, wsize, n, p
    <3>4. a.n \in Nat /\ a.n <= n + 1
      BY <1>1, <1>2, <3>3
    <3>5. k \in 0..(a.n)
      BY <3>4, NormalizeRange
    <3> HIDE DEF k
    <3>6. k \in 0..(n + 1) /\ n + 1 \in 0..(n + 1) /\ n + 1 \in Nat
      BY <1>2, <3>4, <3>5
    <3> QED BY <3>2, <3>6, WithinGood
  <2>3. CASE ~minus
    <3> DEFINE c == sum(t) >= B^n
               v == sum(t)
               p == s.size[w] < 0
    <3>1. r = SetSiz(Put(t, t.d[w], n + 1, v), w, Signed(p, n + Bit(c)))
      BY <2>1, <2>3
    <3> HIDE DEF n, c, v, p
    <3> QED BY <1>2, <3>1, CarryGood
  <2> QED BY <2>2, <2>3
<1> QED BY <1>3, <1>4, <1>5
\* mpz_addmul and mpz_submul.
LEMMA AorsmulGood ==
  ASSUME NEW s, Good(s), s.status = "run", NEW w \in s.live, NEW x \in s.live,
         NEW y \in s.live, NEW sub, NEW r \in MpzAorsmul(s, w, x, y, sub),
         r.status = "run"
  PROVE  Good(r)
<1> DEFINE swap == AbSiz(s, y) > AbSiz(s, x)
           a == IF swap THEN y ELSE x
           b == IF swap THEN x ELSE y
           an == AbSiz(s, a)
           bn == AbSiz(s, b)
           wsize == AbSiz(s, w)
           neg == (sub # (s.size[a] < 0)) # (s.size[b] < 0)
           minus == neg # (s.size[w] < 0)
           room == Larger(wsize, an + bn) + 1
           short(product) == an + bn - Bit(High(product, an + bn - 1) = 0)
           fresh(t) ==
             LET product == MpnMul(t, t.d[w], t.d[a], an, t.d[b], bn)
             IN  SetSiz(Put(t, t.d[w], an + bn, product), w,
                        Signed(neg, short(product)))
           combine(t) ==
             LET tv == MpnMul(t, Null, t.d[a], an, t.d[b], bn)
                 tsize == short(tv)
                 wv == Source(s, t, w, wsize)
                 n == Larger(wsize, tsize)
                 less == wsize < tsize \/ (wsize = tsize /\ wv < tv)
                 diff == IF less THEN tv - wv ELSE wv - tv
             IN  IF minus
                 THEN SetSiz(Put(t, t.d[w], n, diff), w,
                             Signed((s.size[w] < 0) # less, Normalize(diff, n)))
                 ELSE SetSiz(Put(t, t.d[w], n + 1, wv + tv), w,
                             Signed(s.size[w] < 0, n + Bit(wv + tv >= B^n)))
<1>1. a \in s.live /\ b \in s.live /\ an \in Nat /\ bn \in Nat /\ wsize \in Nat
  BY SizeRange
<1>2. /\ room \in Nat /\ wsize + 1 <= room /\ an + bn + 1 <= room
  BY <1>1, SMTT(30) DEF Larger
<1>3. CASE an = 0 \/ bn = 0
  BY <1>3 DEF MpzAorsmul
<1>4. CASE an # 0 /\ bn = 1
  <2>1. PICK y1, sub1 : r \in MpzAorsmul1(s, w, a, y1, sub1)
    <3>1. ~(an = 0 \/ bn = 0)
      BY <1>4
    <3> QED BY <1>4, <3>1 DEF MpzAorsmul
  <2> HIDE DEF a
  <2> QED BY <1>1, <2>1, Aorsmul1Good, SMTT(30)
<1>5. CASE an # 0 /\ bn # 0 /\ bn # 1
  <2>1. ~(an = 0 \/ bn = 0) /\ ~(an # 0 /\ bn = 1)
    BY <1>5, SMTT(30)
  <2>2. PICK t \in Grow(s, w, room) : r = IF wsize = 0 THEN fresh(t) ELSE combine(t)
    BY <2>1 DEF MpzAorsmul
  <2>7. t \in Grow(s, w, room) /\ room \in Nat
    BY <1>2
  <2>3. an + bn - 1 \in Nat /\ an + bn \in Nat
    BY <1>1, <1>5
  <2>4. \A product : short(product) \in 0..(an + bn)
    <3> SUFFICES ASSUME NEW product PROVE short(product) \in 0..(an + bn)
      OBVIOUS
    <3> HIDE DEF an, bn
    <3>1. PICK c : c = Bit(High(product, an + bn - 1) = 0)
      OBVIOUS
    <3>2. c \in {0, 1}
      BY <3>1, BitRange
    <3>3. short(product) = an + bn - c
      BY <3>1, Zenon
    <3> HIDE DEF short
    <3>4. an + bn - c \in 0..(an + bn)
      BY ONLY <1>1, <2>3, <3>2
    <3> QED BY <3>3, <3>4, Zenon
  <2>5. CASE wsize = 0
    <3> DEFINE product == MpnMul(t, t.d[w], t.d[a], an, t.d[b], bn)
               k == short(product)
               m == an + bn
    <3>1. r = SetSiz(Put(t, t.d[w], m, product), w, Signed(neg, k))
      BY <2>2, <2>5
    <3>2. k \in 0..m
      BY <2>4
    <3> HIDE DEF product, k, neg, a, b, an, bn, room
    <3>3. m \in 0..room /\ k \in 0..room
      BY <1>2, <2>3, <3>2
    <3> HIDE DEF m
    <3> QED BY <2>7, <3>1, <3>3, WithinGood, SMTT(30)
  <2>6. CASE wsize # 0
    <3> DEFINE tv == MpnMul(t, Null, t.d[a], an, t.d[b], bn)
               tsize == short(tv)
               wv == Source(s, t, w, wsize)
               n == Larger(wsize, tsize)
               less == wsize < tsize \/ (wsize = tsize /\ wv < tv)
               diff == IF less THEN tv - wv ELSE wv - tv
               p == (s.size[w] < 0) # less
               k == Normalize(diff, n)
               q == s.size[w] < 0
               c == wv + tv >= B^n
               sum == wv + tv
    <3>1. r = IF minus THEN SetSiz(Put(t, t.d[w], n, diff), w, Signed(p, k))
              ELSE SetSiz(Put(t, t.d[w], n + 1, sum), w, Signed(q, n + Bit(c)))
      BY <2>2, <2>6, ZenonT(60)
    <3>2. tsize \in 0..(an + bn)
      BY <2>4
    <3> HIDE DEF tv, wv, a, b, an, bn, room, wsize, tsize, neg
    <3>3. n \in Nat /\ n + 1 <= room
      BY <1>1, <1>2, <2>3, <3>2 DEF Larger
    <3> HIDE DEF n, less, diff, p, q, c, sum
    <3>4. CASE minus
      <4>1. k \in 0..n
        BY <3>3, NormalizeRange
      <4> HIDE DEF k
      <4>2. n \in 0..room /\ k \in 0..room
        BY <1>2, <3>3, <4>1
      <4>3. r = SetSiz(Put(t, t.d[w], n, diff), w, Signed(p, k))
        BY <3>1, <3>4
      <4> QED BY <2>7, <4>2, <4>3, WithinGood
    <3>5. CASE ~minus
      <4> DEFINE j == n + Bit(c)
                 m == n + 1
      <4>1. Bit(c) \in {0, 1}
        BY BitRange
      <4>2. m \in 0..room /\ j \in 0..room
        BY <1>2, <3>3, <4>1
      <4>3. r = SetSiz(Put(t, t.d[w], m, sum), w, Signed(q, j))
        BY <3>1, <3>5
      <4> HIDE DEF j, m
      <4> QED BY <2>7, <4>2, <4>3, WithinGood
    <3> QED BY <3>4, <3>5, Zenon
  <2> QED BY <2>5, <2>6
<1> QED BY <1>3, <1>4, <1>5
-----------------------------------------------------------------------------
(* The specification. *)

\* What a call leaves in store: one of its outcomes, or the store of a process
\* that is over.
After(t) == IF t.status = "run" THEN t ELSE Exception(EmptyStore, t.status)

\* There is nothing in the store of a process that has not begun, or is over.
LEMMA EmptyGood ==
  ASSUME NEW why
  PROVE  Good(EmptyStore) /\ Good(Exception(EmptyStore, why))
<1>1. PICK a, z, e, n, l : /\ a = [x \in Struct |-> 0] /\ z = [x \in Struct |-> 0]
                           /\ e = [x \in Struct |-> Null]
                           /\ n = [b \in Block |-> 0] /\ l = [b \in Block |-> 0]
  OBVIOUS
<1>2. /\ a \in [Struct -> Nat] /\ z \in [Struct -> Int]
      /\ e \in [Struct -> Block \cup {Null}] /\ n \in [Block -> Nat]
  BY <1>1
<1>3. ASSUME NEW y, NEW s,
             s = [alloc |-> a, size |-> z, d |-> e, len |-> n, limbs |-> l,
                  live |-> {}, fault |-> FALSE, status |-> y]
      PROVE  Good(s)
  <2>1. Typed(s)
    BY <1>2, <1>3 DEF Typed
  <2>2. s.live = {} /\ s.fault = FALSE /\ s.size = z /\ s.len = n
    BY <1>3
  <2>3. Fits(s) /\ Backed(s) /\ OneOwner(s)
    BY <2>2 DEF Fits, Backed, OneOwner
  <2>4. Owned(s) /\ Unborn(s)
    BY <1>1, <2>2 DEF Owned, Unborn
  <2> QED BY <2>1, <2>2, <2>3, <2>4 DEF Good
<1>4. EmptyStore = [alloc |-> a, size |-> z, d |-> e, len |-> n, limbs |-> l,
                    live |-> {}, fault |-> FALSE, status |-> "run"]
  BY <1>1 DEF EmptyStore
<1>5. Good(EmptyStore)
  BY <1>3, <1>4
<1>6. Exception(EmptyStore, why) =
        [alloc |-> a, size |-> z, d |-> e, len |-> n, limbs |-> l,
         live |-> {}, fault |-> FALSE, status |-> why]
  <2>1. /\ EmptyStore.alloc = a /\ EmptyStore.size = z /\ EmptyStore.d = e
        /\ EmptyStore.len = n /\ EmptyStore.limbs = l /\ EmptyStore.live = {}
        /\ EmptyStore.fault = FALSE
    BY <1>4
  <2>2. [EmptyStore EXCEPT !.status = why] =
          [alloc |-> EmptyStore.alloc, size |-> EmptyStore.size, d |-> EmptyStore.d,
           len |-> EmptyStore.len, limbs |-> EmptyStore.limbs, live |-> EmptyStore.live,
           fault |-> EmptyStore.fault, status |-> why]
    BY <1>5 DEF Good, Typed
  <2> QED BY <2>1, <2>2 DEF Exception
<1> QED BY <1>3, <1>5, <1>6

\* A call whose outcomes are good leaves a good store.
LEMMA AfterGood ==
  ASSUME NEW t, t.status = "run" => Good(t)
  PROVE  Good(After(t))
BY EmptyGood DEF After
\* Every action leaves a good store, if mpz_mul is asked for no product longer
\* than INT_MAX limbs.
LEMMA NextGood ==
  ASSUME MulMax <= IntMax, Good(store), Next
  PROVE  Good(store')
<1>1. SUFFICES \E t : store' = After(t) /\ (t.status = "run" => Good(t))
  BY AfterGood
<1>2. \A n \in Long \cup Limb : n \in Int
  BY DEF Long, Limb
<1>3. \A bits \in Bits : bits \in Nat
  BY BitsAssumption
<1>4. \A cnt \in Counts : cnt \in Nat
  BY BitsAssumption
<1>5. ASSUME NEW x \in Var, InitCall(x)
      PROVE  \E t : store' = After(t) /\ (t.status = "run" => Good(t))
  <2>1. store.status = "run" /\ x \in Var \ store.live
    BY <1>5 DEF InitCall, Live, Unused, Running
  <2>2. PICK t \in MpzInit(store, x) : store' = After(t)
    BY <1>5 DEF InitCall, Return, After
  <2>3. t.status = "run" => Good(t)
    BY <2>1, <2>2, InitGood
  <2> QED BY <2>2, <2>3
<1>6. ASSUME NEW x \in Var, Clear(x)
      PROVE  \E t : store' = After(t) /\ (t.status = "run" => Good(t))
  <2>1. store.status = "run" /\ x \in store.live
    BY <1>6 DEF Clear, Live, Unused, Running
  <2>2. PICK t \in MpzClear(store, x) : store' = After(t)
    BY <1>6 DEF Clear, Return, After
  <2>3. t.status = "run" => Good(t)
    BY <2>1, <2>2, ClearGood
  <2> QED BY <2>2, <2>3
<1>7. ASSUME NEW x \in Var, NEW bits \in Bits, Init2(x, bits)
      PROVE  \E t : store' = After(t) /\ (t.status = "run" => Good(t))
  <2>1. store.status = "run" /\ x \in Var \ store.live
    BY <1>7 DEF Init2, Live, Unused, Running
  <2>2. PICK t \in MpzInit2(store, x, bits) : store' = After(t)
    BY <1>7 DEF Init2, Return, After
  <2>3. t.status = "run" => Good(t)
    BY <1>3, <2>1, <2>2, Init2Good
  <2> QED BY <2>2, <2>3
<1>8. ASSUME NEW x \in Var, NEW bits \in Bits, Realloc2(x, bits)
      PROVE  \E t : store' = After(t) /\ (t.status = "run" => Good(t))
  <2>1. store.status = "run" /\ x \in store.live
    BY <1>8 DEF Realloc2, Live, Unused, Running
  <2>2. PICK t \in MpzRealloc2(store, x, bits) : store' = After(t)
    BY <1>8 DEF Realloc2, Return, After
  <2>3. t.status = "run" => Good(t)
    BY <1>3, <2>1, <2>2, Realloc2Good
  <2> QED BY <2>2, <2>3
<1>9. ASSUME NEW w \in Var, NEW u \in Var, InitSet(w, u)
      PROVE  \E t : store' = After(t) /\ (t.status = "run" => Good(t))
  <2>1. store.status = "run" /\ w \in Var \ store.live /\ u \in store.live
    BY <1>9 DEF InitSet, Live, Unused, Running
  <2>2. PICK t \in MpzInitSet(store, w, u) : store' = After(t)
    BY <1>9 DEF InitSet, Return, After
  <2>3. t.status = "run" => Good(t)
    BY <2>1, <2>2, InitSetGood
  <2> QED BY <2>2, <2>3
<1>10. ASSUME NEW w \in Var, NEW u \in Var, Set(w, u)
      PROVE  \E t : store' = After(t) /\ (t.status = "run" => Good(t))
  <2>1. store.status = "run" /\ w \in store.live /\ u \in store.live
    BY <1>10 DEF Set, Live, Unused, Running
  <2>2. PICK t \in MpzSet(store, w, u) : store' = After(t)
    BY <1>10 DEF Set, Return, After
  <2>3. t.status = "run" => Good(t)
    BY <2>1, <2>2, SetGood
  <2> QED BY <2>2, <2>3
<1>11. ASSUME NEW w \in Var, NEW u \in Var, Neg(w, u)
      PROVE  \E t : store' = After(t) /\ (t.status = "run" => Good(t))
  <2>1. store.status = "run" /\ w \in store.live /\ u \in store.live
    BY <1>11 DEF Neg, Live, Unused, Running
  <2>2. PICK t \in MpzNeg(store, w, u) : store' = After(t)
    BY <1>11 DEF Neg, Return, After
  <2>3. t.status = "run" => Good(t)
    BY <2>1, <2>2, NegGood
  <2> QED BY <2>2, <2>3
<1>12. ASSUME NEW w \in Var, NEW u \in Var, AbsCall(w, u)
      PROVE  \E t : store' = After(t) /\ (t.status = "run" => Good(t))
  <2>1. store.status = "run" /\ w \in store.live /\ u \in store.live
    BY <1>12 DEF AbsCall, Live, Unused, Running
  <2>2. PICK t \in MpzAbs(store, w, u) : store' = After(t)
    BY <1>12 DEF AbsCall, Return, After
  <2>3. t.status = "run" => Good(t)
    BY <2>1, <2>2, NegGood
  <2> QED BY <2>2, <2>3
<1>13. ASSUME NEW w \in Var, NEW u \in Var, Swap(w, u)
      PROVE  \E t : store' = After(t) /\ (t.status = "run" => Good(t))
  <2>1. store.status = "run" /\ w \in store.live /\ u \in store.live
    BY <1>13 DEF Swap, Live, Unused, Running
  <2>2. PICK t \in MpzSwap(store, w, u) : store' = After(t)
    BY <1>13 DEF Swap, Return, After
  <2>3. t.status = "run" => Good(t)
    BY <2>1, <2>2, SwapGood
  <2> QED BY <2>2, <2>3
<1>14. ASSUME NEW w \in Var, NEW n \in Long, SetSi(w, n)
      PROVE  \E t : store' = After(t) /\ (t.status = "run" => Good(t))
  <2>1. store.status = "run" /\ w \in store.live
    BY <1>14 DEF SetSi, Live, Unused, Running
  <2>2. PICK t \in MpzSetSi(store, w, n) : store' = After(t)
    BY <1>14 DEF SetSi, Return, After
  <2>3. t.status = "run" => Good(t)
    BY <1>2, <2>1, <2>2, SetSiGood
  <2> QED BY <2>2, <2>3
<1>15. ASSUME NEW w \in Var, NEW u \in Var, NEW cnt \in Counts, Mul2Exp(w, u, cnt)
      PROVE  \E t : store' = After(t) /\ (t.status = "run" => Good(t))
  <2>1. store.status = "run" /\ w \in store.live /\ u \in store.live
    BY <1>15 DEF Mul2Exp, Live, Unused, Running
  <2>2. PICK t \in MpzMul2Exp(store, w, u, cnt) : store' = After(t)
    BY <1>15 DEF Mul2Exp, Return, After
  <2>3. t.status = "run" => Good(t)
    BY <1>4, <2>1, <2>2, Mul2ExpGood
  <2> QED BY <2>2, <2>3
<1>16. ASSUME NEW w \in Var, NEW u \in Var, NEW n \in Limb, AddUi(w, u, n)
      PROVE  \E t : store' = After(t) /\ (t.status = "run" => Good(t))
  <2>1. store.status = "run" /\ w \in store.live /\ u \in store.live
    BY <1>16 DEF AddUi, Live, Unused, Running
  <2>2. PICK t \in MpzAorsUi(store, w, u, n, FALSE) : store' = After(t)
    BY <1>16 DEF AddUi, Return, After, MpzAddUi
  <2>3. t.status = "run" => Good(t)
    BY <2>1, <2>2, AorsUiGood
  <2> QED BY <2>2, <2>3
<1>17. ASSUME NEW w \in Var, NEW u \in Var, NEW n \in Limb, SubUi(w, u, n)
      PROVE  \E t : store' = After(t) /\ (t.status = "run" => Good(t))
  <2>1. store.status = "run" /\ w \in store.live /\ u \in store.live
    BY <1>17 DEF SubUi, Live, Unused, Running
  <2>2. PICK t \in MpzAorsUi(store, w, u, n, TRUE) : store' = After(t)
    BY <1>17 DEF SubUi, Return, After, MpzSubUi
  <2>3. t.status = "run" => Good(t)
    BY <2>1, <2>2, AorsUiGood
  <2> QED BY <2>2, <2>3
<1>18. ASSUME NEW w \in Var, NEW u \in Var, NEW n \in Limb, UiSub(w, n, u)
      PROVE  \E t : store' = After(t) /\ (t.status = "run" => Good(t))
  <2>1. store.status = "run" /\ w \in store.live /\ u \in store.live
    BY <1>18 DEF UiSub, Live, Unused, Running
  <2>2. PICK t \in MpzUiSub(store, w, n, u) : store' = After(t)
    BY <1>18 DEF UiSub, Return, After
  <2>3. t.status = "run" => Good(t)
    BY <2>1, <2>2, UiSubGood
  <2> QED BY <2>2, <2>3
<1>19. ASSUME NEW w \in Var, NEW u \in Var, NEW n \in Limb, AddmulUi(w, u, n)
      PROVE  \E t : store' = After(t) /\ (t.status = "run" => Good(t))
  <2>1. store.status = "run" /\ w \in store.live /\ u \in store.live
    BY <1>19 DEF AddmulUi, Live, Unused, Running
  <2>2. PICK t \in MpzAorsmul1(store, w, u, n, FALSE) : store' = After(t)
    BY <1>19 DEF AddmulUi, Return, After, MpzAddmulUi
  <2>3. t.status = "run" => Good(t)
    BY <2>1, <2>2, Aorsmul1Good
  <2> QED BY <2>2, <2>3
<1>20. ASSUME NEW w \in Var, NEW u \in Var, NEW n \in Limb, SubmulUi(w, u, n)
      PROVE  \E t : store' = After(t) /\ (t.status = "run" => Good(t))
  <2>1. store.status = "run" /\ w \in store.live /\ u \in store.live
    BY <1>20 DEF SubmulUi, Live, Unused, Running
  <2>2. PICK t \in MpzAorsmul1(store, w, u, n, TRUE) : store' = After(t)
    BY <1>20 DEF SubmulUi, Return, After, MpzSubmulUi
  <2>3. t.status = "run" => Good(t)
    BY <2>1, <2>2, Aorsmul1Good
  <2> QED BY <2>2, <2>3
<1>21. ASSUME NEW w \in Var, NEW u \in Var, NEW n \in Long \cup Limb, MulSi(w, u, n)
      PROVE  \E t : store' = After(t) /\ (t.status = "run" => Good(t))
  <2>1. store.status = "run" /\ w \in store.live /\ u \in store.live
    BY <1>21 DEF MulSi, Live, Unused, Running
  <2>2. PICK t \in MpzMulSi(store, w, u, n) : store' = After(t)
    BY <1>21 DEF MulSi, Return, After
  <2>3. t.status = "run" => Good(t)
    BY <2>1, <2>2, MulSiGood
  <2> QED BY <2>2, <2>3
<1>22. ASSUME NEW w \in Var, NEW u \in Var, NEW v \in Var, Add(w, u, v)
      PROVE  \E t : store' = After(t) /\ (t.status = "run" => Good(t))
  <2>1. store.status = "run" /\ w \in store.live /\ u \in store.live /\ v \in store.live
    BY <1>22 DEF Add, Live, Unused, Running
  <2>2. PICK t \in MpzAors(store, w, u, v, FALSE) : store' = After(t)
    BY <1>22 DEF Add, Return, After, MpzAdd
  <2>3. t.status = "run" => Good(t)
    BY <2>1, <2>2, AorsGood
  <2> QED BY <2>2, <2>3
<1>23. ASSUME NEW w \in Var, NEW u \in Var, NEW v \in Var, Sub(w, u, v)
      PROVE  \E t : store' = After(t) /\ (t.status = "run" => Good(t))
  <2>1. store.status = "run" /\ w \in store.live /\ u \in store.live /\ v \in store.live
    BY <1>23 DEF Sub, Live, Unused, Running
  <2>2. PICK t \in MpzAors(store, w, u, v, TRUE) : store' = After(t)
    BY <1>23 DEF Sub, Return, After, MpzSub
  <2>3. t.status = "run" => Good(t)
    BY <2>1, <2>2, AorsGood
  <2> QED BY <2>2, <2>3
<1>24. ASSUME NEW w \in Var, NEW u \in Var, NEW v \in Var, Mul(w, u, v)
      PROVE  \E t : store' = After(t) /\ (t.status = "run" => Good(t))
  <2>1. store.status = "run" /\ w \in store.live /\ u \in store.live /\ v \in store.live
    BY <1>24 DEF Mul, Live, Unused, Running
  <2>2. PICK t \in MpzMul(store, w, u, v) : store' = After(t)
    BY <1>24 DEF Mul, Return, After
  <2>3. AbSiz(store, u) + AbSiz(store, v) <= IntMax
    BY <1>24, <2>1, SizeRange, MulMaxAssumption, IntMaxAssumption DEF Mul
  <2>4. t.status = "run" => Good(t)
    BY <2>1, <2>2, <2>3, MulGood
  <2> QED BY <2>2, <2>4
<1>25. ASSUME NEW w \in Var, NEW u \in Var, NEW v \in Var, Addmul(w, u, v)
      PROVE  \E t : store' = After(t) /\ (t.status = "run" => Good(t))
  <2>1. store.status = "run" /\ w \in store.live /\ u \in store.live /\ v \in store.live
    BY <1>25 DEF Addmul, Live, Unused, Running
  <2>2. PICK t \in MpzAorsmul(store, w, u, v, FALSE) : store' = After(t)
    BY <1>25 DEF Addmul, Return, After, MpzAddmul
  <2>3. t.status = "run" => Good(t)
    BY <2>1, <2>2, AorsmulGood
  <2> QED BY <2>2, <2>3
<1>26. ASSUME NEW w \in Var, NEW u \in Var, NEW v \in Var, Submul(w, u, v)
      PROVE  \E t : store' = After(t) /\ (t.status = "run" => Good(t))
  <2>1. store.status = "run" /\ w \in store.live /\ u \in store.live /\ v \in store.live
    BY <1>26 DEF Submul, Live, Unused, Running
  <2>2. PICK t \in MpzAorsmul(store, w, u, v, TRUE) : store' = After(t)
    BY <1>26 DEF Submul, Return, After, MpzSubmul
  <2>3. t.status = "run" => Good(t)
    BY <2>1, <2>2, AorsmulGood
  <2> QED BY <2>2, <2>3
<1>27. CASE Life
  BY <1>5, <1>6, <1>7, <1>8, <1>9, <1>27 DEF Life
<1>28. CASE Unary
  BY <1>10, <1>11, <1>12, <1>13, <1>14, <1>15, <1>28 DEF Unary
<1>29. CASE WithWord
  BY <1>16, <1>17, <1>18, <1>19, <1>20, <1>21, <1>29 DEF WithWord
<1>30. CASE Binary
  BY <1>22, <1>23, <1>24, <1>25, <1>26, <1>30 DEF Binary
<1> QED BY <1>27, <1>28, <1>29, <1>30 DEF Next

\* The store is good for ever.
LEMMA GoodAlways == ASSUME MulMax <= IntMax PROVE Spec => []Good(store)
<1>1. Init => Good(store)
  BY EmptyGood DEF Init
<1>2. Good(store) /\ [Next]_vars => Good(store)'
  <2> SUFFICES ASSUME Good(store), [Next]_vars PROVE Good(store')
    OBVIOUS
  <2>1. CASE Next
    BY <2>1, NextGood
  <2>2. CASE UNCHANGED vars
    BY <2>2 DEF vars
  <2> QED BY <2>1, <2>2
<1> QED BY <1>1, <1>2, PTL DEF Spec

\* The heap and the objects agree, whatever calls the client makes in whatever
\* order, with whatever arguments the same: mpz_set to mpz_submul keep every block
\* with one integer, of the length it has there, leak none and write within them.
\* The hypothesis says that no mpz_mul is asked for a product longer than INT_MAX
\* limbs, the length mpz/mul.c does not check.
THEOREM OwnershipAlways == ASSUME MulMax <= IntMax PROVE Spec => []Ownership
<1>1. Good(store) => Ownership
  <2> SUFFICES ASSUME Good(store) PROVE Ownership
    OBVIOUS
  <2>1. DOMAIN store.len = Block
    BY DEF Good, Typed
  <2>2. \A x \in store.live : Holds(x) <=> store.alloc[x] > 0
    BY DEF Holds
  <2>3. ~store.fault
    BY DEF Good
  <2>4. \A x \in store.live :
          /\ AbSiz(store, x) <= store.alloc[x]
          /\ Holds(x) => store.d[x] \in DOMAIN store.len
                          /\ store.len[store.d[x]] = store.alloc[x]
    BY <2>1, <2>2 DEF Good, Fits, Backed, AbSiz
  <2>5. \A x, y \in store.live :
          Holds(x) /\ Holds(y) /\ store.d[x] = store.d[y] => x = y
    BY <2>2 DEF Good, OneOwner
  <2>6. \A b \in DOMAIN store.len :
          store.len[b] # 0 => \E x \in store.live : Holds(x) /\ store.d[x] = b
    BY <2>1, <2>2 DEF Good, Owned
  <2> QED BY <2>3, <2>4, <2>5, <2>6 DEF Ownership
<1> QED BY <1>1, GoodAlways, PTL

\* Under the same hypothesis the fields hold the counts they should, as NEWS says of
\* them: no _mp_alloc and no |_mp_size| is ever more than INT_MAX or wraps round to a
\* negative one. The run MpzMulOverflow shows what happens without the hypothesis.
THEOREM FieldsFit ==
  ASSUME MulMax <= IntMax
  PROVE  Spec => [](/\ OverflowAborts
                    /\ \A x \in store.live : /\ AbSiz(store, x) \in 0..store.alloc[x]
                                             /\ store.alloc[x] \in 0..IntMax)
<1> DEFINE Fit == /\ OverflowAborts
                  /\ \A x \in store.live : /\ AbSiz(store, x) \in 0..store.alloc[x]
                                           /\ store.alloc[x] \in 0..IntMax
<1>1. Good(store) => Fit
  <2> SUFFICES ASSUME Good(store) PROVE Fit
    OBVIOUS
  <2>1. \A x \in store.live : /\ AbSiz(store, x) \in 0..store.alloc[x]
                              /\ store.alloc[x] \in 0..IntMax
    BY SizeRange, IntMaxAssumption
  <2> QED BY <2>1, IntMaxAssumption DEF OverflowAborts
<1> HIDE DEF Fit
<1>2. Spec => []Fit
  BY <1>1, GoodAlways, PTL
<1> QED BY <1>2 DEF Fit

-----------------------------------------------------------------------------
(* Powers. *)

\* The recursion by which the module Naturals defines b^n.
Powers == \A b \in Nat \ {0} : b^0 = 1 /\ \A n \in Nat : b^(n + 1) = b * b^n

\* A set of natural numbers that is not empty has a least one.
LEMMA LeastOf ==
  ASSUME NEW S \in SUBSET Nat, S # {}
  PROVE  \E n \in S : \A k \in S : n <= k
<1>1. IsWellFoundedOn(OpToRel(<, Nat), Nat)
  BY NatLessThanWellFounded
<1>2. PICK n \in S : \A k \in S : ~(<<k, n>> \in OpToRel(<, Nat))
  BY <1>1, WFMin
<1>3. ASSUME NEW k \in S PROVE n <= k
  <2>1. OpToRel(<, Nat) = {ss \in Nat \X Nat : ss[1] < ss[2]}
    BY DEF OpToRel
  <2>2. <<k, n>> \in Nat \X Nat
    OBVIOUS
  <2>3. ~(k < n)
    BY <1>2, <2>1, <2>2
  <2> QED BY <2>3
<1> QED BY <1>3

\* A power is positive.
LEMMA PowPositive ==
  ASSUME Powers, NEW b \in Nat \ {0}, NEW n \in Nat
  PROVE  b^n \in Nat \ {0}
<1> DEFINE S == {k \in Nat : b^k \notin Nat \ {0}}
<1> SUFFICES S = {}
  OBVIOUS
<1> SUFFICES ASSUME S # {} PROVE FALSE
  OBVIOUS
<1>1. PICK k \in S : \A j \in S : k <= j
  BY LeastOf
<1>2. k # 0
  BY DEF Powers
<1>3. PICK j \in Nat : k = j + 1
  <2>1. k - 1 \in Nat /\ k = (k - 1) + 1
    BY <1>2
  <2> QED BY <2>1
<1>4. b^j \in Nat \ {0}
  BY <1>1, <1>3
<1>5. b^(j + 1) = b * b^j
  BY DEF Powers
<1>6. PICK p \in Nat \ {0} : p = b^j
  BY <1>4
<1>7. b * p \in Nat \ {0}
  OBVIOUS
<1> QED BY <1>3, <1>5, <1>6, <1>7

\* The power of a sum is the product of the powers.
LEMMA PowSum ==
  ASSUME Powers, NEW b \in Nat \ {0}, NEW m \in Nat, NEW n \in Nat
  PROVE  b^(m + n) = b^m * b^n
<1> DEFINE S == {k \in Nat : b^(m + k) # b^m * b^k}
<1> SUFFICES S = {}
  OBVIOUS
<1> SUFFICES ASSUME S # {} PROVE FALSE
  OBVIOUS
<1>1. PICK k \in S : \A j \in S : k <= j
  BY LeastOf
<1>2. k # 0
  BY PowPositive DEF Powers
<1>3. PICK j \in Nat : k = j + 1
  <2>1. k - 1 \in Nat /\ k = (k - 1) + 1
    BY <1>2
  <2> QED BY <2>1
<1>4. b^(m + j) = b^m * b^j
  BY <1>1, <1>3
<1>5. b^(j + 1) = b * b^j
  BY DEF Powers
<1>9. b^((m + j) + 1) = b * b^(m + j)
  <2>1. PICK i \in Nat : i = m + j
    OBVIOUS
  <2>2. b^(i + 1) = b * b^i
    BY DEF Powers
  <2> QED BY <2>1, <2>2
<1>6. m + k = (m + j) + 1
  BY <1>3
<1>7. PICK p \in Nat, q \in Nat : p = b^m /\ q = b^j
  BY PowPositive
<1>8. b * (p * q) = p * (b * q)
  OBVIOUS
<1> QED BY <1>3, <1>4, <1>5, <1>6, <1>7, <1>8, <1>9

\* The power of a product is a power of the power.
LEMMA PowProduct ==
  ASSUME Powers, NEW b \in Nat \ {0}, NEW m \in Nat, NEW n \in Nat
  PROVE  b^(m * n) = (b^m)^n
<1> DEFINE S == {k \in Nat : b^(m * k) # (b^m)^k}
<1> SUFFICES S = {}
  OBVIOUS
<1> SUFFICES ASSUME S # {} PROVE FALSE
  OBVIOUS
<1>1. PICK k \in S : \A j \in S : k <= j
  BY LeastOf
<1>2. PICK c \in Nat \ {0} : c = b^m
  BY PowPositive
<1>3. k # 0
  <2>1. m * 0 = 0
    OBVIOUS
  <2>2. b^0 = 1 /\ c^0 = 1
    BY DEF Powers
  <2> QED BY <1>2, <2>1, <2>2
<1>4. PICK j \in Nat : k = j + 1
  <2>1. k - 1 \in Nat /\ k = (k - 1) + 1
    BY <1>3
  <2> QED BY <2>1
<1>5. b^(m * j) = c^j
  BY <1>1, <1>2, <1>4
<1>6. c^(j + 1) = c * c^j
  BY DEF Powers
<1>7. m * k = m + m * j /\ m * j \in Nat
  BY <1>4
<1>8. b^(m + m * j) = b^m * b^(m * j)
  BY <1>7, PowSum
<1> QED BY <1>2, <1>4, <1>5, <1>6, <1>7, <1>8

\* A power of a larger exponent is no smaller.
LEMMA PowOrder ==
  ASSUME Powers, NEW b \in Nat \ {0}, NEW m \in Nat, NEW n \in Nat, m <= n
  PROVE  b^m <= b^n
<1>1. PICK k \in Nat : n = m + k
  <2>1. n - m \in Nat /\ n = m + (n - m)
    OBVIOUS
  <2> QED BY <2>1
<1>2. b^n = b^m * b^k
  BY <1>1, PowSum
<1>3. PICK p \in Nat \ {0}, q \in Nat \ {0} : p = b^m /\ q = b^k
  BY PowPositive
<1>4. p <= p * q
  OBVIOUS
<1> QED BY <1>2, <1>3, <1>4

\* A limb has at least two values, and a power of B one limb more than the one before.
LEMMA Base ==
  ASSUME Powers
  PROVE  /\ B \in Nat /\ B >= 2
         /\ B^0 = 1 /\ B^1 = B
         /\ \A n \in Nat : B^n \in Nat /\ B^n >= 1 /\ B^(n + 1) = B * B^n
<1>1. PICK k \in Nat : W = k + 1
  <2>1. W - 1 \in Nat /\ W = (W - 1) + 1
    BY WAssumption
  <2> QED BY <2>1
<1>2. 2^(k + 1) = 2 * 2^k
  BY DEF Powers
<1>3. PICK p \in Nat \ {0} : p = 2^k
  BY PowPositive
<1>4. B = 2 * p
  BY <1>1, <1>2, <1>3 DEF B
<1>5. B \in Nat \ {0} /\ B >= 2
  BY <1>4
<1> HIDE DEF B
<1>6. ASSUME NEW n \in Nat
      PROVE  B^n \in Nat /\ B^n >= 1 /\ B^(n + 1) = B * B^n
  <2>1. B^n \in Nat \ {0}
    BY <1>5, PowPositive
  <2>2. B^(n + 1) = B * B^n
    BY <1>5 DEF Powers
  <2> QED BY <2>1, <2>2
<1>7. B^0 = 1
  BY <1>5 DEF Powers
<1>8. B^(0 + 1) = B * B^0
  BY <1>6
<1>9. 0 + 1 = 1
  OBVIOUS
<1> QED BY <1>5, <1>6, <1>7, <1>8, <1>9

-----------------------------------------------------------------------------
(* Numbers of n limbs. *)

\* The quotient and the remainder that are meant, and that there are no others.
LEMMA Division ==
  ASSUME NEW d \in Nat \ {0}, NEW a \in Int
  PROVE  a \div d \in Int /\ a % d \in 0..(d - 1) /\ a = d * (a \div d) + (a % d)
OBVIOUS

LEMMA DivisionOnly ==
  ASSUME NEW d \in Nat \ {0}, NEW q \in Int, NEW r \in 0..(d - 1), NEW a \in Int,
         a = d * q + r
  PROVE  a \div d = q /\ a % d = r
OBVIOUS

\* Multiples of the divisor do not count.
LEMMA RemainderShift ==
  ASSUME NEW d \in Nat \ {0}, NEW a \in Int, NEW k \in Int
  PROVE  (a + d * k) % d = a % d
<1>1. PICK q \in Int, r \in 0..(d - 1) : a = d * q + r /\ r = a % d
  BY Division
<1>2. PICK e \in Int : e = a + d * k
  OBVIOUS
<1>3. d * (q + k) = d * q + d * k
  OBVIOUS
<1>4. e = d * (q + k) + r
  <2>1. a = d * q + r
    BY <1>1
  <2> QED BY <1>2, <1>3, <2>1
<1>5. e % d = r
  BY <1>4, DivisionOnly
<1> QED BY <1>1, <1>2, <1>5

LEMMA LowRange ==
  ASSUME Powers, NEW v \in Int, NEW n \in Nat
  PROVE  Low(v, n) \in Nat /\ Low(v, n) < B^n
<1>1. PICK d \in Nat \ {0} : d = B^n
  BY Base
<1>2. v % d \in 0..(d - 1)
  BY Division
<1> QED BY <1>1, <1>2 DEF Low

LEMMA LowIs ==
  ASSUME Powers, NEW v \in Nat, NEW n \in Nat, v < B^n
  PROVE  Low(v, n) = v
<1>1. PICK d \in Nat \ {0} : d = B^n
  BY Base
<1>2. v = d * 0 + v /\ v \in 0..(d - 1)
  BY <1>1
<1>3. v % d = v
  BY <1>2, DivisionOnly
<1> QED BY <1>1, <1>3 DEF Low

\* The low limbs do not depend on what is added above them.
LEMMA LowShift ==
  ASSUME Powers, NEW v \in Int, NEW n \in Nat, NEW k \in Int
  PROVE  Low(v + B^n * k, n) = Low(v, n)
<1>1. PICK d \in Nat \ {0} : d = B^n
  BY Base
<1>2. (v + d * k) % d = v % d
  BY RemainderShift
<1> QED BY <1>1, <1>2 DEF Low

\* A number is its high limbs and its low ones.
LEMMA Split ==
  ASSUME Powers, NEW v \in Int, NEW n \in Nat
  PROVE  High(v, n) \in Int /\ v = B^n * High(v, n) + Low(v, n)
<1>1. PICK d \in Nat \ {0} : d = B^n
  BY Base
<1>2. v \div d \in Int /\ v = d * (v \div d) + (v % d)
  BY Division
<1> QED BY <1>1, <1>2 DEF Low, High

LEMMA HighIs ==
  ASSUME Powers, NEW v \in Int, NEW n \in Nat, NEW q \in Int, NEW r \in Nat,
         r < B^n, v = B^n * q + r
  PROVE  High(v, n) = q /\ Low(v, n) = r
<1>1. PICK d \in Nat \ {0} : d = B^n
  BY Base
<1>2. v = d * q + r /\ r \in 0..(d - 1)
  BY <1>1
<1>3. v \div d = q /\ v % d = r
  BY <1>2, DivisionOnly
<1> QED BY <1>1, <1>3 DEF Low, High

\* The high limbs are zero when the number is that small.
LEMMA HighZero ==
  ASSUME Powers, NEW v \in Nat, NEW n \in Nat
  PROVE  High(v, n) = 0 <=> v < B^n
<1>1. PICK d \in Nat \ {0} : d = B^n
  BY Base
<1>2. PICK q \in Int, r \in 0..(d - 1) : v = d * q + r /\ q = v \div d
  BY Division
<1>3. q >= 0
  <2>1. CASE q <= -1
    <3>1. d * q <= d * (-1)
      BY <2>1
    <3> QED BY <1>2, <3>1
  <2> QED BY <2>1
<1>4. q >= 1 => d * q >= d
  OBVIOUS
<1>5. q = 0 => d * q = 0
  OBVIOUS
<1> QED BY <1>1, <1>2, <1>3, <1>4, <1>5 DEF High

\* Low limbs of low limbs.
LEMMA LowLow ==
  ASSUME Powers, NEW v \in Int, NEW m \in Nat, NEW n \in Nat, m <= n
  PROVE  /\ \A k \in Int : Low(v + B^n * k, m) = Low(v, m)
         /\ Low(Low(v, n), m) = Low(v, m)
<1>1. PICK j \in Nat : n = m + j
  <2>1. n - m \in Nat /\ n = m + (n - m)
    OBVIOUS
  <2> QED BY <2>1
<1>2. PICK p \in Nat, q \in Nat : p = B^m /\ q = B^j /\ B^n = p * q
  <2>1. B \in Nat \ {0}
    BY Base
  <2>2. B^n = B^m * B^j
    BY <1>1, <2>1, PowSum
  <2> QED BY <2>2, Base
<1>3. ASSUME NEW k \in Int PROVE Low(v + B^n * k, m) = Low(v, m)
  <2>1. (p * q) * k = p * (q * k) /\ q * k \in Int
    OBVIOUS
  <2>2. Low(v + p * (q * k), m) = Low(v, m)
    BY <1>2, <2>1, LowShift
  <2> QED BY <1>2, <2>1, <2>2
<1>4. Low(Low(v, n), m) = Low(v, m)
  <2>1. PICK h \in Int, l \in Int : v = B^n * h + l /\ l = Low(v, n)
    <3>1. High(v, n) \in Int /\ Low(v, n) \in Int /\ v = B^n * High(v, n) + Low(v, n)
      BY Split, LowRange
    <3> QED BY <3>1
  <2>2. (p * q) * h = p * (q * h) /\ q * h \in Int
    OBVIOUS
  <2>3. Low(l + p * (q * h), m) = Low(l, m)
    BY <1>2, <2>1, <2>2, LowShift
  <2>4. v = l + p * (q * h)
    BY <1>2, <2>1, <2>2
  <2> QED BY <2>1, <2>3, <2>4
<1> QED BY <1>3, <1>4
-----------------------------------------------------------------------------
(* Exact sizes. *)

\* v has n limbs, the highest of them not zero.
Exact(v, n) == v \in Nat /\ v < B^n /\ (n > 0 => B^(n - 1) <= v)

\* The powers of B with the exponents before and after n.
LEMMA Around ==
  ASSUME Powers, NEW n \in Nat
  PROVE  /\ B^n \in Nat \ {0} /\ B^(n + 1) \in Nat \ {0}
         /\ B^(n + 1) = B * B^n /\ 2 * B^n <= B^(n + 1)
         /\ n > 0 => B^(n - 1) \in Nat \ {0} /\ B^n = B * B^(n - 1) /\ 2 * B^(n - 1) <= B^n
         /\ n = 0 => B^n = 1
<1>1. PICK b \in Nat, p \in Nat \ {0} : b = B /\ p = B^n /\ b >= 2
  <2>1. B \in Nat /\ B >= 2
    BY Base
  <2>2. B^n \in Nat /\ B^n >= 1
    BY Base
  <2> QED BY <2>1, <2>2
<1>2. B^(n + 1) = b * p
  BY <1>1, Base
<1>3. 2 * p <= b * p /\ b * p \in Nat \ {0}
  BY <1>1
<1>4. ASSUME n > 0
      PROVE  B^(n - 1) \in Nat \ {0} /\ B^n = B * B^(n - 1) /\ 2 * B^(n - 1) <= B^n
  <2>1. PICK k \in Nat : k = n - 1 /\ n = k + 1
    BY <1>4
  <2>2. PICK q \in Nat \ {0} : q = B^k
    <3>1. B^k \in Nat /\ B^k >= 1
      BY Base
    <3> QED BY <3>1
  <2>3. B^(k + 1) = b * q
    BY <1>1, <2>2, Base
  <2>4. 2 * q <= b * q
    BY <1>1
  <2> QED BY <1>1, <2>1, <2>2, <2>3, <2>4
<1>5. n = 0 => B^n = 1
  BY Base
<1> QED BY <1>1, <1>2, <1>3, <1>4, <1>5

\* A number of no limbs is 0.
LEMMA ExactZero ==
  ASSUME Powers, NEW v, NEW n \in Nat, Exact(v, n)
  PROVE  v = 0 <=> n = 0
<1>1. n > 0 => B^(n - 1) >= 1
  BY Around
<1> QED BY <1>1, Around, SMTT(30) DEF Exact

\* A shorter number is smaller.
LEMMA ExactOrder ==
  ASSUME Powers, NEW v, NEW n \in Nat, NEW u, NEW m \in Nat, Exact(v, n), Exact(u, m), m < n
  PROVE  u < v
<1>1. n - 1 \in Nat /\ m <= n - 1
  OBVIOUS
<1>2. B^m <= B^(n - 1)
  BY <1>1, Base, PowOrder
<1>3. B^m \in Nat /\ B^(n - 1) \in Nat
  BY <1>1, Base
<1> QED BY <1>2, <1>3 DEF Exact

\* The limb a carry adds counts when there was one.
LEMMA CarryExact ==
  ASSUME Powers, NEW v \in Nat, NEW n \in Nat, v < B^(n + 1), n > 0 => B^(n - 1) <= v
  PROVE  Exact(v, n + Bit(v >= B^n))
<1>1. CASE v >= B^n
  <2>1. Bit(v >= B^n) = 1 /\ (n + 1) - 1 = n
    BY <1>1 DEF Bit
  <2> QED BY <1>1, <2>1 DEF Exact
<1>2. CASE ~(v >= B^n)
  <2>1. Bit(v >= B^n) = 0 /\ n + 0 = n /\ B^n \in Nat
    BY <1>2, Base DEF Bit
  <2> QED BY <1>2, <2>1 DEF Exact
<1> QED BY <1>1, <1>2

\* The highest limb does not count when it is zero.
LEMMA StripExact ==
  ASSUME Powers, NEW v \in Nat, NEW n \in Nat \ {0}, v < B^n, n > 1 => B^(n - 2) <= v
  PROVE  Exact(v, n - Bit(High(v, n - 1) = 0))
<1>1. PICK k \in Nat : k = n - 1 /\ n = k + 1 /\ (k > 0 => k - 1 = n - 2)
  <2>1. n - 1 \in Nat /\ n = (n - 1) + 1 /\ (n - 1) - 1 = n - 2
    OBVIOUS
  <2> QED BY <2>1
<1>2. High(v, k) = 0 <=> v < B^k
  BY HighZero
<1>3. B^k \in Nat
  BY Base
<1>4. CASE v < B^k
  <2>1. n - Bit(High(v, n - 1) = 0) = k
    BY <1>1, <1>2, <1>4 DEF Bit
  <2> QED BY <1>1, <1>4, <2>1 DEF Exact
<1>5. CASE ~(v < B^k)
  <2>1. n - Bit(High(v, n - 1) = 0) = n
    BY <1>1, <1>2, <1>5 DEF Bit
  <2> QED BY <1>1, <1>3, <1>5, <2>1 DEF Exact
<1> QED BY <1>4, <1>5

\* MPN_NORMALIZE finds the exact size.
LEMMA NormalizeExact ==
  ASSUME Powers, NEW v \in Nat, NEW n \in Nat, v < B^n
  PROVE  Exact(v, Normalize(v, n)) /\ Normalize(v, n) \in 0..n
<1> DEFINE S == {k \in Nat : v < B^k}
<1>1. PICK m \in S : \A k \in S : m <= k
  BY LeastOf
<1>2. m \in Nat /\ m <= n
  BY <1>1
<1>3. \A k \in Nat : B^k \in Nat
  BY Base
<1>4. ASSUME NEW k \in 0..(n - 1) PROVE High(v, k) # 0 <=> k \in 0..(m - 1)
  <2>1. k \in Nat /\ (High(v, k) = 0 <=> v < B^k)
    BY HighZero
  <2>2. v < B^k => m <= k
    BY <1>1, <2>1
  <2>3. m <= k => v < B^k
    <3> SUFFICES ASSUME m <= k PROVE v < B^k
      OBVIOUS
    <3>1. B^m <= B^k
      BY <1>2, <2>1, Base, PowOrder
    <3> QED BY <1>1, <1>2, <1>3, <2>1, <3>1
  <2> QED BY <1>2, <2>1, <2>2, <2>3
<1>5. {k \in 0..(n - 1) : High(v, k) # 0} = 0..(m - 1)
  <2>1. 0..(m - 1) \subseteq 0..(n - 1)
    BY <1>2
  <2> QED BY <1>4, <2>1
<1>6. Cardinality(0..(m - 1)) = m
  BY <1>2, FS_Interval
<1>7. Normalize(v, n) = m
  BY <1>5, <1>6 DEF Normalize
<1>8. m > 0 => B^(m - 1) <= v
  <2> SUFFICES ASSUME m > 0 PROVE B^(m - 1) <= v
    OBVIOUS
  <2>1. m - 1 \in Nat /\ m - 1 \notin S
    BY <1>1, <1>2
  <2> QED BY <1>3, <2>1
<1> QED BY <1>1, <1>2, <1>7, <1>8 DEF Exact

-----------------------------------------------------------------------------
(* What is read from a store. *)

Numbers(s) == s.limbs \in [Block -> Int]

\* Ones above the limbs that are read do not count.
LEMMA LowOnes ==
  ASSUME Powers, NEW v \in Int, NEW m \in Nat, NEW k \in Nat, NEW n \in Nat, m <= k, k <= n
  PROVE  Ones(k, n) \in Int /\ Low(v + Ones(k, n), m) = Low(v, m)
<1>1. PICK i \in Nat : n = k + i
  <2>1. n - k \in Nat /\ n = k + (n - k)
    OBVIOUS
  <2> QED BY <2>1
<1>2. PICK p \in Nat, q \in Nat : p = B^k /\ q = B^i /\ B^n = p * q
  <2>1. B \in Nat \ {0}
    BY Base
  <2>2. B^n = B^k * B^i
    BY <1>1, <2>1, PowSum
  <2> QED BY <2>2, Base
<1>3. Ones(k, n) = p * (q - 1)
  <2>1. p * q - p = p * (q - 1)
    OBVIOUS
  <2> QED BY <1>2, <2>1 DEF Ones
<1>4. PICK j \in Int : j = q - 1
  OBVIOUS
<1>5. Low(v + p * j, m) = Low(v, m)
  BY <1>2, LowLow
<1>6. p * j \in Int
  OBVIOUS
<1> QED BY <1>3, <1>4, <1>5, <1>6

\* What is read are n limbs.
LEMMA GetRange ==
  ASSUME Powers, NEW s, Typed(s), Numbers(s), NEW p, NEW n \in Nat
  PROVE  Get(s, p, n) \in Nat /\ Get(s, p, n) < B^n /\ (n = 0 => Get(s, p, n) = 0)
<1>1. PICK d \in Nat : d = B^n /\ d >= 1 /\ (n = 0 => d = 1)
  BY Base
<1>2. CASE p \in DOMAIN s.len /\ s.len[p] >= n
  <2>1. s.limbs[p] \in Int
    BY <1>2 DEF Typed, Numbers
  <2>2. Get(s, p, n) = Low(s.limbs[p], n)
    BY <1>2 DEF Get
  <2>3. Low(s.limbs[p], n) \in Nat /\ Low(s.limbs[p], n) < B^n
    BY <2>1, LowRange
  <2> QED BY <1>1, <2>2, <2>3
<1>3. CASE ~(p \in DOMAIN s.len /\ s.len[p] >= n)
  <2>1. Get(s, p, n) = d - 1
    BY <1>1, <1>3 DEF Get
  <2> QED BY <1>1, <2>1
<1> QED BY <1>2, <1>3

\* A write puts the limbs of v in the block, low ones first.
LEMMA PutLimbs ==
  ASSUME Powers, NEW s, Typed(s), Numbers(s), NEW p \in Block, NEW n \in Nat, s.len[p] >= n,
         NEW v \in Int
  PROVE  \E l \in Int :
           /\ Put(s, p, n, v) =
                [alloc |-> s.alloc, size |-> s.size, d |-> s.d, len |-> s.len,
                 limbs |-> [s.limbs EXCEPT ![p] = l],
                 live |-> s.live, fault |-> s.fault, status |-> s.status]
           /\ \A m \in 0..n : Low(l, m) = Low(v, m)
<1>1. CASE n = 0
  <2>1. Put(s, p, n, v) = s
    BY <1>1 DEF Put
  <2>2. s.limbs = [s.limbs EXCEPT ![p] = s.limbs[p]] /\ s.limbs[p] \in Int
    BY DEF Numbers
  <2>3. ASSUME NEW m \in 0..n PROVE Low(s.limbs[p], m) = Low(v, m)
    <3>1. m = 0 /\ B^0 = 1
      BY <1>1, Base
    <3>2. Low(s.limbs[p], 0) \in Nat /\ Low(s.limbs[p], 0) < 1
      BY <2>2, <3>1, LowRange
    <3>3. Low(v, 0) \in Nat /\ Low(v, 0) < 1
      BY <3>1, LowRange
    <3> QED BY <3>1, <3>2, <3>3
  <2> QED BY <2>1, <2>2, <2>3 DEF Typed
<1>2. CASE n # 0
  <2>1. PICK x \in Int : x = s.limbs[p]
    BY DEF Numbers
  <2>2. PICK h \in Int, l0 \in Int, c \in Int : h = High(x, n) /\ l0 = Low(v, n) /\ c = B^n
    <3>1. High(x, n) \in Int
      BY Split
    <3>2. Low(v, n) \in Nat
      BY LowRange
    <3>3. B^n \in Int
      BY Base
    <3> QED BY <3>1, <3>2, <3>3
  <2>3. PICK l \in Int : l = h * c + l0
    OBVIOUS
  <2>4. Put(s, p, n, v) = [s EXCEPT !.limbs[p] = l]
    BY <1>2, <2>1, <2>2, <2>3 DEF Put, Typed
  <2>5. ASSUME NEW m \in 0..n PROVE Low(l, m) = Low(v, m)
    <3>1. m \in Nat /\ m <= n
      OBVIOUS
    <3>2. l = l0 + c * h
      BY <2>3
    <3>3. Low(l0 + c * h, m) = Low(l0, m)
      BY <2>2, <3>1, LowLow
    <3>4. Low(Low(v, n), m) = Low(v, m)
      BY <3>1, LowLow
    <3> QED BY <2>2, <3>2, <3>3, <3>4
  <2> QED BY <2>4, <2>5 DEF Typed
<1> QED BY <1>1, <1>2

\* Setting a size leaves the limbs below it.
LEMMA SetSizLimbs ==
  ASSUME Powers, NEW s, Typed(s), Numbers(s), NEW x \in Struct, s.d[x] \in Block,
         NEW n \in Int, s.len[s.d[x]] >= Abs(n)
  PROVE  \E l \in Int :
           /\ SetSiz(s, x, n) =
                [alloc |-> s.alloc, size |-> [s.size EXCEPT ![x] = n], d |-> s.d, len |-> s.len,
                 limbs |-> [s.limbs EXCEPT ![s.d[x]] = l],
                 live |-> s.live, fault |-> s.fault, status |-> s.status]
           /\ \A m \in 0..Abs(n) : Low(l, m) = Low(s.limbs[s.d[x]], m)
<1>1. PICK p \in Block : p = s.d[x]
  OBVIOUS
<1>2. PICK y \in Int, k \in Nat, e \in Nat : y = s.limbs[p] /\ k = Abs(n) /\ e = s.len[p]
  <2>1. s.limbs[p] \in Int /\ Abs(n) \in Nat /\ s.len[p] \in Nat
    BY AbsRange DEF Numbers, Typed
  <2> QED BY <2>1
<1>3. k <= e
  BY <1>1, <1>2
<1>4. PICK z \in Int, o \in Int : z = Low(y, k) /\ o = Ones(k, e)
  <2>1. Low(y, k) \in Int /\ Ones(k, e) \in Int
    BY <1>3, LowRange, LowOnes
  <2> QED BY <2>1
<1>5. PICK l \in Int : l = z + o
  OBVIOUS
<1>6. DOMAIN s.len = Block
  BY DEF Typed
<1>7. SetSiz(s, x, n) = [[s EXCEPT !.size[x] = n] EXCEPT !.limbs[p] = l]
  <2>1. [s EXCEPT !.size[x] = n].limbs[p] = y
    BY <1>2 DEF Typed
  <2> QED BY <1>1, <1>2, <1>3, <1>4, <1>5, <1>6, <2>1 DEF SetSiz
<1>8. ASSUME NEW m \in 0..k PROVE Low(l, m) = Low(y, m)
  <2>1. m \in Nat /\ m <= k
    OBVIOUS
  <2>2. Low(z + o, m) = Low(z, m)
    BY <1>3, <1>4, <2>1, LowOnes
  <2>3. Low(Low(y, k), m) = Low(y, m)
    BY <2>1, LowLow
  <2> QED BY <1>4, <1>5, <2>2, <2>3
<1>9. SetSiz(s, x, n) =
        [alloc |-> s.alloc, size |-> [s.size EXCEPT ![x] = n], d |-> s.d, len |-> s.len,
         limbs |-> [s.limbs EXCEPT ![p] = l],
         live |-> s.live, fault |-> s.fault, status |-> s.status]
  BY <1>7 DEF Typed
<1> QED BY <1>1, <1>2, <1>8, <1>9

-----------------------------------------------------------------------------
(* Values. *)

\* An integer without a block points to the dummy limb.
Dummy(s) == \A x \in s.live : s.alloc[x] = 0 => s.d[x] = Null

\* A store between two steps of a function.
Plain(s) == Good(s) /\ s.status = "run" /\ Numbers(s) /\ Dummy(s)

\* The magnitude of the integer x.
Mag(s, x) == Get(s, s.d[x], AbSiz(s, x))

\* A store between two calls: sizes are exact.
Sound(s) == Plain(s) /\ \A x \in s.live : Exact(Mag(s, x), AbSiz(s, x))

\* t has the integer x of s, size and limbs.
Keeps(s, t, x) ==
  /\ t.size[x] = s.size[x]
  /\ \A m \in 0..AbSiz(s, x) : Get(t, t.d[x], m) = Get(s, s.d[x], m)

LEMMA KeepsTwice ==
  ASSUME NEW s, NEW t, NEW u, NEW x, Keeps(s, t, x), Keeps(t, u, x)
  PROVE  Keeps(s, u, x)
<1>1. AbSiz(t, x) = AbSiz(s, x)
  BY DEF Keeps, AbSiz
<1> QED BY <1>1 DEF Keeps

\* What is kept has the same value.
LEMMA KeepsValue ==
  ASSUME NEW s, Good(s), NEW x \in s.live, NEW t, Keeps(s, t, x)
  PROVE  AbSiz(t, x) = AbSiz(s, x) /\ Mag(t, x) = Mag(s, x) /\ Value(t, x) = Value(s, x)
<1>1. AbSiz(s, x) \in 0..AbSiz(s, x)
  BY SizeRange
<1>2. AbSiz(t, x) = AbSiz(s, x)
  BY DEF Keeps, AbSiz
<1> QED BY <1>1, <1>2 DEF Keeps, Mag, Value

\* The same block, with the same low limbs, is read the same.
LEMMA SameRead ==
  ASSUME NEW s, NEW t, NEW p, NEW q, NEW m \in Nat,
         p \in DOMAIN s.len, s.len[p] >= m, q \in DOMAIN t.len, t.len[q] >= m,
         Low(t.limbs[q], m) = Low(s.limbs[p], m)
  PROVE  Get(t, q, m) = Get(s, p, m)
BY DEF Get

\* An integer that has its block, length and limbs is kept.
LEMMA BlockKeeps ==
  ASSUME Powers, NEW s, Plain(s), NEW t, Typed(t), Numbers(t), NEW x \in s.live,
         t.size[x] = s.size[x],
         s.alloc[x] > 0 => /\ t.d[x] \in Block /\ t.len[t.d[x]] >= AbSiz(s, x)
                           /\ \A m \in 0..AbSiz(s, x) :
                                Low(t.limbs[t.d[x]], m) = Low(s.limbs[s.d[x]], m)
  PROVE  Keeps(s, t, x)
<1>1. Good(s) /\ Typed(s) /\ Numbers(s)
  BY DEF Plain, Good
<1>2. AbSiz(s, x) \in Nat /\ AbSiz(s, x) <= s.alloc[x] /\ s.alloc[x] \in Nat
  BY <1>1, SizeRange
<1> SUFFICES ASSUME NEW m \in 0..AbSiz(s, x) PROVE Get(t, t.d[x], m) = Get(s, s.d[x], m)
  BY DEF Keeps
<1>3. m \in Nat
  BY <1>2
<1>4. CASE s.alloc[x] > 0
  <2>1. s.d[x] \in Block /\ s.len[s.d[x]] = s.alloc[x]
    BY <1>1, <1>4 DEF Good, Backed
  <2>2. DOMAIN s.len = Block /\ DOMAIN t.len = Block /\ s.len \in [Block -> Nat]
        /\ t.len \in [Block -> Nat]
    BY <1>1 DEF Typed
  <2>3. s.len[s.d[x]] >= m /\ t.len[t.d[x]] >= m
    BY <1>2, <1>4, <2>1, <2>2
  <2> QED BY <1>3, <1>4, <2>1, <2>2, <2>3, SameRead
<1>5. CASE ~(s.alloc[x] > 0)
  <2>1. m = 0
    BY <1>2, <1>5
  <2>2. Get(t, t.d[x], 0) = 0 /\ Get(s, s.d[x], 0) = 0
    BY <1>1, GetRange
  <2> QED BY <2>1, <2>2
<1> QED BY <1>4, <1>5

\* A result: m limbs of v are written to w, which then has size k.
LEMMA WriteValue ==
  ASSUME Powers, NEW s, Plain(s), NEW w \in s.live, NEW m \in Nat, m <= s.alloc[w],
         NEW v \in Int, NEW k \in Int, Abs(k) <= m
  PROVE  LET t == SetSiz(Put(s, s.d[w], m, v), w, k)
         IN  /\ Plain(t) /\ t.live = s.live /\ t.size = [s.size EXCEPT ![w] = k]
             /\ Mag(t, w) = Low(v, Abs(k))
             /\ \A y \in s.live \ {w} : Keeps(s, t, y)
<1> DEFINE t == SetSiz(Put(s, s.d[w], m, v), w, k)
<1>1. Good(s) /\ Typed(s) /\ Numbers(s) /\ Dummy(s) /\ s.status = "run"
  BY DEF Plain, Good
<1>2. w \in Struct /\ s.alloc[w] \in Nat /\ Abs(k) \in Nat
  BY <1>1, SizeRange, AbsRange
<1>3. Good(t) /\ SameBlocks(s, t)
  <2>1. Abs(k) <= s.alloc[w]
    BY <1>2
  <2> QED BY ONLY <1>1, <2>1, w \in s.live, m \in Nat, m <= s.alloc[w], k \in Int, WriteGood, SMTT(30)
<1>4. \A x \in s.live : x \in Struct /\ (s.alloc[x] > 0 => s.d[x] \in Block /\ s.len[s.d[x]] = s.alloc[x])
  BY <1>1, SizeRange DEF Good, Backed
\* Either a block of w has new limbs, or w has none.
<1>5. CASE s.alloc[w] > 0
  <2>1. PICK p \in Block : p = s.d[w] /\ s.len[p] >= m /\ s.len[p] >= Abs(k) /\ s.len[p] \in Nat
    BY <1>2, <1>4, <1>5 DEF Good, Typed
  <2>2. PICK l \in Int :
          /\ Put(s, p, m, v) =
               [alloc |-> s.alloc, size |-> s.size, d |-> s.d, len |-> s.len,
                limbs |-> [s.limbs EXCEPT ![p] = l],
                live |-> s.live, fault |-> s.fault, status |-> s.status]
          /\ \A i \in 0..m : Low(l, i) = Low(v, i)
    BY <1>1, <2>1, PutLimbs, ZenonT(60)
  <2>3. PICK r : r = Put(s, p, m, v)
    OBVIOUS
  <2>4. r.limbs = [s.limbs EXCEPT ![p] = l] /\ r.d = s.d /\ r.len = s.len /\ r.size = s.size
        /\ r.limbs[p] = l
    BY <1>1, <2>2, <2>3 DEF Numbers
  <2>5. Typed(r) /\ Numbers(r)
    BY <1>1, <2>2, <2>3, <2>4 DEF Typed, Numbers
  <2>6. r.d[w] = p /\ r.d[w] \in Block /\ r.len[r.d[w]] >= Abs(k)
    BY <2>1, <2>4
  <2>7. PICK L \in Int :
          /\ SetSiz(r, w, k) =
               [alloc |-> r.alloc, size |-> [r.size EXCEPT ![w] = k], d |-> r.d, len |-> r.len,
                limbs |-> [r.limbs EXCEPT ![r.d[w]] = L],
                live |-> r.live, fault |-> r.fault, status |-> r.status]
          /\ \A i \in 0..Abs(k) : Low(L, i) = Low(r.limbs[r.d[w]], i)
    BY <1>2, <2>5, <2>6, SetSizLimbs
  <2>8. t = SetSiz(r, w, k)
    BY <2>1, <2>3
  <2> HIDE DEF t
  <2>9. t.limbs = [s.limbs EXCEPT ![p] = L] /\ t.size = [s.size EXCEPT ![w] = k] /\ t.d = s.d
        /\ t.len = s.len
    BY <1>1, <2>4, <2>6, <2>7, <2>8 DEF Numbers
  <2>10. Numbers(t) /\ t.limbs[p] = L /\ \A b \in Block \ {p} : t.limbs[b] = s.limbs[b]
    BY <1>1, <2>9 DEF Numbers
  <2>11. Mag(t, w) = Low(v, Abs(k))
    <3>1. AbSiz(t, w) = Abs(k)
      BY <1>1, <1>2, <2>9 DEF AbSiz, Typed
    <3>2. Get(t, p, Abs(k)) = Low(L, Abs(k))
      BY <1>1, <2>1, <2>9, <2>10 DEF Get, Typed
    <3>3. Low(L, Abs(k)) = Low(l, Abs(k)) /\ Low(l, Abs(k)) = Low(v, Abs(k))
      BY <1>2, <2>2, <2>4, <2>6, <2>7
    <3> QED BY <2>1, <2>9, <3>1, <3>2, <3>3 DEF Mag
  <2>12. ASSUME NEW y \in s.live \ {w} PROVE Keeps(s, t, y)
    <3>1. t.size[y] = s.size[y]
      BY <1>1, <1>4, <2>9 DEF Typed
    <3>2. s.alloc[y] > 0 => s.d[y] # p
      BY <1>1, <1>5, <2>1 DEF Good, OneOwner
    <3>3. s.alloc[y] > 0 => t.d[y] \in Block /\ t.len[t.d[y]] >= AbSiz(s, y)
      BY <1>1, <1>4, <2>9, SizeRange
    <3>4. s.alloc[y] > 0 => t.limbs[t.d[y]] = s.limbs[s.d[y]]
      BY <1>4, <2>9, <2>10, <3>2
    <3>5. Typed(t)
      BY <1>3 DEF Good
    <3> QED BY <2>10, <3>1, <3>3, <3>4, <3>5, BlockKeeps
  <2>13. Plain(t)
    BY <1>1, <1>3, <2>10 DEF Plain, SameBlocks, Dummy
  <2> QED BY <1>3, <2>9, <2>11, <2>12, <2>13 DEF SameBlocks, t
<1>6. CASE ~(s.alloc[w] > 0)
  <2>1. m = 0 /\ k = 0 /\ s.d[w] = Null /\ s.alloc[w] = 0
    BY <1>1, <1>2, <1>6, AbsRange DEF Dummy
  <2>2. Null \notin DOMAIN s.len
    BY <1>1, NullAssumption DEF Typed
  <2>3. t = [s EXCEPT !.size[w] = k]
    BY <2>1, <2>2 DEF Put, SetSiz
  <2>4. t.limbs = s.limbs /\ t.size = [s.size EXCEPT ![w] = k] /\ t.d = s.d /\ t.len = s.len
    BY <1>1, <2>3 DEF Typed
  <2> HIDE DEF t
  <2>5. Numbers(t) /\ Plain(t) /\ Typed(t)
    BY <1>1, <1>3, <2>4 DEF Plain, SameBlocks, Dummy, Numbers, Good
  <2>6. Mag(t, w) = Low(v, Abs(k))
    <3>1. AbSiz(t, w) = 0 /\ Abs(k) = 0
      BY <1>1, <1>2, <2>1, <2>4 DEF AbSiz, Typed, Abs
    <3>2. Get(t, t.d[w], 0) = 0
      BY <2>5, GetRange
    <3>3. Low(v, 0) \in Nat /\ Low(v, 0) < B^0
      BY LowRange
    <3>4. B^0 = 1
      BY Base
    <3>5. Low(v, 0) = 0
      BY <3>3, <3>4
    <3> QED BY <3>1, <3>2, <3>5 DEF Mag
  <2>7. ASSUME NEW y \in s.live \ {w} PROVE Keeps(s, t, y)
    <3>1. t.size[y] = s.size[y]
      BY <1>1, <1>4, <2>4 DEF Typed
    <3>2. \A i : Get(t, t.d[y], i) = Get(s, s.d[y], i)
      BY <2>4 DEF Get
    <3> QED BY <3>1, <3>2 DEF Keeps
  <2> QED BY <1>3, <2>4, <2>5, <2>6, <2>7 DEF SameBlocks, t
<1> QED BY <1>5, <1>6

\* The same of a store t.
LEMMA Wrote ==
  ASSUME Powers, NEW s, Plain(s), NEW w \in s.live, NEW m \in Nat, m <= s.alloc[w],
         NEW v \in Int, NEW k \in Int, Abs(k) <= m, NEW t, t = SetSiz(Put(s, s.d[w], m, v), w, k)
  PROVE  /\ Plain(t) /\ t.live = s.live /\ t.size = [s.size EXCEPT ![w] = k]
         /\ Mag(t, w) = Low(v, Abs(k))
         /\ \A y \in s.live \ {w} : Keeps(s, t, y)
<1> DEFINE q == SetSiz(Put(s, s.d[w], m, v), w, k)
<1>1. /\ Plain(q) /\ q.live = s.live /\ q.size = [s.size EXCEPT ![w] = k]
      /\ Mag(q, w) = Low(v, Abs(k))
      /\ \A y \in s.live \ {w} : Keeps(s, q, y)
  BY ONLY Powers, Plain(s), w \in s.live, m \in Nat, m <= s.alloc[w], v \in Int, k \in Int,
          Abs(k) <= m, WriteValue
<1>2. t = q
  OBVIOUS
<1> HIDE DEF q
<1> QED BY <1>1, <1>2

\* When x gets another block the other integers are kept.
LEMMA MovedKeeps ==
  ASSUME Powers, NEW s, Plain(s), NEW x \in s.live, NEW n \in 1..IntMax, NEW z \in Int,
         Abs(z) <= n, NEW f \in Block, NEW t, Moved(s, t, x, n, z, f), t.status = "run",
         Numbers(t),
         \A c \in Block :
           c # f /\ ~(s.alloc[x] > 0 /\ c = s.d[x]) => t.limbs[c] = s.limbs[c]
  PROVE  Plain(t) /\ \A y \in s.live \ {x} : Keeps(s, t, y)
<1>1. Good(s) /\ Typed(s) /\ Numbers(s) /\ Dummy(s) /\ s.status = "run"
  BY DEF Plain, Good
<1>2. Good(t) /\ Typed(t)
  BY <1>1, MovedGood DEF Good
<1>3. \A y \in s.live : y \in Struct /\ s.alloc[y] \in Nat /\ AbSiz(s, y) <= s.alloc[y]
                         /\ AbSiz(s, y) \in Nat
  BY <1>1, SizeRange
<1>4. \A y \in Struct : /\ t.alloc[y] = IF y = x THEN n ELSE s.alloc[y]
                        /\ t.size[y] = IF y = x THEN z ELSE s.size[y]
                        /\ t.d[y] = IF y = x THEN f ELSE s.d[y]
  BY <1>1, <1>3 DEF Moved, Typed
<1>5. t.live = s.live /\ n \in Nat \ {0}
  BY IntMaxAssumption DEF Moved
<1>6. Dummy(t)
  BY <1>1, <1>3, <1>4, <1>5 DEF Dummy
<1>7. ASSUME NEW y \in s.live \ {x} PROVE Keeps(s, t, y)
  <2>1. y \in Struct /\ t.size[y] = s.size[y] /\ t.d[y] = s.d[y] /\ t.alloc[y] = s.alloc[y]
    BY <1>3, <1>4
  <2>2. ASSUME s.alloc[y] > 0
        PROVE  /\ t.d[y] \in Block /\ t.len[t.d[y]] >= AbSiz(s, y)
               /\ t.limbs[t.d[y]] = s.limbs[s.d[y]]
    <3>1. s.d[y] \in Block /\ s.len[s.d[y]] = s.alloc[y]
      BY <1>1, <2>2 DEF Good, Backed
    <3>2. t.len[t.d[y]] = t.alloc[y]
      BY <1>2, <1>5, <2>1, <2>2 DEF Good, Backed
    <3>3. ~(s.alloc[x] > 0 /\ s.d[y] = s.d[x])
      BY <1>1, <2>2 DEF Good, OneOwner
    <3>4. s.d[y] # f
      BY <1>3, <2>2, <3>1, <3>3 DEF Moved
    <3> QED BY <1>3, <2>1, <3>1, <3>2, <3>3, <3>4
  <2> QED BY <1>2, <2>1, <2>2, BlockKeeps
<1> QED BY <1>1, <1>2, <1>6, <1>7 DEF Plain

\* _mpz_realloc and mpz_realloc2: values are kept, but for one that no longer fits.
LEMMA ResizeValue ==
  ASSUME Powers, NEW s, Plain(s), NEW x \in s.live, NEW n \in Nat \ {0},
         NEW t \in Resize(s, x, n), t.status = "run"
  PROVE  /\ Plain(t) /\ t.live = s.live
         /\ t.alloc[x] = n /\ t.size[x] = KeptSize(s, x, n)
         /\ \A y \in s.live \ {x} : Keeps(s, t, y)
         /\ KeptSize(s, x, n) = s.size[x] => Keeps(s, t, x)
<1> DEFINE old == s.alloc[x]
           b == s.d[x]
           z == KeptSize(s, x, n)
           room(f) == IF old = 0 THEN Allocate(s, f, n) ELSE Reallocate(s, b, old, n, f)
<1>1. Good(s) /\ Typed(s) /\ Numbers(s) /\ Dummy(s) /\ s.status = "run" /\ s.fault = FALSE
  BY DEF Plain, Good
<1>2. /\ x \in Struct /\ old \in Nat /\ s.size[x] \in Int
      /\ AbSiz(s, x) \in Nat /\ AbSiz(s, x) = Abs(s.size[x]) /\ AbSiz(s, x) <= old
  BY <1>1, SizeRange
<1>3. ~TooLong(n)
  BY <1>1 DEF Resize, Exception, Typed
<1>4. z \in Int /\ Abs(z) <= n /\ n \in 1..IntMax /\ (z = s.size[x] => AbSiz(s, x) <= n)
  <2>1. old = 0 => s.size[x] = 0
    BY <1>2, AbsRange, SMTT(30)
  <2> QED BY <1>2, <1>3, <2>1, IntMaxAssumption DEF KeptSize, AbSiz, Abs, TooLong
<1>5. PICK f \in Homes(s, x) :
        t = [room(f) EXCEPT !.alloc[x] = n, !.size[x] = z, !.d[x] = f]
  BY <1>3 DEF Resize
<1> HIDE DEF z
<1>6. B^n \in Nat
  BY Base
<1>7. PICK e \in Int : e = B^n - 1
  <2>1. B^n - 1 \in Int
    BY <1>6
  <2> QED BY <2>1
<1>8. CASE old = 0
  <2>1. f \in Block /\ s.len[f] = 0
    BY <1>1, <1>5, <1>8 DEF Homes, Fresh, Typed
  <2>2. Allocate(s, f, n) = [s EXCEPT !.len[f] = n, !.limbs[f] = e]
    BY <1>7 DEF Allocate
  <2>3. t = [alloc |-> [s.alloc EXCEPT ![x] = n], size |-> [s.size EXCEPT ![x] = z],
             d |-> [s.d EXCEPT ![x] = f], len |-> [s.len EXCEPT ![f] = n],
             limbs |-> [s.limbs EXCEPT ![f] = e], live |-> s.live, fault |-> FALSE,
             status |-> s.status]
    BY <1>1, <1>5, <1>8, <2>2 DEF Typed
  <2>4. /\ [s.len EXCEPT ![f] = n] \in [Block -> Nat]
        /\ [s.len EXCEPT ![f] = n][f] = n
        /\ \A c \in Block \ {f} : [s.len EXCEPT ![f] = n][c] = s.len[c]
    BY <1>1, <2>1 DEF Typed
  <2>5. ~(s.alloc[x] > 0)
    BY <1>8
  <2>6. Moved(s, t, x, n, z, f)
    BY ONLY <2>1, <2>3, <2>4, <2>5 DEF Moved
  <2>7. t.limbs = [s.limbs EXCEPT ![f] = e]
    BY <2>3
  <2>8. Numbers(t) /\ \A c \in Block : c # f => t.limbs[c] = s.limbs[c]
    BY <1>1, <2>7 DEF Numbers
  <2>9. t.status = "run" /\ t.live = s.live /\ t.alloc[x] = n /\ t.size[x] = z
    BY <1>1, <1>2, <2>3 DEF Typed
  <2>10. Plain(t) /\ \A y \in s.live \ {x} : Keeps(s, t, y)
    BY <1>4, <2>1, <2>6, <2>8, <2>9, MovedKeeps
  <2>11. z = s.size[x] => Keeps(s, t, x)
    <3>1. Typed(t) /\ ~(s.alloc[x] > 0)
      BY <1>8, <2>10 DEF Plain, Good
    <3> QED BY <2>8, <2>9, <3>1, BlockKeeps
  <2> QED BY <2>9, <2>10, <2>11 DEF z
<1>9. CASE old # 0
  <2>1. b \in Block /\ s.len[b] = old /\ f \in Block /\ (s.len[f] = 0 \/ f = b)
    BY <1>1, <1>2, <1>5, <1>9 DEF Homes, Fresh, Good, Typed, Backed
  <2>2. PICK k \in Nat : k = Smaller(old, n) /\ k <= n /\ k <= old
    BY <1>2 DEF Smaller
  <2>3. PICK kept \in Int :
          /\ kept = Low(s.limbs[b], Smaller(old, n)) + Ones(Smaller(old, n), n)
          /\ \A m \in 0..k : Low(kept, m) = Low(s.limbs[b], m)
    <3>1. PICK v \in Int : v = s.limbs[b]
      BY <1>1, <2>1 DEF Numbers
    <3>2. PICK l0 \in Int : l0 = Low(v, k)
      <4>1. Low(v, k) \in Nat
        BY LowRange
      <4> QED BY <4>1
    <3>3. Ones(k, n) \in Int
      BY <2>2, LowOnes
    <3>4. ASSUME NEW m \in 0..k PROVE Low(l0 + Ones(k, n), m) = Low(v, m)
      <4>1. m \in Nat /\ m <= k
        OBVIOUS
      <4>2. Low(l0 + Ones(k, n), m) = Low(l0, m)
        <5>1. k \in Nat /\ n \in Nat /\ m <= k /\ k <= n
          BY <2>2, <4>1
        <5> QED BY ONLY Powers, l0 \in Int, <4>1, <5>1, LowOnes
      <4>3. Low(Low(v, k), m) = Low(v, m)
        BY <4>1, LowLow
      <4> QED BY <3>2, <4>2, <4>3
    <3>5. l0 + Ones(k, n) \in Int
      BY <3>3
    <3> QED BY <2>2, <3>1, <3>2, <3>4, <3>5
  <2>4. PICK lm : lm = [[s.limbs EXCEPT ![b] = 0] EXCEPT ![f] = kept]
    OBVIOUS
  <2>5. PICK l : l = [[s.len EXCEPT ![b] = 0] EXCEPT ![f] = n]
    OBVIOUS
  <2>6. Reallocate(s, b, old, n, f) =
          [s EXCEPT !.len = l, !.limbs = lm, !.fault = s.fault \/ s.len[b] # old]
    BY <2>3, <2>4, <2>5 DEF Reallocate
  <2>7. (s.fault \/ s.len[b] # old) = FALSE
    BY <1>1, <2>1
  <2>8. t = [alloc |-> [s.alloc EXCEPT ![x] = n], size |-> [s.size EXCEPT ![x] = z],
             d |-> [s.d EXCEPT ![x] = f], len |-> l,
             limbs |-> lm, live |-> s.live, fault |-> FALSE, status |-> s.status]
    BY <1>1, <1>5, <1>9, <2>6, <2>7 DEF Typed
  <2>9. /\ l \in [Block -> Nat] /\ l[f] = n
        /\ \A c \in Block \ {f} : l[c] = IF c = b THEN 0 ELSE s.len[c]
    BY <1>1, <2>1, <2>5 DEF Typed
  <2>10. old > 0
    BY <1>2, <1>9
  <2>11. Moved(s, t, x, n, z, f)
    BY ONLY <2>1, <2>8, <2>9, <2>10 DEF Moved
  <2>12. t.limbs = lm
    BY <2>8
  <2>13. Numbers(t) /\ t.limbs[f] = kept /\ \A c \in Block : c # f /\ c # b => t.limbs[c] = s.limbs[c]
    BY <1>1, <2>1, <2>4, <2>12 DEF Numbers
  <2>14. t.status = "run" /\ t.live = s.live /\ t.alloc[x] = n /\ t.size[x] = z /\ t.d[x] = f
         /\ t.len[f] = n
    BY <1>1, <1>2, <2>8, <2>9 DEF Typed
  <2>15. Plain(t) /\ \A y \in s.live \ {x} : Keeps(s, t, y)
    BY <1>4, <2>1, <2>10, <2>11, <2>13, <2>14, MovedKeeps
  <2>16. ASSUME z = s.size[x] PROVE Keeps(s, t, x)
    <3>1. Typed(t)
      BY <2>15 DEF Plain, Good
    <3>2. AbSiz(s, x) <= k /\ AbSiz(s, x) <= n
      BY <1>2, <1>4, <2>2, <2>16 DEF Smaller
    <3>3. \A m \in 0..AbSiz(s, x) : Low(t.limbs[t.d[x]], m) = Low(s.limbs[b], m)
      BY <1>2, <2>3, <2>13, <2>14, <3>2
    <3> QED BY <2>1, <2>13, <2>14, <2>16, <3>1, <3>2, <3>3, BlockKeeps
  <2> QED BY <2>14, <2>15, <2>16 DEF z
<1> QED BY <1>8, <1>9

\* MPZ_REALLOC keeps every value, and PTR read after it has the limbs.
LEMMA GrowValue ==
  ASSUME Powers, NEW s, Plain(s), NEW x \in s.live, NEW n \in Nat,
         NEW t \in Grow(s, x, n), t.status = "run"
  PROVE  /\ Plain(t) /\ t.live = s.live /\ t.size = s.size /\ t.alloc[x] >= n
         /\ \A y \in s.live : /\ Keeps(s, t, y) /\ AbSiz(t, y) = AbSiz(s, y)
                              /\ Mag(t, y) = Mag(s, y)
                              /\ Source(s, t, y, AbSiz(s, y)) = Mag(s, y)
<1>1. Good(s) /\ s.status = "run"
  BY DEF Plain
<1>2. t.live = s.live /\ t.size = s.size /\ t.alloc[x] >= n
  BY <1>1, GrowGood
<1>3. Plain(t) /\ \A y \in s.live : Keeps(s, t, y)
  <2>1. CASE n > s.alloc[x]
    <3>1. t \in Resize(s, x, n) /\ n \in Nat \ {0}
      BY <1>1, <2>1, SizeRange DEF Grow, MpzRealloc, Larger
    <3>2. KeptSize(s, x, n) = s.size[x]
      BY <1>1, <2>1, SizeRange DEF KeptSize
    <3> QED BY <3>1, <3>2, ResizeValue
  <2>2. CASE ~(n > s.alloc[x])
    <3>1. t = s
      BY <2>2 DEF Grow
    <3> QED BY <3>1 DEF Keeps
  <2> QED BY <2>1, <2>2
<1>4. ASSUME NEW y \in s.live
      PROVE  /\ AbSiz(t, y) = AbSiz(s, y) /\ Mag(t, y) = Mag(s, y)
             /\ Source(s, t, y, AbSiz(s, y)) = Mag(s, y)
  <2>1. AbSiz(t, y) = AbSiz(s, y) /\ Mag(t, y) = Mag(s, y)
    BY <1>1, <1>3, KeepsValue
  <2> QED BY <2>1 DEF Source, Mag
<1> QED BY <1>2, <1>3, <1>4

-----------------------------------------------------------------------------
(* Every function returns with the value it promises. In these lemmas s is *)
(* the store it is called in and r one in which it returns.                *)

\* r has n in w and the other integers of s as they were.
Gives(s, r, w, n) ==
  /\ Sound(r) /\ r.live = s.live
  /\ Value(r, w) = n
  /\ \A x \in s.live \ {w} : Value(r, x) = Value(s, x)

LEMMA GivesBy ==
  ASSUME Powers, NEW s, Sound(s), NEW w \in s.live, NEW r, Plain(r), r.live = s.live,
         \A x \in s.live \ {w} : Keeps(s, r, x),
         NEW v, NEW k \in Int, r.size[w] = k, Mag(r, w) = v, Exact(v, Abs(k))
  PROVE  Gives(s, r, w, Signed(k < 0, v))
<1>1. Good(s)
  BY DEF Sound, Plain
<1>2. AbSiz(r, w) = Abs(k)
  BY DEF AbSiz
<1>3. \A x \in s.live \ {w} : /\ AbSiz(r, x) = AbSiz(s, x) /\ Mag(r, x) = Mag(s, x)
                              /\ Value(r, x) = Value(s, x)
  BY <1>1, KeepsValue
<1>4. Sound(r)
  BY <1>2, <1>3 DEF Sound
<1>5. Value(r, w) = Signed(k < 0, v)
  BY DEF Value, Mag
<1> QED BY <1>3, <1>4, <1>5 DEF Gives

\* A function that asks for n limbs in w, stores the exact size and its limbs.
LEMMA ResultValue ==
  ASSUME Powers, NEW s, Sound(s), NEW w \in s.live, NEW n \in Nat, NEW t \in Grow(s, w, n),
         NEW m \in Nat, m <= n, NEW v, NEW k \in Int, Abs(k) <= m, Exact(v, Abs(k)),
         SetSiz(Put(t, t.d[w], m, v), w, k).status = "run"
  PROVE  Gives(s, SetSiz(Put(t, t.d[w], m, v), w, k), w, Signed(k < 0, v))
<1>1. Plain(s) /\ Good(s) /\ s.status = "run"
  BY DEF Sound, Plain
<1>2. w \in Struct /\ Typed(t)
  BY <1>1, SizeRange, GrowGood
<1>3. t.status = "run"
  BY <1>2, PutStatus, SetSizStatus
<1>4. /\ Plain(t) /\ t.live = s.live /\ t.size = s.size /\ t.alloc[w] >= n
      /\ \A y \in s.live : Keeps(s, t, y)
  BY <1>1, <1>3, GrowValue
<1>5. t.alloc[w] \in Nat /\ m <= t.alloc[w]
  BY <1>2, <1>4 DEF Typed
<1>6. v \in Nat /\ Abs(k) \in Nat /\ Low(v, Abs(k)) = v
  BY AbsRange, LowIs DEF Exact
<1> DEFINE r == SetSiz(Put(t, t.d[w], m, v), w, k)
<1>7. /\ Plain(r) /\ r.live = s.live /\ r.size = [t.size EXCEPT ![w] = k]
      /\ Mag(r, w) = v
      /\ \A y \in s.live \ {w} : Keeps(t, r, y)
  <2>1. w \in t.live /\ v \in Int
    BY <1>4, <1>6
  <2>2. /\ Plain(r) /\ r.live = t.live /\ r.size = [t.size EXCEPT ![w] = k]
        /\ Mag(r, w) = Low(v, Abs(k))
        /\ \A y \in t.live \ {w} : Keeps(t, r, y)
    BY <1>4, <1>5, <2>1, WriteValue
  <2> QED BY <1>4, <1>6, <2>2
<1> HIDE DEF r
<1>8. r.size[w] = k
  BY <1>2, <1>7 DEF Typed
<1>9. \A y \in s.live \ {w} : Keeps(s, r, y)
  BY <1>4, <1>7, KeepsTwice
<1>10. Gives(s, r, w, Signed(k < 0, v))
  BY <1>7, <1>8, <1>9, GivesBy
<1> QED BY <1>10 DEF r

\* The facts about an operand that the functions use.
LEMMA Operand ==
  ASSUME Powers, NEW s, Sound(s), NEW x \in s.live
  PROVE  /\ Mag(s, x) \in Nat /\ AbSiz(s, x) \in Nat /\ s.size[x] \in Int
         /\ AbSiz(s, x) = Abs(s.size[x]) /\ Exact(Mag(s, x), AbSiz(s, x))
         /\ Value(s, x) = Signed(s.size[x] < 0, Mag(s, x)) /\ Value(s, x) \in Int
         /\ Mag(s, x) = 0 <=> s.size[x] = 0
         /\ Abs(Value(s, x)) = Mag(s, x)
<1>1. Good(s) /\ Exact(Mag(s, x), AbSiz(s, x))
  BY DEF Sound, Plain
<1>2. s.size[x] \in Int /\ AbSiz(s, x) \in Nat /\ AbSiz(s, x) = Abs(s.size[x])
  BY <1>1, SizeRange
<1>3. Mag(s, x) \in Nat
  BY <1>1 DEF Exact
<1>4. Mag(s, x) = 0 <=> s.size[x] = 0
  BY <1>1, <1>2, ExactZero, AbsRange
<1>5. Value(s, x) = Signed(s.size[x] < 0, Mag(s, x))
  BY DEF Value, Mag
<1>6. Value(s, x) \in Int /\ Abs(Value(s, x)) = Mag(s, x)
  BY <1>3, <1>5, SignedRange
<1> QED BY <1>1, <1>2, <1>3, <1>4, <1>5, <1>6

\* A sign stored with the size is the sign of the value.
LEMMA SignedSize ==
  ASSUME Powers, NEW v, NEW k \in Nat, Exact(v, k), NEW p \in BOOLEAN
  PROVE  /\ Signed(p, k) \in Int /\ Abs(Signed(p, k)) = k
         /\ Signed(Signed(p, k) < 0, v) = Signed(p, v)
<1>1. v = 0 <=> k = 0
  BY ExactZero
<1> QED BY <1>1, SignedRange DEF Signed, Exact

\* A function that stores size k, exact, with the sign of p.
LEMMA SignedResult ==
  ASSUME Powers, NEW s, Sound(s), NEW w \in s.live, NEW n \in Nat, NEW t \in Grow(s, w, n),
         NEW m \in Nat, m <= n, NEW v, NEW k \in Nat, k <= m, Exact(v, k), NEW p \in BOOLEAN,
         SetSiz(Put(t, t.d[w], m, v), w, Signed(p, k)).status = "run"
  PROVE  Gives(s, SetSiz(Put(t, t.d[w], m, v), w, Signed(p, k)), w, Signed(p, v))
<1>1. PICK i \in Int : i = Signed(p, k) /\ Abs(i) = k /\ Signed(i < 0, v) = Signed(p, v)
  BY SignedSize
<1>2. SetSiz(Put(t, t.d[w], m, v), w, i).status = "run"
  BY <1>1
<1>3. Gives(s, SetSiz(Put(t, t.d[w], m, v), w, i), w, Signed(i < 0, v))
  BY <1>1, <1>2, ResultValue
<1> QED BY <1>1, <1>3

\* r has one more integer, x, which is n.
Adds(s, r, x, n) ==
  /\ Sound(r) /\ r.live = s.live \cup {x}
  /\ Value(r, x) = n
  /\ \A y \in s.live : Value(r, y) = Value(s, y)

LEMMA AddsBy ==
  ASSUME Powers, NEW s, Sound(s), NEW x, NEW r, Plain(r), r.live = s.live \cup {x},
         \A y \in s.live : Keeps(s, r, y),
         NEW v, NEW k \in Int, r.size[x] = k, Mag(r, x) = v, Exact(v, Abs(k))
  PROVE  Adds(s, r, x, Signed(k < 0, v))
<1>1. Good(s)
  BY DEF Sound, Plain
<1>2. AbSiz(r, x) = Abs(k)
  BY DEF AbSiz
<1>3. \A y \in s.live : /\ AbSiz(r, y) = AbSiz(s, y) /\ Mag(r, y) = Mag(s, y)
                        /\ Value(r, y) = Value(s, y)
  BY <1>1, KeepsValue
<1>4. Sound(r)
  BY <1>2, <1>3 DEF Sound
<1>5. Value(r, x) = Signed(k < 0, v)
  BY DEF Value, Mag
<1> QED BY <1>3, <1>4, <1>5 DEF Adds

\* The integer 0 has no limbs.
LEMMA ZeroExact ==
  ASSUME Powers
  PROVE  Exact(0, 0) /\ Abs(0) = 0 /\ Signed(0 < 0, 0) = 0
BY Base DEF Exact, Abs, Signed

\* An integer of size 0 is 0.
LEMMA MagZero ==
  ASSUME Powers, NEW r, Typed(r), Numbers(r), NEW x, r.size[x] = 0
  PROVE  Mag(r, x) = 0
<1>1. AbSiz(r, x) = 0
  BY DEF AbSiz, Abs
<1>2. Get(r, r.d[x], 0) = 0
  BY GetRange
<1> QED BY <1>1, <1>2 DEF Mag

\* A block for a new integer was nobody's.
LEMMA NewKeeps ==
  ASSUME Powers, NEW s, Plain(s), NEW x \in Var \ s.live, NEW n \in 1..IntMax,
         NEW f \in Fresh(s)
  PROVE  LET t == NewBlock(s, x, n, f)
         IN  /\ Plain(t) /\ t.live = s.live \cup {x} /\ t.alloc[x] = n /\ t.size = s.size
             /\ \A y \in s.live : Keeps(s, t, y)
<1> DEFINE t == NewBlock(s, x, n, f)
<1>1. Good(s) /\ Typed(s) /\ Numbers(s) /\ Dummy(s) /\ s.status = "run"
  BY DEF Plain, Good
<1>2. /\ Good(t) /\ t.live = s.live \cup {x} /\ t.size = s.size
      /\ t.alloc[x] = n /\ t.status = s.status
  BY <1>1, NewGood
<1>3. x \in Struct /\ f \in Block /\ s.len[f] = 0 /\ n \in Nat \ {0}
  BY <1>1, IntMaxAssumption DEF Typed, Struct, Fresh
<1>4. PICK e \in Int : e = B^n - 1
  <2>1. B^n \in Nat
    BY <1>3, Base
  <2>2. B^n - 1 \in Int
    BY <2>1
  <2> QED BY <2>2
<1>5. PICK v : v = s.live \cup {x}
  OBVIOUS
<1>6. t = [alloc |-> [s.alloc EXCEPT ![x] = n], size |-> s.size,
           d |-> [s.d EXCEPT ![x] = f], len |-> [s.len EXCEPT ![f] = n],
           limbs |-> [s.limbs EXCEPT ![f] = e], live |-> v, fault |-> s.fault,
           status |-> s.status]
  <2>1. t = [[[s EXCEPT !.live = v] EXCEPT !.len[f] = n, !.limbs[f] = e]
               EXCEPT !.alloc[x] = n, !.d[x] = f]
    BY <1>4, <1>5 DEF NewBlock, Allocate, Born
  <2> HIDE DEF t
  <2> QED BY <1>1, <2>1 DEF Typed
<1> HIDE DEF t
<1>7. t.limbs = [s.limbs EXCEPT ![f] = e] /\ t.d = [s.d EXCEPT ![x] = f]
      /\ t.len = [s.len EXCEPT ![f] = n] /\ t.alloc = [s.alloc EXCEPT ![x] = n]
  BY <1>6
<1>8. Numbers(t) /\ \A c \in Block : c # f => t.limbs[c] = s.limbs[c] /\ t.len[c] = s.len[c]
  <2>1. Numbers(t)
    BY <1>1, <1>7 DEF Numbers
  <2>2. ASSUME NEW c \in Block, c # f PROVE t.limbs[c] = s.limbs[c] /\ t.len[c] = s.len[c]
    BY <1>1, <1>3, <1>7, <2>2 DEF Numbers, Typed
  <2> QED BY <2>1, <2>2
<1>9. \A y \in s.live : /\ y \in Struct /\ y # x /\ t.d[y] = s.d[y] /\ t.alloc[y] = s.alloc[y]
                        /\ t.size[y] = s.size[y] /\ AbSiz(s, y) <= s.alloc[y]
  BY <1>1, <1>2, <1>3, <1>7, SizeRange DEF Typed
<1>10. Dummy(t)
  BY <1>1, <1>2, <1>3, <1>9 DEF Dummy
<1>11. ASSUME NEW y \in s.live PROVE Keeps(s, t, y)
  <2>1. s.alloc[y] > 0 => s.d[y] \in Block /\ s.len[s.d[y]] = s.alloc[y]
    BY <1>1 DEF Good, Backed
  <2>2. s.alloc[y] > 0 => s.d[y] # f
    BY <1>3, <2>1
  <2> QED BY <1>2, <1>8, <1>9, <2>1, <2>2, BlockKeeps DEF Good
<1> QED BY <1>1, <1>2, <1>8, <1>10, <1>11 DEF Plain, t

\* mpz_init2.
LEMMA Init2Value ==
  ASSUME Powers, NEW s, Sound(s), NEW x \in Var \ s.live, NEW bits \in Nat,
         NEW r \in MpzInit2(s, x, bits), r.status = "run"
  PROVE  Adds(s, r, x, 0)
<1> DEFINE n == BitsToLimbs(bits)
<1>1. Plain(s) /\ Good(s) /\ Typed(s) /\ s.status = "run" /\ n \in Nat \ {0}
  BY BitsRange DEF Sound, Plain, Good
<1>2. ~TooLong(n)
  BY <1>1 DEF MpzInit2, Exception, Typed
<1> HIDE DEF n
<1>3. n \in 1..IntMax
  BY <1>1, <1>2, IntMaxAssumption DEF TooLong
<1>4. PICK f \in Fresh(s) :
        r = [Allocate(Born(s, x), f, n) EXCEPT !.alloc[x] = n, !.size[x] = 0, !.d[x] = f]
  BY <1>2 DEF MpzInit2, n
<1>5. PICK t : t = NewBlock(s, x, n, f)
  OBVIOUS
<1>6. /\ Plain(t) /\ t.live = s.live \cup {x} /\ t.alloc[x] = n /\ t.size = s.size
      /\ \A y \in s.live : Keeps(s, t, y)
  BY <1>1, <1>3, <1>5, NewKeeps
<1>7. Good(t) /\ Typed(t) /\ Numbers(t)
  BY <1>6 DEF Plain, Good
<1>8. x \in Struct /\ t.size[x] = 0
  BY <1>1, <1>6 DEF Struct, Good, Unborn
<1>9. r = t
  <2>1. PICK a : a = Allocate(Born(s, x), f, n)
    OBVIOUS
  <2>2. t = [a EXCEPT !.alloc[x] = n, !.d[x] = f]
    BY <1>5, <2>1 DEF NewBlock
  <2>3. r = [a EXCEPT !.alloc[x] = n, !.size[x] = 0, !.d[x] = f]
    BY <1>4, <2>1
  <2>4. PICK v : v = s.live \cup {x}
    OBVIOUS
  <2>5. PICK e : a = [[s EXCEPT !.live = v] EXCEPT !.len[f] = n, !.limbs[f] = e]
    BY <2>1, <2>4 DEF Allocate, Born
  <2>6. a = [alloc |-> s.alloc, size |-> s.size, d |-> s.d, len |-> [s.len EXCEPT ![f] = n],
             limbs |-> [s.limbs EXCEPT ![f] = e], live |-> v, fault |-> s.fault,
             status |-> s.status]
    BY <1>1, <2>5 DEF Typed
  <2>7. [s.size EXCEPT ![x] = 0] = s.size
    BY <1>1, <1>6, <1>8 DEF Typed
  <2>8. r = [alloc |-> [s.alloc EXCEPT ![x] = n], size |-> [s.size EXCEPT ![x] = 0],
             d |-> [s.d EXCEPT ![x] = f], len |-> [s.len EXCEPT ![f] = n],
             limbs |-> [s.limbs EXCEPT ![f] = e], live |-> v, fault |-> s.fault,
             status |-> s.status]
    BY <2>3, <2>6
  <2>9. t = [alloc |-> [s.alloc EXCEPT ![x] = n], size |-> s.size,
             d |-> [s.d EXCEPT ![x] = f], len |-> [s.len EXCEPT ![f] = n],
             limbs |-> [s.limbs EXCEPT ![f] = e], live |-> v, fault |-> s.fault,
             status |-> s.status]
    BY <2>2, <2>6
  <2> QED BY <2>7, <2>8, <2>9
<1>10. Mag(t, x) = 0
  BY <1>7, <1>8, MagZero
<1>11. Adds(s, t, x, Signed(0 < 0, 0))
  BY <1>6, <1>8, <1>10, ZeroExact, AddsBy
<1> QED BY <1>9, <1>11, ZeroExact

\* mpz_init_set.
LEMMA InitSetValue ==
  ASSUME Powers, NEW s, Sound(s), NEW w \in Var \ s.live, NEW u \in s.live,
         NEW r \in MpzInitSet(s, w, u)
  PROVE  Adds(s, r, w, Value(s, u))
<1> DEFINE n == Larger(AbSiz(s, u), 1)
<1>1. Plain(s) /\ Good(s) /\ Typed(s)
  BY DEF Sound, Plain, Good
<1>2. PICK k \in Int, a \in Nat, m \in Nat :
        /\ k = s.size[u] /\ a = AbSiz(s, u) /\ a = Abs(k) /\ m = Mag(s, u) /\ Exact(m, a)
        /\ Value(s, u) = Signed(k < 0, m)
  BY Operand
<1>3. n \in 1..IntMax /\ n \in Nat /\ a <= n
  BY <1>1, <1>2, SizeRange, IntMaxAssumption, SMTT(30) DEF Larger
<1> HIDE DEF n
<1>4. PICK f \in Fresh(s) : r = Assign(NewBlock(s, w, n, f), w, m, k)
  BY <1>2 DEF MpzInitSet, NewBlock, Mag, n
<1>5. PICK t : t = NewBlock(s, w, n, f)
  OBVIOUS
<1>6. /\ Plain(t) /\ t.live = s.live \cup {w} /\ t.alloc[w] = n
      /\ \A y \in s.live : Keeps(s, t, y)
  BY <1>1, <1>3, <1>5, NewKeeps
<1>7. w \in t.live /\ a <= t.alloc[w] /\ Abs(k) <= a /\ m \in Int
  BY <1>2, <1>3, <1>6
<1>8. r = SetSiz(Put(t, t.d[w], a, m), w, k)
  BY <1>2, <1>4, <1>5 DEF Assign
<1>9. /\ Plain(r) /\ r.live = t.live /\ r.size = [t.size EXCEPT ![w] = k]
      /\ Mag(r, w) = Low(m, Abs(k))
      /\ \A y \in t.live \ {w} : Keeps(t, r, y)
  <2> DEFINE q == SetSiz(Put(t, t.d[w], a, m), w, k)
  <2>1. /\ Plain(q) /\ q.live = t.live /\ q.size = [t.size EXCEPT ![w] = k]
        /\ Mag(q, w) = Low(m, Abs(k))
        /\ \A y \in t.live \ {w} : Keeps(t, q, y)
    BY <1>6, <1>7, WriteValue
  <2>2. r = q
    BY <1>8
  <2> HIDE DEF q
  <2> QED BY <2>1, <2>2
<1>10. Low(m, Abs(k)) = m
  BY <1>2, LowIs DEF Exact
<1>11. \A y \in s.live : Keeps(s, r, y)
  BY <1>6, <1>9, KeepsTwice
<1>12. r.size[w] = k
  <2>1. w \in Struct /\ Typed(t)
    BY <1>6 DEF Struct, Plain, Good
  <2> QED BY <1>9, <2>1 DEF Typed
<1>13. Adds(s, r, w, Signed(k < 0, m))
  BY <1>2, <1>6, <1>9, <1>10, <1>11, <1>12, AddsBy
<1> QED BY <1>2, <1>13

\* mpz_init.
LEMMA InitValue ==
  ASSUME Powers, NEW s, Sound(s), NEW x \in Var \ s.live, NEW r \in MpzInit(s, x)
  PROVE  Adds(s, r, x, 0)
<1>1. Plain(s) /\ Good(s) /\ Typed(s) /\ Numbers(s) /\ Dummy(s) /\ s.status = "run"
  BY DEF Sound, Plain, Good
<1>2. Good(r) /\ Typed(r)
  BY <1>1, InitGood DEF Good
<1>3. r = [alloc |-> [s.alloc EXCEPT ![x] = 0], size |-> [s.size EXCEPT ![x] = 0],
           d |-> [s.d EXCEPT ![x] = Null], len |-> s.len, limbs |-> s.limbs,
           live |-> s.live \cup {x}, fault |-> s.fault, status |-> s.status]
  BY <1>1 DEF MpzInit, Born, Typed
<1>4. \A y \in s.live : y \in Struct /\ y # x
  BY <1>1, SizeRange
<1>5. /\ \A y \in Struct : /\ r.alloc[y] = IF y = x THEN 0 ELSE s.alloc[y]
                           /\ r.size[y] = IF y = x THEN 0 ELSE s.size[y]
                           /\ r.d[y] = IF y = x THEN Null ELSE s.d[y]
      /\ r.live = s.live \cup {x} /\ r.len = s.len /\ r.limbs = s.limbs /\ r.status = "run"
  BY <1>1, <1>3 DEF Typed
<1>6. x \in Struct
  BY DEF Struct
<1>7. Numbers(r) /\ Dummy(r)
  BY <1>1, <1>4, <1>5, <1>6 DEF Numbers, Dummy
<1>8. Plain(r)
  BY <1>2, <1>5, <1>7 DEF Plain
<1>9. ASSUME NEW y \in s.live PROVE Keeps(s, r, y)
  <2>1. r.size[y] = s.size[y] /\ r.d[y] = s.d[y]
    BY <1>4, <1>5
  <2>2. \A m : Get(r, r.d[y], m) = Get(s, s.d[y], m)
    BY <1>5, <2>1 DEF Get
  <2> QED BY <2>1, <2>2 DEF Keeps
<1>10. r.size[x] = 0 /\ Mag(r, x) = 0
  BY <1>2, <1>5, <1>6, <1>7, MagZero
<1>11. Adds(s, r, x, Signed(0 < 0, 0))
  BY <1>5, <1>8, <1>9, <1>10, ZeroExact, AddsBy
<1> QED BY <1>11, ZeroExact

\* r has one integer less.
Removes(s, r, x) ==
  /\ Sound(r) /\ r.live = s.live \ {x}
  /\ \A y \in s.live \ {x} : Value(r, y) = Value(s, y)

\* mpz_clear.
LEMMA ClearValue ==
  ASSUME Powers, NEW s, Sound(s), NEW x \in s.live, NEW r \in MpzClear(s, x)
  PROVE  Removes(s, r, x)
<1>1. Plain(s) /\ Good(s) /\ Typed(s) /\ Numbers(s) /\ Dummy(s) /\ s.status = "run"
      /\ s.fault = FALSE
  BY DEF Sound, Plain, Good
<1>2. Good(r) /\ Typed(r)
  BY <1>1, ClearGood DEF Good
<1>0. PICK v : v = s.live \ {x}
  OBVIOUS
<1> DEFINE owns == s.alloc[x] # 0
<1>3. x \in Struct /\ (owns => s.d[x] \in Block /\ s.len[s.d[x]] = s.alloc[x])
      /\ s.alloc[x] \in Nat
  <2>1. x \in Struct /\ s.alloc[x] \in Nat
    BY <1>1, SizeRange
  <2> QED BY <1>1, <2>1 DEF Good, Backed
\* What is left of the heap: only the block of x is gone.
<1>4. /\ r.size = [s.size EXCEPT ![x] = 0] /\ r.d = [s.d EXCEPT ![x] = Null]
      /\ r.alloc = [s.alloc EXCEPT ![x] = 0] /\ r.live = v /\ r.status = "run"
      /\ r.limbs = IF owns THEN [s.limbs EXCEPT ![s.d[x]] = 0] ELSE s.limbs
      /\ r.len = IF owns THEN [s.len EXCEPT ![s.d[x]] = 0] ELSE s.len
  <2>1. CASE ~owns
    <3>1. r = [s EXCEPT !.live = v, !.alloc[x] = 0, !.size[x] = 0, !.d[x] = Null]
      BY <1>0, <2>1 DEF MpzClear, Owns
    <3> QED BY <1>1, <2>1, <3>1 DEF Typed
  <2>2. CASE owns
    <3>1. Free(s, s.d[x], s.alloc[x]) =
                     [s EXCEPT !.len[s.d[x]] = 0, !.limbs[s.d[x]] = 0,
                               !.fault = s.fault \/ s.alloc[x] = 0
                                         \/ s.len[s.d[x]] # s.alloc[x]]
      BY DEF Free
    <3>2. (s.fault \/ s.alloc[x] = 0 \/ s.len[s.d[x]] # s.alloc[x]) = FALSE
      BY <1>1, <1>3, <2>2
    <3>3. r = [[s EXCEPT !.len[s.d[x]] = 0, !.limbs[s.d[x]] = 0, !.fault = FALSE]
                 EXCEPT !.live = v, !.alloc[x] = 0, !.size[x] = 0, !.d[x] = Null]
      BY <1>0, <1>1, <2>2, <3>1, <3>2 DEF MpzClear, Owns, Free, Typed
    <3> QED BY <1>1, <2>2, <3>3 DEF Typed
  <2> QED BY <2>1, <2>2
<1> HIDE DEF owns
<1>5. \A y \in s.live : y \in Struct /\ AbSiz(s, y) <= s.alloc[y]
                         /\ (s.alloc[y] > 0 => s.d[y] \in Block /\ s.len[s.d[y]] = s.alloc[y])
  BY <1>1, SizeRange DEF Good, Backed
<1>6. Numbers(r)
  <2>1. ASSUME NEW f \in [Block -> Int], NEW p \in Block PROVE [f EXCEPT ![p] = 0] \in [Block -> Int]
    BY <2>1
  <2>2. CASE owns
    <3>1. PICK p \in Block : p = s.d[x]
      BY <1>3, <2>2
    <3>2. r.limbs = [s.limbs EXCEPT ![p] = 0]
      BY <1>4, <2>2, <3>1
    <3> QED BY <1>1, <2>1, <3>2 DEF Numbers
  <2>3. CASE ~owns
    BY <1>1, <1>4, <2>3 DEF Numbers
  <2> QED BY <2>2, <2>3
<1>7. \A y \in s.live \ {x} : /\ r.size[y] = s.size[y] /\ r.d[y] = s.d[y]
                              /\ r.alloc[y] = s.alloc[y]
  BY <1>1, <1>4, <1>5 DEF Typed
<1>8. Plain(r)
  BY <1>0, <1>1, <1>2, <1>4, <1>6, <1>7 DEF Plain, Dummy
<1>9. ASSUME NEW y \in s.live \ {x} PROVE Keeps(s, r, y)
  <2>1. s.alloc[y] > 0 /\ owns => s.d[y] # s.d[x]
    BY <1>1, <1>3 DEF Good, OneOwner, owns
  <2>2. s.alloc[y] > 0 => /\ r.limbs[s.d[y]] = s.limbs[s.d[y]]
                          /\ r.len[s.d[y]] = s.len[s.d[y]]
    BY <1>1, <1>4, <1>5, <2>1 DEF Numbers, Typed
  <2>3. s.alloc[y] > 0 => /\ r.d[y] \in Block /\ r.len[r.d[y]] >= AbSiz(s, y)
                          /\ \A m \in 0..AbSiz(s, y) :
                               Low(r.limbs[r.d[y]], m) = Low(s.limbs[s.d[y]], m)
    BY <1>5, <1>7, <2>2
  <2>4. r.size[y] = s.size[y]
    BY <1>7
  <2> QED BY <1>1, <1>2, <1>6, <2>3, <2>4, BlockKeeps
<1>10. \A y \in s.live \ {x} : /\ AbSiz(r, y) = AbSiz(s, y) /\ Mag(r, y) = Mag(s, y)
                               /\ Value(r, y) = Value(s, y)
  BY <1>1, <1>9, KeepsValue
<1>11. Sound(r)
  BY <1>0, <1>4, <1>8, <1>10 DEF Sound
<1> QED BY <1>0, <1>4, <1>10, <1>11 DEF Removes

\* A magnitude is below the power of B that its size stands for.
LEMMA SizeByValue ==
  ASSUME Powers, NEW v, NEW k \in Nat, Exact(v, k), NEW n \in Nat
  PROVE  v < B^n <=> k <= n
<1>1. v \in Nat /\ B^n \in Nat /\ B^k \in Nat
  BY Base DEF Exact
<1>2. CASE k <= n
  <2>1. B^k <= B^n
    BY <1>2, Base, PowOrder
  <2> QED BY <1>1, <1>2, <2>1 DEF Exact
<1>3. CASE ~(k <= n)
  <2>1. PICK j \in Nat : k > 0 /\ j = k - 1 /\ n <= j
    BY <1>3
  <2>2. B^n <= B^j
    BY <2>1, Base, PowOrder
  <2>3. B^j \in Nat
    BY Base
  <2> QED BY <1>1, <1>3, <2>1, <2>2, <2>3 DEF Exact
<1> QED BY <1>2, <1>3

\* mpz_realloc2: a value that does not fit is lost.
LEMMA Realloc2Value ==
  ASSUME Powers, NEW s, Sound(s), NEW x \in s.live, NEW bits \in Nat,
         NEW r \in MpzRealloc2(s, x, bits), r.status = "run"
  PROVE  Gives(s, r, x, IF Abs(Value(s, x)) < B^BitsToLimbs(bits) THEN Value(s, x) ELSE 0)
<1>1. PICK n \in Nat \ {0} : n = BitsToLimbs(bits)
  BY BitsRange
<1>2. Plain(s) /\ Good(s) /\ r \in Resize(s, x, n)
  BY <1>1 DEF Sound, Plain, MpzRealloc2
<1>3. /\ Plain(r) /\ r.live = s.live /\ r.size[x] = KeptSize(s, x, n)
      /\ \A y \in s.live \ {x} : Keeps(s, r, y)
      /\ KeptSize(s, x, n) = s.size[x] => Keeps(s, r, x)
  BY <1>2, ResizeValue
<1>4. PICK k \in Int, a \in Nat, m \in Nat :
        /\ k = s.size[x] /\ a = AbSiz(s, x) /\ a = Abs(k) /\ m = Mag(s, x) /\ Exact(m, a)
        /\ Value(s, x) = Signed(k < 0, m) /\ Abs(Value(s, x)) = m
  BY Operand
<1>5. m < B^n <=> a <= n
  BY <1>4, SizeByValue
<1>6. CASE a <= n
  <2>1. KeptSize(s, x, n) = k
    BY <1>4, <1>6 DEF KeptSize
  <2>2. Mag(r, x) = m
    BY <1>2, <1>3, <1>4, <2>1, KeepsValue
  <2>3. r.size[x] = k
    BY <1>3, <2>1
  <2>4. Gives(s, r, x, Signed(k < 0, m))
    BY <1>3, <1>4, <2>2, <2>3, GivesBy
  <2> QED BY <1>1, <1>4, <1>5, <1>6, <2>4
<1>7. CASE ~(a <= n)
  <2>1. s.alloc[x] # 0
    BY <1>2, <1>4, <1>7, SizeRange
  <2>2. KeptSize(s, x, n) = 0
    BY <1>4, <1>7, <2>1 DEF KeptSize
  <2>3. r.size[x] = 0 /\ Mag(r, x) = 0
    BY <1>3, <2>2, MagZero DEF Plain, Good
  <2>4. Gives(s, r, x, Signed(0 < 0, 0))
    BY <1>3, <2>3, ZeroExact, GivesBy
  <2> QED BY <1>1, <1>4, <1>5, <1>7, <2>4, ZeroExact
<1> QED BY <1>6, <1>7

\* The destination got its room in a call that returns.
LEMMA GrowRuns ==
  ASSUME NEW s, Sound(s), NEW w \in s.live, NEW n \in Nat, NEW t \in Grow(s, w, n),
         NEW m, NEW v, NEW k \in Int,
         SetSiz(Put(t, t.d[w], m, v), w, k).status = "run"
  PROVE  t.status = "run"
<1>1. Plain(s) /\ Good(s) /\ s.status = "run"
  BY DEF Sound, Plain
<1>2. w \in Struct /\ Typed(t) /\ t.size = s.size
  BY <1>1, SizeRange, GrowGood
<1> QED BY <1>2, PutStatus, SetSizStatus

\* What an operand reads as once the destination has its room: nothing has changed.
LEMMA Reads ==
  ASSUME Powers, NEW s, Sound(s), NEW w \in s.live, NEW n \in Nat, NEW t \in Grow(s, w, n),
         t.status = "run", NEW y \in s.live
  PROVE  Source(s, t, y, AbSiz(s, y)) = Mag(s, y)
<1>1. Plain(s)
  BY DEF Sound
<1> QED BY <1>1, GrowValue

\* Sizes do not change.
LEMMA GrowSizes ==
  ASSUME NEW s, Sound(s), NEW w \in s.live, NEW n \in Nat, NEW t \in Grow(s, w, n)
  PROVE  t.size = s.size
<1>1. Plain(s) /\ Good(s) /\ s.status = "run"
  BY DEF Sound, Plain
<1> QED BY <1>1, GrowGood

\* mpz_set, and the copy of mpz_neg and mpz_abs: the limbs of u, with size k.
LEMMA CopyValue ==
  ASSUME Powers, NEW s, Sound(s), NEW w \in s.live, NEW u \in s.live,
         NEW t \in Grow(s, w, AbSiz(s, u)), NEW k \in Int, Abs(k) = AbSiz(s, u),
         Assign(t, w, Source(s, t, u, AbSiz(t, u)), k).status = "run"
  PROVE  Gives(s, Assign(t, w, Source(s, t, u, AbSiz(t, u)), k), w, Signed(k < 0, Mag(s, u)))
<1>1. PICK a \in Nat, m \in Nat : a = AbSiz(s, u) /\ m = Mag(s, u) /\ Exact(m, a)
  BY Operand
<1>2. PICK v : v = Source(s, t, u, AbSiz(t, u))
  OBVIOUS
<1>3. SetSiz(Put(t, t.d[w], Abs(k), v), w, k).status = "run"
  BY <1>2 DEF Assign
<1>4. t \in Grow(s, w, a) /\ Abs(k) = a
  BY <1>1
<1>5. t.size = s.size /\ Source(s, t, u, AbSiz(s, u)) = m
  <2>1. t.status = "run"
    BY <1>3, <1>4, GrowRuns
  <2>2. Source(s, t, u, AbSiz(s, u)) = Mag(s, u)
    BY <1>4, <2>1, Reads
  <2>3. t.size = s.size
    BY <1>4, GrowSizes
  <2> QED BY <1>1, <2>2, <2>3
<1>6. v = m
  BY <1>2, <1>5 DEF AbSiz
<1>7. SetSiz(Put(t, t.d[w], a, m), w, k).status = "run"
  BY <1>3, <1>4, <1>6
<1>8. Gives(s, SetSiz(Put(t, t.d[w], a, m), w, k), w, Signed(k < 0, m))
  BY <1>1, <1>4, <1>7, ResultValue
<1> QED BY <1>1, <1>2, <1>4, <1>6, <1>8 DEF Assign

\* mpz_set.
LEMMA SetValue ==
  ASSUME Powers, NEW s, Sound(s), NEW w \in s.live, NEW u \in s.live,
         NEW r \in MpzSet(s, w, u), r.status = "run"
  PROVE  Gives(s, r, w, Value(s, u))
<1>1. Good(s) /\ s.status = "run"
  BY DEF Sound, Plain
<1>2. PICK t \in Grow(s, w, AbSiz(s, u)) :
        r = Assign(t, w, Source(s, t, u, AbSiz(t, u)), t.size[u])
  BY DEF MpzSet
<1>3. PICK k \in Int : k = s.size[u] /\ Abs(k) = AbSiz(s, u)
                       /\ Value(s, u) = Signed(k < 0, Mag(s, u))
  BY Operand
<1>4. t.size[u] = k
  <2>1. AbSiz(s, u) \in Nat
    BY Operand
  <2>2. t.size = s.size
    BY <1>1, <2>1, GrowGood
  <2> QED BY <1>3, <2>2
<1>5. r = Assign(t, w, Source(s, t, u, AbSiz(t, u)), k)
  BY <1>2, <1>4
<1>6. Assign(t, w, Source(s, t, u, AbSiz(t, u)), k).status = "run"
  BY <1>5
<1> QED BY <1>3, <1>5, <1>6, CopyValue

\* An integer whose sign alone changes.
LEMMA ResignValue ==
  ASSUME Powers, NEW s, Sound(s), NEW w \in s.live, NEW u \in s.live,
         NEW k \in Int, Abs(k) = AbSiz(s, u), NEW r \in Resign(s, w, u, k), r.status = "run"
  PROVE  Gives(s, r, w, Signed(k < 0, Mag(s, u)))
<1>1. CASE u # w
  <2>1. PICK t \in Grow(s, w, AbSiz(s, u)) : r = Assign(t, w, Source(s, t, u, AbSiz(t, u)), k)
    BY <1>1 DEF Resign
  <2>2. Assign(t, w, Source(s, t, u, AbSiz(t, u)), k).status = "run"
    BY <2>1
  <2> QED BY <2>1, <2>2, CopyValue
<1>2. CASE u = w
  <2>1. Good(s) /\ Typed(s) /\ s.status = "run" /\ Plain(s) /\ Numbers(s) /\ Dummy(s)
    BY DEF Sound, Plain, Good
  <2>2. r = [s EXCEPT !.size[w] = k]
    BY <1>2 DEF Resign
  <2>3. \A y \in s.live : y \in Struct /\ AbSiz(s, y) <= s.alloc[y]
    BY <2>1, SizeRange
  <2>4. Good(r) /\ SameBlocks(s, r) /\ r.size = [s.size EXCEPT ![w] = k]
    <3> DEFINE q == [s EXCEPT !.size[w] = k]
    <3>1. Abs(k) <= s.alloc[w]
      BY <1>2, <2>3
    <3>2. Good(q) /\ SameBlocks(s, q) /\ q.size = [s.size EXCEPT ![w] = k]
      BY <2>1, <3>1, SizeGood
    <3>3. r = q
      BY <2>2
    <3> HIDE DEF q
    <3> QED BY <3>2, <3>3
  <2>5. r.limbs = s.limbs
    BY <2>1, <2>2 DEF Typed
  <2>6. r.size[w] = k /\ \A y \in s.live \ {w} : r.size[y] = s.size[y]
    BY <2>1, <2>3, <2>4 DEF Typed
  <2>7. \A p, m : Get(r, p, m) = Get(s, p, m)
    BY <2>4, <2>5 DEF Get, SameBlocks
  <2>8. Plain(r)
    BY <2>1, <2>4, <2>5 DEF Plain, SameBlocks, Numbers, Dummy
  <2>9. r.live = s.live /\ \A y \in s.live \ {w} : Keeps(s, r, y)
    BY <2>4, <2>6, <2>7 DEF Keeps, SameBlocks
  <2>10. Mag(r, w) = Mag(s, w)
    <3>1. AbSiz(r, w) = AbSiz(s, w)
      BY <1>2, <2>6 DEF AbSiz
    <3> QED BY <2>4, <2>7, <3>1 DEF Mag, SameBlocks
  <2>11. Exact(Mag(s, w), Abs(k))
    BY <1>2, Operand
  <2>12. Gives(s, r, w, Signed(k < 0, Mag(s, w)))
    BY <2>6, <2>8, <2>9, <2>10, <2>11, GivesBy
  <2> QED BY <1>2, <2>12
<1> QED BY <1>1, <1>2

\* mpz_neg.
LEMMA NegValue ==
  ASSUME Powers, NEW s, Sound(s), NEW w \in s.live, NEW u \in s.live,
         NEW r \in MpzNeg(s, w, u), r.status = "run"
  PROVE  Gives(s, r, w, -Value(s, u))
<1>1. PICK k \in Int, m \in Nat :
        /\ k = s.size[u] /\ Abs(k) = AbSiz(s, u) /\ m = Mag(s, u)
        /\ Value(s, u) = Signed(k < 0, m) /\ (m = 0 <=> k = 0)
  BY Operand
<1>2. -k \in Int /\ Abs(-k) = AbSiz(s, u)
  BY <1>1, AbsRange
<1>3. Gives(s, r, w, Signed(-k < 0, m))
  BY <1>1, <1>2, ResignValue DEF MpzNeg
<1>4. Signed(-k < 0, m) = -Signed(k < 0, m)
  BY <1>1 DEF Signed
<1> QED BY <1>1, <1>3, <1>4

\* mpz_abs.
LEMMA AbsValue ==
  ASSUME Powers, NEW s, Sound(s), NEW w \in s.live, NEW u \in s.live,
         NEW r \in MpzAbs(s, w, u), r.status = "run"
  PROVE  Gives(s, r, w, Abs(Value(s, u)))
<1>1. PICK a \in Nat, m \in Nat : a = AbSiz(s, u) /\ m = Mag(s, u) /\ Abs(Value(s, u)) = m
  BY Operand
<1>2. a \in Int /\ Abs(a) = a /\ ~(a < 0)
  BY <1>1 DEF Abs
<1>3. Gives(s, r, w, Signed(a < 0, m))
  BY <1>1, <1>2, ResignValue DEF MpzAbs
<1>4. Signed(a < 0, m) = m
  BY <1>2 DEF Signed
<1> QED BY <1>1, <1>3, <1>4

\* mpz_swap.
LEMMA SwapValue ==
  ASSUME Powers, NEW s, Sound(s), NEW u \in s.live, NEW v \in s.live, NEW r \in MpzSwap(s, u, v)
  PROVE  /\ Sound(r) /\ r.live = s.live
         /\ Value(r, u) = Value(s, v) /\ Value(r, v) = Value(s, u)
         /\ \A y \in s.live \ {u, v} : Value(r, y) = Value(s, y)
<1>1. Good(s) /\ Typed(s) /\ s.status = "run" /\ Numbers(s) /\ Dummy(s)
  BY DEF Sound, Plain, Good
<1>2. Good(r)
  BY <1>1, SwapGood
<1>3. r = [alloc |-> SwappedField(s.alloc, u, v), size |-> SwappedField(s.size, u, v),
           d |-> SwappedField(s.d, u, v), len |-> s.len, limbs |-> s.limbs, live |-> s.live,
           fault |-> s.fault, status |-> s.status]
  BY <1>1 DEF MpzSwap, Typed
<1> DEFINE other(y) == IF y = v THEN u ELSE IF y = u THEN v ELSE y
<1>4. \A y \in s.live : y \in Struct /\ other(y) \in s.live
  BY <1>1, SizeRange
<1>5. \A f, y : f = [x \in Struct |-> f[x]] /\ y \in Struct =>
                  SwappedField(f, u, v)[y] = f[other(y)]
  BY <1>4 DEF SwappedField
<1>6. \A y \in s.live : /\ r.alloc[y] = s.alloc[other(y)] /\ r.size[y] = s.size[other(y)]
                        /\ r.d[y] = s.d[other(y)]
  <2>1. /\ s.alloc = [x \in Struct |-> s.alloc[x]] /\ s.size = [x \in Struct |-> s.size[x]]
        /\ s.d = [x \in Struct |-> s.d[x]]
    BY <1>1 DEF Typed
  <2>2. r.alloc = SwappedField(s.alloc, u, v) /\ r.size = SwappedField(s.size, u, v)
        /\ r.d = SwappedField(s.d, u, v)
    BY <1>3
  <2> QED BY <1>4, <1>5, <2>1, <2>2
<1>7. r.live = s.live /\ r.status = "run" /\ r.limbs = s.limbs /\ r.len = s.len
  BY <1>1, <1>3
<1>8. \A p, n : Get(r, p, n) = Get(s, p, n)
  BY <1>7 DEF Get
<1>9. \A y \in s.live : /\ AbSiz(r, y) = AbSiz(s, other(y)) /\ Mag(r, y) = Mag(s, other(y))
                        /\ Value(r, y) = Value(s, other(y))
  BY <1>6, <1>8 DEF AbSiz, Mag, Value
<1>10. Numbers(r) /\ Dummy(r)
  BY <1>1, <1>4, <1>6, <1>7 DEF Numbers, Dummy
<1>11. Sound(r)
  <2>1. \A y \in s.live : Exact(Mag(s, y), AbSiz(s, y))
    BY DEF Sound
  <2>2. \A y \in s.live : Exact(Mag(r, y), AbSiz(r, y))
    BY <1>4, <1>9, <2>1
  <2> QED BY <1>2, <1>7, <1>10, <2>2 DEF Sound, Plain
<1>12. other(u) = v /\ other(v) = u /\ \A y \in s.live \ {u, v} : other(y) = y
  OBVIOUS
<1> HIDE DEF other
<1> QED BY <1>7, <1>9, <1>11, <1>12

\* An integer of one limb, or none.
LEMMA LimbExact ==
  ASSUME Powers, NEW v \in Nat, v < B
  PROVE  Exact(v, Bit(v # 0)) /\ Bit(v # 0) \in Nat /\ Bit(v # 0) <= 1
<1>1. CASE v = 0
  <2>1. Bit(v # 0) = 0
    BY <1>1 DEF Bit
  <2> QED BY <1>1, <2>1, ZeroExact
<1>2. CASE v # 0
  <2>1. Bit(v # 0) = 1 /\ v >= 1 /\ 1 - 1 = 0
    BY <1>2 DEF Bit
  <2> QED BY <2>1, Base DEF Exact
<1> QED BY <1>1, <1>2

\* mpz_set_si.
LEMMA SetSiValue ==
  ASSUME Powers, NEW s, Sound(s), NEW w \in s.live, NEW n \in Int, Abs(n) < B,
         NEW r \in MpzSetSi(s, w, n), r.status = "run"
  PROVE  Gives(s, r, w, n)
<1>1. PICK a \in Nat : a = Abs(n) /\ (a # 0 <=> n # 0)
  BY AbsRange
<1>2. PICK k \in Nat : k = Bit(n # 0) /\ k <= 1 /\ Exact(a, k)
  <2>1. Bit(a # 0) = Bit(n # 0)
    BY <1>1 DEF Bit
  <2> QED BY <1>1, <2>1, LimbExact
<1>3. PICK p \in BOOLEAN : p <=> n < 0
  OBVIOUS
<1>4. PICK t \in Grow(s, w, 1) : r = Assign(t, w, a, Signed(p, k))
  <2>1. Signed(n < 0, k) = Signed(p, k)
    BY <1>3 DEF Signed
  <2> QED BY <1>1, <1>2, <2>1 DEF MpzSetSi
<1>5. Abs(Signed(p, k)) = k
  BY SignedRange
<1>6. r = SetSiz(Put(t, t.d[w], k, a), w, Signed(p, k))
  BY <1>4, <1>5 DEF Assign
<1>7. SetSiz(Put(t, t.d[w], k, a), w, Signed(p, k)).status = "run"
  BY <1>6
<1>8. Gives(s, SetSiz(Put(t, t.d[w], k, a), w, Signed(p, k)), w, Signed(p, a))
  BY <1>2, <1>7, SignedResult
<1>9. Signed(p, a) = n
  BY <1>1, <1>3 DEF Signed, Abs
<1> QED BY <1>6, <1>8, <1>9

\* A product with 0.
LEMMA ZeroValue ==
  ASSUME Powers, NEW s, Sound(s), NEW w \in s.live
  PROVE  Gives(s, SetSiz(s, w, 0), w, 0)
<1>1. Plain(s) /\ Good(s) /\ Typed(s)
  BY DEF Sound, Plain, Good
<1> DEFINE q == SetSiz(Put(s, s.d[w], 0, 0), w, 0)
<1>2. q = SetSiz(s, w, 0)
  BY DEF Put
<1>3. /\ Plain(q) /\ q.live = s.live /\ q.size = [s.size EXCEPT ![w] = 0]
      /\ Mag(q, w) = Low(0, Abs(0))
      /\ \A y \in s.live \ {w} : Keeps(s, q, y)
  <2>1. 0 <= s.alloc[w] /\ Abs(0) <= 0
    BY <1>1, SizeRange DEF Abs
  <2> QED BY <1>1, <2>1, WriteValue, SMTT(60)
<1> HIDE DEF q
<1>4. q.size[w] = 0
  BY <1>1, <1>3, SizeRange DEF Typed
<1>5. Mag(q, w) = 0
  BY <1>3, <1>4, MagZero DEF Plain, Good
<1>6. Gives(s, q, w, Signed(0 < 0, 0))
  <2>1. Exact(0, Abs(0)) /\ 0 \in Int
    BY ZeroExact
  <2> QED BY <1>3, <1>4, <1>5, <2>1, GivesBy
<1> QED BY <1>2, <1>6, ZeroExact

\* The size of a sum, of the operand with more limbs and a carry.
LEMMA SumExact ==
  ASSUME Powers, NEW a, NEW n \in Nat, NEW b, NEW j \in Nat, Exact(a, n), b \in Nat, b < B^j,
         j <= n
  PROVE  a + b \in Nat /\ Exact(a + b, n + Bit(a + b >= B^n))
<1>1. PICK c \in Nat, d \in Nat : c = B^n /\ d = B^(n + 1) /\ 2 * c <= d
  BY Around
<1>2. B^j <= B^n /\ B^j \in Nat
  BY Base, PowOrder
<1>3. a \in Nat /\ a < c /\ b < c
  BY <1>1, <1>2 DEF Exact
<1>4. PICK v \in Nat : v = a + b
  BY <1>3
<1>5. v < B^(n + 1)
  BY <1>1, <1>3, <1>4
<1>6. n > 0 => B^(n - 1) <= v
  <2> SUFFICES ASSUME n > 0 PROVE B^(n - 1) <= v
    OBVIOUS
  <2>1. B^(n - 1) \in Nat /\ B^(n - 1) <= a
    BY Around DEF Exact
  <2> QED BY <1>3, <1>4, <2>1
<1> QED BY <1>4, <1>5, <1>6, CarryExact

\* A difference: the operand with fewer limbs is the smaller one.
LEMMA DiffExact ==
  ASSUME Powers, NEW a, NEW n \in Nat, NEW b, NEW j \in Nat, Exact(a, n), Exact(b, j), j <= n
  PROVE  LET less == j = n /\ a < b
             v == IF less THEN b - a ELSE a - b
             q == Low(v, n)
         IN  q = v /\ v \in Nat /\ Exact(q, Normalize(q, n)) /\ Normalize(q, n) \in 0..n
<1> DEFINE less == j = n /\ a < b
<1>1. a \in Nat /\ b \in Nat /\ B^n \in Nat /\ a < B^n
  BY Base DEF Exact
<1>2. CASE less
  <2>1. PICK v \in Nat : v = b - a
    BY <1>1, <1>2
  <2>2. v < B^n
    BY <1>1, <1>2, <2>1 DEF Exact
  <2>3. Low(v, n) = v
    BY <2>2, LowIs
  <2>4. Exact(v, Normalize(v, n)) /\ Normalize(v, n) \in 0..n
    BY <2>2, NormalizeExact
  <2> QED BY <1>2, <2>1, <2>3, <2>4
<1>3. CASE ~less
  <2>0. b <= a
    <3>1. j < n => b < a
      BY ExactOrder
    <3> QED BY <1>1, <1>3, <3>1
  <2>1. PICK v \in Nat : v = a - b
    BY <1>1, <2>0
  <2>2. v < B^n
    BY <1>1, <2>0, <2>1 DEF Exact
  <2>3. Low(v, n) = v
    BY <2>2, LowIs
  <2>4. Exact(v, Normalize(v, n)) /\ Normalize(v, n) \in 0..n
    BY <2>2, NormalizeExact
  <2> QED BY <1>3, <2>1, <2>3, <2>4
<1> QED BY <1>2, <1>3

\* mpz_add sets the size of its result, which SIZ of the result then confirms.
LEMMA SizedAgain ==
  ASSUME NEW t, Typed(t), NEW w \in Struct, NEW m, NEW v, NEW k \in Int
  PROVE  SetSiz(Sized(t, w, m, v, k), w, Sized(t, w, m, v, k).size[w])
           = SetSiz(Put(t, t.d[w], m, v), w, k)
<1> DEFINE p == Put(t, t.d[w], m, v)
<1>1. Typed(p)
  BY PutStatus
<1>2. Sized(t, w, m, v, k) = [p EXCEPT !.size[w] = k]
  BY DEF Sized
<1> HIDE DEF p
<1>3. PICK z : z = [p EXCEPT !.size[w] = k]
  OBVIOUS
<1>4. /\ z.size = [p.size EXCEPT ![w] = k] /\ z.size[w] = k
      /\ z = [alloc |-> p.alloc, size |-> [p.size EXCEPT ![w] = k], d |-> p.d, len |-> p.len,
              limbs |-> p.limbs, live |-> p.live, fault |-> p.fault, status |-> p.status]
  BY <1>1, <1>3 DEF Typed
<1>5. [z EXCEPT !.size[w] = k] = z
  <2>1. [[p.size EXCEPT ![w] = k] EXCEPT ![w] = k] = [p.size EXCEPT ![w] = k]
    BY <1>1 DEF Typed
  <2> QED BY <1>4, <2>1
<1>6. z.d = p.d /\ z.len = p.len
  BY <1>4
<1>7. SetSiz(z, w, k) = SetSiz(p, w, k)
  <2>1. PICK y : y = [z EXCEPT !.size[w] = k]
    OBVIOUS
  <2>2. y = z /\ y = [p EXCEPT !.size[w] = k]
    BY <1>3, <1>5, <2>1
  <2>3. PICK e : e = IF p.d[w] \in DOMAIN p.len /\ p.len[p.d[w]] >= Abs(k)
                     THEN [y EXCEPT !.limbs[p.d[w]] = Low(@, Abs(k)) + Ones(Abs(k), p.len[p.d[w]])]
                     ELSE y
    OBVIOUS
  <2>4. SetSiz(p, w, k) = e
    BY <2>2, <2>3 DEF SetSiz
  <2>5. SetSiz(z, w, k) = e
    BY <1>6, <2>1, <2>2, <2>3 DEF SetSiz
  <2> QED BY <2>4, <2>5
<1> QED BY <1>2, <1>3, <1>4, <1>7 DEF p

\* mpz_add and mpz_sub.
LEMMA AorsValue ==
  ASSUME Powers, NEW s, Sound(s), NEW w \in s.live, NEW u \in s.live, NEW v \in s.live,
         NEW sub \in BOOLEAN, NEW r \in MpzAors(s, w, u, v, sub), r.status = "run"
  PROVE  Gives(s, r, w, IF sub THEN Value(s, u) - Value(s, v) ELSE Value(s, u) + Value(s, v))
<1> DEFINE vsize == Signed(sub, s.size[v])
           swap  == AbSiz(s, u) < AbSiz(s, v)
           a     == IF swap THEN v ELSE u
           b     == IF swap THEN u ELSE v
           asize == IF swap THEN vsize ELSE s.size[u]
           bsize == IF swap THEN s.size[u] ELSE vsize
           n     == Abs(asize)
           add(t, av, bv) ==
             Sized(t, w, n + 1, av + bv, Signed(asize < 0, n + Bit(av + bv >= B^n)))
           diff(t, av, bv) ==
             LET less == Abs(bsize) = n /\ av < bv
                 q    == Low(IF less THEN bv - av ELSE av - bv, n)
             IN  Sized(t, w, n, q, Signed((asize < 0) # less, Normalize(q, n)))
           sum(t, av, bv) == IF (asize < 0) = (bsize < 0) THEN add(t, av, bv)
                             ELSE diff(t, av, bv)
           promise == IF sub THEN Value(s, u) - Value(s, v) ELSE Value(s, u) + Value(s, v)
<1>0. PICK t \in Grow(s, w, n + 1) :
        LET av == Source(s, t, a, n)
            bv == Source(s, t, b, Abs(bsize))
        IN  r = SetSiz(sum(t, av, bv), w, sum(t, av, bv).size[w])
  BY ZenonT(60) DEF MpzAors, Sized
<1> DEFINE av == Source(s, t, a, n)
           bv == Source(s, t, b, Abs(bsize))
<1>1. r = SetSiz(sum(t, av, bv), w, sum(t, av, bv).size[w])
  BY <1>0, ZenonT(60)
<1>2. PICK us \in Int, mu \in Nat :
        /\ us = s.size[u] /\ mu = Mag(s, u) /\ AbSiz(s, u) = Abs(us) /\ Exact(mu, Abs(us))
        /\ Value(s, u) = Signed(us < 0, mu) /\ (mu = 0 <=> us = 0)
  BY Operand
<1>3. PICK vs \in Int, mv \in Nat :
        /\ vs = s.size[v] /\ mv = Mag(s, v) /\ AbSiz(s, v) = Abs(vs) /\ Exact(mv, Abs(vs))
        /\ Value(s, v) = Signed(vs < 0, mv) /\ (mv = 0 <=> vs = 0)
  BY Operand
<1>4. PICK vz \in Int :
        /\ vz = vsize /\ Abs(vz) = Abs(vs)
        /\ Signed(vz < 0, mv) = IF sub THEN -Value(s, v) ELSE Value(s, v)
  <2>1. vsize \in Int /\ Abs(vsize) = Abs(vs)
    BY <1>3, AbsRange DEF Signed
  <2>2. Signed(vsize < 0, mv) = IF sub THEN -Value(s, v) ELSE Value(s, v)
    BY <1>3 DEF Signed
  <2> QED BY <2>1, <2>2
<1>5. Signed(us < 0, mu) + Signed(vz < 0, mv) = promise
  <2>1. Signed(us < 0, mu) \in Int /\ Signed(vs < 0, mv) \in Int
    BY DEF Signed
  <2> QED BY <1>2, <1>3, <1>4, <2>1
<1> HIDE DEF promise
<1>6. PICK A \in Nat, C \in Nat, az \in Int, cz \in Int, x \in s.live, y \in s.live :
        /\ az = asize /\ cz = bsize /\ x = a /\ y = b
        /\ A = Mag(s, x) /\ AbSiz(s, x) = Abs(az) /\ Exact(A, Abs(az))
        /\ C = Mag(s, y) /\ AbSiz(s, y) = Abs(cz) /\ Exact(C, Abs(cz))
        /\ Abs(cz) <= Abs(az)
        /\ Signed(az < 0, A) + Signed(cz < 0, C) = promise
  <2>0. Abs(us) \in Nat /\ Abs(vz) \in Nat
    BY AbsRange
  <2>1. CASE swap
    <3>1. asize = vz /\ bsize = us /\ a = v /\ b = u /\ Abs(us) <= Abs(vz)
      BY <1>2, <1>3, <1>4, <2>0, <2>1
    <3>2. Signed(vz < 0, mv) + Signed(us < 0, mu) = promise
      BY <1>5 DEF Signed
    <3> HIDE DEF a, b, asize, bsize
    <3> QED BY <1>2, <1>3, <1>4, <3>1, <3>2
  <2>2. CASE ~swap
    <3>1. asize = us /\ bsize = vz /\ a = u /\ b = v /\ Abs(vz) <= Abs(us)
      BY <1>2, <1>3, <1>4, <2>0, <2>2
    <3> HIDE DEF a, b, asize, bsize
    <3> QED BY <1>2, <1>3, <1>4, <1>5, <3>1
  <2> QED BY <2>1, <2>2
<1>7. PICK N \in Nat, j \in Nat : N = Abs(az) /\ j = Abs(cz) /\ N = n /\ j = Abs(bsize) /\ j <= N
  <2>1. Abs(az) \in Nat /\ Abs(cz) \in Nat /\ n = Abs(az) /\ Abs(bsize) = Abs(cz)
    BY <1>6, AbsRange
  <2> QED BY <1>6, <2>1
<1>8. av = Source(s, t, x, AbSiz(s, x)) /\ bv = Source(s, t, y, AbSiz(s, y))
  BY <1>6, <1>7
<1>9. t \in Grow(s, w, N + 1) /\ N + 1 \in Nat
  BY <1>7
<1>10. w \in Struct /\ Typed(t)
  BY <1>9, SizeRange, GrowGood DEF Sound, Plain
<1>11. t.status = "run" => av = A /\ bv = C
  BY <1>6, <1>8, <1>9, Reads
<1> HIDE DEF n, a, b, av, bv, asize, bsize, swap
<1>12. CASE (asize < 0) = (bsize < 0)
  <2>1. PICK p \in BOOLEAN : (p <=> az < 0) /\ (p <=> cz < 0)
    BY <1>6, <1>12
  <2> DEFINE k == Signed(p, N + Bit(av + bv >= B^N))
  <2>2. k \in Int
    BY BitRange, SignedRange
  <2>3. sum(t, av, bv) = Sized(t, w, N + 1, av + bv, k)
    BY <1>6, <1>7, <1>12, <2>1 DEF Signed
  <2> HIDE DEF k, sum
  <2>4. r = SetSiz(Put(t, t.d[w], N + 1, av + bv), w, k)
    BY <1>1, <1>10, <2>2, <2>3, SizedAgain
  <2>5. SetSiz(Put(t, t.d[w], N + 1, av + bv), w, k).status = "run"
    BY <2>4
  <2>6. t.status = "run"
    BY <1>9, <2>2, <2>5, GrowRuns
  <2>7. PICK z \in Nat, l \in Nat :
          z = A + C /\ l = N + Bit(z >= B^N) /\ Exact(z, l) /\ l <= N + 1
    <3>1. A + C \in Nat /\ Exact(A + C, N + Bit(A + C >= B^N))
      <4>1. C < B^j /\ Exact(A, N)
        BY <1>6, <1>7 DEF Exact
      <4> QED BY <1>7, <4>1, SumExact
    <3>2. N + Bit(A + C >= B^N) \in Nat /\ N + Bit(A + C >= B^N) <= N + 1
      BY BitRange
    <3> QED BY <3>1, <3>2
  <2>8. r = SetSiz(Put(t, t.d[w], N + 1, z), w, Signed(p, l))
    BY <1>11, <2>4, <2>6, <2>7 DEF k
  <2>9. SetSiz(Put(t, t.d[w], N + 1, z), w, Signed(p, l)).status = "run"
    BY <2>8
  <2>10. Gives(s, r, w, Signed(p, z))
    BY <1>9, <2>7, <2>8, <2>9, SignedResult
  <2>11. Signed(p, z) = promise
    BY <1>6, <2>1, <2>7 DEF Signed
  <2> QED BY <2>10, <2>11 DEF promise
<1>13. CASE (asize < 0) # (bsize < 0)
  <2>1. PICK less \in BOOLEAN : less <=> j = N /\ av < bv
    OBVIOUS
  <2>2. PICK p \in BOOLEAN : p <=> ((az < 0) # less)
    OBVIOUS
  <2> DEFINE d == Low(IF less THEN bv - av ELSE av - bv, N)
             k == Signed(p, Normalize(d, N))
  <2>3. k \in Int
    BY NormalizeRange, SignedRange
  <2>4. sum(t, av, bv) = Sized(t, w, N, d, k)
    BY <1>6, <1>7, <1>13, <2>1, <2>2 DEF Signed
  <2> HIDE DEF k, d, sum
  <2>5. r = SetSiz(Put(t, t.d[w], N, d), w, k)
    BY <1>1, <1>10, <2>3, <2>4, SizedAgain
  <2>6. SetSiz(Put(t, t.d[w], N, d), w, k).status = "run"
    BY <2>5
  <2>7. t.status = "run"
    BY <1>9, <2>3, <2>6, GrowRuns, SMTT(30)
  <2>8. PICK z \in Nat, l \in Nat :
          /\ z = d /\ l = Normalize(d, N) /\ Exact(z, l) /\ l <= N
          /\ z = IF less THEN C - A ELSE A - C
    <3>1. Exact(A, N) /\ Exact(C, j)
      BY <1>6, <1>7
    <3> DEFINE e == IF j = N /\ A < C THEN C - A ELSE A - C
               q == Low(e, N)
    <3>2. q = e /\ e \in Nat /\ Exact(q, Normalize(q, N)) /\ Normalize(q, N) \in 0..N
      BY <1>7, <3>1, DiffExact
    <3>3. d = q /\ e = IF less THEN C - A ELSE A - C
      BY <1>11, <2>1, <2>7 DEF d
    <3> HIDE DEF e, q
    <3> QED BY <3>2, <3>3
  <2>9. r = SetSiz(Put(t, t.d[w], N, z), w, Signed(p, l))
    BY <2>5, <2>8 DEF k
  <2>10. SetSiz(Put(t, t.d[w], N, z), w, Signed(p, l)).status = "run" /\ N <= N + 1
    BY <2>9
  <2>11. Gives(s, r, w, Signed(p, z))
    BY <1>9, <2>8, <2>9, <2>10, SignedResult
  <2>12. Signed(p, z) = promise
    BY <1>6, <1>13, <2>2, <2>8 DEF Signed
  <2> QED BY <2>11, <2>12 DEF promise
<1> QED BY <1>12, <1>13, Zenon

\* Less one limb, a number loses one limb at most.
LEMMA DropExact ==
  ASSUME Powers, NEW a, NEW n \in Nat \ {0}, Exact(a, n), NEW b \in Nat, b < B, n = 1 => b <= a
  PROVE  b <= a /\ a - b \in Nat /\ a - b < B^n /\ Exact(a - b, n - Bit(High(a - b, n - 1) = 0))
<1>1. a \in Nat /\ a < B^n /\ B^n \in Nat /\ B^(n - 1) <= a /\ B \in Nat
  BY Base DEF Exact
<1>2. b <= a /\ (n > 1 => B^(n - 2) <= a - b)
  <2>1. CASE n = 1
    BY <2>1
  <2>2. CASE n > 1
    <3>1. PICK k \in Nat : k = n - 2 /\ n - 1 = k + 1
      BY <2>2
    <3>2. PICK c \in Nat \ {0} : c = B^k /\ B^(n - 1) = B * c /\ (k > 0 => B <= c) /\ (k = 0 => c = 1)
      <4>1. B^k \in Nat \ {0} /\ B^(n - 1) = B * B^k /\ (k = 0 => B^k = 1)
        BY <3>1, Around
      <4>2. k > 0 => B <= B^k
        <5> SUFFICES ASSUME k > 0 PROVE B <= B^k
          OBVIOUS
        <5>1. 1 <= k /\ B \in Nat \ {0}
          BY Base
        <5>2. B^1 <= B^k
          BY <5>1, PowOrder
        <5> QED BY <5>2, Base
      <4> QED BY <4>1, <4>2
    <3>3. PICK base \in Nat : base = B /\ base >= 2
      BY Base
    <3>4. base * c >= c + c
      BY <3>3
    <3>5. k = 0 => base * c = base
      BY <3>2
    <3>6. b <= a /\ c <= a - b
      <4>1. CASE k = 0
        BY <1>1, <3>2, <3>3, <3>5, <4>1
      <4>2. CASE k > 0
        BY <1>1, <3>2, <3>3, <3>4, <4>2
      <4> QED BY <4>1, <4>2
    <3> QED BY <3>1, <3>2, <3>6
  <2> QED BY <2>1, <2>2
<1>3. PICK v \in Nat : v = a - b
  BY <1>1, <1>2
<1>4. v < B^n
  BY <1>1, <1>3
<1> QED BY <1>2, <1>3, <1>4, StripExact

\* mpz_add_ui and mpz_sub_ui.
LEMMA AorsUiValue ==
  ASSUME Powers, NEW s, Sound(s), NEW w \in s.live, NEW u \in s.live,
         NEW vval \in Nat, vval < B, NEW sub \in BOOLEAN,
         NEW r \in MpzAorsUi(s, w, u, vval, sub), r.status = "run"
  PROVE  Gives(s, r, w, IF sub THEN Value(s, u) - vval ELSE Value(s, u) + vval)
<1> DEFINE usize == s.size[u]
           promise == IF sub THEN Value(s, u) - vval ELSE Value(s, u) + vval
           away == IF sub THEN usize < 0 ELSE usize >= 0
<1>1. PICK us \in Int, M \in Nat, n \in Nat :
        /\ us = usize /\ M = Mag(s, u) /\ n = Abs(us) /\ AbSiz(s, u) = n /\ Exact(M, n)
        /\ Value(s, u) = Signed(us < 0, M) /\ (M = 0 <=> us = 0) /\ n = Abs(usize)
  <2>1. AbSiz(s, u) \in Nat
    BY Operand
  <2> QED BY <2>1, Operand
<1>2. us # 0 => n >= 1
  BY <1>1, AbsRange
<1>3. CASE usize = 0
  <2>1. PICK t \in Grow(s, w, 1) :
          r = SetSiz(Put(t, t.d[w], 1, vval), w, Signed(sub, Bit(vval # 0)))
    BY <1>3 DEF MpzAorsUi
  <2>2. PICK k \in Nat : k = Bit(vval # 0) /\ Exact(vval, k) /\ k <= 1
    BY LimbExact
  <2>3. r = SetSiz(Put(t, t.d[w], 1, vval), w, Signed(sub, k))
    BY <2>1, <2>2
  <2>4. SetSiz(Put(t, t.d[w], 1, vval), w, Signed(sub, k)).status = "run" /\ 1 \in Nat /\ 1 <= 1
    BY <2>3
  <2>5. Gives(s, r, w, Signed(sub, vval))
    BY <2>2, <2>3, <2>4, SignedResult
  <2>6. Signed(sub, vval) = promise
    BY <1>1, <1>3 DEF Signed
  <2> QED BY <2>5, <2>6
<1>4. CASE usize # 0 /\ away
  <2>1. PICK t \in Grow(s, w, n + 1) :
          LET sum == Source(s, t, u, n) + vval
          IN  r = SetSiz(Put(t, t.d[w], n + 1, sum), w, Signed(sub, n + Bit(sum >= B^n)))
    BY <1>1, <1>4 DEF MpzAorsUi
  <2> DEFINE sum == Source(s, t, u, n) + vval
             k == Signed(sub, n + Bit(sum >= B^n))
  <2>2. k \in Int
    BY BitRange, SignedRange
  <2>3. r = SetSiz(Put(t, t.d[w], n + 1, sum), w, k)
    BY <2>1
  <2> HIDE DEF sum, k
  <2>4. SetSiz(Put(t, t.d[w], n + 1, sum), w, k).status = "run" /\ n + 1 \in Nat
    BY <2>3
  <2>5. t.status = "run"
    BY <2>2, <2>4, GrowRuns, SMTT(30)
  <2>6. Source(s, t, u, n) = M
    BY <1>1, <2>4, <2>5, Reads
  <2>7. PICK z \in Nat, l \in Nat :
          z = M + vval /\ l = n + Bit(z >= B^n) /\ Exact(z, l) /\ l <= n + 1
    <3>1. M + vval \in Nat /\ Exact(M + vval, n + Bit(M + vval >= B^n))
      <4>1. vval < B^1 /\ 1 <= n /\ 1 \in Nat
        BY <1>1, <1>2, <1>4, Base
      <4> QED BY <1>1, <4>1, SumExact
    <3>2. n + Bit(M + vval >= B^n) \in Nat /\ n + Bit(M + vval >= B^n) <= n + 1
      BY BitRange
    <3> QED BY <3>1, <3>2
  <2>8. r = SetSiz(Put(t, t.d[w], n + 1, z), w, Signed(sub, l))
    BY <2>3, <2>6, <2>7 DEF sum, k
  <2>9. SetSiz(Put(t, t.d[w], n + 1, z), w, Signed(sub, l)).status = "run"
    BY <2>8
  <2>10. Gives(s, r, w, Signed(sub, z))
    BY <2>4, <2>7, <2>8, <2>9, SignedResult
  <2>11. Signed(sub, z) = promise
    BY <1>1, <1>4, <2>7 DEF Signed
  <2> QED BY <2>10, <2>11
<1>5. CASE usize # 0 /\ ~away
  <2>1. PICK t \in Grow(s, w, n) :
          LET up == Source(s, t, u, n)
              less == n = 1 /\ up < vval
              q == Low(IF less THEN vval - up ELSE up - vval, n)
              size == IF less THEN 1 ELSE n - Bit(High(q, n - 1) = 0)
          IN  r = SetSiz(Put(t, t.d[w], n, q), w, Signed(sub # ~less, size))
    BY <1>1, <1>5 DEF MpzAorsUi
  <2> DEFINE up == Source(s, t, u, n)
  <2>2. PICK less \in BOOLEAN : less <=> n = 1 /\ up < vval
    OBVIOUS
  <2>3. PICK p \in BOOLEAN : p <=> (sub # ~less)
    OBVIOUS
  <2> DEFINE q == Low(IF less THEN vval - up ELSE up - vval, n)
             k == Signed(p, IF less THEN 1 ELSE n - Bit(High(q, n - 1) = 0))
  <2>4. k \in Int
    <3>1. (IF less THEN 1 ELSE n - Bit(High(q, n - 1) = 0)) \in Int
      BY BitRange
    <3> QED BY <3>1 DEF Signed
  <2>5. r = SetSiz(Put(t, t.d[w], n, q), w, k)
    BY <2>1, <2>2, <2>3 DEF Signed
  <2> HIDE DEF q, k, up
  <2>6. SetSiz(Put(t, t.d[w], n, q), w, k).status = "run"
    BY <2>5
  <2>7. t.status = "run"
    BY <2>4, <2>6, GrowRuns
  <2>8. up = M
    BY <1>1, <2>7, Reads DEF up
  <2>9. n \in Nat \ {0}
    BY <1>1, <1>2, <1>5
  <2>10. PICK z \in Nat, l \in Nat :
           /\ z = IF less THEN vval - M ELSE M - vval
           /\ z = q /\ Exact(z, l) /\ l <= n /\ k = Signed(p, l)
    <3>1. CASE less
      <4>1. PICK z \in Nat : z = vval - M /\ z # 0 /\ z < B
        BY <2>2, <2>8, <3>1, Base
      <4>2. z < B^n /\ n = 1
        BY <2>2, <3>1, <4>1, Base
      <4>3. q = z
        BY <2>8, <3>1, <4>1, <4>2, LowIs DEF q
      <4>4. Exact(z, 1)
        <5>1. Bit(z # 0) = 1
          BY <4>1 DEF Bit
        <5> QED BY <4>1, <5>1, LimbExact
      <4>5. k = Signed(p, 1)
        BY <3>1 DEF k
      <4> QED BY <3>1, <4>1, <4>2, <4>3, <4>4, <4>5
    <3>2. CASE ~less
      <4>1. n = 1 => vval <= M
        BY <2>2, <2>8, <3>2
      <4>2. M - vval \in Nat /\ M - vval < B^n
            /\ Exact(M - vval, n - Bit(High(M - vval, n - 1) = 0))
        BY <1>1, <2>9, <4>1, DropExact
      <4>3. PICK z \in Nat : z = M - vval
        BY <4>2
      <4>4. q = z
        BY <2>8, <3>2, <4>2, <4>3, LowIs DEF q
      <4>5. PICK l \in Nat : l = n - Bit(High(z, n - 1) = 0) /\ l <= n
        <5>1. n - Bit(High(z, n - 1) = 0) \in Nat /\ n - Bit(High(z, n - 1) = 0) <= n
          BY <2>9, BitRange
        <5> QED BY <5>1
      <4>6. k = Signed(p, l)
        BY <3>2, <4>4, <4>5 DEF k
      <4> QED BY <3>2, <4>2, <4>3, <4>4, <4>5, <4>6
    <3> QED BY <3>1, <3>2
  <2>11. r = SetSiz(Put(t, t.d[w], n, z), w, Signed(p, l))
    BY <2>5, <2>10
  <2>12. SetSiz(Put(t, t.d[w], n, z), w, Signed(p, l)).status = "run" /\ n <= n
    BY <2>11
  <2>13. Gives(s, r, w, Signed(p, z))
    BY <2>10, <2>11, <2>12, SignedResult
  <2>14. Signed(p, z) = promise
    BY <1>1, <1>5, <2>3, <2>10 DEF Signed
  <2> QED BY <2>13, <2>14
<1> QED BY <1>3, <1>4, <1>5

\* A carry: w gets the n limbs of a sum and one more if it needs it.
LEMMA CarryValue ==
  ASSUME Powers, NEW s, Sound(s), NEW w \in s.live, NEW n \in Nat, NEW t \in Grow(s, w, n + 1),
         NEW z, Exact(z, n + Bit(z >= B^n)), NEW p \in BOOLEAN,
         SetSiz(Put(t, t.d[w], n + 1, z), w, Signed(p, n + Bit(z >= B^n))).status = "run"
  PROVE  Gives(s, SetSiz(Put(t, t.d[w], n + 1, z), w, Signed(p, n + Bit(z >= B^n))),
               w, Signed(p, z))
<1>1. PICK l \in Nat : l = n + Bit(z >= B^n) /\ l <= n + 1
  <2>1. n + Bit(z >= B^n) \in Nat /\ n + Bit(z >= B^n) <= n + 1
    BY BitRange
  <2> QED BY <2>1
<1>2. SetSiz(Put(t, t.d[w], n + 1, z), w, Signed(p, l)).status = "run" /\ Exact(z, l)
      /\ n + 1 \in Nat /\ n + 1 <= n + 1
  BY <1>1
<1>3. Gives(s, SetSiz(Put(t, t.d[w], n + 1, z), w, Signed(p, l)), w, Signed(p, z))
  BY <1>1, <1>2, SignedResult
<1> QED BY <1>1, <1>3

\* mpz_ui_sub.
LEMMA UiSubValue ==
  ASSUME Powers, NEW s, Sound(s), NEW w \in s.live, NEW v \in s.live,
         NEW uval \in Nat, uval < B, NEW r \in MpzUiSub(s, w, uval, v), r.status = "run"
  PROVE  Gives(s, r, w, uval - Value(s, v))
<1> DEFINE vn == s.size[v]
           vp0 == IF vn = 0 THEN 0 ELSE Get(s, s.d[v], 1)
<1>1. PICK vs \in Int, M \in Nat, n \in Nat :
        /\ vs = vn /\ M = Mag(s, v) /\ n = Abs(vs) /\ AbSiz(s, v) = n /\ Exact(M, n)
        /\ Value(s, v) = Signed(vs < 0, M) /\ (M = 0 <=> vs = 0) /\ n = Abs(vn)
  <2>1. AbSiz(s, v) \in Nat
    BY Operand
  <2> QED BY <2>1, Operand
<1>2. CASE vn > 1
  <2>0. n \in Nat \ {0} /\ n = vs /\ n # 1
    BY <1>1, <1>2 DEF Abs
  <2>p. PICK p \in BOOLEAN : p
    OBVIOUS
  <2>1. PICK t \in Grow(s, w, n) :
          LET q == Low(Source(s, t, v, n) - uval, n)
          IN  r = SetSiz(Put(t, t.d[w], n, q), w, -(n - Bit(High(q, n - 1) = 0)))
    BY <1>1, <1>2 DEF MpzUiSub
  <2> DEFINE q == Low(Source(s, t, v, n) - uval, n)
             k == -(n - Bit(High(q, n - 1) = 0))
  <2>2. r = SetSiz(Put(t, t.d[w], n, q), w, k) /\ k \in Int
    BY <2>1, BitRange
  <2> HIDE DEF q, k
  <2>3. SetSiz(Put(t, t.d[w], n, q), w, k).status = "run"
    BY <2>2
  <2>4. t.status = "run"
    BY <2>2, <2>3, GrowRuns, SMTT(30)
  <2>5. Source(s, t, v, n) = M
    BY <1>1, <2>4, Reads
  <2>6. uval <= M /\ M - uval \in Nat /\ M - uval < B^n
        /\ Exact(M - uval, n - Bit(High(M - uval, n - 1) = 0))
    BY <1>1, <2>0, DropExact
  <2>7. PICK z \in Nat, l \in Nat :
          z = M - uval /\ z = q /\ l = n - Bit(High(z, n - 1) = 0) /\ l <= n /\ k = Signed(p, l)
    <3>1. PICK z \in Nat : z = M - uval
      BY <2>6
    <3>2. q = z
      BY <2>5, <2>6, <3>1, LowIs DEF q
    <3>3. n - Bit(High(z, n - 1) = 0) \in Nat /\ n - Bit(High(z, n - 1) = 0) <= n
      BY <2>0, BitRange
    <3> QED BY <3>1, <3>2, <3>3, <2>p DEF k, Signed
  <2>8. r = SetSiz(Put(t, t.d[w], n, z), w, Signed(p, l))
    BY <2>2, <2>7
  <2>9. SetSiz(Put(t, t.d[w], n, z), w, Signed(p, l)).status = "run" /\ n <= n
        /\ Exact(z, l)
    <3>1. Exact(z, l)
      BY <2>6, <2>7
    <3>2. SetSiz(Put(t, t.d[w], n, z), w, Signed(p, l)).status = "run"
      BY ONLY r.status = "run", <2>8
    <3> QED BY <3>1, <3>2
  <2>10. Gives(s, r, w, Signed(p, z))
    BY <2>7, <2>8, <2>9, SignedResult
  <2>11. Signed(p, z) = uval - Value(s, v)
    BY <1>1, <1>2, <2>p, <2>7 DEF Signed
  <2> QED BY <2>10, <2>11
<1>3. CASE ~(vn > 1) /\ vn >= 0
  <2>0. vp0 = M /\ M < B
    <3>1. CASE vn = 0
      BY <1>1, <3>1, Base
    <3>2. CASE vn # 0
      <4>1. n = 1 /\ Get(s, s.d[v], n) = M
        BY <1>1, <1>3, <3>2 DEF Abs, Mag
      <4> QED BY <1>1, <3>2, <4>1, Base DEF Exact
    <3> QED BY <3>1, <3>2
  <2> DEFINE k == IF uval >= vp0 THEN Bit(uval # vp0) ELSE -1
  <2>1. PICK t \in Grow(s, w, 1) :
          r = SetSiz(Put(t, t.d[w], 1, Abs(uval - vp0)), w, k)
    BY <1>3 DEF MpzUiSub
  <2> HIDE DEF vp0
  <2>2. PICK z \in Nat, l \in Nat, p \in BOOLEAN :
          /\ z = Abs(uval - vp0) /\ l = Bit(z # 0) /\ Exact(z, l) /\ l <= 1
          /\ (p <=> uval < M) /\ k = Signed(p, l)
    <3>1. PICK z \in Nat : z = Abs(uval - vp0) /\ z < B /\ (z = 0 <=> uval = M)
      <4>1. PICK base \in Nat : base = B
        BY Base
      <4>2. PICK z \in Nat : z = IF uval < M THEN M - uval ELSE uval - M
        <5>1. (IF uval < M THEN M - uval ELSE uval - M) \in Nat
          OBVIOUS
        <5> QED BY <5>1
      <4>3. z < base /\ (z = 0 <=> uval = M)
        BY <2>0, <4>1, <4>2
      <4>4. Abs(uval - vp0) = z
        BY <2>0, <4>2 DEF Abs
      <4> QED BY <4>1, <4>3, <4>4
    <3>2. PICK l \in Nat : l = Bit(z # 0) /\ Exact(z, l) /\ l <= 1
      BY <3>1, LimbExact
    <3>3. PICK p \in BOOLEAN : p <=> uval < M
      OBVIOUS
    <3>4. k = Signed(p, l)
      BY <2>0, <3>1, <3>2, <3>3 DEF Signed, Bit
    <3> QED BY <3>1, <3>2, <3>3, <3>4
  <2> HIDE DEF k
  <2>3. r = SetSiz(Put(t, t.d[w], 1, z), w, Signed(p, l))
    BY <2>1, <2>2
  <2>4. SetSiz(Put(t, t.d[w], 1, z), w, Signed(p, l)).status = "run" /\ 1 <= 1 /\ 1 \in Nat
    BY <2>3
  <2>5. Gives(s, r, w, Signed(p, z))
    BY <2>2, <2>3, <2>4, SignedResult
  <2>6. Signed(p, z) = uval - Value(s, v)
    BY <1>1, <1>3, <2>0, <2>2 DEF Signed, Abs
  <2> QED BY <2>5, <2>6
<1>4. CASE ~(vn > 1) /\ ~(vn >= 0)
  <2>0. n >= 1
    BY <1>1, <1>4, AbsRange
  <2>1. PICK t \in Grow(s, w, n + 1) :
          LET sum == Source(s, t, v, n) + uval
          IN  r = SetSiz(Put(t, t.d[w], n + 1, sum), w, n + Bit(sum >= B^n))
    BY <1>1, <1>4 DEF MpzUiSub
  <2> DEFINE sum == Source(s, t, v, n) + uval
             k == Signed(FALSE, n + Bit(sum >= B^n))
  <2>k. k \in Int
    BY BitRange DEF Signed
  <2>2. r = SetSiz(Put(t, t.d[w], n + 1, sum), w, k)
    BY <2>1 DEF Signed
  <2> HIDE DEF sum, k
  <2>3. SetSiz(Put(t, t.d[w], n + 1, sum), w, k).status = "run" /\ n + 1 \in Nat
    BY <2>2
  <2>4. t.status = "run"
    BY <2>k, <2>3, GrowRuns, SMTT(30)
  <2>5. Source(s, t, v, n) = M
    BY <1>1, <2>3, <2>4, Reads
  <2>6. M + uval \in Nat /\ Exact(M + uval, n + Bit(M + uval >= B^n))
    <3>1. uval < B^1 /\ 1 <= n /\ 1 \in Nat
      BY <2>0, Base
    <3> QED BY <1>1, <3>1, SumExact
  <2>7. PICK z \in Nat : z = M + uval /\ z = sum
    BY <2>5, <2>6 DEF sum
  <2>8. r = SetSiz(Put(t, t.d[w], n + 1, z), w, Signed(FALSE, n + Bit(z >= B^n)))
    BY <2>2, <2>7 DEF k
  <2>9. SetSiz(Put(t, t.d[w], n + 1, z), w, Signed(FALSE, n + Bit(z >= B^n))).status = "run"
        /\ FALSE \in BOOLEAN /\ Exact(z, n + Bit(z >= B^n))
    BY <2>6, <2>7, <2>8
  <2>10. Gives(s, r, w, Signed(FALSE, z))
    BY <2>8, <2>9, CarryValue
  <2>11. Signed(FALSE, z) = uval - Value(s, v)
    BY <1>1, <1>4, <2>7 DEF Signed
  <2> QED BY <2>10, <2>11
<1> QED BY <1>2, <1>3, <1>4

\* Products of natural numbers.
LEMMA TimesLess ==
  ASSUME NEW a \in Nat, NEW y \in Nat, NEW c \in Nat, NEW b \in Nat, a < c, y < b
  PROVE  a * y \in Nat /\ a * y < c * b /\ (y > 0 => a <= a * y)
<1>1. a * y <= a * b
  OBVIOUS
<1>2. a * b + b <= c * b
  <2>1. PICK e \in Nat : c = a + 1 + e
    <3>1. c - (a + 1) \in Nat /\ c = a + 1 + (c - (a + 1))
      OBVIOUS
    <3> QED BY <3>1
  <2>2. c * b = a * b + b + e * b
    BY <2>1
  <2> QED BY <2>2
<1>3. y > 0 => a <= a * y
  OBVIOUS
<1> QED BY <1>1, <1>2, <1>3

\* The size of a number times a limb that is not 0.
LEMMA LimbProduct ==
  ASSUME Powers, NEW a, NEW n \in Nat \ {0}, Exact(a, n), NEW y \in Nat, y > 0, y < B
  PROVE  a * y \in Nat /\ Exact(a * y, n + Bit(a * y >= B^n))
<1>1. PICK c \in Nat, base \in Nat : c = B^n /\ base = B /\ B^(n + 1) = base * c
  BY Base
<1>2. a \in Nat /\ a < c /\ B^(n - 1) <= a /\ B^(n - 1) \in Nat
  BY <1>1, Around DEF Exact
<1>3. a * y \in Nat /\ a * y < c * base /\ a <= a * y
  BY <1>1, <1>2, TimesLess
<1>4. PICK v \in Nat : v = a * y
  BY <1>3
<1>5. v < B^(n + 1)
  <2>1. c * base = base * c
    OBVIOUS
  <2> QED BY <1>1, <1>3, <1>4, <2>1
<1>6. B^(n - 1) <= v
  BY <1>2, <1>3, <1>4
<1> QED BY <1>4, <1>5, <1>6, CarryExact

\* |u| times a limb y, in w with the sign of neg.
LEMMA LimbValue ==
  ASSUME Powers, NEW s, Sound(s), NEW w \in s.live, NEW u \in s.live, s.size[u] # 0,
         NEW t \in Grow(s, w, AbSiz(s, u) + 1), NEW y, NEW c \in Nat, c > 0, c < B,
         t.status = "run" => y = c, NEW neg \in BOOLEAN,
         NEW product, product = Source(s, t, u, AbSiz(s, u)) * y, NEW r,
         r = SetSiz(Put(t, t.d[w], AbSiz(s, u) + 1, product), w,
                    Signed(neg, AbSiz(s, u) + Bit(product >= B^AbSiz(s, u)))),
         r.status = "run"
  PROVE  Gives(s, r, w, Signed(neg, Mag(s, u) * c))
<1>1. PICK n \in Nat \ {0}, M \in Nat : n = AbSiz(s, u) /\ M = Mag(s, u) /\ Exact(M, n)
  <2>1. AbSiz(s, u) # 0
    BY Operand, AbsRange
  <2> QED BY <2>1, Operand
<1>2. PICK k \in Int : k = Signed(neg, n + Bit(product >= B^n))
  <2>1. Signed(neg, n + Bit(product >= B^n)) \in Int
    BY BitRange, SignedRange
  <2> QED BY <2>1
<1>3. r = SetSiz(Put(t, t.d[w], n + 1, product), w, k)
  BY <1>1, <1>2
<1>4. SetSiz(Put(t, t.d[w], n + 1, product), w, k).status = "run" /\ n + 1 \in Nat
      /\ t \in Grow(s, w, n + 1)
  BY <1>1, <1>3
<1>5. t.status = "run"
  <2>1. PICK m \in Nat : m = n + 1
    OBVIOUS
  <2>2. SetSiz(Put(t, t.d[w], m, product), w, k).status = "run"
    BY <1>4, <2>1
  <2>3. t \in Grow(s, w, m)
    BY <1>4, <2>1
  <2> QED BY <2>2, <2>3, GrowRuns, SMTT(30)
<1>6. Source(s, t, u, AbSiz(s, u)) = M
  BY <1>1, <1>4, <1>5, Reads
<1>7. M * c \in Nat /\ Exact(M * c, n + Bit(M * c >= B^n))
  BY <1>1, LimbProduct
<1>8. PICK z \in Nat : z = M * c
  BY <1>7
<1>9. product = z
  BY <1>5, <1>6, <1>8
<1>10. r = SetSiz(Put(t, t.d[w], n + 1, z), w, Signed(neg, n + Bit(z >= B^n)))
  BY <1>2, <1>3, <1>9
<1>11. SetSiz(Put(t, t.d[w], n + 1, z), w, Signed(neg, n + Bit(z >= B^n))).status = "run"
       /\ Exact(z, n + Bit(z >= B^n))
  BY <1>7, <1>8, <1>10
<1>12. Gives(s, r, w, Signed(neg, z))
  BY <1>4, <1>10, <1>11, CarryValue
<1> QED BY <1>1, <1>8, <1>12

\* The sign of a product.
LEMMA SignedTimes ==
  ASSUME NEW a \in Nat, NEW c \in Nat, NEW p \in BOOLEAN, NEW q \in BOOLEAN,
         NEW neg \in BOOLEAN, neg <=> (p # q)
  PROVE  Signed(p, a) * Signed(q, c) = Signed(neg, a * c) /\ a * c \in Nat
<1>1. a * c \in Nat /\ (-a) * c = -(a * c) /\ a * (-c) = -(a * c) /\ (-a) * (-c) = a * c
  OBVIOUS
<1>2. CASE p /\ q
  BY <1>1, <1>2 DEF Signed
<1>3. CASE p /\ ~q
  BY <1>1, <1>3 DEF Signed
<1>4. CASE ~p /\ q
  BY <1>1, <1>4 DEF Signed
<1>5. CASE ~p /\ ~q
  BY <1>1, <1>5 DEF Signed
<1> QED BY <1>2, <1>3, <1>4, <1>5

\* mpz_mul_ui and mpz_mul_si.
LEMMA MulSiValue ==
  ASSUME Powers, NEW s, Sound(s), NEW w \in s.live, NEW u \in s.live,
         NEW n \in Int, Abs(n) < B, NEW r \in MpzMulSi(s, w, u, n), r.status = "run"
  PROVE  Gives(s, r, w, Value(s, u) * n)
<1>1. PICK M \in Nat, us \in Int, c \in Nat :
        /\ M = Mag(s, u) /\ us = s.size[u] /\ Value(s, u) = Signed(us < 0, M) /\ (M = 0 <=> us = 0)
        /\ c = Abs(n) /\ (c = 0 <=> n = 0)
  BY Operand, AbsRange, SMTT(30)
<1>2. CASE s.size[u] = 0 \/ n = 0
  <2>1. r = SetSiz(s, w, 0)
    BY <1>2 DEF MpzMulSi
  <2>2. Value(s, u) * n = 0
    <3>1. CASE n = 0
      BY <1>1, <3>1, Operand
    <3>2. CASE s.size[u] = 0
      <4>1. Value(s, u) = 0
        BY <1>1, <3>2 DEF Signed
      <4> QED BY <4>1
    <3> QED BY <1>2, <3>1, <3>2
  <2> QED BY <2>1, <2>2, ZeroValue
<1>3. CASE ~(s.size[u] = 0 \/ n = 0)
  <2>0. PICK p \in BOOLEAN, q \in BOOLEAN, neg \in BOOLEAN :
          (p <=> us < 0) /\ (q <=> n < 0) /\ (neg <=> (p # q))
    <3>1. PICK p \in BOOLEAN, q \in BOOLEAN : (p <=> us < 0) /\ (q <=> n < 0)
      OBVIOUS
    <3> QED BY <3>1
  <2> DEFINE un == AbSiz(s, u)
  <2>1. PICK t \in Grow(s, w, un + 1) :
          LET product == Source(s, t, u, un) * Abs(n)
          IN  r = SetSiz(Put(t, t.d[w], un + 1, product), w,
                         Signed((s.size[u] < 0) # (n < 0), un + Bit(product >= B^un)))
    BY <1>3 DEF MpzMulSi, MulLimb
  <2>2. PICK product : product = Source(s, t, u, un) * c
    OBVIOUS
  <2>3. r = SetSiz(Put(t, t.d[w], un + 1, product), w, Signed(neg, un + Bit(product >= B^un)))
    BY <1>1, <2>0, <2>1, <2>2 DEF Signed
  <2>4. Gives(s, r, w, Signed(neg, M * c))
    BY <1>1, <1>3, <2>2, <2>3, LimbValue
  <2>5. Signed(p, M) * Signed(q, c) = Signed(neg, M * c)
    BY <2>0, SignedTimes
  <2>6. Signed(p, M) = Value(s, u) /\ Signed(q, c) = n
    BY <1>1, <2>0 DEF Signed, Abs
  <2> QED BY <2>4, <2>5, <2>6
<1> QED BY <1>2, <1>3

\* A shift by cnt bits is one by cnt \div W limbs and fewer than W bits.
LEMMA ShiftExact ==
  ASSUME Powers, NEW a, NEW n \in Nat \ {0}, Exact(a, n), NEW cnt \in Nat
  PROVE  /\ cnt \div W \in Nat /\ 2^cnt \in Nat \ {0} /\ a * 2^cnt \in Nat
         /\ Exact(a * 2^cnt, n + cnt \div W + Bit(a * 2^cnt >= B^(n + cnt \div W)))
<1>1. PICK q \in Nat, i \in 0..(W - 1) : q = cnt \div W /\ i = cnt % W /\ cnt = W * q + i
  <2>1. W \in Nat \ {0}
    BY WAssumption
  <2>2. cnt \div W \in Int /\ cnt % W \in 0..(W - 1) /\ cnt = W * (cnt \div W) + (cnt % W)
    BY <2>1, Division
  <2>3. cnt \div W \in Nat
    BY <2>1
  <2> QED BY <2>2, <2>3
<1>2. W \in Nat \ {0} /\ i \in Nat /\ W * q \in Nat /\ 2 \in Nat \ {0} /\ i + 1 \in Nat /\ i + 1 <= W
  <2>1. W \in Nat \ {0}
    BY WAssumption
  <2>2. W * q \in Nat
    BY <2>1
  <2> QED BY <2>1, <2>2
<1>3. PICK e \in Nat \ {0}, f \in Nat \ {0} : e = B^q /\ f = 2^i /\ 2^cnt = e * f /\ f < B
  <2>1. 2^cnt = 2^(W * q) * 2^i
    BY <1>1, <1>2, PowSum
  <2>2. 2^(W * q) = (2^W)^q
    BY <1>2, PowProduct
  <2>3. 2^(W * q) = B^q
    BY <2>2 DEF B
  <2>4. B^q \in Nat \ {0}
    BY Around
  <2>5. PICK f \in Nat \ {0} : f = 2^i
    <3>1. 2^i \in Nat \ {0}
      BY <1>2, PowPositive
    <3> QED BY <3>1
  <2>6. f < B
    <3>1. 2^(i + 1) = 2 * f
      BY <1>2, <2>5 DEF Powers
    <3>2. 2^(i + 1) <= 2^W
      BY <1>2, PowOrder
    <3>3. B \in Nat
      BY Base
    <3> QED BY <3>1, <3>2, <3>3 DEF B
  <2> QED BY <2>1, <2>3, <2>4, <2>5, <2>6
<1>4. PICK c \in Nat, base \in Nat : c = B^n /\ base = B /\ B^(n + 1) = base * c
  BY Base
<1>5. PICK b \in Nat : b = B^(n - 1) /\ a \in Nat /\ a < c /\ b <= a
  <2>1. B^(n - 1) \in Nat
    BY Around
  <2> QED BY <1>4, <2>1 DEF Exact
<1>6. PICK h \in Nat : h = a * f /\ h < c * base /\ a <= h
  <2>1. a * f \in Nat /\ a * f < c * base /\ a <= a * f
    BY <1>3, <1>4, <1>5, TimesLess
  <2> QED BY <2>1
<1>7. PICK v \in Nat : v = a * 2^cnt /\ v = h * e
  <2>1. a * (e * f) = (a * f) * e /\ h * e \in Nat
    BY <1>5
  <2>2. a * 2^cnt = h * e
    BY <1>3, <1>6, <2>1
  <2> QED BY <2>1, <2>2
<1>8. PICK d \in Nat : d = B^(n + 1) /\ h < d
  <2>1. c * base = base * c /\ base * c \in Nat
    OBVIOUS
  <2> QED BY <1>4, <1>6, <2>1
<1>9. v < B^((n + q) + 1)
  <2>1. B^((n + 1) + q) = d * e
    <3>1. B \in Nat \ {0} /\ n + 1 \in Nat
      BY Base
    <3>2. B^((n + 1) + q) = B^(n + 1) * B^q
      BY <3>1, PowSum
    <3> QED BY <1>3, <1>8, <3>2
  <2>2. h * e < d * e
    <3>1. PICK j \in Nat : d = h + 1 + j
      <4>1. d - (h + 1) \in Nat /\ d = h + 1 + (d - (h + 1))
        BY <1>8
      <4> QED BY <4>1
    <3>2. d * e = h * e + e + j * e /\ j * e \in Nat
      BY <3>1
    <3> QED BY <3>2
  <2>3. (n + 1) + q = (n + q) + 1
    OBVIOUS
  <2> QED BY <1>7, <2>1, <2>2, <2>3
<1>10. B^((n + q) - 1) <= v
  <2>1. PICK k \in Nat : k = n - 1 /\ k + q = (n + q) - 1
    OBVIOUS
  <2>2. B^(k + q) = b * e
    <3>1. B \in Nat \ {0}
      BY Base
    <3>2. B^(k + q) = B^k * B^q
      BY <3>1, PowSum
    <3> QED BY <1>3, <1>5, <2>1, <3>2
  <2>3. b * e <= h * e
    <3>1. b <= h
      BY <1>5, <1>6
    <3> QED BY <3>1
  <2> QED BY <1>7, <2>1, <2>2, <2>3
<1>11. n + q \in Nat
  OBVIOUS
<1>12. Exact(v, (n + q) + Bit(v >= B^(n + q)))
  BY <1>9, <1>10, <1>11, CarryExact
<1>13. 2^cnt \in Nat \ {0}
  BY <1>2, PowPositive
<1> QED BY <1>1, <1>7, <1>12, <1>13

\* mpz_mul_2exp.
LEMMA Mul2ExpValue ==
  ASSUME Powers, NEW s, Sound(s), NEW w \in s.live, NEW u \in s.live,
         NEW cnt \in Nat, NEW r \in MpzMul2Exp(s, w, u, cnt), r.status = "run"
  PROVE  Gives(s, r, w, Value(s, u) * 2^cnt)
<1>1. PICK M \in Nat, us \in Int, n \in Nat :
        /\ M = Mag(s, u) /\ us = s.size[u] /\ Value(s, u) = Signed(us < 0, M) /\ (M = 0 <=> us = 0)
        /\ n = AbSiz(s, u) /\ (n = 0 <=> us = 0) /\ Exact(M, n)
  <2>1. AbSiz(s, u) \in Nat /\ (AbSiz(s, u) = 0 <=> s.size[u] = 0)
    BY Operand, AbsRange
  <2> QED BY <2>1, Operand
<1>2. PICK c \in Nat \ {0} : c = 2^cnt
  <2>1. 2^cnt \in Nat \ {0}
    BY PowPositive
  <2> QED BY <2>1
<1>3. CASE n = 0
  <2>1. r = SetSiz(s, w, 0)
    BY <1>1, <1>3 DEF MpzMul2Exp
  <2>2. Value(s, u) = 0
    BY <1>1, <1>3 DEF Signed
  <2>3. Value(s, u) * c = 0
    BY <2>2
  <2> QED BY <1>2, <2>1, <2>3, ZeroValue
<1>4. CASE n # 0
  <2>1. PICK rn \in Nat : rn = n + cnt \div W
    <3>1. cnt \div W \in Nat
      BY WAssumption
    <3> QED BY <3>1
  <2>2. PICK t \in Grow(s, w, rn + 1) :
          LET shifted == Source(s, t, u, n) * 2^cnt
          IN  r = SetSiz(Put(t, t.d[w], rn + 1, shifted), w,
                         Signed(t.size[u] < 0, rn + Bit(shifted >= B^rn)))
    BY <1>1, <1>4, <2>1 DEF MpzMul2Exp
  <2>3. t.size[u] = us
    BY <1>1, GrowSizes
  <2>4. PICK p \in BOOLEAN : p <=> us < 0
    OBVIOUS
  <2> DEFINE shifted == Source(s, t, u, n) * c
             k == Signed(p, rn + Bit(shifted >= B^rn))
  <2>5. k \in Int
    BY BitRange, SignedRange
  <2>6. r = SetSiz(Put(t, t.d[w], rn + 1, shifted), w, k)
    BY <1>2, <2>2, <2>3, <2>4 DEF Signed
  <2> HIDE DEF shifted, k
  <2>7. SetSiz(Put(t, t.d[w], rn + 1, shifted), w, k).status = "run" /\ rn + 1 \in Nat
    BY <2>6
  <2>8. t.status = "run"
    BY <2>5, <2>7, GrowRuns
  <2>9. Source(s, t, u, n) = M
    BY <1>1, <2>7, <2>8, Reads
  <2>10. PICK z \in Nat : z = M * c /\ Exact(z, rn + Bit(z >= B^rn))
    <3>1. n \in Nat \ {0}
      BY <1>4
    <3>2. M * 2^cnt \in Nat /\ Exact(M * 2^cnt, n + cnt \div W + Bit(M * 2^cnt >= B^(n + cnt \div W)))
      BY <1>1, <3>1, ShiftExact
    <3> QED BY <1>2, <2>1, <3>2
  <2>11. shifted = z
    BY <2>9, <2>10 DEF shifted
  <2>12. r = SetSiz(Put(t, t.d[w], rn + 1, z), w, Signed(p, rn + Bit(z >= B^rn)))
    BY <2>6, <2>11 DEF k
  <2>13. SetSiz(Put(t, t.d[w], rn + 1, z), w, Signed(p, rn + Bit(z >= B^rn))).status = "run"
    BY <2>12
  <2>14. Gives(s, r, w, Signed(p, z))
    BY <2>10, <2>12, <2>13, CarryValue
  <2>15. Signed(p, z) = Value(s, u) * c
    <3>1. (-M) * c = -(M * c)
      OBVIOUS
    <3> QED BY <1>1, <2>4, <2>10, <3>1 DEF Signed
  <2> QED BY <1>2, <2>14, <2>15
<1> QED BY <1>3, <1>4

\* A block given back: what it changes.
LEMMA FreeLimbs ==
  ASSUME NEW t, Typed(t), NEW p \in Block, NEW n \in Nat \ {0}, t.len[p] = n, t.fault = FALSE
  PROVE  Free(t, p, n) =
           [alloc |-> t.alloc, size |-> t.size, d |-> t.d,
            len |-> [t.len EXCEPT ![p] = 0], limbs |-> [t.limbs EXCEPT ![p] = 0],
            live |-> t.live, fault |-> FALSE, status |-> t.status]
<1>1. Free(t, p, n) = [t EXCEPT !.len[p] = 0, !.limbs[p] = 0,
                                !.fault = t.fault \/ n = 0 \/ t.len[p] # n]
  BY DEF Free
<1>2. (t.fault \/ n = 0 \/ t.len[p] # n) = FALSE
  OBVIOUS
<1> QED BY <1>1, <1>2 DEF Typed

\* A block taken for w: what it changes.
LEMMA NewForLimbs ==
  ASSUME Powers, NEW t, Typed(t), NEW f \in Block, NEW n \in Nat, n <= IntMax, NEW w \in Struct
  PROVE  \E e \in Int : NewFor(t, f, n, w) =
           [alloc |-> [t.alloc EXCEPT ![w] = n], size |-> t.size, d |-> [t.d EXCEPT ![w] = f],
            len |-> [t.len EXCEPT ![f] = n], limbs |-> [t.limbs EXCEPT ![f] = e],
            live |-> t.live, fault |-> t.fault, status |-> t.status]
<1>1. ToInt(n) = n
  BY DEF ToInt
<1>2. PICK e \in Int : e = B^n - 1
  <2>1. B^n \in Nat
    BY Base
  <2>2. B^n - 1 \in Int
    BY <2>1
  <2> QED BY <2>2
<1>3. Allocate(t, f, n) = [t EXCEPT !.len[f] = n, !.limbs[f] = e]
  BY <1>2 DEF Allocate
<1>4. NewFor(t, f, n, w) =
        [[t EXCEPT !.len[f] = n, !.limbs[f] = e] EXCEPT !.alloc[w] = n, !.d[w] = f]
  BY <1>1, <1>3 DEF NewFor
<1> QED BY <1>4 DEF Typed

\* A product written to the block of w: what it changes.
LEMMA ProductLimbs ==
  ASSUME Powers, NEW t, Typed(t), Numbers(t), NEW w \in Struct, NEW p \in Block, t.d[w] = p,
         NEW n \in Nat, t.len[p] >= n, NEW v \in Int, NEW k \in Int, Abs(k) <= n
  PROVE  \E l \in Int :
           /\ Product(t, p, n, v, w, k) =
                [alloc |-> t.alloc, size |-> [t.size EXCEPT ![w] = k], d |-> t.d, len |-> t.len,
                 limbs |-> [t.limbs EXCEPT ![p] = l],
                 live |-> t.live, fault |-> t.fault, status |-> t.status]
           /\ Low(l, Abs(k)) = Low(v, Abs(k))
<1>1. PICK l0 \in Int :
        /\ Put(t, p, n, v) =
             [alloc |-> t.alloc, size |-> t.size, d |-> t.d, len |-> t.len,
              limbs |-> [t.limbs EXCEPT ![p] = l0],
              live |-> t.live, fault |-> t.fault, status |-> t.status]
        /\ \A i \in 0..n : Low(l0, i) = Low(v, i)
  BY PutLimbs
<1>2. PICK u : u = Put(t, p, n, v)
  OBVIOUS
<1>3. /\ u.alloc = t.alloc /\ u.size = t.size /\ u.d = t.d /\ u.len = t.len
      /\ u.limbs = [t.limbs EXCEPT ![p] = l0] /\ u.live = t.live
      /\ u.fault = t.fault /\ u.status = t.status
  BY <1>1, <1>2
<1>4. Typed(u) /\ Numbers(u) /\ u.limbs[p] = l0
  BY <1>1, <1>2, <1>3 DEF Typed, Numbers
<1>5. Abs(k) \in Nat /\ t.len[p] \in Nat
  BY AbsRange DEF Typed
<1>6. u.d[w] = p /\ u.len[p] >= Abs(k)
  BY <1>3, <1>5
<1>7. PICK l \in Int :
        /\ SetSiz(u, w, k) =
             [alloc |-> u.alloc, size |-> [u.size EXCEPT ![w] = k], d |-> u.d, len |-> u.len,
              limbs |-> [u.limbs EXCEPT ![u.d[w]] = l],
              live |-> u.live, fault |-> u.fault, status |-> u.status]
        /\ \A i \in 0..Abs(k) : Low(l, i) = Low(u.limbs[u.d[w]], i)
  BY <1>4, <1>6, SetSizLimbs
<1>8. Low(l, Abs(k)) = Low(v, Abs(k))
  BY <1>1, <1>4, <1>5, <1>6, <1>7
<1>9. [u.limbs EXCEPT ![p] = l] = [t.limbs EXCEPT ![p] = l]
  BY <1>3 DEF Numbers
<1> QED BY <1>2, <1>3, <1>6, <1>7, <1>8, <1>9 DEF Product

\* r is s with another block for w, f, and k limbs of v in it.
MovedTo(s, r, w, n, k, f, v) ==
  /\ Moved(s, r, w, n, k, f) /\ r.status = s.status
  /\ Numbers(r) /\ Low(r.limbs[f], Abs(k)) = Low(v, Abs(k))
  /\ \A c \in Block : c # f /\ ~(s.alloc[w] > 0 /\ c = s.d[w]) => r.limbs[c] = s.limbs[c]

LEMMA MovedProduct ==
  ASSUME Powers, NEW s, Plain(s), NEW w \in s.live, NEW n \in 1..IntMax, NEW k \in Int,
         Abs(k) <= n, NEW f \in Block, NEW v, NEW r, MovedTo(s, r, w, n, k, f, v)
  PROVE  /\ Plain(r) /\ r.live = s.live /\ r.size[w] = k /\ Mag(r, w) = Low(v, Abs(k))
         /\ \A x \in s.live \ {w} : Keeps(s, r, x)
<1>1. Good(s) /\ Typed(s) /\ s.status = "run" /\ w \in Struct
  BY SizeRange DEF Plain, Good
<1>2. r.live = s.live /\ r.status = "run" /\ r.d[w] = f /\ r.size[w] = k /\ r.len \in [Block -> Nat]
      /\ r.len[f] = n
  BY <1>1 DEF Typed, MovedTo, Moved
<1>3. Plain(r) /\ \A x \in s.live \ {w} : Keeps(s, r, x)
  <2>1. /\ Moved(s, r, w, n, k, f) /\ Numbers(r)
        /\ \A c \in Block : c # f /\ ~(s.alloc[w] > 0 /\ c = s.d[w]) => r.limbs[c] = s.limbs[c]
    BY DEF MovedTo
  <2> QED BY <1>2, <2>1, MovedKeeps
<1>4. Mag(r, w) = Low(v, Abs(k))
  <2>1. PICK i \in Nat : i = Abs(k) /\ AbSiz(r, w) = i
    BY <1>2, AbsRange DEF AbSiz
  <2>2. f \in DOMAIN r.len /\ r.len[f] >= i
    BY <1>2, <2>1
  <2>3. Get(r, f, i) = Low(r.limbs[f], i)
    BY <2>2 DEF Get
  <2> QED BY <1>2, <2>1, <2>3 DEF Mag, MovedTo
<1> QED BY <1>2, <1>3, <1>4

\* mpz_mul gives back the old block of w, which holds no operand, and takes a new one.
LEMMA FreshProduct ==
  ASSUME Powers, NEW s, Plain(s), NEW w \in s.live, NEW n \in 1..IntMax, NEW q,
         q = IF s.alloc[w] # 0 THEN Free(s, s.d[w], s.alloc[w]) ELSE s,
         NEW f \in Fresh(q), NEW v \in Int, NEW k \in Int, Abs(k) <= n,
         NEW r, r = Product(NewFor(q, f, n, w), f, n, v, w, k)
  PROVE  /\ Plain(r) /\ r.live = s.live /\ r.size[w] = k /\ Mag(r, w) = Low(v, Abs(k))
         /\ \A x \in s.live \ {w} : Keeps(s, r, x)
<1> DEFINE old == s.alloc[w]
           wp == s.d[w]
           kept == IF old # 0 THEN [s.len EXCEPT ![wp] = 0] ELSE s.len
           left == IF old # 0 THEN [s.limbs EXCEPT ![wp] = 0] ELSE s.limbs
<1>1. /\ Good(s) /\ Typed(s) /\ Numbers(s) /\ s.fault = FALSE
      /\ w \in Struct /\ old \in Nat /\ n \in Nat /\ n <= IntMax
      /\ (old # 0 => wp \in Block /\ s.len[wp] = old)
  <2>1. Good(s) /\ Typed(s) /\ Numbers(s) /\ s.fault = FALSE
    BY DEF Plain, Good
  <2>2. w \in Struct /\ old \in Nat
    BY <2>1, SizeRange
  <2> QED BY <2>1, <2>2, IntMaxAssumption DEF Good, Backed
<1>2. q = [alloc |-> s.alloc, size |-> s.size, d |-> s.d, len |-> kept, limbs |-> left,
           live |-> s.live, fault |-> FALSE, status |-> s.status]
  <2>1. CASE old # 0
    BY <1>1, <2>1, FreeLimbs
  <2>2. CASE old = 0
    BY <1>1, <2>2 DEF Typed
  <2> QED BY <2>1, <2>2
<1>3. kept \in [Block -> Nat] /\ left \in [Block -> Int]
  BY <1>1 DEF Typed, Numbers
<1>4. \A c \in Block : /\ kept[c] = IF old > 0 /\ c = wp THEN 0 ELSE s.len[c]
                       /\ ~(old > 0 /\ c = wp) => left[c] = s.limbs[c]
  BY <1>1 DEF Typed, Numbers
<1> HIDE DEF kept, left, old, wp
<1>5. Typed(q) /\ q.len = kept
  BY <1>1, <1>2, <1>3 DEF Typed
<1>6. f \in Block /\ kept[f] = 0
  BY <1>3, <1>5 DEF Fresh
<1>7. PICK e \in Int : NewFor(q, f, n, w) =
        [alloc |-> [q.alloc EXCEPT ![w] = n], size |-> q.size, d |-> [q.d EXCEPT ![w] = f],
         len |-> [q.len EXCEPT ![f] = n], limbs |-> [q.limbs EXCEPT ![f] = e],
         live |-> q.live, fault |-> q.fault, status |-> q.status]
  BY ONLY Powers, <1>1, <1>5, <1>6, NewForLimbs
<1>8. PICK t : t = NewFor(q, f, n, w)
  OBVIOUS
<1>9. PICK y, lm : y = [kept EXCEPT ![f] = n] /\ lm = [left EXCEPT ![f] = e]
  OBVIOUS
<1>10. t = [alloc |-> [s.alloc EXCEPT ![w] = n], size |-> s.size, d |-> [s.d EXCEPT ![w] = f],
            len |-> y, limbs |-> lm, live |-> s.live, fault |-> FALSE, status |-> s.status]
  BY <1>2, <1>7, <1>8, <1>9
<1>11. /\ y \in [Block -> Nat] /\ y[f] = n /\ lm \in [Block -> Int]
       /\ \A c \in Block \ {f} : y[c] = kept[c] /\ lm[c] = left[c]
  BY <1>1, <1>3, <1>6, <1>9
<1>12. Typed(t) /\ Numbers(t) /\ t.d[w] = f /\ t.len[f] >= n
  <2>1. [s.alloc EXCEPT ![w] = n] \in [Struct -> Nat] /\ [s.d EXCEPT ![w] = f] \in [Struct -> Block \cup {Null}]
        /\ [s.d EXCEPT ![w] = f][w] = f
    BY <1>1, <1>6 DEF Typed
  <2> QED BY <1>1, <1>10, <1>11, <2>1 DEF Typed, Numbers
<1>13. PICK l \in Int :
         /\ Product(t, f, n, v, w, k) =
              [alloc |-> t.alloc, size |-> [t.size EXCEPT ![w] = k], d |-> t.d, len |-> t.len,
               limbs |-> [t.limbs EXCEPT ![f] = l],
               live |-> t.live, fault |-> t.fault, status |-> t.status]
         /\ Low(l, Abs(k)) = Low(v, Abs(k))
  BY ONLY Powers, <1>1, <1>6, <1>12, v \in Int, k \in Int, Abs(k) <= n, ProductLimbs, SMTT(30)
<1>14. PICK lr : lr = [lm EXCEPT ![f] = l]
  OBVIOUS
<1>15. r = [alloc |-> [s.alloc EXCEPT ![w] = n], size |-> [s.size EXCEPT ![w] = k],
            d |-> [s.d EXCEPT ![w] = f], len |-> y, limbs |-> lr, live |-> s.live,
            fault |-> FALSE, status |-> s.status]
  <2>1. r = Product(t, f, n, v, w, k)
    BY <1>8
  <2> QED BY ONLY <1>10, <1>13, <1>14, <2>1
<1>16. /\ lr \in [Block -> Int] /\ lr[f] = l
       /\ \A c \in Block : c # f /\ ~(s.alloc[w] > 0 /\ c = s.d[w]) => lr[c] = s.limbs[c]
  BY <1>4, <1>6, <1>11, <1>14 DEF old, wp
<1>17. /\ \A c \in Block \ {f} : y[c] = IF s.alloc[w] > 0 /\ c = s.d[w] THEN 0 ELSE s.len[c]
       /\ s.len[f] = 0 \/ (s.alloc[w] > 0 /\ f = s.d[w])
  BY <1>4, <1>6, <1>11 DEF old, wp
<1>18. MovedTo(s, r, w, n, k, f, v)
  <2>1. Moved(s, r, w, n, k, f)
    BY ONLY <1>11, <1>15, <1>17 DEF Moved
  <2>2. r.limbs = lr /\ r.status = s.status
    BY <1>15
  <2> QED BY ONLY <1>13, <1>16, <2>1, <2>2 DEF MovedTo, Numbers
<1> QED BY <1>6, <1>18, MovedProduct

\* mpz_mul takes a new block, and then gives back the old one, which held an operand.
LEMMA KeptProduct ==
  ASSUME Powers, NEW s, Plain(s), NEW w \in s.live, NEW n \in 1..IntMax, s.alloc[w] # 0,
         NEW f \in Fresh(s), NEW v \in Int, NEW k \in Int, Abs(k) <= n,
         NEW r, r = Free(Product(NewFor(s, f, n, w), f, n, v, w, k), s.d[w], s.alloc[w])
  PROVE  /\ Plain(r) /\ r.live = s.live /\ r.size[w] = k /\ Mag(r, w) = Low(v, Abs(k))
         /\ \A x \in s.live \ {w} : Keeps(s, r, x)
<1>1. PICK old \in Nat \ {0}, wp \in Block : old = s.alloc[w] /\ wp = s.d[w] /\ s.len[wp] = old
  <2>1. Good(s)
    BY DEF Plain
  <2>2. s.alloc[w] \in Nat \ {0}
    BY <2>1, SizeRange
  <2> QED BY <2>1, <2>2 DEF Good, Backed
<1>2. /\ Good(s) /\ Typed(s) /\ Numbers(s) /\ s.fault = FALSE
      /\ w \in Struct /\ n \in Nat /\ n <= IntMax
  <2>1. Good(s) /\ Typed(s) /\ Numbers(s) /\ s.fault = FALSE
    BY DEF Plain, Good
  <2>2. w \in Struct
    BY <2>1, SizeRange
  <2> QED BY <2>1, <2>2, IntMaxAssumption
<1>3. f \in Block /\ s.len[f] = 0 /\ f # wp
  BY <1>1, <1>2 DEF Typed, Fresh
<1>4. PICK e \in Int : NewFor(s, f, n, w) =
        [alloc |-> [s.alloc EXCEPT ![w] = n], size |-> s.size, d |-> [s.d EXCEPT ![w] = f],
         len |-> [s.len EXCEPT ![f] = n], limbs |-> [s.limbs EXCEPT ![f] = e],
         live |-> s.live, fault |-> s.fault, status |-> s.status]
  BY <1>2, <1>3, NewForLimbs
<1>5. PICK t : t = NewFor(s, f, n, w)
  OBVIOUS
<1>6. PICK y, lm : y = [s.len EXCEPT ![f] = n] /\ lm = [s.limbs EXCEPT ![f] = e]
  OBVIOUS
<1>7. t = [alloc |-> [s.alloc EXCEPT ![w] = n], size |-> s.size, d |-> [s.d EXCEPT ![w] = f],
           len |-> y, limbs |-> lm, live |-> s.live, fault |-> FALSE, status |-> s.status]
  BY <1>2, <1>4, <1>5, <1>6
<1>8. /\ y \in [Block -> Nat] /\ y[f] = n /\ lm \in [Block -> Int]
      /\ \A c \in Block \ {f} : y[c] = s.len[c] /\ lm[c] = s.limbs[c]
  BY <1>2, <1>3, <1>6 DEF Typed, Numbers
<1>9. Typed(t) /\ Numbers(t) /\ t.d[w] = f /\ t.len[f] >= n
  <2>1. [s.alloc EXCEPT ![w] = n] \in [Struct -> Nat] /\ [s.d EXCEPT ![w] = f] \in [Struct -> Block \cup {Null}]
        /\ [s.d EXCEPT ![w] = f][w] = f
    BY <1>2, <1>3 DEF Typed
  <2> QED BY <1>2, <1>7, <1>8, <2>1 DEF Typed, Numbers
<1>10. PICK l \in Int :
         /\ Product(t, f, n, v, w, k) =
              [alloc |-> t.alloc, size |-> [t.size EXCEPT ![w] = k], d |-> t.d, len |-> t.len,
               limbs |-> [t.limbs EXCEPT ![f] = l],
               live |-> t.live, fault |-> t.fault, status |-> t.status]
         /\ Low(l, Abs(k)) = Low(v, Abs(k))
  BY <1>2, <1>3, <1>9, ProductLimbs
<1>11. PICK u : u = Product(t, f, n, v, w, k)
  OBVIOUS
<1>12. PICK lu : lu = [lm EXCEPT ![f] = l]
  OBVIOUS
<1>13. u = [alloc |-> [s.alloc EXCEPT ![w] = n], size |-> [s.size EXCEPT ![w] = k],
            d |-> [s.d EXCEPT ![w] = f], len |-> y, limbs |-> lu, live |-> s.live,
            fault |-> FALSE, status |-> s.status]
  BY <1>7, <1>10, <1>11, <1>12
<1>14. Typed(u) /\ u.len[wp] = old /\ u.fault = FALSE
  <2>1. /\ [s.alloc EXCEPT ![w] = n] \in [Struct -> Nat] /\ [s.size EXCEPT ![w] = k] \in [Struct -> Int]
        /\ [s.d EXCEPT ![w] = f] \in [Struct -> Block \cup {Null}]
    BY <1>2, <1>3 DEF Typed
  <2> QED BY <1>1, <1>2, <1>3, <1>8, <1>13, <2>1 DEF Typed
<1>15. r = Free(u, wp, old)
  BY <1>1, <1>5, <1>11
<1>16. Free(u, wp, old) =
         [alloc |-> u.alloc, size |-> u.size, d |-> u.d,
          len |-> [u.len EXCEPT ![wp] = 0], limbs |-> [u.limbs EXCEPT ![wp] = 0],
          live |-> u.live, fault |-> FALSE, status |-> u.status]
  BY <1>14, FreeLimbs
<1>17. PICK yr, lr : yr = [y EXCEPT ![wp] = 0] /\ lr = [lu EXCEPT ![wp] = 0]
  OBVIOUS
<1>18. r = [alloc |-> [s.alloc EXCEPT ![w] = n], size |-> [s.size EXCEPT ![w] = k],
            d |-> [s.d EXCEPT ![w] = f], len |-> yr, limbs |-> lr, live |-> s.live,
            fault |-> FALSE, status |-> s.status]
  BY <1>13, <1>15, <1>16, <1>17
<1>19. /\ yr \in [Block -> Nat] /\ yr[f] = n
       /\ \A c \in Block \ {f} : yr[c] = IF s.alloc[w] > 0 /\ c = s.d[w] THEN 0 ELSE s.len[c]
       /\ s.len[f] = 0 \/ (s.alloc[w] > 0 /\ f = s.d[w])
  BY <1>1, <1>3, <1>8, <1>17
<1>20. lu \in [Block -> Int] /\ lu[f] = l /\ \A c \in Block \ {f} : lu[c] = s.limbs[c]
  BY <1>3, <1>8, <1>12
<1>21. /\ lr \in [Block -> Int] /\ lr[f] = l
       /\ \A c \in Block : c # f /\ ~(s.alloc[w] > 0 /\ c = s.d[w]) => lr[c] = s.limbs[c]
  BY <1>1, <1>3, <1>17, <1>20
<1>22. MovedTo(s, r, w, n, k, f, v)
  <2>1. Moved(s, r, w, n, k, f)
    BY ONLY <1>18, <1>19 DEF Moved
  <2>2. r.limbs = lr /\ r.status = s.status
    BY <1>18
  <2> QED BY ONLY <1>10, <1>21, <2>1, <2>2 DEF MovedTo, Numbers
<1> QED BY <1>3, <1>22, MovedProduct

\* The copy mpz_mul makes of an operand, in a block nobody has.
Copy(s, f, n, x) == Put(Allocate(s, f, n), f, n, x)

LEMMA CopyShape ==
  ASSUME Powers, NEW s, Plain(s), NEW f \in Fresh(s), NEW n \in Nat, NEW x \in Nat, x < B^n
  PROVE  \E l \in Int :
           /\ Copy(s, f, n, x) =
                [alloc |-> s.alloc, size |-> s.size, d |-> s.d, len |-> [s.len EXCEPT ![f] = n],
                 limbs |-> [s.limbs EXCEPT ![f] = l],
                 live |-> s.live, fault |-> FALSE, status |-> s.status]
           /\ Low(l, n) = x
<1>1. Typed(s) /\ Numbers(s) /\ s.fault = FALSE /\ f \in Block
  BY DEF Plain, Good, Typed, Fresh
<1>2. PICK e \in Int : e = B^n - 1
  <2>1. B^n \in Nat
    BY Base
  <2>2. B^n - 1 \in Int
    BY <2>1
  <2> QED BY <2>2
<1>3. PICK u : u = Allocate(s, f, n)
  OBVIOUS
<1>4. PICK y, lm : y = [s.len EXCEPT ![f] = n] /\ lm = [s.limbs EXCEPT ![f] = e]
  OBVIOUS
<1>5. u = [alloc |-> s.alloc, size |-> s.size, d |-> s.d, len |-> y, limbs |-> lm,
           live |-> s.live, fault |-> FALSE, status |-> s.status]
  <2>1. u = [s EXCEPT !.len[f] = n, !.limbs[f] = e]
    BY <1>2, <1>3 DEF Allocate
  <2> QED BY <1>1, <1>4, <2>1 DEF Typed
<1>6. y \in [Block -> Nat] /\ y[f] = n /\ lm \in [Block -> Int]
  BY <1>1, <1>4 DEF Typed, Numbers
<1>7. Typed(u) /\ Numbers(u) /\ u.len[f] >= n
  BY <1>1, <1>5, <1>6 DEF Typed, Numbers
<1>8. PICK l \in Int :
        /\ Put(u, f, n, x) =
             [alloc |-> u.alloc, size |-> u.size, d |-> u.d, len |-> u.len,
              limbs |-> [u.limbs EXCEPT ![f] = l],
              live |-> u.live, fault |-> u.fault, status |-> u.status]
        /\ \A m \in 0..n : Low(l, m) = Low(x, m)
  BY <1>1, <1>7, PutLimbs
<1>9. Low(l, n) = x
  <2>1. Low(l, n) = Low(x, n)
    BY <1>8
  <2> QED BY <2>1, LowIs
<1>10. [lm EXCEPT ![f] = l] = [s.limbs EXCEPT ![f] = l]
  BY <1>1, <1>4 DEF Numbers
<1>11. Copy(s, f, n, x) =
         [alloc |-> s.alloc, size |-> s.size, d |-> s.d, len |-> y,
          limbs |-> [s.limbs EXCEPT ![f] = l],
          live |-> s.live, fault |-> FALSE, status |-> s.status]
  <2>1. Copy(s, f, n, x) = Put(u, f, n, x)
    BY <1>3 DEF Copy
  <2> QED BY <1>5, <1>8, <1>10, <2>1
<1> QED BY <1>4, <1>9, <1>11

\* What is read beside the copy.
LEMMA CopyRead ==
  ASSUME Powers, NEW s, Plain(s), NEW f \in Fresh(s), NEW n \in Nat, NEW x \in Nat, x < B^n
  PROVE  /\ Get(Copy(s, f, n, x), f, n) = x
         /\ \A p \in Block \ {f} : \A m : Get(Copy(s, f, n, x), p, m) = Get(s, p, m)
<1>0. PICK t : t = Copy(s, f, n, x)
  OBVIOUS
<1>1. PICK l \in Int : Low(l, n) = x /\
        t = [alloc |-> s.alloc, size |-> s.size, d |-> s.d, len |-> [s.len EXCEPT ![f] = n],
             limbs |-> [s.limbs EXCEPT ![f] = l],
             live |-> s.live, fault |-> FALSE, status |-> s.status]
  BY <1>0, CopyShape
<1>2. Typed(s) /\ Numbers(s) /\ f \in Block
  BY DEF Plain, Good, Typed, Fresh
<1>3. /\ DOMAIN t.len = Block /\ t.len[f] = n /\ t.limbs[f] = l
      /\ \A p \in Block \ {f} : t.len[p] = s.len[p] /\ t.limbs[p] = s.limbs[p]
  BY <1>1, <1>2 DEF Typed, Numbers
<1>4. Get(t, f, n) = x
  BY <1>1, <1>2, <1>3 DEF Get
<1>5. DOMAIN s.len = Block
  BY <1>2 DEF Typed
<1>6. ASSUME NEW p \in Block \ {f}, NEW m PROVE Get(t, p, m) = Get(s, p, m)
  BY <1>3, <1>5 DEF Get
<1> QED BY <1>0, <1>4, <1>6

\* The product made from a copy: the copy is given back and leaves no trace.
LEMMA CopiedProduct ==
  ASSUME Powers, NEW s, Plain(s), NEW w \in s.live, NEW f \in Fresh(s), NEW n \in Nat \ {0},
         NEW x \in Nat, x < B^n, NEW wsize \in Nat \ {0}, wsize <= s.alloc[w], NEW v \in Int,
         NEW k \in Int, Abs(k) <= wsize,
         NEW r, r = Free(Product(Copy(s, f, n, x), s.d[w], wsize, v, w, k), f, n)
  PROVE  /\ Plain(r) /\ r.live = s.live /\ r.size[w] = k /\ Mag(r, w) = Low(v, Abs(k))
         /\ \A y \in s.live \ {w} : Keeps(s, r, y)
<1>1. PICK wp : wp = s.d[w]
  OBVIOUS
<1>2. /\ Good(s) /\ Typed(s) /\ Numbers(s) /\ Dummy(s) /\ s.fault = FALSE /\ s.status = "run"
      /\ w \in Struct /\ s.alloc[w] \in Nat /\ wp \in Block /\ s.len[wp] = s.alloc[w]
      /\ f \in Block /\ s.len[f] = 0 /\ f # wp
  <2>1. Good(s) /\ Typed(s) /\ Numbers(s) /\ Dummy(s) /\ s.fault = FALSE /\ s.status = "run"
    BY DEF Plain, Good
  <2>2. w \in Struct /\ s.alloc[w] \in Nat
    BY <2>1, SizeRange
  <2>3. wp \in Block /\ s.len[wp] = s.alloc[w]
    BY <1>1, <2>1, <2>2 DEF Good, Backed
  <2>4. f \in Block /\ s.len[f] = 0
    BY <2>1 DEF Typed, Fresh
  <2> QED BY <2>1, <2>2, <2>3, <2>4
<1>0. PICK t : t = Copy(s, f, n, x)
  OBVIOUS
<1>3. PICK c \in Int :
        t = [alloc |-> s.alloc, size |-> s.size, d |-> s.d, len |-> [s.len EXCEPT ![f] = n],
             limbs |-> [s.limbs EXCEPT ![f] = c],
             live |-> s.live, fault |-> FALSE, status |-> s.status]
  BY <1>0, CopyShape
<1>4. PICK y, lm : y = [s.len EXCEPT ![f] = n] /\ lm = [s.limbs EXCEPT ![f] = c]
  OBVIOUS
<1>5. /\ y \in [Block -> Nat] /\ y[f] = n /\ y[wp] = s.alloc[w] /\ lm \in [Block -> Int]
      /\ [y EXCEPT ![f] = 0] = s.len
      /\ \A b \in Block \ {f} : lm[b] = s.limbs[b]
  BY <1>2, <1>4 DEF Typed, Numbers
<1>6. t = [alloc |-> s.alloc, size |-> s.size, d |-> s.d, len |-> y, limbs |-> lm,
           live |-> s.live, fault |-> FALSE, status |-> s.status]
  BY <1>3, <1>4
<1>7. Typed(t) /\ Numbers(t) /\ t.d[w] = wp /\ t.len[wp] >= wsize
  BY <1>1, <1>2, <1>5, <1>6 DEF Typed, Numbers
<1>8. PICK l \in Int :
         /\ Product(t, wp, wsize, v, w, k) =
              [alloc |-> t.alloc, size |-> [t.size EXCEPT ![w] = k], d |-> t.d, len |-> t.len,
               limbs |-> [t.limbs EXCEPT ![wp] = l],
               live |-> t.live, fault |-> t.fault, status |-> t.status]
         /\ Low(l, Abs(k)) = Low(v, Abs(k))
  <2>1. wsize \in Nat /\ v \in Int /\ k \in Int /\ Abs(k) <= wsize /\ Powers
    OBVIOUS
  <2>2. w \in Struct /\ wp \in Block
    BY <1>2
  <2> QED BY ONLY <1>7, <2>1, <2>2, ProductLimbs, SMTT(30)
<1>9. PICK u, lu, z : u = Product(t, wp, wsize, v, w, k) /\ lu = [lm EXCEPT ![wp] = l]
                      /\ z = [s.size EXCEPT ![w] = k]
  OBVIOUS
<1>10. u = [alloc |-> s.alloc, size |-> z, d |-> s.d, len |-> y, limbs |-> lu,
            live |-> s.live, fault |-> FALSE, status |-> s.status]
  BY <1>6, <1>8, <1>9
<1>11. /\ z \in [Struct -> Int] /\ z[w] = k /\ lu \in [Block -> Int] /\ lu[wp] = l
       /\ \A b \in Block : b # f /\ b # wp => lu[b] = s.limbs[b]
       /\ \A b \in Struct \ {w} : z[b] = s.size[b]
  BY <1>2, <1>5, <1>9 DEF Typed
<1>12. Typed(u) /\ u.len[f] = n /\ u.fault = FALSE
  BY <1>2, <1>5, <1>10, <1>11 DEF Typed
<1>13. r = Free(u, f, n)
  BY <1>0, <1>1, <1>9
<1>14. Free(u, f, n) =
         [alloc |-> u.alloc, size |-> u.size, d |-> u.d,
          len |-> [u.len EXCEPT ![f] = 0], limbs |-> [u.limbs EXCEPT ![f] = 0],
          live |-> u.live, fault |-> FALSE, status |-> u.status]
  BY <1>2, <1>12, FreeLimbs
<1>15. PICK lr : lr = [lu EXCEPT ![f] = 0]
  OBVIOUS
<1>16. r = [alloc |-> s.alloc, size |-> z, d |-> s.d, len |-> s.len, limbs |-> lr,
            live |-> s.live, fault |-> FALSE, status |-> s.status]
  BY <1>5, <1>10, <1>13, <1>14, <1>15
<1>17. /\ lr \in [Block -> Int] /\ lr[wp] = l
       /\ \A b \in Block : b # f /\ b # wp => lr[b] = s.limbs[b]
  BY <1>2, <1>11, <1>15
<1>18. Good(r)
  <2>1. PICK h : h = [s EXCEPT !.size[w] = k]
    OBVIOUS
  <2>2. Good(h)
    <3>1. Abs(k) <= s.alloc[w]
      BY <1>2, AbsRange
    <3> QED BY <1>2, <2>1, <3>1, SizeGood
  <2>3. r = [h EXCEPT !.limbs = lr]
    <3>1. h = [alloc |-> s.alloc, size |-> z, d |-> s.d, len |-> s.len, limbs |-> s.limbs,
               live |-> s.live, fault |-> FALSE, status |-> s.status]
      BY <1>2, <1>9, <2>1 DEF Typed
    <3>2. /\ h.alloc = s.alloc /\ h.size = z /\ h.d = s.d /\ h.len = s.len
          /\ h.live = s.live /\ h.fault = FALSE /\ h.status = s.status
      BY <3>1
    <3>3. [h EXCEPT !.limbs = lr] =
            [alloc |-> h.alloc, size |-> h.size, d |-> h.d, len |-> h.len, limbs |-> lr,
             live |-> h.live, fault |-> h.fault, status |-> h.status]
      BY <2>2 DEF Good, Typed
    <3> QED BY <1>16, <3>2, <3>3
  <2> QED BY <2>2, <2>3, LimbsGood
<1>19. /\ r.alloc = s.alloc /\ r.size = z /\ r.d = s.d /\ r.len = s.len /\ r.limbs = lr
       /\ r.live = s.live /\ r.status = "run"
  BY <1>2, <1>16
<1>20. Plain(r)
  BY <1>2, <1>17, <1>18, <1>19 DEF Plain, Numbers, Dummy
<1>21. Mag(r, w) = Low(v, Abs(k))
  <2>1. PICK i \in Nat : i = Abs(k) /\ AbSiz(r, w) = i
    BY <1>11, <1>19, AbsRange DEF AbSiz
  <2>2. wp \in DOMAIN r.len /\ r.len[wp] >= i
    BY <1>2, <1>19, <2>1 DEF Typed
  <2>3. Get(r, wp, i) = Low(l, i)
    BY <1>17, <1>19, <2>2 DEF Get
  <2> QED BY <1>1, <1>8, <1>19, <2>1, <2>3 DEF Mag
<1>22. ASSUME NEW b \in s.live \ {w} PROVE Keeps(s, r, b)
  <2>1. b \in Struct /\ AbSiz(s, b) <= s.alloc[b] /\ AbSiz(s, b) \in Nat
    BY <1>2, SizeRange
  <2>2. r.size[b] = s.size[b]
    BY <1>11, <1>19, <2>1
  <2>3. ASSUME s.alloc[b] > 0
        PROVE  /\ r.d[b] \in Block /\ r.len[r.d[b]] >= AbSiz(s, b)
               /\ r.limbs[r.d[b]] = s.limbs[s.d[b]]
    <3>1. s.d[b] \in Block /\ s.len[s.d[b]] = s.alloc[b]
      BY <1>2, <2>3 DEF Good, Backed
    <3>2. s.alloc[w] > 0
      BY <1>2
    <3>3. s.d[b] # wp
      BY <1>1, <1>2, <2>3, <3>2 DEF Good, OneOwner
    <3>4. s.d[b] # f
      BY <1>2, <2>3, <3>1
    <3> QED BY <1>17, <1>19, <2>1, <3>1, <3>3, <3>4
  <2>4. Typed(r) /\ Numbers(r)
    BY <1>18, <1>20 DEF Good, Plain
  <2> QED BY <2>2, <2>3, <2>4, BlockKeeps
<1> QED BY <1>11, <1>19, <1>20, <1>21, <1>22

LEMMA TimesLeast ==
  ASSUME NEW x \in Nat, NEW y \in Nat, NEW a \in Nat, NEW c \in Nat, x <= a, y <= c
  PROVE  x * y \in Nat /\ x * y <= a * c
<1>1. x * y <= x * c
  OBVIOUS
<1>2. x * c <= a * c
  <2>1. PICK e \in Nat : a = x + e
    <3>1. a - x \in Nat /\ a = x + (a - x)
      OBVIOUS
    <3> QED BY <3>1
  <2>2. a * c = x * c + e * c /\ e * c >= 0
    BY <2>1
  <2> QED BY <2>2
<1> QED BY <1>1, <1>2

\* The product of two numbers has as many limbs as both, or one less.
LEMMA TimesExact ==
  ASSUME Powers, NEW a, NEW n \in Nat \ {0}, Exact(a, n), NEW c, NEW m \in Nat \ {0}, Exact(c, m),
         NEW v, v = a * c, NEW h, h = n + m
  PROVE  v \in Nat /\ v < B^h /\ Exact(v, h - Bit(High(v, h - 1) = 0))
<1>1. PICK i \in Nat, j \in Nat : i = n - 1 /\ n = i + 1 /\ j = m - 1 /\ m = j + 1
  <2>1. n - 1 \in Nat /\ n = (n - 1) + 1 /\ m - 1 \in Nat /\ m = (m - 1) + 1
    OBVIOUS
  <2> QED BY <2>1
<1>2. h \in Nat \ {0} /\ h > 1 /\ h - 2 = i + j
  BY <1>1
<1>3. B \in Nat \ {0} /\ \A k \in Nat : B^k \in Nat
  <2>1. B \in Nat \ {0}
    BY Base
  <2>2. \A k \in Nat : B^k \in Nat
    BY Base
  <2> QED BY <2>1, <2>2
<1>4. PICK p \in Nat, q \in Nat : p = B^n /\ q = B^m /\ B^h = p * q
  <2>1. n \in Nat /\ m \in Nat
    OBVIOUS
  <2>2. B^(n + m) = B^n * B^m
    BY <1>3, <2>1, PowSum
  <2> QED BY <1>2, <1>3, <2>1, <2>2
<1>5. PICK x \in Nat, y \in Nat : x = B^i /\ y = B^j /\ B^(i + j) = x * y
  <2>1. B^(i + j) = B^i * B^j
    BY <1>3, PowSum
  <2> QED BY <1>3, <2>1
<1>6. a \in Nat /\ a < p /\ x <= a /\ c \in Nat /\ c < q /\ y <= c
  BY <1>1, <1>4, <1>5 DEF Exact
<1>7. a * c \in Nat /\ a * c < p * q
  BY <1>6, TimesLess
<1>8. x * y <= a * c
  BY <1>6, TimesLeast
<1>9. v \in Nat
  BY <1>7
<1>10. v < B^h /\ B^(h - 2) <= v
  BY <1>2, <1>4, <1>5, <1>7, <1>8, <1>9
<1>11. Exact(v, h - Bit(High(v, h - 1) = 0))
  BY <1>2, <1>9, <1>10, StripExact
<1> QED BY <1>9, <1>10, <1>11

\* A product of size k in w, the other integers kept, is the result promised.
LEMMA ProductGives ==
  ASSUME Powers, NEW s, Sound(s), NEW w \in s.live, NEW v, NEW k \in Nat, Exact(v, k),
         NEW neg \in BOOLEAN, NEW i \in Int, i = Signed(neg, k), NEW r, Plain(r),
         r.live = s.live, r.size[w] = i, Mag(r, w) = Low(v, Abs(i)),
         \A x \in s.live \ {w} : Keeps(s, r, x)
  PROVE  Gives(s, r, w, Signed(neg, v))
<1>1. Abs(i) = k /\ Signed(i < 0, v) = Signed(neg, v)
  BY SignedSize
<1>2. v \in Nat /\ Low(v, k) = v
  BY LowIs DEF Exact
<1>3. Mag(r, w) = v /\ Exact(v, Abs(i))
  BY <1>1, <1>2
<1>4. Gives(s, r, w, Signed(i < 0, v))
  BY <1>3, GivesBy
<1> QED BY <1>1, <1>4

\* mpn_mul with the result apart from its operands.
LEMMA MpnMulApart ==
  ASSUME NEW t, NEW p, NEW up, NEW vp, NEW m, NEW n, up # p, vp # p
  PROVE  MpnMul(t, p, up, m, vp, n) = Get(t, up, m) * Get(t, vp, n)
BY DEF MpnMul

\* An operand with limbs is in a block of its own, apart from one that is free.
LEMMA OperandBlock ==
  ASSUME Powers, NEW s, Plain(s), NEW x \in s.live, AbSiz(s, x) > 0
  PROVE  /\ s.alloc[x] \in Nat \ {0} /\ s.alloc[x] > 0 /\ AbSiz(s, x) \in Nat \ {0}
         /\ s.d[x] \in Block /\ s.len[s.d[x]] = s.alloc[x] /\ AbSiz(s, x) <= s.alloc[x]
         /\ \A f \in Fresh(s) : s.d[x] # f
<1>1. Good(s) /\ Typed(s)
  BY DEF Plain, Good
<1>2. s.alloc[x] \in Nat /\ AbSiz(s, x) \in Nat /\ AbSiz(s, x) <= s.alloc[x]
  BY <1>1, SizeRange
<1>3. s.d[x] \in Block /\ s.len[s.d[x]] = s.alloc[x] /\ s.alloc[x] > 0
  BY <1>1, <1>2 DEF Good, Backed
<1> QED BY <1>2, <1>3 DEF Fresh

\* What an operand reads as when w has a new block.
LEMMA NewReads ==
  ASSUME Powers, NEW s, Plain(s), NEW w \in s.live, NEW x \in s.live, AbSiz(s, x) > 0,
         NEW n \in 1..IntMax, NEW q,
         q = s \/ (s.alloc[w] # 0 /\ s.d[w] # s.d[x] /\ q = Free(s, s.d[w], s.alloc[w])),
         NEW f \in Fresh(q)
  PROVE  s.d[x] # f /\ Get(NewFor(q, f, n, w), s.d[x], AbSiz(s, x)) = Mag(s, x)
<1>1. /\ Good(s) /\ Typed(s) /\ Numbers(s) /\ s.fault = FALSE /\ w \in Struct /\ n \in Nat /\ n <= IntMax
  <2>1. Good(s) /\ Typed(s) /\ Numbers(s) /\ s.fault = FALSE
    BY DEF Plain, Good
  <2>2. w \in Struct
    BY <2>1, SizeRange
  <2> QED BY <2>1, <2>2, IntMaxAssumption
<1>2. PICK p \in Block, m \in Nat \ {0} : p = s.d[x] /\ m = AbSiz(s, x) /\ s.len[p] >= m
  BY OperandBlock
<1>3. Typed(q) /\ q.len[p] = s.len[p] /\ q.limbs[p] = s.limbs[p]
  <2>1. CASE q = s
    BY <1>1, <2>1
  <2>2. CASE s.alloc[w] # 0 /\ s.d[w] # s.d[x] /\ q = Free(s, s.d[w], s.alloc[w])
    <3>1. PICK o \in Block, old \in Nat \ {0} : o = s.d[w] /\ old = s.alloc[w] /\ s.len[o] = old
      <4>1. s.alloc[w] \in Nat \ {0}
        BY <1>1, <2>2, SizeRange
      <4> QED BY <1>1, <4>1 DEF Good, Backed
    <3>2. q = [alloc |-> s.alloc, size |-> s.size, d |-> s.d,
               len |-> [s.len EXCEPT ![o] = 0], limbs |-> [s.limbs EXCEPT ![o] = 0],
               live |-> s.live, fault |-> FALSE, status |-> s.status]
      BY <1>1, <2>2, <3>1, FreeLimbs, ZenonT(60)
    <3>3. o # p
      BY <1>2, <2>2, <3>1
    <3> QED BY <1>1, <3>2, <3>3 DEF Typed, Numbers
  <2> QED BY <2>1, <2>2
<1>4. f \in Block /\ q.len[f] = 0 /\ f # p
  BY <1>2, <1>3 DEF Typed, Fresh
<1>5. PICK e \in Int : NewFor(q, f, n, w) =
        [alloc |-> [q.alloc EXCEPT ![w] = n], size |-> q.size, d |-> [q.d EXCEPT ![w] = f],
         len |-> [q.len EXCEPT ![f] = n], limbs |-> [q.limbs EXCEPT ![f] = e],
         live |-> q.live, fault |-> q.fault, status |-> q.status]
  BY ONLY Powers, <1>1, <1>3, <1>4, NewForLimbs, SMTT(30)
<1>6. PICK t : t = NewFor(q, f, n, w)
  OBVIOUS
<1>7. t.len = [q.len EXCEPT ![f] = n] /\ t.limbs = [q.limbs EXCEPT ![f] = e]
  BY <1>5, <1>6
<1>8. p \in DOMAIN t.len /\ t.len[p] = q.len[p]
  BY <1>3, <1>4, <1>7 DEF Typed
<1>9. t.limbs[p] = q.limbs[p]
  <2>1. CASE q = s
    BY <1>1, <1>4, <1>7, <2>1 DEF Numbers
  <2>2. CASE q = Free(s, s.d[w], s.alloc[w])
    <3>1. DOMAIN q.limbs = Block
      BY <1>1, <2>2 DEF Free, Numbers, Typed
    <3> QED BY <1>4, <1>7, <3>1
  <2> QED BY <2>1, <2>2
<1>10. p \in DOMAIN s.len
  BY <1>1 DEF Typed
<1>11. Get(t, p, m) = Get(s, p, m)
  BY <1>2, <1>3, <1>8, <1>9, <1>10 DEF Get
<1> QED BY <1>2, <1>4, <1>6, <1>11 DEF Mag

\* The size mpz_mul finds for its product.
LEMMA ProductSize ==
  ASSUME Powers, NEW s, Sound(s), NEW a \in s.live, NEW b \in s.live,
         AbSiz(s, a) > 0, AbSiz(s, b) > 0, NEW h, h = AbSiz(s, a) + AbSiz(s, b),
         NEW v, v = Mag(s, a) * Mag(s, b), NEW neg \in BOOLEAN
  PROVE  /\ v \in Nat /\ h \in Nat \ {0}
         /\ \E k \in Nat : /\ k = h - Bit(High(v, h - 1) = 0) /\ Exact(v, k)
                           /\ Signed(neg, k) \in Int /\ Abs(Signed(neg, k)) <= h
<1>1. PICK n \in Nat \ {0}, m \in Nat \ {0}, x \in Nat, y \in Nat :
        /\ n = AbSiz(s, a) /\ m = AbSiz(s, b) /\ x = Mag(s, a) /\ y = Mag(s, b)
        /\ Exact(x, n) /\ Exact(y, m)
  <2>1. PICK n \in Nat \ {0}, x \in Nat : n = AbSiz(s, a) /\ x = Mag(s, a) /\ Exact(x, n)
    BY Operand
  <2>2. PICK m \in Nat \ {0}, y \in Nat : m = AbSiz(s, b) /\ y = Mag(s, b) /\ Exact(y, m)
    BY Operand
  <2> QED BY <2>1, <2>2
<1>2. h = n + m /\ v = x * y
  BY <1>1
<1>3. v \in Nat /\ Exact(v, h - Bit(High(v, h - 1) = 0))
  BY <1>1, <1>2, TimesExact
<1>4. h \in Nat \ {0}
  BY <1>1, <1>2
<1>5. PICK k \in Nat : k = h - Bit(High(v, h - 1) = 0) /\ k <= h
  <2>1. h - Bit(High(v, h - 1) = 0) \in Nat /\ h - Bit(High(v, h - 1) = 0) <= h
    BY <1>4, BitRange
  <2> QED BY <2>1
<1>6. Exact(v, k)
  BY <1>3, <1>5
<1>7. Signed(neg, k) \in Int /\ Abs(Signed(neg, k)) = k
  BY <1>6, SignedSize
<1> QED BY <1>3, <1>4, <1>5, <1>6, <1>7

\* w gets a new block, and its old one, if any, is free before the product is made.
LEMMA FreshMul ==
  ASSUME Powers, NEW s, Sound(s), NEW w \in s.live, NEW a \in s.live, NEW b \in s.live,
         AbSiz(s, a) > 0, AbSiz(s, b) > 0, NEW h, h = AbSiz(s, a) + AbSiz(s, b), h <= IntMax,
         NEW q, q = IF s.alloc[w] # 0 THEN Free(s, s.d[w], s.alloc[w]) ELSE s,
         s.alloc[w] # 0 => s.d[w] # s.d[a] /\ s.d[w] # s.d[b],
         NEW f \in Fresh(q), NEW t, t = NewFor(q, f, h, w),
         NEW v, v = MpnMul(t, f, s.d[a], AbSiz(s, a), s.d[b], AbSiz(s, b)),
         NEW neg \in BOOLEAN,
         NEW r, r = Product(t, f, h, v, w, Signed(neg, h - Bit(High(v, h - 1) = 0)))
  PROVE  Gives(s, r, w, Signed(neg, Mag(s, a) * Mag(s, b)))
<1>1. Plain(s)
  BY DEF Sound
<1>2. h \in 1..IntMax
  <2>1. AbSiz(s, a) \in Nat \ {0} /\ AbSiz(s, b) \in Nat \ {0}
    BY <1>1, OperandBlock
  <2> QED BY <2>1, IntMaxAssumption
<1>3. s.d[a] # f /\ Get(t, s.d[a], AbSiz(s, a)) = Mag(s, a)
  <2>1. q = s \/ (s.alloc[w] # 0 /\ s.d[w] # s.d[a] /\ q = Free(s, s.d[w], s.alloc[w]))
    OBVIOUS
  <2> QED BY <1>1, <1>2, <2>1, NewReads
<1>4. s.d[b] # f /\ Get(t, s.d[b], AbSiz(s, b)) = Mag(s, b)
  <2>1. q = s \/ (s.alloc[w] # 0 /\ s.d[w] # s.d[b] /\ q = Free(s, s.d[w], s.alloc[w]))
    OBVIOUS
  <2> QED BY <1>1, <1>2, <2>1, NewReads
<1>5. v = Mag(s, a) * Mag(s, b)
  BY <1>3, <1>4, MpnMulApart
<1>6. PICK k \in Nat : /\ k = h - Bit(High(v, h - 1) = 0) /\ Exact(v, k)
                       /\ Signed(neg, k) \in Int /\ Abs(Signed(neg, k)) <= h /\ v \in Nat
  BY <1>5, ProductSize
<1>7. PICK i \in Int : i = Signed(neg, k) /\ Abs(i) <= h
  BY <1>6
<1>8. r = Product(NewFor(q, f, h, w), f, h, v, w, i) /\ v \in Int
  <2>1. Signed(neg, h - Bit(High(v, h - 1) = 0)) = i
    BY ONLY <1>6, <1>7, Zenon
  <2>2. v \in Int
    BY <1>6
  <2> QED BY <2>1, <2>2, ZenonT(60)
<1>9. /\ Plain(r) /\ r.live = s.live /\ r.size[w] = i /\ Mag(r, w) = Low(v, Abs(i))
      /\ \A x \in s.live \ {w} : Keeps(s, r, x)
  BY ONLY Powers, <1>1, <1>2, <1>7, <1>8, w \in s.live, f \in Fresh(q),
          q = IF s.alloc[w] # 0 THEN Free(s, s.d[w], s.alloc[w]) ELSE s, FreshProduct, SMTT(30)
<1>10. Gives(s, r, w, Signed(neg, v))
  BY ONLY Powers, Sound(s), w \in s.live, neg \in BOOLEAN, <1>6, <1>7, <1>9,
          ProductGives, SMTT(60)
<1> QED BY <1>5, <1>10

\* w gets a new block, and its old one holds an operand until the product is there.
LEMMA KeptMul ==
  ASSUME Powers, NEW s, Sound(s), NEW w \in s.live, NEW a \in s.live, NEW b \in s.live,
         AbSiz(s, a) > 0, AbSiz(s, b) > 0, NEW h, h = AbSiz(s, a) + AbSiz(s, b), h <= IntMax,
         s.alloc[w] # 0, NEW f \in Fresh(s), NEW t, t = NewFor(s, f, h, w),
         NEW v, v = MpnMul(t, f, s.d[a], AbSiz(s, a), s.d[b], AbSiz(s, b)),
         NEW neg \in BOOLEAN,
         NEW r, r = Free(Product(t, f, h, v, w, Signed(neg, h - Bit(High(v, h - 1) = 0))),
                         s.d[w], s.alloc[w])
  PROVE  Gives(s, r, w, Signed(neg, Mag(s, a) * Mag(s, b)))
<1>1. Plain(s)
  BY DEF Sound
<1>2. h \in 1..IntMax
  <2>1. AbSiz(s, a) \in Nat \ {0} /\ AbSiz(s, b) \in Nat \ {0}
    BY <1>1, OperandBlock
  <2> QED BY <2>1, IntMaxAssumption
<1>3. s.d[a] # f /\ Get(t, s.d[a], AbSiz(s, a)) = Mag(s, a)
  BY <1>1, <1>2, NewReads
<1>4. s.d[b] # f /\ Get(t, s.d[b], AbSiz(s, b)) = Mag(s, b)
  BY <1>1, <1>2, NewReads
<1>5. v = Mag(s, a) * Mag(s, b)
  BY <1>3, <1>4, MpnMulApart
<1>6. PICK k \in Nat : /\ k = h - Bit(High(v, h - 1) = 0) /\ Exact(v, k)
                       /\ Signed(neg, k) \in Int /\ Abs(Signed(neg, k)) <= h /\ v \in Nat
  BY <1>5, ProductSize
<1>7. PICK i \in Int : i = Signed(neg, k) /\ Abs(i) <= h
  BY <1>6
<1>8. r = Free(Product(NewFor(s, f, h, w), f, h, v, w, i), s.d[w], s.alloc[w]) /\ v \in Int
  <2>1. Signed(neg, h - Bit(High(v, h - 1) = 0)) = i
    BY ONLY <1>6, <1>7, Zenon
  <2>2. v \in Int
    BY <1>6
  <2> QED BY <2>1, <2>2, Zenon
<1>9. /\ Plain(r) /\ r.live = s.live /\ r.size[w] = i /\ Mag(r, w) = Low(v, Abs(i))
      /\ \A x \in s.live \ {w} : Keeps(s, r, x)
  BY ONLY Powers, <1>1, <1>2, <1>7, <1>8, w \in s.live, f \in Fresh(s), s.alloc[w] # 0,
          KeptProduct, SMTT(30)
<1>10. Gives(s, r, w, Signed(neg, v))
  BY ONLY Powers, Sound(s), w \in s.live, neg \in BOOLEAN, <1>6, <1>7, <1>9,
          ProductGives, SMTT(60)
<1> QED BY <1>5, <1>10

\* w has room and holds an operand, or both, of which there is a copy.
LEMMA CopiedMul ==
  ASSUME Powers, NEW s, Sound(s), NEW w \in s.live, NEW a \in s.live, NEW b \in s.live,
         AbSiz(s, a) > 0, AbSiz(s, b) > 0, NEW h, h = AbSiz(s, a) + AbSiz(s, b),
         s.alloc[w] >= h, s.d[w] = s.d[a] \/ s.d[w] = s.d[b],
         NEW n, n = IF s.d[w] = s.d[a] THEN AbSiz(s, a) ELSE AbSiz(s, b),
         NEW f \in Fresh(s), NEW t, t = Copy(s, f, n, Get(s, s.d[w], n)),
         NEW v, v = MpnMul(t, s.d[w], IF s.d[a] = s.d[w] THEN f ELSE s.d[a], AbSiz(s, a),
                           IF s.d[b] = s.d[w] THEN f ELSE s.d[b], AbSiz(s, b)),
         NEW neg \in BOOLEAN,
         NEW r, r = Free(Product(t, s.d[w], h, v, w, Signed(neg, h - Bit(High(v, h - 1) = 0))),
                         f, n)
  PROVE  Gives(s, r, w, Signed(neg, Mag(s, a) * Mag(s, b)))
<1>1. Plain(s) /\ OneOwner(s)
  BY DEF Sound, Plain, Good
<1>2. PICK an \in Nat \ {0}, bn \in Nat \ {0} : an = AbSiz(s, a) /\ bn = AbSiz(s, b) /\ h = an + bn
  BY <1>1, OperandBlock
<1>3. PICK ap \in Block, bp \in Block, wp \in Block :
        ap = s.d[a] /\ bp = s.d[b] /\ wp = s.d[w] /\ ap # f /\ bp # f /\ wp # f
  BY <1>1, OperandBlock
<1>4. (ap = wp => a = w) /\ (bp = wp => b = w)
  <2>1. s.alloc[a] > 0 /\ s.alloc[b] > 0
    BY <1>1, OperandBlock
  <2>2. CASE ap = wp
    <3>1. b \in s.live /\ a \in s.live /\ w \in s.live
      OBVIOUS
    <3>2. s.alloc[w] > 0
      BY <1>1, <1>2, SizeRange DEF Plain
    <3> QED BY <1>1, <1>3, <2>1, <3>1, <3>2 DEF OneOwner
  <2>3. CASE ap # wp
    <3>2. s.alloc[w] > 0
      BY <1>1, <1>2, SizeRange DEF Plain
    <3> QED BY <1>1, <1>3, <2>1, <2>3, <3>2, SMTT(30) DEF OneOwner
  <2> QED BY <2>2, <2>3
<1>5. PICK x \in Nat : x = Get(s, wp, n) /\ x < B^n
       /\ (ap = wp => n = an /\ x = Mag(s, a)) /\ (bp = wp => n = bn /\ x = Mag(s, b))
  <2>1. CASE ap = wp
    <3>1. n = an /\ a = w
      BY <1>2, <1>3, <1>4, <2>1
    <3>2. Get(s, wp, n) = Mag(s, a)
      BY <1>2, <1>3, <3>1 DEF Mag
    <3>3. bp = wp => a = b
      BY <1>4, <3>1
    <3> QED BY <1>2, <3>1, <3>2, <3>3, Operand DEF Exact
  <2>2. CASE ap # wp
    <3>1. n = bn /\ b = w
      BY <1>2, <1>3, <1>4, <2>2
    <3>2. Get(s, wp, n) = Mag(s, b)
      BY <1>2, <1>3, <3>1 DEF Mag
    <3> QED BY <1>2, <2>2, <3>1, <3>2, Operand DEF Exact
  <2> QED BY <2>1, <2>2
<1>6. n \in Nat \ {0} /\ t = Copy(s, f, n, x)
  BY <1>2, <1>3, <1>5, SMTT(30)
<1>7. Get(t, f, n) = x /\ \A p \in Block \ {f} : \A m : Get(t, p, m) = Get(s, p, m)
  BY <1>1, <1>5, <1>6, CopyRead
<1>8. PICK au, bu : au = (IF s.d[a] = s.d[w] THEN f ELSE s.d[a]) /\ bu = (IF s.d[b] = s.d[w] THEN f ELSE s.d[b])
  OBVIOUS
<1>9. Get(t, au, an) = Mag(s, a) /\ au # wp
  BY <1>2, <1>3, <1>5, <1>7, <1>8, SMTT(30) DEF Mag
<1>10. Get(t, bu, bn) = Mag(s, b) /\ bu # wp
  BY <1>2, <1>3, <1>5, <1>7, <1>8 DEF Mag
<1>11. v = Mag(s, a) * Mag(s, b)
  <2>1. v = MpnMul(t, wp, au, an, bu, bn)
    BY <1>2, <1>3, <1>8, SMTT(30)
  <2> QED BY <1>9, <1>10, <2>1, MpnMulApart
<1>12. PICK k \in Nat : /\ k = h - Bit(High(v, h - 1) = 0) /\ Exact(v, k)
                        /\ Signed(neg, k) \in Int /\ Abs(Signed(neg, k)) <= h /\ v \in Nat
  BY <1>11, ProductSize, SMTT(30)
<1>13. PICK i \in Int : i = Signed(neg, k) /\ Abs(i) <= h
  BY <1>12, SMTT(30)
<1>14. r = Free(Product(Copy(s, f, n, x), s.d[w], h, v, w, i), f, n) /\ v \in Int
  <2>1. Signed(neg, h - Bit(High(v, h - 1) = 0)) = i
    BY ONLY <1>12, <1>13, Zenon
  <2>2. v \in Int
    BY <1>12
  <2> QED BY <2>1, <2>2, <1>6, ZenonT(60)
<1>15. h \in Nat \ {0} /\ h <= s.alloc[w]
  <2>1. s.alloc[w] \in Nat
    BY <1>1, SizeRange DEF Plain
  <2> QED BY <1>2, <2>1
<1>16. /\ Plain(r) /\ r.live = s.live /\ r.size[w] = i /\ Mag(r, w) = Low(v, Abs(i))
       /\ \A y \in s.live \ {w} : Keeps(s, r, y)
  BY ONLY Powers, <1>1, <1>5, <1>6, <1>13, <1>14, <1>15, w \in s.live, f \in Fresh(s), CopiedProduct
<1>17. Gives(s, r, w, Signed(neg, v))
  BY ONLY Powers, Sound(s), w \in s.live, neg \in BOOLEAN, <1>12, <1>13, <1>16,
          ProductGives, SMTT(60)
<1> QED BY <1>11, <1>17

\* w has room and holds no operand.
LEMMA PlainMul ==
  ASSUME Powers, NEW s, Sound(s), NEW w \in s.live, NEW a \in s.live, NEW b \in s.live,
         AbSiz(s, a) > 0, AbSiz(s, b) > 0, NEW h, h = AbSiz(s, a) + AbSiz(s, b),
         s.alloc[w] >= h, s.d[w] # s.d[a], s.d[w] # s.d[b],
         NEW v, v = MpnMul(s, s.d[w], s.d[a], AbSiz(s, a), s.d[b], AbSiz(s, b)),
         NEW neg \in BOOLEAN,
         NEW r, r = Product(s, s.d[w], h, v, w, Signed(neg, h - Bit(High(v, h - 1) = 0)))
  PROVE  Gives(s, r, w, Signed(neg, Mag(s, a) * Mag(s, b)))
<1>1. Plain(s) /\ Typed(s) /\ w \in Struct /\ s.alloc[w] \in Nat
  <2>1. Plain(s) /\ Good(s) /\ Typed(s)
    BY DEF Sound, Plain, Good
  <2> QED BY <2>1, SizeRange
<1>2. v = Mag(s, a) * Mag(s, b)
  BY MpnMulApart DEF Mag
<1>3. PICK k \in Nat : /\ k = h - Bit(High(v, h - 1) = 0) /\ Exact(v, k)
                       /\ Signed(neg, k) \in Int /\ Abs(Signed(neg, k)) <= h
                       /\ v \in Nat /\ h \in Nat \ {0}
  BY <1>2, ProductSize
<1>4. PICK i \in Int : i = Signed(neg, k) /\ Abs(i) <= h
  BY <1>3
<1>5. r = SetSiz(Put(s, s.d[w], h, v), w, i)
  BY <1>3, <1>4 DEF Product
<1>6. PICK m \in Nat, x \in Int : m = h /\ x = v /\ m <= s.alloc[w] /\ Abs(i) <= m
  BY <1>1, <1>3, <1>4
<1>7. /\ Plain(r) /\ r.live = s.live /\ r.size = [s.size EXCEPT ![w] = i]
      /\ Mag(r, w) = Low(v, Abs(i))
      /\ \A y \in s.live \ {w} : Keeps(s, r, y)
  <2> DEFINE q == SetSiz(Put(s, s.d[w], m, x), w, i)
  <2>1. /\ Plain(q) /\ q.live = s.live /\ q.size = [s.size EXCEPT ![w] = i]
        /\ Mag(q, w) = Low(x, Abs(i))
        /\ \A y \in s.live \ {w} : Keeps(s, q, y)
    BY ONLY <1>1, <1>6, w \in s.live, Powers, WriteValue
  <2>2. r = q /\ x = v
    BY <1>5, <1>6
  <2> HIDE DEF q
  <2> QED BY <2>1, <2>2
<1>8. r.size[w] = i
  BY <1>1, <1>7, SMTT(30) DEF Typed
<1>9. Gives(s, r, w, Signed(neg, v))
  <2>1. Exact(v, k) /\ i = Signed(neg, k)
    BY <1>3, <1>4
  <2>2. /\ Plain(r) /\ r.live = s.live /\ Mag(r, w) = Low(v, Abs(i))
        /\ \A y \in s.live \ {w} : Keeps(s, r, y)
    BY <1>7
  <2> QED BY ONLY Powers, Sound(s), w \in s.live, neg \in BOOLEAN, k \in Nat, i \in Int,
              <1>8, <2>1, <2>2, ProductGives, SMTT(60)
<1> QED BY <1>2, <1>9

\* mpz_mul with more than one limb in each operand.
LEMMA MulManyValue ==
  ASSUME Powers, NEW s, Sound(s), NEW w \in s.live, NEW a \in s.live, NEW b \in s.live,
         AbSiz(s, b) > 0, AbSiz(s, a) > 0, AbSiz(s, a) + AbSiz(s, b) <= IntMax,
         NEW neg \in BOOLEAN, NEW r \in MulMany(s, w, a, AbSiz(s, a), b, AbSiz(s, b), neg)
  PROVE  Gives(s, r, w, Signed(neg, Mag(s, a) * Mag(s, b)))
<1> DEFINE an == AbSiz(s, a)
           bn == AbSiz(s, b)
           up == s.d[a]
           vp == s.d[b]
           wp == s.d[w]
           old == s.alloc[w]
           wsize == an + bn
           overlap == Overlaps(s, w, a, b)
           size(product) == Signed(neg, wsize - Bit(High(product, wsize - 1) = 0))
           finish(t, p, product) == Product(t, p, wsize, product, w, size(product))
           freed == IF old # 0 /\ ~overlap THEN Free(s, wp, old) ELSE s
           new(f) ==
             LET t == NewFor(freed, f, wsize, w)
             IN  FreeMe(s, w, overlap, finish(t, f, MpnMul(t, f, up, an, vp, bn)))
           copied(f) ==
             LET n == IF wp = up THEN an ELSE bn
                 t == Put(Allocate(s, f, n), f, n, Get(s, wp, n))
                 apart(p) == IF p = wp THEN f ELSE p
             IN  Free(finish(t, wp, MpnMul(t, wp, apart(up), an, apart(vp), bn)), f, n)
<1>1. an \in Nat \ {0} /\ bn \in Nat \ {0} /\ old \in Nat
  BY SizeRange DEF Sound, Plain
<1>2. PICK h \in Nat : h = wsize /\ h <= IntMax
  BY <1>1
<1>3. overlap <=> (wp = up \/ wp = vp)
  BY DEF Overlaps
<1>4. CASE old < wsize
  <2>1. old < wsize /\ ~(old >= wsize /\ overlap)
    BY <1>1, <1>4, SMTT(30)
  <2>2. MulMany(s, w, a, an, b, bn, neg) = {new(f) : f \in Fresh(freed)}
    BY <2>1 DEF MulMany, Product, NewFor
  <2>3. PICK f \in Fresh(freed) : r = new(f)
    BY <2>2
  <2>4. PICK t, v : t = NewFor(freed, f, h, w) /\ v = MpnMul(t, f, up, an, vp, bn)
    OBVIOUS
  <2>5. PICK fin : fin = Product(t, f, h, v, w, Signed(neg, h - Bit(High(v, h - 1) = 0)))
    OBVIOUS
  <2>6. r = IF old # 0 /\ overlap THEN Free(fin, wp, old) ELSE fin
    BY <1>2, <2>3, <2>4, <2>5 DEF FreeMe
  <2>7. CASE old # 0 /\ overlap
    <3>1. freed = s
      BY <2>7
    <3>2. f \in Fresh(s) /\ t = NewFor(s, f, h, w)
      BY <2>4, <3>1
    <3>3. r = Free(Product(t, f, h, v, w, Signed(neg, h - Bit(High(v, h - 1) = 0))), wp, old)
      BY <2>5, <2>6, <2>7
    <3> HIDE DEF freed
    <3> QED BY <1>2, <2>4, <2>7, <3>2, <3>3, KeptMul
  <2>8. CASE ~(old # 0 /\ overlap)
    <3>1. PICK q : q = IF s.alloc[w] # 0 THEN Free(s, s.d[w], s.alloc[w]) ELSE s
      OBVIOUS
    <3>2. freed = q
      BY <2>8, <3>1
    <3>3. f \in Fresh(q) /\ t = NewFor(q, f, h, w)
      BY <2>4, <3>2
    <3>4. s.alloc[w] # 0 => s.d[w] # s.d[a] /\ s.d[w] # s.d[b]
      BY <1>3, <2>8
    <3>5. r = Product(t, f, h, v, w, Signed(neg, h - Bit(High(v, h - 1) = 0)))
      BY <2>5, <2>6, <2>8
    <3>6. /\ v = MpnMul(t, f, s.d[a], AbSiz(s, a), s.d[b], AbSiz(s, b))
          /\ h = AbSiz(s, a) + AbSiz(s, b) /\ h <= IntMax
          /\ AbSiz(s, a) > 0 /\ AbSiz(s, b) > 0 /\ Powers /\ Sound(s)
          /\ w \in s.live /\ a \in s.live /\ b \in s.live
      BY <1>2, <2>4
    <3>7. neg \in BOOLEAN
      OBVIOUS
    <3> QED BY ONLY <3>1, <3>3, <3>4, <3>5, <3>6, <3>7, FreshMul, ZenonT(120)
  <2> QED BY <2>7, <2>8
<1>5. CASE ~(old < wsize) /\ overlap
  <2>1. ~(old < wsize) /\ old >= wsize /\ overlap
    BY <1>1, <1>5
  <2>2. MulMany(s, w, a, an, b, bn, neg) = {copied(f) : f \in Fresh(s)}
    BY <2>1 DEF MulMany, Product
  <2>3. PICK f \in Fresh(s) : r = copied(f)
    BY <2>2
  <2>4. PICK n, t : n = (IF wp = up THEN an ELSE bn) /\ t = Copy(s, f, n, Get(s, wp, n))
    OBVIOUS
  <2>5. PICK v : v = MpnMul(t, wp, IF up = wp THEN f ELSE up, an, IF vp = wp THEN f ELSE vp, bn)
    OBVIOUS
  <2>6. r = Free(Product(t, wp, h, v, w, Signed(neg, h - Bit(High(v, h - 1) = 0))), f, n)
    BY <1>2, <2>3, <2>4, <2>5 DEF Copy
  <2>7. s.alloc[w] >= h /\ (s.d[w] = s.d[a] \/ s.d[w] = s.d[b])
    BY <1>2, <1>3, <2>1
  <2> QED BY <1>2, <2>4, <2>5, <2>6, <2>7, CopiedMul
<1>6. CASE ~(old < wsize) /\ ~overlap
  <2>1. r = finish(s, wp, MpnMul(s, wp, up, an, vp, bn))
    BY <1>1, <1>6 DEF MulMany, Product
  <2>2. PICK v : v = MpnMul(s, wp, up, an, vp, bn)
    OBVIOUS
  <2>3. r = Product(s, wp, h, v, w, Signed(neg, h - Bit(High(v, h - 1) = 0)))
    BY <1>2, <2>1, <2>2
  <2>4. s.alloc[w] >= h /\ s.d[w] # s.d[a] /\ s.d[w] # s.d[b]
    BY <1>1, <1>2, <1>3, <1>6
  <2> QED BY <1>2, <2>2, <2>3, <2>4, PlainMul
<1> QED BY <1>4, <1>5, <1>6

\* mpz_mul.
LEMMA MulValue ==
  ASSUME Powers, NEW s, Sound(s), NEW w \in s.live, NEW u \in s.live, NEW v \in s.live,
         AbSiz(s, u) + AbSiz(s, v) <= IntMax, NEW r \in MpzMul(s, w, u, v), r.status = "run"
  PROVE  Gives(s, r, w, Value(s, u) * Value(s, v))
<1> DEFINE swap == AbSiz(s, u) < AbSiz(s, v)
           a == IF swap THEN v ELSE u
           b == IF swap THEN u ELSE v
           an == AbSiz(s, a)
           bn == AbSiz(s, b)
           sign == (s.size[u] < 0) # (s.size[v] < 0)
<1>1. /\ a \in s.live /\ b \in s.live /\ an \in Nat /\ bn \in Nat
      /\ bn <= an /\ an + bn <= IntMax
  BY SizeRange DEF Sound, Plain
<1>2. PICK p \in BOOLEAN, q \in BOOLEAN, neg \in BOOLEAN :
        (p <=> s.size[u] < 0) /\ (q <=> s.size[v] < 0) /\ (neg <=> (p # q))
  <2>1. PICK p \in BOOLEAN, q \in BOOLEAN : (p <=> s.size[u] < 0) /\ (q <=> s.size[v] < 0)
    OBVIOUS
  <2> QED BY <2>1
<1>3. neg <=> sign
  BY <1>2
<1>4. PICK m \in Nat, n \in Nat : m = Mag(s, u) /\ n = Mag(s, v)
        /\ Value(s, u) = Signed(p, m) /\ Value(s, v) = Signed(q, n)
  BY <1>2, Operand DEF Signed
<1>5. Value(s, u) * Value(s, v) = Signed(neg, m * n) /\ m * n \in Nat
  BY <1>2, <1>4, SignedTimes
<1>6. Mag(s, a) * Mag(s, b) = m * n
  BY <1>4
<1>7. (bn = 0 <=> s.size[b] = 0) /\ (an = 0 <=> s.size[a] = 0)
  BY <1>1, Operand, AbsRange
<1>8. CASE bn = 0
  <2>1. r = SetSiz(s, w, 0)
    BY <1>8 DEF MpzMul
  <2>2. Mag(s, b) = 0
    BY <1>1, <1>7, <1>8, Operand
  <2>3. m * n = 0
    <3>1. m = 0 \/ n = 0
      BY <1>4, <2>2
    <3> QED BY <3>1
  <2>4. Signed(neg, m * n) = 0
    BY <2>3 DEF Signed
  <2> QED BY <1>5, <2>1, <2>4, ZeroValue
<1>9. CASE bn = 1
  <2>1. PICK t \in Grow(s, w, an + 1) :
          LET product == Source(s, t, a, an) * Source(s, t, b, 1)
          IN  r = SetSiz(Put(t, t.d[w], an + 1, product), w,
                         Signed(sign, an + Bit(product >= B^an)))
    BY <1>9 DEF MpzMul, MulLimb
  <2>2. PICK y : y = Source(s, t, b, 1)
    OBVIOUS
  <2>3. PICK product : product = Source(s, t, a, AbSiz(s, a)) * y
    OBVIOUS
  <2>4. Signed(neg, an + Bit(product >= B^an)) = Signed(sign, an + Bit(product >= B^an))
    BY <1>3 DEF Signed
  <2>5. r = SetSiz(Put(t, t.d[w], AbSiz(s, a) + 1, product), w,
                   Signed(neg, AbSiz(s, a) + Bit(product >= B^AbSiz(s, a))))
    BY <2>1, <2>2, <2>3, <2>4
  <2>6. PICK c \in Nat : c = Mag(s, b) /\ c > 0 /\ c < B
    <3>1. Exact(Mag(s, b), bn) /\ Mag(s, b) \in Nat /\ (Mag(s, b) = 0 <=> s.size[b] = 0)
      BY <1>1, Operand
    <3>2. B^1 = B
      BY Base
    <3>3. Mag(s, b) < B
      BY <1>9, <3>1, <3>2 DEF Exact
    <3> QED BY <1>7, <1>9, <3>1, <3>3
  <2>7. t.status = "run" => y = c
    <3>1. PICK h \in Nat : h = an + 1
      BY <1>1
    <3>2. t \in Grow(s, w, h)
      BY <2>1, <3>1
    <3>3. t.status = "run" => Source(s, t, b, AbSiz(s, b)) = Mag(s, b)
      BY <1>1, <3>2, Reads
    <3> QED BY <1>9, <2>2, <2>6, <3>3
  <2>8. s.size[a] # 0
    BY <1>1, <1>7, <1>9
  <2>9. t \in Grow(s, w, AbSiz(s, a) + 1) /\ a \in s.live /\ w \in s.live
        /\ Powers /\ Sound(s) /\ c > 0 /\ c < B /\ r.status = "run"
    BY <1>1, <2>1, <2>6
  <2>10. Gives(s, r, w, Signed(neg, Mag(s, a) * c))
    <3> HIDE DEF a, b, sign, an, bn
    <3> QED BY ONLY <2>3, <2>5, <2>7, <2>8, <2>9, c \in Nat, neg \in BOOLEAN, LimbValue
  <2> QED BY <1>5, <1>6, <2>6, <2>10
<1>10. CASE bn # 0 /\ bn # 1
  <2>1. PICK x : x = sign
    OBVIOUS
  <2>2. r \in MulMany(s, w, a, an, b, bn, x)
    BY <1>10, <2>1 DEF MpzMul
  <2>3. x \in BOOLEAN /\ (x <=> neg)
    BY <1>3, <2>1
  <2>4. bn > 0 /\ an > 0
    BY <1>1, <1>10
  <2>5. Gives(s, r, w, Signed(x, Mag(s, a) * Mag(s, b)))
    <3> HIDE DEF a, b, sign
    <3> QED BY <1>1, <2>2, <2>3, <2>4, MulManyValue
  <2>6. Signed(x, m * n) = Signed(neg, m * n)
    BY <2>3 DEF Signed
  <2> QED BY <1>5, <1>6, <2>5, <2>6
<1> QED BY <1>8, <1>9, <1>10

-----------------------------------------------------------------------------
(* w += x * y and w -= x * y. *)

\* Two's complement of n limbs.
LEMMA NegLow ==
  ASSUME Powers, NEW n \in Nat, NEW lo \in Nat, lo < B^n
  PROVE  /\ lo = 0 => Low(-lo, n) = 0
         /\ lo # 0 => Low(-lo, n) = B^n - lo
<1>1. PICK d \in Nat \ {0} : d = B^n
  BY Base
<1>2. ASSUME lo = 0 PROVE Low(-lo, n) = 0
  <2>1. PICK v \in Int : v = -lo /\ (v = 0 <=> lo = 0)
    OBVIOUS
  <2>2. v \in Nat /\ v < B^n /\ v = 0
    BY <1>1, <1>2, <2>1
  <2> QED BY <2>1, <2>2, LowIs
<1>3. ASSUME lo # 0 PROVE Low(-lo, n) = B^n - lo
  <2>1. PICK e \in Nat, v \in Int : e = d - lo /\ e < B^n /\ v = -lo
    <3>1. d - lo \in Nat /\ d - lo < B^n /\ -lo \in Int
      BY <1>1, <1>3
    <3> QED BY <3>1
  <2>2. v = B^n * (-1) + e
    BY <1>1, <2>1
  <2>3. Low(v, n) = e
    <3>1. -1 \in Int
      OBVIOUS
    <3> QED BY <2>1, <2>2, <3>1, HighIs
  <2> QED BY <1>1, <2>1, <2>3
<1> QED BY <1>2, <1>3

\* x has no more limbs than w: the difference, negated when it was negative.
LEMMA ShortValue ==
  ASSUME Powers, NEW n \in Nat, NEW wv \in Nat, wv < B^n, NEW xv \in Nat, xv < B^n,
         NEW y \in Nat, y < B, NEW p, p = xv * y
  PROVE  \E l \in Nat, k \in Nat, f \in BOOLEAN :
           /\ SubmulShort(wv, n, xv, y) = [limbs |-> l, n |-> k, flip |-> f]
           /\ l = Abs(wv - p) /\ k <= n + 1 /\ l < B^k /\ (f <=> wv < p)
<1>1. PICK d \in Nat \ {0}, b \in Nat : d = B^n /\ b = B /\ B^(n + 1) = b * d
  BY Base
<1>2. p \in Nat /\ p < B^(n + 1)
  <2>1. xv * y \in Nat /\ xv * y < d * b
    BY <1>1, TimesLess
  <2>2. d * b = b * d
    BY <1>1
  <2> QED BY <1>1, <2>1, <2>2
<1>3. PICK r \in Int : r = wv - p
  BY <1>2
<1>4. PICK h \in Int, lo \in Nat : h = High(r, n) /\ lo = Low(r, n) /\ lo < d /\ r = d * h + lo
  <2>1. High(r, n) \in Int /\ r = d * High(r, n) + Low(r, n)
    BY <1>1, Split
  <2>2. Low(r, n) \in Nat /\ Low(r, n) < d
    BY <1>1, LowRange
  <2> QED BY <2>1, <2>2
<1>5. h <= 0
  <2>1. h >= 1 => d * h >= d
    BY <1>1
  <2> QED BY <1>1, <1>2, <1>3, <1>4, <2>1
<1>6. PICK e : e = SubmulShort(wv, n, xv, y)
  OBVIOUS
<1>7. CASE h = 0
  <2>1. r = lo
    BY <1>4, <1>7
  <2>2. PICK cy \in Int : cy = -h /\ (cy = 0 <=> h = 0)
    OBVIOUS
  <2>3. e = [limbs |-> lo, n |-> n, flip |-> FALSE]
    BY <1>3, <1>4, <1>6, <1>7, <2>2 DEF SubmulShort
  <2>4. lo = Abs(wv - p) /\ n <= n + 1 /\ lo < B^n /\ ~(wv < p)
    BY <1>1, <1>2, <1>3, <1>4, <2>1 DEF Abs
  <2> QED BY <1>6, <2>3, <2>4
<1>8. CASE h # 0
  <2>1. h < 0 /\ -h # 0 /\ d * h <= -d
    <3>1. h <= -1
      BY <1>5, <1>8
    <3>2. d * h <= d * (-1)
      BY <1>1, <3>1
    <3> QED BY <1>1, <3>1, <3>2
  <2>2. r < 0 /\ wv < p
    BY <1>1, <1>2, <1>3, <1>4, <2>1
  <2>3. PICK neg \in Nat, top \in Int : neg = Low(-lo, n) /\ top = -h - Bit(lo # 0)
          /\ neg < d /\ neg + top * d = -r
    <3>1. CASE lo = 0
      <4>1. Low(-lo, n) = 0 /\ Bit(lo # 0) = 0
        BY <1>1, <1>4, <3>1, NegLow DEF Bit
      <4>2. (-h) * d = -(d * h)
        BY <1>1
      <4>3. 0 + (-h - 0) * d = -r
        BY <1>1, <1>4, <3>1, <4>2
      <4> QED BY <1>1, <4>1, <4>3
    <3>2. CASE lo # 0
      <4>1. Low(-lo, n) = d - lo /\ Bit(lo # 0) = 1
        BY <1>1, <1>4, <3>2, NegLow DEF Bit
      <4>2. (-h - 1) * d = -(d * h) - d
        BY <1>1
      <4>3. d - lo + (-h - 1) * d = -r
        BY <1>1, <1>4, <4>2
      <4>4. d - lo \in Nat /\ d - lo < d
        BY <1>1, <1>4, <3>2
      <4> QED BY <1>1, <4>1, <4>3, <4>4
    <3> QED BY <3>1, <3>2
  <2>4. e = [limbs |-> neg + top * d, n |-> n + Bit(top # 0), flip |-> TRUE]
    BY <1>1, <1>3, <1>4, <1>6, <2>1, <2>3 DEF SubmulShort
  <2>5. PICK l \in Nat : l = neg + top * d /\ l = Abs(wv - p) /\ l <= p
    <3>1. -r \in Nat /\ Abs(wv - p) = -r /\ -r <= p
      BY <1>2, <1>3, <2>2 DEF Abs
    <3> QED BY <2>3, <3>1
  <2>6. CASE top = 0
    <3>1. n + Bit(top # 0) = n
      BY <2>6 DEF Bit
    <3>2. l < B^n
      BY <1>1, <2>3, <2>5, <2>6
    <3>3. e = [limbs |-> l, n |-> n, flip |-> TRUE]
      BY <2>4, <2>5, <3>1
    <3>4. n <= n + 1 /\ (TRUE <=> wv < p) /\ TRUE \in BOOLEAN
      BY <2>2
    <3> QED BY ONLY <1>6, <2>5, <3>2, <3>3, <3>4, n \in Nat, l \in Nat
  <2>7. CASE top # 0
    <3>1. n + Bit(top # 0) = n + 1
      BY <2>7 DEF Bit
    <3>2. PICK k \in Nat : k = n + 1 /\ l < B^k
      <4>1. B^(n + 1) \in Nat
        BY <1>1
      <4>2. l < B^(n + 1)
        BY <1>2, <2>5, <4>1
      <4> QED BY <4>2
    <3>3. e = [limbs |-> l, n |-> k, flip |-> TRUE]
      BY <2>4, <2>5, <3>1, <3>2
    <3>4. k <= n + 1 /\ (TRUE <=> wv < p) /\ TRUE \in BOOLEAN
      BY <2>2, <3>2
    <3> QED BY ONLY <1>6, <2>5, <3>2, <3>3, <3>4, k \in Nat, l \in Nat
  <2> QED BY <2>6, <2>7
<1> QED BY <1>7, <1>8

\* A borrow out of the low limbs, which is less than B after the complement.
LEMMA BorrowRange ==
  ASSUME Powers, NEW n \in Nat, NEW wv \in Nat, wv < B^n, NEW xl \in Nat, xl < B^n,
         NEW y \in Nat, y < B, NEW r \in Int, r = wv - xl * y
  PROVE  \E q \in Int, lo \in Nat, c \in Int :
           /\ q = -High(r, n) /\ lo = Low(r, n) /\ lo < B^n /\ c = q - Bit(lo # 0)
           /\ -1 <= c /\ c <= B - 2
           /\ Low(-lo, n) + c * B^n = -r
<1>1. PICK d \in Nat \ {0}, b \in Nat : d = B^n /\ b = B /\ b >= 2
  <2>1. B \in Nat /\ B >= 2
    BY Base
  <2>2. B^n \in Nat \ {0}
    BY Base
  <2> QED BY <2>1, <2>2
<1>2. PICK pl \in Nat, e \in Int : pl = xl * y /\ e = d * (b - 1) /\ pl < e
  <2>1. xl * y \in Nat
    OBVIOUS
  <2>2. PICK dd \in Nat, bb \in Nat : dd = d - 1 /\ bb = b - 1 /\ bb >= 1
    BY <1>1
  <2>3. xl <= dd /\ y <= bb
    BY <1>1, <2>2
  <2>4. xl * y <= dd * bb
    BY <2>2, <2>3, TimesLeast
  <2>5. d * (b - 1) = dd * bb + bb
    <3>1. d = dd + 1 /\ b - 1 = bb
      BY <1>1, <2>2
    <3>2. (dd + 1) * bb = dd * bb + bb
      OBVIOUS
    <3> QED BY <3>1, <3>2
  <2>6. dd * bb \in Nat
    OBVIOUS
  <2> QED BY <2>1, <2>2, <2>4, <2>5, <2>6
<1>3. PICK h \in Int, lo \in Nat : h = High(r, n) /\ lo = Low(r, n) /\ lo < d /\ r = d * h + lo
  <2>1. High(r, n) \in Int /\ r = d * High(r, n) + Low(r, n)
    BY <1>1, Split
  <2>2. Low(r, n) \in Nat /\ Low(r, n) < d
    BY <1>1, LowRange
  <2> QED BY <2>1, <2>2
<1>4. PICK q \in Int : q = -h /\ d * h = -(d * q)
  <2>1. -h \in Int /\ d * h = -(d * (-h))
    BY <1>1
  <2> QED BY <2>1
<1>5. r < d /\ r > -e /\ d * q = lo - r
  BY <1>1, <1>2, <1>3, <1>4
<1>6. q >= 0
  <2>1. q <= -1 => d * q <= -d
    <3> SUFFICES ASSUME q <= -1 PROVE d * q <= -d
      OBVIOUS
    <3>1. d * q <= d * (-1)
      BY <1>1
    <3> QED BY <1>1, <3>1
  <2> QED BY <1>1, <1>3, <1>5, <2>1
<1>7. q <= b - 1 /\ (q = b - 1 => lo # 0)
  <2>1. q >= b => d * q >= e + d
    <3> SUFFICES ASSUME q >= b PROVE d * q >= e + d
      OBVIOUS
    <3>1. d * q >= d * b
      BY <1>1
    <3>2. d * b = d * (b - 1) + d
      BY <1>1
    <3> QED BY <1>1, <1>2, <3>1, <3>2
  <2>2. q = b - 1 => d * q = e
    BY <1>2
  <2> QED BY <1>1, <1>2, <1>3, <1>5, <2>1, <2>2
<1>8. CASE lo = 0
  <2>1. Low(-lo, n) = 0 /\ Bit(lo # 0) = 0
    BY <1>1, <1>3, <1>8, NegLow DEF Bit
  <2>2. 0 + q * d = -r
    <3>1. q * d = d * q
      BY <1>1
    <3>2. d * q = 0 - r
      BY <1>1, <1>5, <1>8
    <3> QED BY <1>1, <3>1, <3>2
  <2>3. q = q - Bit(lo # 0) /\ -1 <= q /\ q <= B - 2
    BY <1>1, <1>6, <1>7, <1>8, <2>1
  <2> QED BY <1>1, <1>3, <1>4, <2>1, <2>2, <2>3
<1>9. CASE lo # 0
  <2>1. Low(-lo, n) = d - lo /\ Bit(lo # 0) = 1
    BY <1>1, <1>3, <1>9, NegLow DEF Bit
  <2>2. PICK c \in Int : c = q - 1
    BY <1>4
  <2>3. (d - lo) + c * d = -r
    <3>1. c * d = d * q - d
      BY <1>1, <2>2
    <3> QED BY <1>1, <1>3, <1>5, <3>1
  <2>4. c = q - Bit(lo # 0) /\ -1 <= c /\ c <= B - 2
    BY <1>1, <1>6, <1>7, <2>1, <2>2
  <2>5. Low(-lo, n) + c * B^n = -r
    BY ONLY <1>1, <2>1, <2>3
  <2>6. q = -High(r, n) /\ lo = Low(r, n) /\ lo < B^n
    BY <1>1, <1>3, <1>4
  <2> QED BY ONLY <2>4, <2>5, <2>6, q \in Int, lo \in Nat, c \in Int
<1> QED BY <1>8, <1>9

\* The borrow held back: B - 1 stands for -1, which a limb cannot be.
LEMMA HeldBorrow ==
  ASSUME Powers, NEW c \in Int, -1 <= c, c <= B - 2
  PROVE  /\ Held(c % B) \in Nat
         /\ ((c % B) + Held(c % B)) % B = c + Held(c % B)
<1>1. PICK b \in Nat \ {0} : b = B /\ b >= 2
  BY Base
<1>2. CASE c >= 0
  <2>1. c = b * 0 + c /\ c \in 0..(b - 1)
    BY <1>1, <1>2
  <2>2. c % b = c
    BY <2>1, DivisionOnly
  <2>3. Held(c) = 0
    BY <1>1 DEF Held, Bit
  <2>4. c + 0 = c
    OBVIOUS
  <2> QED BY <1>1, <2>2, <2>3, <2>4
<1>3. CASE ~(c >= 0)
  <2>1. PICK e \in Nat : e = b - 1
    BY <1>1
  <2>2. c = b * (-1) + e /\ e \in 0..(b - 1)
    BY <1>1, <1>3, <2>1
  <2>3. c % b = e
    <3>1. -1 \in Int
      OBVIOUS
    <3> QED BY <2>2, <3>1, DivisionOnly
  <2>4. Held(e) = 1
    BY <1>1, <2>1 DEF Held, Bit
  <2>5. b % b = 0
    <3>1. b = b * 1 + 0 /\ 0 \in 0..(b - 1)
      BY <1>1
    <3> QED BY <3>1, DivisionOnly
  <2>6. e + 1 = b /\ c + 1 = 0
    BY <1>1, <1>3, <2>1
  <2> QED BY <1>1, <2>3, <2>4, <2>5, <2>6
<1> QED BY <1>2, <1>3

\* x has more limbs than w: the difference is negative, and is negated in two parts.
LEMMA LongValue ==
  ASSUME Powers, NEW n \in Nat, NEW m \in Nat, n < m, NEW wv \in Nat, wv < B^n,
         NEW xv, Exact(xv, m), NEW y \in Nat, y > 0, y < B, NEW p, p = xv * y
  PROVE  \E l \in Nat, k \in Nat :
           /\ SubmulLong(wv, n, xv, m, y) = [limbs |-> l, n |-> k, flip |-> TRUE]
           /\ l = Abs(wv - p) /\ k <= m + 1 /\ l < B^k /\ wv < p
<1>1. PICK j \in Nat : m = n + j /\ m - n = j
  <2>1. m - n \in Nat /\ m = n + (m - n)
    OBVIOUS
  <2> QED BY <2>1
<1>2. PICK d \in Nat \ {0}, g \in Nat : d = B^n /\ g = B^(m - n) /\ B^m = d * g
  <2>1. B \in Nat \ {0}
    BY Base
  <2>2. B^(n + j) = B^n * B^j
    BY <2>1, PowSum
  <2>3. B^n \in Nat \ {0}
    BY Base
  <2>4. B^j \in Nat
    BY Base
  <2> QED BY <1>1, <2>2, <2>3, <2>4
<1>3. PICK xh \in Int, xl \in Nat : xh = High(xv, n) /\ xl = Low(xv, n) /\ xl < d /\ xv = d * xh + xl
  <2>1. xv \in Int
    BY DEF Exact
  <2>2. High(xv, n) \in Int /\ xv = d * High(xv, n) + Low(xv, n)
    BY <1>2, <2>1, Split
  <2>3. Low(xv, n) \in Nat /\ Low(xv, n) < d
    BY <1>2, <2>1, LowRange
  <2> QED BY <2>2, <2>3
<1>4. PICK r \in Int, hy \in Int : r = wv - xl * y /\ hy = xh * y
  OBVIOUS
<1>5. PICK q \in Int, lo \in Nat, c \in Int :
           /\ q = -High(r, n) /\ lo = Low(r, n) /\ lo < B^n /\ c = q - Bit(lo # 0)
           /\ -1 <= c /\ c <= B - 2
           /\ Low(-lo, n) + c * B^n = -r
  <2>1. xl < B^n /\ r = wv - xl * y
    BY <1>2, <1>3, <1>4
  <2> QED BY <2>1, BorrowRange
<1>6. PICK cy \in Int, held \in Nat : cy = c % B /\ held = Held(c % B) /\ (cy + held) % B = c + held
  <2>1. /\ Held(c % B) \in Nat
        /\ ((c % B) + Held(c % B)) % B = c + Held(c % B)
    BY <1>5, HeldBorrow
  <2>2. c % B \in Int
    <3>1. PICK b \in Nat \ {0} : b = B
      BY Base
    <3> QED BY <3>1, Division
  <2> QED BY <2>1, <2>2
<1>7. PICK hi \in Int : hi = hy + (c + held)
  OBVIOUS
<1>8. PICK l \in Int : l = Low(-lo, n) + (hi - held) * d
  <2>1. Low(-lo, n) \in Int
    <3>1. -lo \in Int
      OBVIOUS
    <3> QED BY <3>1, LowRange
  <2>2. (hi - held) * d \in Int
    OBVIOUS
  <2> QED BY <2>1, <2>2
<1>9. SubmulLong(wv, n, xv, m, y) = [limbs |-> l, n |-> m + Bit(hi >= g), flip |-> TRUE]
  <2>1. SubmulBorrow(wv, n, xv, y) = q /\ lo = Low(wv - Low(xv, n) * y, n)
    BY <1>3, <1>4, <1>5 DEF SubmulBorrow
  <2>2. (SubmulBorrow(wv, n, xv, y) - Bit(lo # 0)) % B = c % B
    BY <1>5, <2>1
  <2>3. High(xv, n) * y + ((cy + held) % B) = hi
    BY <1>3, <1>4, <1>6, <1>7
  <2>4. SubmulLong(wv, n, xv, m, y) =
          [limbs |-> Low(-lo, n) + (hi - held) * B^n, n |-> m + Bit(hi >= B^(m - n)), flip |-> TRUE]
    BY <1>6, <2>1, <2>2, <2>3 DEF SubmulLong
  <2> QED BY <1>2, <1>8, <2>4
<1>16. PICK kk : kk = m + Bit(hi >= g)
  OBVIOUS
<1>17. SubmulLong(wv, n, xv, m, y) = [limbs |-> l, n |-> kk, flip |-> TRUE]
  BY <1>9, <1>16
<1>10. p = d * hy + xl * y /\ p \in Nat
  <2>1. (d * xh + xl) * y = d * (xh * y) + xl * y
    BY <1>2
  <2>2. xv \in Nat
    BY DEF Exact
  <2>3. xv * y \in Nat
    BY <2>2
  <2> QED BY <1>3, <1>4, <2>1, <2>3
<1>11. l = p - wv
  <2>1. (hi - held) * d = d * hy + c * d
    <3>1. hi - held = hy + c
      BY <1>6, <1>7
    <3>2. (hy + c) * d = d * hy + c * d
      BY <1>2
    <3> QED BY <3>1, <3>2
  <2>2. PICK lw \in Int : lw = Low(-lo, n)
    <3>1. -lo \in Int
      OBVIOUS
    <3> QED BY <3>1, LowRange
  <2>3. PICK cd \in Int, dh \in Int, pl \in Int : cd = c * d /\ dh = d * hy /\ pl = xl * y
    BY <1>2
  <2>4. lw + cd = -r /\ l = lw + (dh + cd) /\ r = wv - pl /\ p = dh + pl
    BY <1>2, <1>4, <1>5, <1>8, <1>10, <2>1, <2>2, <2>3
  <2> QED BY ONLY <2>3, <2>4, l \in Int, r \in Int, lw \in Int, cd \in Int, dh \in Int, pl \in Int, wv \in Nat
<1>12. wv < p /\ p < B^(m + 1)
  <2>1. PICK b \in Nat, z \in Nat : b = B /\ z = B^m /\ B^(m + 1) = b * z
    BY Base
  <2>2. PICK x \in Nat : x = xv /\ x < z /\ d <= x
    <3>1. m - 1 \in Nat /\ n <= m - 1
      OBVIOUS
    <3>2. PICK i \in Nat : i = m - 1 /\ n <= i
      BY <3>1
    <3>3. B^n <= B^i
      <4>1. B \in Nat \ {0}
        BY Base
      <4> QED BY <3>2, <4>1, PowOrder
    <3>4. B^i <= xv /\ xv \in Nat /\ xv < z
      BY <2>1, <3>2 DEF Exact
    <3>5. B^i \in Nat
      BY Base
    <3> QED BY <1>2, <3>3, <3>4, <3>5
  <2>3. x * y < z * b /\ x <= x * y /\ x * y \in Nat
    BY <2>1, <2>2, TimesLess
  <2>4. z * b = b * z
    BY <2>1
  <2> QED BY <1>2, <1>10, <2>1, <2>2, <2>3, <2>4
<1>13. l \in Nat /\ l = Abs(wv - p) /\ l <= p
  BY <1>10, <1>11, <1>12 DEF Abs
<1>14. CASE hi >= g
  <2>1. PICK k \in Nat : k = m + 1 /\ k = kk
    BY <1>14, <1>16 DEF Bit
  <2>2. l < B^k
    <3>1. B^(m + 1) \in Nat
      BY Base
    <3>2. l < B^(m + 1)
      BY <1>10, <1>12, <1>13, <3>1
    <3> QED BY <2>1, <3>2
  <2>3. SubmulLong(wv, n, xv, m, y) = [limbs |-> l, n |-> k, flip |-> TRUE] /\ k <= m + 1
    <3>1. kk = k /\ k <= m + 1
      BY <2>1
    <3>2. SubmulLong(wv, n, xv, m, y) = [limbs |-> l, n |-> k, flip |-> TRUE]
      BY ONLY <1>17, <3>1, Zenon
    <3> QED BY <3>1, <3>2, Zenon
  <2> QED BY <1>12, <1>13, <2>2, <2>3
<1>15. CASE ~(hi >= g)
  <2>1. kk = m
    BY <1>15, <1>16 DEF Bit
  <2>2. l < B^m
    <3>1. PICK lw \in Nat : lw = Low(-lo, n) /\ lw < d
      <4>1. -lo \in Int
        OBVIOUS
      <4> QED BY <1>2, <4>1, LowRange
    <3>2. PICK e \in Int : e = hi - held /\ e <= g - 1
      BY <1>6, <1>15
    <3>3. e * d <= (g - 1) * d
      BY <1>2, <3>2
    <3>4. (g - 1) * d = d * g - d
      BY <1>2
    <3>5. l = lw + e * d
      BY <1>8, <3>1, <3>2
    <3> QED BY <1>2, <3>1, <3>3, <3>4, <3>5
  <2>3. SubmulLong(wv, n, xv, m, y) = [limbs |-> l, n |-> m, flip |-> TRUE] /\ m <= m + 1
    BY <1>17, <2>1
  <2> QED BY <1>12, <1>13, <2>2, <2>3
<1> QED BY <1>14, <1>15

\* A number of n limbs times a limb leaves room for a number of n limbs more.
LEMMA TimesRoom ==
  ASSUME NEW a \in Nat, NEW d \in Nat, a < d, NEW y \in Nat, NEW b \in Nat, y < b, b >= 2
  PROVE  a * y \in Nat /\ a * y + d < d * b
<1>1. PICK dd \in Nat, bb \in Nat : dd = d - 1 /\ bb = b - 1 /\ bb >= 1 /\ d = dd + 1 /\ b = bb + 1
  <2>1. d - 1 \in Nat /\ b - 1 \in Nat /\ b - 1 >= 1 /\ d = (d - 1) + 1 /\ b = (b - 1) + 1
    OBVIOUS
  <2> QED BY <2>1
<1>2. a <= dd /\ y <= bb
  BY <1>1
<1>3. a * y \in Nat /\ a * y <= dd * bb
  BY <1>1, <1>2, TimesLeast
<1>4. d * b = dd * bb + dd + bb + 1
  <2>1. (dd + 1) * (bb + 1) = dd * bb + dd + bb + 1
    OBVIOUS
  <2> QED BY <1>1, <2>1
<1>5. PICK m \in Nat, c \in Nat : m = dd * bb /\ c = a * y
  BY <1>3
<1>6. c + d < m + dd + bb + 1
  BY <1>1, <1>3, <1>5
<1> QED BY <1>3, <1>4, <1>5, <1>6

\* The size of w + x * y.
LEMMA AddTimesExact ==
  ASSUME Powers, NEW n \in Nat \ {0}, NEW wv \in Nat, wv < B^n, NEW xv \in Nat, xv < B^n,
         B^(n - 1) <= wv \/ B^(n - 1) <= xv, NEW y \in Nat, y > 0, y < B,
         NEW v, v = wv + xv * y
  PROVE  v \in Nat /\ Exact(v, n + Bit(v >= B^n))
<1>1. PICK d \in Nat, b \in Nat : d = B^n /\ b = B /\ B^(n + 1) = b * d /\ b >= 2
  BY Base
<1>2. xv * y \in Nat /\ xv * y + d < d * b /\ xv <= xv * y
  <2>1. xv * y \in Nat /\ xv * y + d < d * b
    BY <1>1, TimesRoom
  <2>2. xv <= xv * y
    BY <1>1, TimesLess
  <2> QED BY <2>1, <2>2
<1>3. v \in Nat /\ v < B^(n + 1)
  <2>1. d * b = b * d /\ b * d \in Nat
    BY <1>1
  <2> QED BY <1>1, <1>2, <2>1
<1>4. B^(n - 1) <= v
  <2>1. B^(n - 1) \in Nat
    BY Around
  <2> QED BY <1>2, <2>1
<1> QED BY <1>3, <1>4, CarryExact

\* Signs.
LEMMA SignedSum ==
  ASSUME NEW a \in Int, NEW p \in Nat, NEW px \in BOOLEAN, NEW sub \in BOOLEAN,
         NEW e \in BOOLEAN, e <=> (sub # px)
  PROVE  (IF sub THEN a - Signed(px, p) ELSE a + Signed(px, p)) = a + Signed(e, p)
<1>1. CASE sub /\ px
  BY <1>1 DEF Signed
<1>2. CASE sub /\ ~px
  BY <1>2 DEF Signed
<1>3. CASE ~sub /\ px
  BY <1>3 DEF Signed
<1>4. CASE ~sub /\ ~px
  BY <1>4 DEF Signed
<1> QED BY <1>1, <1>2, <1>3, <1>4

LEMMA SignedDiff ==
  ASSUME NEW a \in Nat, NEW p \in Nat, NEW q \in BOOLEAN, NEW e \in BOOLEAN, e <=> ~q,
         NEW f \in BOOLEAN, f <=> a < p, NEW z \in BOOLEAN, z <=> (q # f)
  PROVE  Signed(q, a) + Signed(e, p) = Signed(z, Abs(a - p))
<1>0. PICK c \in Nat : c = Abs(a - p) /\ (f => c = p - a) /\ (~f => c = a - p)
  <2>1. CASE f
    BY <2>1 DEF Abs
  <2>2. CASE ~f
    <3>1. a - p \in Nat /\ Abs(a - p) = a - p
      BY <2>2 DEF Abs
    <3> QED BY <2>2, <3>1
  <2> QED BY <2>1, <2>2
<1>1. CASE q
  <2>1. Signed(q, a) = -a /\ Signed(e, p) = p
    BY <1>1 DEF Signed
  <2>2. Signed(z, c) = IF f THEN c ELSE -c
    BY <1>1 DEF Signed
  <2>3. -a + p = IF f THEN c ELSE -c
    BY <1>0
  <2> QED BY <1>0, <2>1, <2>2, <2>3
<1>2. CASE ~q
  <2>1. Signed(q, a) = a /\ Signed(e, p) = -p
    BY <1>2 DEF Signed
  <2>2. Signed(z, c) = IF f THEN -c ELSE c
    BY <1>2 DEF Signed
  <2>3. a + (-p) = IF f THEN -c ELSE c
    BY <1>0
  <2> QED BY <1>0, <2>1, <2>2, <2>3
<1> QED BY <1>1, <1>2

LEMMA SignedLimb ==
  ASSUME NEW a \in Nat, NEW y \in Nat, NEW p \in BOOLEAN
  PROVE  a * y \in Nat /\ Signed(p, a) * y = Signed(p, a * y)
<1>1. (-a) * y = -(a * y) /\ a * y \in Nat
  OBVIOUS
<1>2. CASE p
  BY <1>1, <1>2 DEF Signed
<1>3. CASE ~p
  BY <1>1, <1>3 DEF Signed
<1> QED BY <1>1, <1>2, <1>3

\* Limbs of a number of at most m limbs, stored with the size MPN_NORMALIZE finds.
LEMMA NormalizedResult ==
  ASSUME Powers, NEW s, Sound(s), NEW w \in s.live, NEW n \in Nat, NEW t \in Grow(s, w, n),
         NEW m \in Nat, m <= n, NEW j \in Nat, j <= m, NEW l \in Nat, l < B^j,
         NEW z \in BOOLEAN, NEW r, r = SetSiz(Put(t, t.d[w], m, l), w, Signed(z, Normalize(l, j))),
         r.status = "run"
  PROVE  Gives(s, r, w, Signed(z, l))
<1>1. PICK k \in Nat : k = Normalize(l, j) /\ Exact(l, k) /\ k <= m
  <2>1. Exact(l, Normalize(l, j)) /\ Normalize(l, j) \in 0..j
    BY NormalizeExact
  <2> QED BY <2>1
<1>2. r = SetSiz(Put(t, t.d[w], m, l), w, Signed(z, k))
  BY <1>1
<1>3. SetSiz(Put(t, t.d[w], m, l), w, Signed(z, k)).status = "run"
  BY <1>2
<1>4. Gives(s, SetSiz(Put(t, t.d[w], m, l), w, Signed(z, k)), w, Signed(z, l))
  BY <1>1, <1>3, SignedResult
<1> QED BY <1>2, <1>4

\* The case of mpz_aorsmul_1 in which the absolute values are subtracted.
LEMMA MinusValue ==
  ASSUME Powers, NEW s, Sound(s), NEW w \in s.live, NEW x \in s.live,
         NEW wsize, wsize = AbSiz(s, w), NEW xsize, xsize = AbSiz(s, x), xsize # 0,
         NEW y \in Nat, y > 0, y < B, NEW n, n = Larger(wsize, xsize),
         NEW t \in Grow(s, w, n + 1),
         NEW a, a = IF wsize >= xsize
                    THEN SubmulShort(Source(s, t, w, wsize), wsize, Source(s, t, x, xsize), y)
                    ELSE SubmulLong(Source(s, t, w, wsize), wsize, Source(s, t, x, xsize), xsize, y),
         NEW q \in BOOLEAN, q <=> s.size[w] < 0, NEW e \in BOOLEAN, e <=> ~q,
         NEW r, r = SetSiz(Put(t, t.d[w], n + 1, a.limbs), w,
                           Signed((s.size[w] < 0) # a.flip, Normalize(a.limbs, a.n))),
         t.status = "run", r.status = "run"
  PROVE  Gives(s, r, w, Value(s, w) + Signed(e, Mag(s, x) * y))
<1>1. PICK wv \in Nat, xv \in Nat : wv = Mag(s, w) /\ xv = Mag(s, x)
        /\ Exact(wv, wsize) /\ Exact(xv, xsize)
        /\ Value(s, w) = Signed(q, wv)
  <2>1. PICK wv \in Nat : wv = Mag(s, w) /\ Exact(wv, wsize) /\ Value(s, w) = Signed(s.size[w] < 0, wv)
    BY Operand
  <2>2. PICK xv \in Nat : xv = Mag(s, x) /\ Exact(xv, xsize)
    BY Operand
  <2>3. Value(s, w) = Signed(q, wv)
    BY <2>1 DEF Signed
  <2> QED BY <2>1, <2>2, <2>3
<1>2. wsize \in Nat /\ xsize \in Nat /\ n \in Nat /\ wsize <= n /\ xsize <= n
  <2>1. wsize \in Nat /\ xsize \in Nat
    BY Operand
  <2> QED BY <2>1 DEF Larger
<1>3. PICK m \in Nat : m = n + 1 /\ t \in Grow(s, w, m)
  BY <1>2
<1>4. Source(s, t, w, wsize) = wv
  BY <1>1, <1>3, Reads
<1>5. Source(s, t, x, xsize) = xv
  BY <1>1, <1>3, Reads
<1>6. PICK p \in Nat : p = xv * y
  OBVIOUS
<1>7. PICK l \in Nat, k \in Nat, f \in BOOLEAN :
        /\ a = [limbs |-> l, n |-> k, flip |-> f]
        /\ l = Abs(wv - p) /\ k <= m /\ l < B^k /\ (f <=> wv < p)
  <2>1. CASE wsize >= xsize
    <3>1. a = SubmulShort(wv, wsize, xv, y)
      BY <1>4, <1>5, <2>1
    <3>2. wv < B^wsize /\ xv < B^wsize
      <4>1. B^xsize <= B^wsize
        <5>1. B \in Nat \ {0}
          BY Base
        <5> QED BY <1>2, <2>1, <5>1, PowOrder
      <4>2. B^xsize \in Nat /\ B^wsize \in Nat
        BY <1>2, Base
      <4> QED BY <1>1, <4>1, <4>2 DEF Exact
    <3>3. PICK l \in Nat, k \in Nat, f \in BOOLEAN :
             /\ SubmulShort(wv, wsize, xv, y) = [limbs |-> l, n |-> k, flip |-> f]
             /\ l = Abs(wv - p) /\ k <= wsize + 1 /\ l < B^k /\ (f <=> wv < p)
      BY <1>2, <1>6, <3>2, ShortValue
    <3>4. k <= m
      BY <1>2, <1>3, <3>3
    <3>5. a = [limbs |-> l, n |-> k, flip |-> f]
      BY <3>1, <3>3
    <3> QED BY <3>3, <3>4, <3>5
  <2>2. CASE ~(wsize >= xsize)
    <3>1. a = SubmulLong(wv, wsize, xv, xsize, y)
      BY <1>4, <1>5, <2>2
    <3>2. wv < B^wsize /\ wsize < xsize
      BY <1>1, <1>2, <2>2 DEF Exact
    <3>3. PICK l \in Nat, k \in Nat :
             /\ SubmulLong(wv, wsize, xv, xsize, y) = [limbs |-> l, n |-> k, flip |-> TRUE]
             /\ l = Abs(wv - p) /\ k <= xsize + 1 /\ l < B^k /\ wv < p
      BY <1>1, <1>2, <1>6, <3>2, LongValue
    <3>4. k <= m
      BY <1>2, <1>3, <3>3
    <3>5. PICK f \in BOOLEAN : f = TRUE
      OBVIOUS
    <3>6. a = [limbs |-> l, n |-> k, flip |-> f]
      BY <3>1, <3>3, <3>5
    <3>7. f <=> wv < p
      BY <3>3, <3>5
    <3> QED BY <3>3, <3>4, <3>6, <3>7
  <2> QED BY <2>1, <2>2
<1>8. PICK z \in BOOLEAN : z <=> (q # f)
  OBVIOUS
<1>9. r = SetSiz(Put(t, t.d[w], m, l), w, Signed(z, Normalize(l, k)))
  <2>1. a.limbs = l /\ a.n = k /\ a.flip = f
    BY <1>7
  <2>2. Signed((s.size[w] < 0) # f, Normalize(l, k)) = Signed(z, Normalize(l, k))
    BY <1>8 DEF Signed
  <2> QED BY <1>3, <2>1, <2>2
<1>10. Gives(s, r, w, Signed(z, l))
  <2>1. m <= m
    OBVIOUS
  <2> QED BY <1>3, <1>7, <1>9, <2>1, NormalizedResult
<1>11. Signed(q, wv) + Signed(e, p) = Signed(z, Abs(wv - p))
  BY <1>7, <1>8, SignedDiff
<1>12. Value(s, w) + Signed(e, Mag(s, x) * y) = Signed(z, l)
  BY <1>1, <1>6, <1>7, <1>11
<1> QED BY <1>10, <1>12

\* The case in which they are added.
LEMMA PlusValue ==
  ASSUME Powers, NEW s, Sound(s), NEW w \in s.live, NEW x \in s.live,
         NEW wsize, wsize = AbSiz(s, w), NEW xsize, xsize = AbSiz(s, x), xsize # 0,
         NEW y \in Nat, y > 0, y < B, NEW n, n = Larger(wsize, xsize),
         NEW t \in Grow(s, w, n + 1), NEW sum,
         sum = Source(s, t, w, wsize) + Source(s, t, x, xsize) * y,
         NEW q \in BOOLEAN, q <=> s.size[w] < 0, NEW e \in BOOLEAN, e <=> q,
         NEW r, r = SetSiz(Put(t, t.d[w], n + 1, sum), w, Signed(q, n + Bit(sum >= B^n))),
         t.status = "run", r.status = "run"
  PROVE  Gives(s, r, w, Value(s, w) + Signed(e, Mag(s, x) * y))
<1>1. PICK wv \in Nat, xv \in Nat : wv = Mag(s, w) /\ xv = Mag(s, x)
        /\ Exact(wv, wsize) /\ Exact(xv, xsize)
        /\ Value(s, w) = Signed(q, wv)
  <2>1. PICK wv \in Nat : wv = Mag(s, w) /\ Exact(wv, wsize) /\ Value(s, w) = Signed(s.size[w] < 0, wv)
    BY Operand
  <2>2. PICK xv \in Nat : xv = Mag(s, x) /\ Exact(xv, xsize)
    BY Operand
  <2>3. Value(s, w) = Signed(q, wv)
    BY <2>1 DEF Signed
  <2> QED BY <2>1, <2>2, <2>3
<1>2. /\ wsize \in Nat /\ xsize \in Nat /\ n \in Nat \ {0} /\ wsize <= n /\ xsize <= n
      /\ (n = wsize \/ n = xsize)
  <2>1. wsize \in Nat /\ xsize \in Nat
    BY Operand
  <2> QED BY <2>1 DEF Larger
<1>3. PICK m \in Nat : m = n + 1 /\ t \in Grow(s, w, m)
  BY <1>2
<1>4. Source(s, t, w, wsize) = wv
  BY <1>1, <1>3, Reads
<1>5. Source(s, t, x, xsize) = xv
  BY <1>1, <1>3, Reads
<1>6. PICK p \in Nat : p = xv * y
  OBVIOUS
<1>7. sum = wv + xv * y
  BY <1>4, <1>5
<1>8. wv < B^n /\ xv < B^n
  <2>0. B \in Nat \ {0}
    BY Base
  <2>1. B^wsize <= B^n
    BY <1>2, <2>0, PowOrder
  <2>2. B^xsize <= B^n
    BY <1>2, <2>0, PowOrder
  <2>3. B^wsize \in Nat /\ B^xsize \in Nat /\ B^n \in Nat
    BY <1>2, Base
  <2> QED BY <1>1, <2>1, <2>2, <2>3 DEF Exact
<1>9. B^(n - 1) <= wv \/ B^(n - 1) <= xv
  BY <1>1, <1>2 DEF Exact
<1>10. sum \in Nat /\ Exact(sum, n + Bit(sum >= B^n))
  BY <1>2, <1>7, <1>8, <1>9, AddTimesExact, SMTT(30)
<1>11. SetSiz(Put(t, t.d[w], n + 1, sum), w, Signed(q, n + Bit(sum >= B^n))).status = "run" /\ n \in Nat
  BY <1>2
<1>12. Gives(s, r, w, Signed(q, sum))
  BY <1>10, <1>11, CarryValue
<1>13. Value(s, w) + Signed(e, Mag(s, x) * y) = Signed(q, sum)
  <2>1. sum = wv + p /\ Mag(s, x) * y = p
    BY <1>1, <1>6, <1>7
  <2>2. CASE q
    BY <1>1, <2>1, <2>2 DEF Signed
  <2>3. CASE ~q
    BY <1>1, <2>1, <2>3 DEF Signed
  <2> QED BY <2>2, <2>3
<1> QED BY <1>12, <1>13

\* mpz_addmul_ui and mpz_submul_ui.
LEMMA Aorsmul1Value ==
  ASSUME Powers, NEW s, Sound(s), NEW w \in s.live, NEW x \in s.live,
         NEW y \in Nat, y < B, NEW sub \in BOOLEAN,
         NEW r \in MpzAorsmul1(s, w, x, y, sub), r.status = "run"
  PROVE  Gives(s, r, w, IF sub THEN Value(s, w) - Value(s, x) * y
                        ELSE Value(s, w) + Value(s, x) * y)
<1> DEFINE xsize == AbSiz(s, x)
           wsize == AbSiz(s, w)
           n == Larger(wsize, xsize)
           minus == (sub # (s.size[x] < 0)) # (s.size[w] < 0)
           sum(t) == Source(s, t, w, wsize) + Source(s, t, x, xsize) * y
           sm(t) ==
             IF wsize >= xsize
             THEN SubmulShort(Source(s, t, w, wsize), wsize, Source(s, t, x, xsize), y)
             ELSE SubmulLong(Source(s, t, w, wsize), wsize, Source(s, t, x, xsize),
                             xsize, y)
<1>1. PICK px \in BOOLEAN, q \in BOOLEAN, e \in BOOLEAN :
        (px <=> s.size[x] < 0) /\ (q <=> s.size[w] < 0) /\ (e <=> (sub # px))
  <2>1. PICK px \in BOOLEAN, q \in BOOLEAN : (px <=> s.size[x] < 0) /\ (q <=> s.size[w] < 0)
    OBVIOUS
  <2> QED BY <2>1
<1>2. PICK M \in Nat, a \in Int : M = Mag(s, x) /\ Value(s, x) = Signed(px, M) /\ a = Value(s, w)
        /\ (M = 0 <=> s.size[x] = 0)
  <2>1. Mag(s, x) \in Nat /\ Value(s, x) = Signed(s.size[x] < 0, Mag(s, x))
        /\ (Mag(s, x) = 0 <=> s.size[x] = 0)
    BY Operand
  <2>2. Value(s, w) \in Int
    BY Operand
  <2>3. Signed(s.size[x] < 0, Mag(s, x)) = Signed(px, Mag(s, x))
    BY <1>1 DEF Signed
  <2> QED BY <2>1, <2>2, <2>3
<1>3. PICK p \in Nat : p = M * y
  BY SignedLimb
<1>4. Value(s, x) * y = Signed(px, p)
  BY <1>2, <1>3, SignedLimb
<1>5. PICK res : res = IF sub THEN Value(s, w) - Value(s, x) * y ELSE Value(s, w) + Value(s, x) * y
  OBVIOUS
<1>6. res = a + Signed(e, p)
  <2>1. res = IF sub THEN a - Signed(px, p) ELSE a + Signed(px, p)
    BY <1>2, <1>4, <1>5
  <2> QED BY <1>1, <2>1, SignedSum
<1>7. /\ wsize \in Nat /\ xsize \in Nat /\ s.size[w] \in Int /\ s.size[x] \in Int
      /\ (xsize = 0 <=> s.size[x] = 0) /\ (wsize = 0 <=> s.size[w] = 0)
  BY Operand, AbsRange
<1>8. CASE xsize = 0 \/ y = 0
  <2>1. r = s
    BY <1>8 DEF MpzAorsmul1
  <2>2. p = 0
    <3>1. CASE y = 0
      BY <1>3, <3>1
    <3>2. CASE xsize = 0
      <4>1. M = 0
        BY <1>2, <1>7, <3>2
      <4> QED BY <1>3, <4>1
    <3> QED BY <1>8, <3>1, <3>2
  <2>3. Signed(e, p) = 0
    <3>1. PICK z \in Int : z = -p /\ (z = 0 <=> p = 0)
      OBVIOUS
    <3>2. Signed(e, p) = p \/ Signed(e, p) = z
      BY <3>1 DEF Signed
    <3> QED BY <2>2, <3>1, <3>2
  <2>4. res = Value(s, w)
    BY <1>2, <1>6, <2>3
  <2>5. Gives(s, s, w, Value(s, w))
    BY DEF Gives
  <2> QED BY <1>5, <2>1, <2>4, <2>5
<1>9. CASE xsize # 0 /\ y # 0 /\ wsize = 0
  <2>1. ~(xsize = 0 \/ y = 0)
    BY <1>9
  <2>2. PICK t \in Grow(s, w, xsize + 1) :
          LET product == Source(s, t, x, xsize) * y
          IN  r = SetSiz(Put(t, t.d[w], xsize + 1, product), w,
                         Signed(sub # (s.size[x] < 0), xsize + Bit(product >= B^xsize)))
    BY <1>9, <2>1 DEF MpzAorsmul1, MulLimb
  <2>3. PICK product : product = Source(s, t, x, AbSiz(s, x)) * y
    OBVIOUS
  <2>4. r = SetSiz(Put(t, t.d[w], AbSiz(s, x) + 1, product), w,
                   Signed(e, AbSiz(s, x) + Bit(product >= B^AbSiz(s, x))))
    <3>1. Signed(sub # (s.size[x] < 0), xsize + Bit(product >= B^xsize))
            = Signed(e, xsize + Bit(product >= B^xsize))
      BY <1>1 DEF Signed
    <3> QED BY <2>2, <2>3, <3>1
  <2>5. Gives(s, r, w, Signed(e, M * y))
    <3>1. s.size[x] # 0 /\ y > 0
      BY <1>7, <1>9
    <3> QED BY <1>2, <2>3, <2>4, <3>1, LimbValue
  <2>6. a = 0
    <3>1. s.size[w] = 0
      BY <1>7, <1>9
    <3>2. Mag(s, w) = 0 /\ Value(s, w) = Signed(s.size[w] < 0, Mag(s, w))
      BY <3>1, Operand
    <3> QED BY <1>2, <3>1, <3>2 DEF Signed
  <2>7. res = Signed(e, M * y)
    <3>1. Signed(e, p) \in Int
      BY SignedRange
    <3> QED BY <1>3, <1>6, <2>6, <3>1
  <2> QED BY <1>5, <2>5, <2>7
<1>10. CASE ~(xsize = 0 \/ y = 0) /\ wsize # 0
  <2>1. PICK t \in Grow(s, w, n + 1) :
          r = IF minus
              THEN SetSiz(Put(t, t.d[w], n + 1, sm(t).limbs), w,
                          Signed((s.size[w] < 0) # sm(t).flip,
                                 Normalize(sm(t).limbs, sm(t).n)))
              ELSE SetSiz(Put(t, t.d[w], n + 1, sum(t)), w,
                          Signed(s.size[w] < 0, n + Bit(sum(t) >= B^n)))
    BY <1>10 DEF MpzAorsmul1
  <2>2. PICK h \in Nat : h = n + 1 /\ t \in Grow(s, w, h)
    BY <1>7, <2>1 DEF Larger
  <2>3. y > 0 /\ xsize # 0
    BY <1>10
  <2>4. PICK ws, xs, k : ws = wsize /\ xs = xsize /\ k = Larger(ws, xs) /\ k = n
    OBVIOUS
  <2>5. CASE minus
    <3>1. PICK b : b = sm(t)
      OBVIOUS
    <3>2. r = SetSiz(Put(t, t.d[w], k + 1, b.limbs), w,
                     Signed((s.size[w] < 0) # b.flip, Normalize(b.limbs, b.n)))
      BY <2>1, <2>4, <2>5, <3>1
    <3>3. e <=> ~q
      BY <1>1, <2>5
    <3>4. t.status = "run"
      <4>1. PICK z \in Int : z = Signed((s.size[w] < 0) # b.flip, Normalize(b.limbs, b.n))
        <5>1. b.n \in Nat
          <6>1. b.n \in 0..(wsize + 1) \/ b.n \in 0..(xsize + 1)
            BY <1>7, <3>1, SubmulRange
          <6> QED BY <1>7, <6>1
        <5>2. Normalize(b.limbs, b.n) \in Nat
          BY <5>1, NormalizeRange
        <5> QED BY <5>2, SignedRange
      <4>2. SetSiz(Put(t, t.d[w], h, b.limbs), w, z).status = "run"
        BY <2>2, <2>4, <3>2, <4>1
      <4> QED BY <2>2, <4>2, GrowRuns
    <3>5. b = IF ws >= xs
              THEN SubmulShort(Source(s, t, w, ws), ws, Source(s, t, x, xs), y)
              ELSE SubmulLong(Source(s, t, w, ws), ws, Source(s, t, x, xs), xs, y)
      BY <2>4, <3>1
    <3>6. t \in Grow(s, w, k + 1) /\ ws = AbSiz(s, w) /\ xs = AbSiz(s, x) /\ xs # 0
      BY <2>1, <2>3, <2>4
    <3>7. Gives(s, r, w, Value(s, w) + Signed(e, Mag(s, x) * y))
      BY ONLY Powers, Sound(s), w \in s.live, x \in s.live, y \in Nat, y < B, q \in BOOLEAN,
              e \in BOOLEAN, r.status = "run", <1>1, <2>3, <2>4, <3>2, <3>3, <3>4, <3>5, <3>6,
              MinusValue
    <3> QED BY <1>2, <1>3, <1>5, <1>6, <3>7
  <2>6. CASE ~minus
    <3>1. PICK v : v = sum(t)
      OBVIOUS
    <3>2. r = SetSiz(Put(t, t.d[w], k + 1, v), w, Signed(q, k + Bit(v >= B^k)))
      <4>1. Signed(s.size[w] < 0, n + Bit(v >= B^n)) = Signed(q, n + Bit(v >= B^n))
        BY <1>1 DEF Signed
      <4> QED BY <2>1, <2>4, <2>6, <3>1, <4>1
    <3>3. e <=> q
      BY <1>1, <2>6
    <3>4. t.status = "run"
      <4>1. PICK z \in Int : z = Signed(q, k + Bit(v >= B^k))
        <5>1. k \in Nat
          BY <2>2, <2>4, <1>7 DEF Larger
        <5>2. k + Bit(v >= B^k) \in Nat
          BY <5>1, BitRange
        <5> QED BY <5>2, SignedRange
      <4>2. SetSiz(Put(t, t.d[w], h, v), w, z).status = "run"
        BY <2>2, <2>4, <3>2, <4>1
      <4> HIDE DEF sum, sm
      <4>3. t \in Grow(s, w, h)
        BY <2>2
      <4> QED BY ONLY Sound(s), w \in s.live, h \in Nat, z \in Int, <4>2, <4>3, GrowRuns
    <3>5. v = Source(s, t, w, ws) + Source(s, t, x, xs) * y
      BY <2>4, <3>1
    <3>6. t \in Grow(s, w, k + 1) /\ ws = AbSiz(s, w) /\ xs = AbSiz(s, x) /\ xs # 0
      BY <2>1, <2>3, <2>4
    <3>7. Gives(s, r, w, Value(s, w) + Signed(e, Mag(s, x) * y))
      BY ONLY Powers, Sound(s), w \in s.live, x \in s.live, y \in Nat, y < B, q \in BOOLEAN,
              e \in BOOLEAN, r.status = "run", <1>1, <2>3, <2>4, <3>2, <3>3, <3>4, <3>5, <3>6,
              PlusValue
    <3> QED BY <1>2, <1>3, <1>5, <1>6, <3>7
  <2> QED BY <2>5, <2>6
<1> QED BY <1>8, <1>9, <1>10

\* What mpn_mul finds for two operands of mpz_aorsmul, w having its room, when its
\* result is apart from them.
LEMMA GrownMul ==
  ASSUME Powers, NEW s, Sound(s), NEW w \in s.live, NEW a \in s.live, NEW b \in s.live,
         AbSiz(s, a) > 0, AbSiz(s, b) > 0, NEW n \in Nat, n > 0, NEW t \in Grow(s, w, n),
         t.status = "run", NEW p, p = Null \/ (p = t.d[w] /\ s.size[w] = 0)
  PROVE  MpnMul(t, p, t.d[a], AbSiz(s, a), t.d[b], AbSiz(s, b)) = Mag(s, a) * Mag(s, b)
<1>0. PICK v : v = MpnMul(t, p, t.d[a], AbSiz(s, a), t.d[b], AbSiz(s, b))
  OBVIOUS
<1>1. Source(s, t, a, AbSiz(s, a)) = Mag(s, a)
  BY Reads
<1>2. Source(s, t, b, AbSiz(s, b)) = Mag(s, b)
  BY Reads
<1>3. Plain(s) /\ Good(s)
  BY DEF Sound, Plain
<1>4. Plain(t) /\ t.live = s.live /\ t.size = s.size /\ t.alloc[w] >= n
  BY <1>3, GrowValue
<1>5. Good(t) /\ OneOwner(t) /\ t.alloc[w] \in Nat
  BY <1>4, SizeRange DEF Plain, Good
<1>6. AbSiz(t, a) = AbSiz(s, a) /\ AbSiz(t, b) = AbSiz(s, b)
  BY <1>4 DEF AbSiz
<1>7. t.d[a] \in Block /\ t.alloc[a] > 0
  BY <1>4, <1>6, OperandBlock
<1>8. t.d[b] \in Block /\ t.alloc[b] > 0
  BY <1>4, <1>6, OperandBlock
<1>9. t.d[a] # p /\ t.d[b] # p
  <2>1. CASE p = Null
    BY <1>7, <1>8, <2>1, NullAssumption
  <2>2. CASE p = t.d[w] /\ s.size[w] = 0
    <3>1. AbSiz(s, w) = 0
      BY <2>2 DEF AbSiz, Abs
    <3>2. w # a /\ w # b
      BY <3>1
    <3>3. t.alloc[w] > 0
      BY <1>4, <1>5
    <3> QED BY <1>4, <1>5, <1>7, <1>8, <2>2, <3>2, <3>3 DEF OneOwner
  <2> QED BY <2>1, <2>2
<1>10. v = Get(t, t.d[a], AbSiz(s, a)) * Get(t, t.d[b], AbSiz(s, b))
  BY <1>0, <1>9, MpnMulApart
<1> QED BY <1>0, <1>1, <1>2, <1>10 DEF Source

\* The case of mpz_aorsmul in which w was 0.
LEMMA FromZeroValue ==
  ASSUME Powers, NEW s, Sound(s), NEW w \in s.live, NEW a \in s.live, NEW b \in s.live,
         AbSiz(s, a) > 0, AbSiz(s, b) > 0, NEW h, h = AbSiz(s, a) + AbSiz(s, b),
         NEW room \in Nat, h < room, NEW t \in Grow(s, w, room), s.size[w] = 0,
         NEW v, v = MpnMul(t, t.d[w], t.d[a], AbSiz(s, a), t.d[b], AbSiz(s, b)),
         NEW neg \in BOOLEAN, NEW r,
         r = SetSiz(Put(t, t.d[w], h, v), w, Signed(neg, h - Bit(High(v, h - 1) = 0))),
         r.status = "run"
  PROVE  Gives(s, r, w, Signed(neg, Mag(s, a) * Mag(s, b)))
<1>1. h \in Nat \ {0} /\ room > 0
  BY Operand
<1>2. PICK i \in Int : i = Signed(neg, h - Bit(High(v, h - 1) = 0))
  <2>1. h - Bit(High(v, h - 1) = 0) \in Nat
    BY <1>1, BitRange
  <2> QED BY <2>1, SignedRange
<1>3. SetSiz(Put(t, t.d[w], h, v), w, i).status = "run"
  BY <1>2
<1>4. t.status = "run"
  <2>1. t \in Grow(s, w, room)
    OBVIOUS
  <2> QED BY ONLY Sound(s), w \in s.live, room \in Nat, i \in Int, <1>3, <2>1, GrowRuns
<1>5. v = Mag(s, a) * Mag(s, b)
  <2>1. t \in Grow(s, w, room)
    OBVIOUS
  <2>2. PICK p : p = t.d[w]
    OBVIOUS
  <2>3. v = MpnMul(t, p, t.d[a], AbSiz(s, a), t.d[b], AbSiz(s, b))
    BY <2>2
  <2>4. p = Null \/ (p = t.d[w] /\ s.size[w] = 0)
    BY <2>2
  <2>5. room > 0
    BY <1>1
  <2> QED BY ONLY Powers, Sound(s), w \in s.live, a \in s.live, b \in s.live, AbSiz(s, a) > 0,
              AbSiz(s, b) > 0, room \in Nat, <2>5, <1>4, <2>1, <2>3, <2>4, GrownMul, SMTT(60)
<1>6. PICK k \in Nat : k = h - Bit(High(v, h - 1) = 0) /\ Exact(v, k)
  BY <1>5, ProductSize
<1>7. k <= h
  BY <1>1, <1>6, BitRange
<1>8. SetSiz(Put(t, t.d[w], h, v), w, Signed(neg, k)).status = "run"
  BY <1>6
<1>9. h \in Nat /\ h <= room
  BY <1>1
<1>10. Gives(s, SetSiz(Put(t, t.d[w], h, v), w, Signed(neg, k)), w, Signed(neg, v))
  BY <1>6, <1>7, <1>8, <1>9, SignedResult
<1> QED BY <1>5, <1>6, <1>10

\* The two cases of mpz_aorsmul in which w was not 0: the smaller of w and the product
\* is subtracted from the larger,
LEMMA MinusCombine ==
  ASSUME Powers, NEW s, Sound(s), NEW w \in s.live, NEW room \in Nat, NEW t \in Grow(s, w, room),
         NEW wsize \in Nat, NEW tsize \in Nat, NEW n, n = Larger(wsize, tsize), n <= room,
         NEW wv, Exact(wv, wsize), NEW tv, Exact(tv, tsize), NEW less \in BOOLEAN,
         less <=> (wsize < tsize \/ (wsize = tsize /\ wv < tv)),
         NEW diff, diff = IF less THEN tv - wv ELSE wv - tv,
         NEW q \in BOOLEAN, Value(s, w) = Signed(q, wv), NEW e \in BOOLEAN, e <=> ~q,
         NEW z \in BOOLEAN, z <=> (q # less), NEW r,
         r = SetSiz(Put(t, t.d[w], n, diff), w, Signed(z, Normalize(diff, n))), r.status = "run"
  PROVE  Gives(s, r, w, Value(s, w) + Signed(e, tv))
<1>1. n \in Nat /\ wsize <= n /\ tsize <= n
  BY DEF Larger
<1>2. wv \in Nat /\ tv \in Nat
  BY DEF Exact
<1>3. less <=> wv < tv
  <2>1. CASE wsize < tsize
    <3>1. wv < tv
      BY <2>1, ExactOrder
    <3> QED BY <2>1, <3>1
  <2>2. CASE tsize < wsize
    <3>1. tv < wv
      BY <2>2, ExactOrder
    <3> QED BY <1>2, <2>2, <3>1
  <2>3. CASE wsize = tsize
    BY <2>3
  <2> QED BY <2>1, <2>2, <2>3
<1>4. wv < B^n /\ tv < B^n /\ B^n \in Nat
  <2>1. B \in Nat \ {0}
    BY Base
  <2>2. B^wsize <= B^n /\ B^tsize <= B^n
    BY <1>1, <2>1, PowOrder
  <2>3. B^wsize \in Nat /\ B^tsize \in Nat /\ B^n \in Nat
    BY <1>1, Base
  <2> QED BY <1>2, <2>2, <2>3 DEF Exact
<1>5. diff \in Nat /\ diff < B^n /\ diff = Abs(wv - tv)
  <2>1. PICK c \in Nat : c = B^n
    BY <1>4
  <2>2. diff \in Nat /\ diff < c
    BY <1>2, <1>3, <1>4, <2>1
  <2>3. diff = Abs(wv - tv)
    BY <1>2, <1>3 DEF Abs
  <2> QED BY <2>1, <2>2, <2>3
<1>6. Gives(s, r, w, Signed(z, diff))
  <2>1. n <= n
    BY <1>1
  <2> QED BY <1>1, <1>5, <2>1, NormalizedResult
<1>7. Signed(q, wv) + Signed(e, tv) = Signed(z, Abs(wv - tv))
  BY <1>2, <1>3, SignedDiff
<1> QED BY <1>5, <1>6, <1>7

\* and the two are added.
LEMMA PlusCombine ==
  ASSUME Powers, NEW s, Sound(s), NEW w \in s.live, NEW room \in Nat, NEW t \in Grow(s, w, room),
         NEW wsize \in Nat, NEW tsize \in Nat, NEW n, n = Larger(wsize, tsize), n + 1 <= room,
         NEW wv, Exact(wv, wsize), NEW tv, Exact(tv, tsize),
         NEW sum, sum = wv + tv,
         NEW q \in BOOLEAN, Value(s, w) = Signed(q, wv), NEW e \in BOOLEAN, e <=> q,
         NEW r, r = SetSiz(Put(t, t.d[w], n + 1, sum), w, Signed(q, n + Bit(sum >= B^n))),
         r.status = "run"
  PROVE  Gives(s, r, w, Value(s, w) + Signed(e, tv))
<1>1. n \in Nat
  BY DEF Larger
<1>2. wv \in Nat /\ wv < B^wsize /\ tv \in Nat /\ tv < B^tsize
  BY DEF Exact
<1>3. sum \in Nat /\ Exact(sum, n + Bit(sum >= B^n))
  <2>1. CASE wsize >= tsize
    <3>1. n = wsize
      BY <2>1 DEF Larger
    <3>2. wv + tv \in Nat /\ Exact(wv + tv, wsize + Bit(wv + tv >= B^wsize))
      BY <1>2, <2>1, SumExact
    <3> QED BY <3>1, <3>2
  <2>2. CASE ~(wsize >= tsize)
    <3>1. n = tsize
      BY <2>2 DEF Larger
    <3>2. tv + wv \in Nat /\ Exact(tv + wv, tsize + Bit(tv + wv >= B^tsize))
      BY <1>2, <2>2, SumExact
    <3>3. sum = tv + wv
      BY <1>2
    <3> QED BY <3>1, <3>2, <3>3
  <2> QED BY <2>1, <2>2
<1>4. PICK k \in Nat, m \in Nat :
        k = n + Bit(sum >= B^n) /\ k <= m /\ m = n + 1 /\ m <= room
  <2>1. n + Bit(sum >= B^n) \in Nat /\ n + Bit(sum >= B^n) <= n + 1
    BY <1>1, BitRange
  <2> QED BY <1>1, <2>1
<1>5. Exact(sum, k)
  BY <1>3, <1>4
<1>6. r = SetSiz(Put(t, t.d[w], m, sum), w, Signed(q, k))
  BY <1>4
<1>7. SetSiz(Put(t, t.d[w], m, sum), w, Signed(q, k)).status = "run"
  BY <1>6
<1>8. Gives(s, SetSiz(Put(t, t.d[w], m, sum), w, Signed(q, k)), w, Signed(q, sum))
  <2>1. t \in Grow(s, w, room) /\ k <= m /\ m <= room
    BY <1>4
  <2> QED BY ONLY Powers, Sound(s), w \in s.live, room \in Nat, k \in Nat, m \in Nat, q \in BOOLEAN,
              <1>5, <1>7, <2>1, SignedResult
<1>9. Signed(q, wv) + Signed(e, tv) = Signed(q, sum)
  BY <1>2 DEF Signed
<1> QED BY <1>6, <1>8, <1>9

\* The size of a product of n and m limbs, k = n + m.
LEMMA ShortIs ==
  ASSUME NEW n \in Nat, NEW m \in Nat, NEW k, k = n + m, NEW u
  PROVE  n + m - Bit(High(u, n + m - 1) = 0) = k - Bit(High(u, k - 1) = 0)
<1>1. n + m - 1 = k - 1 /\ n + m = k
  OBVIOUS
<1>2. PICK i : i = k - 1 /\ n + m - 1 = i
  BY <1>1
<1>3. High(u, n + m - 1) = High(u, k - 1)
  BY <1>2
<1>4. PICK g : g = High(u, k - 1) /\ High(u, n + m - 1) = g
  BY <1>3
<1>5. Bit(High(u, n + m - 1) = 0) = Bit(High(u, k - 1) = 0)
  BY <1>4 DEF Bit
<1>6. PICK c \in {0, 1} : c = Bit(High(u, k - 1) = 0) /\ Bit(High(u, n + m - 1) = 0) = c
  BY <1>5, BitRange
<1> QED BY <1>1, <1>6

\* mpz_addmul and mpz_submul.
LEMMA AorsmulValue ==
  ASSUME Powers, NEW s, Sound(s), NEW w \in s.live, NEW x \in s.live, NEW y \in s.live,
         NEW sub \in BOOLEAN, NEW r \in MpzAorsmul(s, w, x, y, sub), r.status = "run"
  PROVE  Gives(s, r, w, IF sub THEN Value(s, w) - Value(s, x) * Value(s, y)
                        ELSE Value(s, w) + Value(s, x) * Value(s, y))
<1> DEFINE swap == AbSiz(s, y) > AbSiz(s, x)
           ax == IF swap THEN y ELSE x
           bx == IF swap THEN x ELSE y
<1>0. PICK a \in s.live, b \in s.live : a = ax /\ b = bx
  OBVIOUS
<1> DEFINE an == AbSiz(s, a)
           bn == AbSiz(s, b)
           wsize == AbSiz(s, w)
           neg == (sub # (s.size[a] < 0)) # (s.size[b] < 0)
           minus == neg # (s.size[w] < 0)
           room == Larger(wsize, an + bn) + 1
           short(product) == an + bn - Bit(High(product, an + bn - 1) = 0)
           fresh(t) ==
             LET product == MpnMul(t, t.d[w], t.d[a], an, t.d[b], bn)
             IN  SetSiz(Put(t, t.d[w], an + bn, product), w, Signed(neg, short(product)))
           combine(t) ==
             LET tv == MpnMul(t, Null, t.d[a], an, t.d[b], bn)
                 tsize == short(tv)
                 wv == Source(s, t, w, wsize)
                 n == Larger(wsize, tsize)
                 less == wsize < tsize \/ (wsize = tsize /\ wv < tv)
                 diff == IF less THEN tv - wv ELSE wv - tv
             IN  IF minus
                 THEN SetSiz(Put(t, t.d[w], n, diff), w,
                             Signed((s.size[w] < 0) # less, Normalize(diff, n)))
                 ELSE SetSiz(Put(t, t.d[w], n + 1, wv + tv), w,
                             Signed(s.size[w] < 0, n + Bit(wv + tv >= B^n)))
<1>1. PICK pa \in BOOLEAN, pb \in BOOLEAN, q \in BOOLEAN, pp \in BOOLEAN, e \in BOOLEAN :
        /\ (pa <=> s.size[a] < 0) /\ (pb <=> s.size[b] < 0) /\ (q <=> s.size[w] < 0)
        /\ (pp <=> (pa # pb)) /\ (e <=> (sub # pp))
  <2>1. PICK pa \in BOOLEAN, pb \in BOOLEAN, q \in BOOLEAN :
          (pa <=> s.size[a] < 0) /\ (pb <=> s.size[b] < 0) /\ (q <=> s.size[w] < 0)
    OBVIOUS
  <2>2. PICK pp \in BOOLEAN : pp <=> (pa # pb)
    OBVIOUS
  <2> QED BY <2>1, <2>2
<1>2. e <=> neg
  BY <1>1
<1>3. PICK ma \in Nat, mb \in Nat, wv \in Nat :
        /\ ma = Mag(s, a) /\ mb = Mag(s, b) /\ wv = Mag(s, w)
        /\ Value(s, a) = Signed(pa, ma) /\ Value(s, b) = Signed(pb, mb)
        /\ Value(s, w) = Signed(q, wv)
  <2>1. Mag(s, a) \in Nat /\ Value(s, a) = Signed(s.size[a] < 0, Mag(s, a))
    BY Operand
  <2>2. Mag(s, b) \in Nat /\ Value(s, b) = Signed(s.size[b] < 0, Mag(s, b))
    BY Operand
  <2>3. Mag(s, w) \in Nat /\ Value(s, w) = Signed(s.size[w] < 0, Mag(s, w))
    BY Operand
  <2> QED BY <1>1, <2>1, <2>2, <2>3 DEF Signed
<1>4. PICK p \in Nat : p = ma * mb
  OBVIOUS
<1>5. Value(s, a) * Value(s, b) = Signed(pp, p)
  BY <1>1, <1>3, <1>4, SignedTimes
<1>6. Value(s, x) * Value(s, y) = Value(s, a) * Value(s, b)
  <2>1. Value(s, x) \in Int /\ Value(s, y) \in Int
    BY Operand
  <2>2. Value(s, x) * Value(s, y) = Value(s, y) * Value(s, x)
    BY <2>1
  <2> QED BY <1>0, <2>2
<1>7. PICK res : res = IF sub THEN Value(s, w) - Value(s, x) * Value(s, y)
                       ELSE Value(s, w) + Value(s, x) * Value(s, y)
  OBVIOUS
<1>8. PICK v \in Int : v = Value(s, w)
  BY Operand
<1>9. res = v + Signed(e, p)
  <2>1. res = IF sub THEN v - Signed(pp, p) ELSE v + Signed(pp, p)
    BY <1>5, <1>6, <1>7, <1>8
  <2> QED BY <1>1, <2>1, SignedSum
<1>10. /\ an \in Nat /\ bn \in Nat /\ wsize \in Nat
       /\ (an = 0 <=> s.size[a] = 0) /\ (bn = 0 <=> s.size[b] = 0) /\ (wsize = 0 <=> s.size[w] = 0)
  BY Operand, AbsRange
<1>11. CASE an = 0 \/ bn = 0
  <2>1. r = s
    BY <1>0, <1>11 DEF MpzAorsmul
  <2>2. ma = 0 \/ mb = 0
    <3>1. (Mag(s, a) = 0 <=> s.size[a] = 0) /\ (Mag(s, b) = 0 <=> s.size[b] = 0)
      BY Operand
    <3> QED BY <1>3, <1>10, <1>11, <3>1
  <2>3. p = 0
    BY <1>4, <2>2
  <2>4. res = v
    BY <1>9, <2>3 DEF Signed
  <2> QED BY <1>7, <1>8, <2>1, <2>4, SMTT(30) DEF Gives, Keeps
<1>12. CASE an # 0 /\ bn = 1
  <2>1. PICK z : z = (sub # (s.size[b] < 0))
    BY SMTT(30)
  <2>2. r \in MpzAorsmul1(s, w, a, Get(s, s.d[b], 1), z)
    <3>1. ~(an = 0 \/ bn = 0)
      BY <1>12
    <3> QED BY <1>0, <1>12, <2>1, <3>1 DEF MpzAorsmul
  <2>3. z \in BOOLEAN /\ (z <=> (sub # pb))
    BY <1>1, <2>1
  <2>4. mb = Get(s, s.d[b], 1)
    BY <1>3, <1>12 DEF Mag
  <2>5. mb < B
    <3>1. Exact(Mag(s, b), bn)
      BY Operand
    <3>2. B^1 = B
      BY Base
    <3> QED BY <1>3, <1>12, <3>1, <3>2 DEF Exact
  <2>6. PICK res1 : res1 = IF z THEN Value(s, w) - Value(s, a) * mb
                           ELSE Value(s, w) + Value(s, a) * mb
    OBVIOUS
  <2>7. Gives(s, r, w, res1)
    <3>1. r \in MpzAorsmul1(s, w, a, mb, z)
      BY <2>2, <2>4
    <3> QED BY ONLY Powers, Sound(s), w \in s.live, a \in s.live, mb \in Nat, r.status = "run",
                <2>3, <2>5, <2>6, <3>1, Aorsmul1Value
  <2>8. Value(s, a) * mb = Signed(pa, p)
    BY <1>3, <1>4, SignedLimb
  <2>9. res1 = IF z THEN v - Signed(pa, p) ELSE v + Signed(pa, p)
    BY <1>8, <2>6, <2>8
  <2>10. e <=> (z # pa)
    BY <1>1, <2>3
  <2>11. res1 = v + Signed(e, p)
    BY <2>3, <2>9, <2>10, SignedSum
  <2> QED BY <1>7, <1>9, <2>7, <2>11
<1>13. CASE an # 0 /\ bn # 0 /\ bn # 1
  <2>1. ~(an = 0 \/ bn = 0) /\ ~(an # 0 /\ bn = 1)
    BY <1>13, SMTT(30)
  <2>2. PICK t \in Grow(s, w, room) : r = IF wsize = 0 THEN fresh(t) ELSE combine(t)
    BY <1>0, <2>1 DEF MpzAorsmul
  <2>3. AbSiz(s, a) > 0 /\ AbSiz(s, b) > 0
    BY <1>10, <1>13, SMTT(30)
  <2>4. PICK h \in Nat, m \in Nat :
          /\ h = an + bn /\ m = room /\ wsize + 1 <= m /\ h + 1 <= m /\ h < m /\ m > 0
          /\ t \in Grow(s, w, m)
    BY <1>10, <2>2 DEF Larger
  <2>5. CASE wsize = 0
    <3>1. PICK u : u = MpnMul(t, t.d[w], t.d[a], AbSiz(s, a), t.d[b], AbSiz(s, b))
      OBVIOUS
    <3>2. r = SetSiz(Put(t, t.d[w], h, u), w, Signed(e, h - Bit(High(u, h - 1) = 0)))
      <4>1. Signed(neg, h - Bit(High(u, h - 1) = 0)) = Signed(e, h - Bit(High(u, h - 1) = 0))
        BY <1>2 DEF Signed
      <4>2. r = fresh(t)
        BY <2>2, <2>5
      <4>3. fresh(t) = SetSiz(Put(t, t.d[w], h, u), w,
                              Signed(neg, h - Bit(High(u, h - 1) = 0)))
        <5>1. AbSiz(s, a) + AbSiz(s, b) = h
          BY <2>4
        <5>2. short(u) = h - Bit(High(u, h - 1) = 0)
          BY <1>10, <2>4, ShortIs
        <5>3. fresh(t) = SetSiz(Put(t, t.d[w], AbSiz(s, a) + AbSiz(s, b), u), w,
                                Signed(neg, short(u)))
          BY <3>1
        <5> HIDE DEF neg, short, fresh
        <5> QED BY <5>1, <5>2, <5>3
      <4> QED BY <4>1, <4>2, <4>3
    <3>3. h = AbSiz(s, a) + AbSiz(s, b) /\ h < m /\ t \in Grow(s, w, m) /\ s.size[w] = 0
      BY <1>10, <2>4, <2>5
    <3>4. Gives(s, r, w, Signed(e, Mag(s, a) * Mag(s, b)))
      BY ONLY Powers, Sound(s), w \in s.live, a \in s.live, b \in s.live, m \in Nat,
              e \in BOOLEAN, r.status = "run", <2>3, <3>1, <3>2, <3>3, FromZeroValue
    <3>5. v = 0
      <4>1. (Mag(s, w) = 0 <=> s.size[w] = 0) /\ Value(s, w) = Signed(s.size[w] < 0, Mag(s, w))
        BY Operand
      <4>2. Mag(s, w) = 0 /\ ~(s.size[w] < 0)
        BY <3>3, <4>1
      <4> QED BY <1>8, <4>1, <4>2 DEF Signed
    <3>6. Signed(e, p) \in Int
      BY SignedRange
    <3> QED BY <1>3, <1>4, <1>7, <1>9, <3>4, <3>5, <3>6
  <2>6. CASE wsize # 0
    <3>1. PICK tv, tsize, n, k :
            /\ tv = MpnMul(t, Null, t.d[a], an, t.d[b], bn) /\ tsize = short(tv)
            /\ k = wsize /\ n = Larger(k, tsize)
      OBVIOUS
    <3>2. PICK wu : wu = Source(s, t, w, AbSiz(s, w))
      OBVIOUS
    <3>3. PICK less \in BOOLEAN : less <=> (k < tsize \/ (k = tsize /\ wu < tv))
      OBVIOUS
    <3>4. PICK diff, sum : diff = (IF less THEN tv - wu ELSE wu - tv) /\ sum = wu + tv
      OBVIOUS
    <3>5. PICK z \in BOOLEAN : z <=> (q # less)
      OBVIOUS
    <3>6. r = IF minus THEN SetSiz(Put(t, t.d[w], n, diff), w, Signed(z, Normalize(diff, n)))
              ELSE SetSiz(Put(t, t.d[w], n + 1, sum), w, Signed(q, n + Bit(sum >= B^n)))
      <4>1. (IF k < tsize \/ (k = tsize /\ wu < tv) THEN tv - wu ELSE wu - tv) = diff
        BY <3>3, <3>4
      <4>2. Signed((s.size[w] < 0) # (k < tsize \/ (k = tsize /\ wu < tv)), Normalize(diff, n))
              = Signed(z, Normalize(diff, n))
        BY <1>1, <3>3, <3>5 DEF Signed
      <4>3. Signed(s.size[w] < 0, n + Bit(sum >= B^n)) = Signed(q, n + Bit(sum >= B^n))
        BY <1>1, SMTT(30) DEF Signed
      <4>4. r = combine(t)
        BY <2>2, <2>6
      <4> QED BY <3>1, <3>2, <3>4, <4>1, <4>2, <4>3, <4>4
    <3> HIDE DEF combine, fresh, room
    <3>7. h \in Nat \ {0}
      BY <1>10, <1>13, <2>4
    <3>8. tsize = h - Bit(High(tv, h - 1) = 0)
      <4>1. short(tv) = h - Bit(High(tv, h - 1) = 0)
        BY <1>10, <2>4, ShortIs
      <4> QED BY <3>1, <4>1
    <3>9. tsize \in Nat /\ tsize <= h
      BY <3>7, <3>8, BitRange
    <3>10. k \in Nat /\ n \in Nat /\ n + 1 <= m
      <4>1. k \in Nat
        BY <1>10, <3>1
      <4>2. n = k \/ n = tsize
        BY <3>1 DEF Larger
      <4>3. k + 1 <= m /\ h + 1 <= m
        BY <2>4, <3>1
      <4> QED BY <3>9, <4>1, <4>2, <4>3
    <3>11. \E l, j, g : j \in Int /\ r = SetSiz(Put(t, t.d[w], l, g), w, j)
      <4>1. CASE minus
        <5>1. r = SetSiz(Put(t, t.d[w], n, diff), w, Signed(z, Normalize(diff, n)))
          BY <3>6, <4>1
        <5>2. Normalize(diff, n) \in Nat
          BY <3>10, NormalizeRange
        <5>3. Signed(z, Normalize(diff, n)) \in Int
          BY <5>2, SignedRange
        <5> QED BY <5>1, <5>3
      <4>2. CASE ~minus
        <5>1. r = SetSiz(Put(t, t.d[w], n + 1, sum), w, Signed(q, n + Bit(sum >= B^n)))
          BY <3>6, <4>2
        <5>2. n + Bit(sum >= B^n) \in Nat
          BY <3>10, BitRange
        <5>3. Signed(q, n + Bit(sum >= B^n)) \in Int
          BY <5>2, SignedRange
        <5> QED BY <5>1, <5>3
      <4> QED BY <4>1, <4>2
    <3>12. t.status = "run"
      <4>1. PICK l, j, g : j \in Int /\ r = SetSiz(Put(t, t.d[w], l, g), w, j)
        BY <3>11
      <4>2. SetSiz(Put(t, t.d[w], l, g), w, j).status = "run" /\ t \in Grow(s, w, m)
        BY <2>4, <4>1
      <4> QED BY ONLY Sound(s), w \in s.live, m \in Nat, <4>1, <4>2, GrowRuns
    <3>13. tv = Mag(s, a) * Mag(s, b)
      <4>1. PICK pn : pn = Null
        OBVIOUS
      <4>2. t \in Grow(s, w, m) /\ m > 0
        BY <2>4
      <4>3. pn = Null \/ (pn = t.d[w] /\ s.size[w] = 0)
        BY <4>1
      <4>4. MpnMul(t, pn, t.d[a], AbSiz(s, a), t.d[b], AbSiz(s, b)) = Mag(s, a) * Mag(s, b)
        BY ONLY Powers, Sound(s), w \in s.live, a \in s.live, b \in s.live, m \in Nat,
                <2>3, <3>12, <4>2, <4>3, GrownMul
      <4> QED BY <3>1, <4>1, <4>4
    <3>14. tv = p /\ Exact(tv, tsize)
      <4>1. tv = p
        BY <1>3, <1>4, <3>13
      <4>2. h = AbSiz(s, a) + AbSiz(s, b)
        BY <2>4
      <4>3. PICK kk \in Nat : kk = h - Bit(High(tv, h - 1) = 0) /\ Exact(tv, kk)
        BY <2>3, <3>13, <4>2, ProductSize
      <4> QED BY <3>8, <4>1, <4>3
    <3>15. wu = wv /\ Exact(wu, k)
      <4>1. t \in Grow(s, w, m)
        BY <2>4
      <4>2. wu = Mag(s, w)
        BY ONLY Powers, Sound(s), w \in s.live, m \in Nat, <3>2, <3>12, <4>1, Reads
      <4>3. Exact(Mag(s, w), AbSiz(s, w))
        BY Operand
      <4> QED BY <1>3, <3>1, <4>2, <4>3
    <3>16. Value(s, w) = Signed(q, wu)
      BY <1>3, <3>15
    <3>17. t \in Grow(s, w, m) /\ n = Larger(k, tsize) /\ n <= m
      BY <2>4, <3>1, <3>10
    <3>18. minus <=> (e <=> ~q)
      BY <1>1, <1>2
    <3>19. CASE minus
      <4>1. r = SetSiz(Put(t, t.d[w], n, diff), w, Signed(z, Normalize(diff, n)))
        BY <3>6, <3>19
      <4>2. e <=> ~q
        BY <3>18, <3>19
      <4>3. diff = IF less THEN tv - wu ELSE wu - tv
        BY <3>4
      <4>5. k \in Nat /\ tsize \in Nat
        BY <3>9, <3>10
      <4>6. Exact(wu, k) /\ Exact(tv, tsize)
        BY <3>14, <3>15
      <4>4. Gives(s, r, w, Value(s, w) + Signed(e, tv))
        BY ONLY Powers, Sound(s), w \in s.live, m \in Nat, less \in BOOLEAN, q \in BOOLEAN,
                e \in BOOLEAN, z \in BOOLEAN, r.status = "run", <3>3, <3>5, <4>5, <4>6,
                <3>16, <3>17, <4>1, <4>2, <4>3, MinusCombine
      <4> QED BY <1>7, <1>8, <1>9, <3>14, <4>4
    <3>20. CASE ~minus
      <4>1. r = SetSiz(Put(t, t.d[w], n + 1, sum), w, Signed(q, n + Bit(sum >= B^n)))
        BY <3>6, <3>20
      <4>2. e <=> q
        BY <3>18, <3>20
      <4>3. sum = wu + tv
        BY <3>4
      <4>4. Gives(s, r, w, Value(s, w) + Signed(e, tv))
        BY ONLY Powers, Sound(s), w \in s.live, m \in Nat, q \in BOOLEAN,
                e \in BOOLEAN, r.status = "run", <3>9, <3>10, <3>14,
                <3>15, <3>16, <3>17, <4>1, <4>2, <4>3, PlusCombine
      <4> QED BY <1>7, <1>8, <1>9, <3>14, <4>4
    <3> QED BY <3>19, <3>20
  <2> QED BY <2>5, <2>6
<1> QED BY <1>11, <1>12, <1>13

-----------------------------------------------------------------------------
(* The client. *)

\* The integers of the store are those the calls should have left; a process that is
\* over has none.
Agrees(s, f) ==
  /\ f \in [Var -> Int]
  /\ s.status = "run" => Sound(s) /\ \A x \in s.live : Value(s, x) = f[x]
  /\ s.status # "run" => s.live = {}

LEMMA LiveVars ==
  ASSUME NEW s, Sound(s)
  PROVE  s.live \subseteq Var /\ s.status = "run"
BY DEF Sound, Plain, Good, Typed

LEMMA GivesAgrees ==
  ASSUME Powers, NEW s, NEW f, Agrees(s, f), s.status = "run", NEW w \in s.live, NEW n,
         NEW t, Gives(s, t, w, n), NEW g, g = [f EXCEPT ![w] = n]
  PROVE  Agrees(t, g)
<1>1. Sound(s) /\ Sound(t) /\ t.live = s.live /\ Value(t, w) = n
  BY DEF Agrees, Gives
<1>2. s.live \subseteq Var /\ t.status = "run"
  BY <1>1, LiveVars
<1>3. n \in Int
  BY <1>1, Operand
<1>4. f \in [Var -> Int] /\ g \in [Var -> Int]
  BY <1>3 DEF Agrees
<1>5. \A x \in t.live : Value(t, x) = g[x]
  <2> SUFFICES ASSUME NEW x \in t.live PROVE Value(t, x) = g[x]
    OBVIOUS
  <2>1. CASE x = w
    BY <1>1, <1>2, <1>4, <2>1
  <2>2. CASE x # w
    <3>1. Value(t, x) = Value(s, x) /\ Value(s, x) = f[x]
      BY <1>1, <2>2 DEF Agrees, Gives
    <3> QED BY <1>1, <1>2, <1>4, <2>2, <3>1
  <2> QED BY <2>1, <2>2
<1> QED BY <1>1, <1>2, <1>4, <1>5 DEF Agrees

LEMMA AddsAgrees ==
  ASSUME Powers, NEW s, NEW f, Agrees(s, f), s.status = "run", NEW w \in Var \ s.live, NEW n,
         NEW t, Adds(s, t, w, n), NEW g, g = [f EXCEPT ![w] = n]
  PROVE  Agrees(t, g)
<1>1. Sound(s) /\ Sound(t) /\ t.live = s.live \cup {w} /\ Value(t, w) = n
  BY DEF Agrees, Adds
<1>2. s.live \subseteq Var /\ t.status = "run"
  BY <1>1, LiveVars
<1>3. n \in Int
  BY <1>1, Operand
<1>4. f \in [Var -> Int] /\ g \in [Var -> Int]
  BY <1>3 DEF Agrees
<1>5. \A x \in t.live : Value(t, x) = g[x]
  <2> SUFFICES ASSUME NEW x \in t.live PROVE Value(t, x) = g[x]
    OBVIOUS
  <2>1. CASE x = w
    BY <1>1, <1>2, <1>4, <2>1
  <2>2. CASE x # w
    <3>1. Value(t, x) = Value(s, x) /\ Value(s, x) = f[x] /\ x \in Var
      BY <1>1, <1>2, <2>2 DEF Agrees, Adds
    <3> QED BY <1>4, <2>2, <3>1
  <2> QED BY <2>1, <2>2
<1> QED BY <1>1, <1>2, <1>4, <1>5 DEF Agrees

LEMMA RemovesAgrees ==
  ASSUME NEW s, NEW f, Agrees(s, f), s.status = "run", NEW w \in s.live,
         NEW t, Removes(s, t, w), NEW g, g = [f EXCEPT ![w] = 0]
  PROVE  Agrees(t, g)
<1>1. Sound(s) /\ Sound(t) /\ t.live = s.live \ {w}
  BY DEF Agrees, Removes
<1>2. s.live \subseteq Var /\ t.status = "run"
  BY <1>1, LiveVars
<1>3. f \in [Var -> Int] /\ g \in [Var -> Int]
  <2>1. f \in [Var -> Int]
    BY DEF Agrees
  <2>2. PICK i \in Int : i = 0
    OBVIOUS
  <2>3. g = [f EXCEPT ![w] = i]
    BY <2>2
  <2> QED BY <2>1, <2>3
<1>4. \A x \in t.live : Value(t, x) = g[x]
  <2> SUFFICES ASSUME NEW x \in t.live PROVE Value(t, x) = g[x]
    OBVIOUS
  <2>1. x # w /\ x \in Var /\ Value(t, x) = Value(s, x) /\ Value(s, x) = f[x]
    BY <1>1, <1>2 DEF Agrees, Removes
  <2> QED BY <1>3, <2>1
<1> QED BY <1>1, <1>2, <1>3, <1>4 DEF Agrees

LEMMA SwapAgrees ==
  ASSUME Powers, NEW s, NEW f, Agrees(s, f), s.status = "run", NEW u \in s.live, NEW v \in s.live,
         NEW t \in MpzSwap(s, u, v), NEW g, g = [f EXCEPT ![u] = f[v], ![v] = f[u]]
  PROVE  Agrees(t, g)
<1>1. Sound(s) /\ \A x \in s.live : Value(s, x) = f[x]
  BY DEF Agrees
<1>2. /\ Sound(t) /\ t.live = s.live
      /\ Value(t, u) = Value(s, v) /\ Value(t, v) = Value(s, u)
      /\ \A y \in s.live \ {u, v} : Value(t, y) = Value(s, y)
  BY <1>1, SwapValue
<1>3. s.live \subseteq Var /\ t.status = "run"
  BY <1>1, <1>2, LiveVars
<1>4. f \in [Var -> Int] /\ f[u] \in Int /\ f[v] \in Int
  BY <1>3 DEF Agrees
<1>5. g \in [Var -> Int] /\ g[v] = f[u] /\ g[u] = f[v]
      /\ \A y \in Var : y # u /\ y # v => g[y] = f[y]
  BY <1>3, <1>4
<1>6. \A x \in t.live : Value(t, x) = g[x]
  <2> SUFFICES ASSUME NEW x \in t.live PROVE Value(t, x) = g[x]
    OBVIOUS
  <2>1. CASE x = u
    BY <1>1, <1>2, <1>5, <2>1
  <2>2. CASE x = v
    BY <1>1, <1>2, <1>5, <2>2
  <2>3. CASE x # u /\ x # v
    <3>1. Value(t, x) = Value(s, x) /\ Value(s, x) = f[x] /\ x \in Var
      BY <1>1, <1>2, <1>3, <2>3
    <3> QED BY <1>5, <2>3, <3>1
  <2> QED BY <2>1, <2>2, <2>3
<1> QED BY <1>2, <1>3, <1>5, <1>6 DEF Agrees

\* The store of a process that has not begun, or is over.
LEMMA EmptyAgrees ==
  ASSUME NEW f, f = [x \in Var |-> 0]
  PROVE  /\ Agrees(EmptyStore, f)
         /\ \A why : why # "run" => Agrees(Exception(EmptyStore, why), f)
<1>1. f \in [Var -> Int]
  OBVIOUS
<1>2. /\ EmptyStore.status = "run" /\ EmptyStore.live = {}
      /\ EmptyStore.limbs = [b \in Block |-> 0]
  BY DEF EmptyStore
<1>3. Good(EmptyStore)
  BY EmptyGood
<1>4. Sound(EmptyStore)
  BY <1>2, <1>3 DEF Sound, Plain, Numbers, Dummy
<1>5. Agrees(EmptyStore, f)
  BY <1>1, <1>2, <1>4 DEF Agrees
<1>6. ASSUME NEW why, why # "run"
      PROVE  Agrees(Exception(EmptyStore, why), f)
  <2>1. /\ Exception(EmptyStore, why).live = {} /\ Exception(EmptyStore, why).status = why
    BY <1>2 DEF Exception, EmptyStore
  <2> QED BY <1>1, <1>6, <2>1 DEF Agrees
<1> QED BY <1>5, <1>6

\* A signed or unsigned word fits in a limb.
LEMMA WordRange ==
  ASSUME Powers
  PROVE  /\ \A n \in Long \cup Limb : n \in Int /\ Abs(n) < B
         /\ \A n \in Long : n \in Int /\ Abs(n) < B
         /\ \A n \in Limb : n \in Nat /\ n < B
<1>1. PICK b \in Nat : b = B /\ b >= 2
  BY Base
<1>2. PICK h \in Nat : h = b \div 2 /\ h < b
  <2>1. PICK d \in Nat \ {0} : d = 2
    OBVIOUS
  <2>2. PICK h \in Int, r \in 0..(d - 1) : h = b \div d /\ b = d * h + r
    BY Division
  <2>3. b = 2 * h + r /\ r <= 1 /\ 0 <= r
    BY <2>1, <2>2
  <2>4. h >= 0 /\ h < b
    BY <1>1, <2>2, <2>3
  <2> QED BY <2>1, <2>2, <2>4
<1>3. \A n \in Long : n \in Int /\ Abs(n) < B
  <2>1. Long = (-h)..(h - 1)
    BY <1>1, <1>2 DEF Long
  <2> QED BY <1>1, <1>2, <2>1 DEF Abs
<1>4. \A n \in Limb : n \in Nat /\ n < B /\ Abs(n) < B
  <2>1. Limb = 0..(b - 1)
    BY <1>1 DEF Limb
  <2> QED BY <1>1, <2>1 DEF Abs
<1> QED BY <1>3, <1>4

\* Every call leaves the integers it should.
LEMMA NextAgrees ==
  ASSUME MulMax <= IntMax, Powers, Agrees(store, val), Next
  PROVE  Agrees(store', val')
<1> DEFINE Aborted == \E why : /\ why # "run" /\ store' = Exception(EmptyStore, why)
                               /\ val' = [x \in Var |-> 0]
<1>1. Aborted => Agrees(store', val')
  BY EmptyAgrees
<1>2. \A bits \in Bits : bits \in Nat
  BY BitsAssumption
<1>3. \A cnt \in Counts : cnt \in Nat
  BY BitsAssumption
<1>4. store.status = "run" =>
        Sound(store) /\ \A x \in store.live : Value(store, x) = val[x]
  BY DEF Agrees
<1>5. ASSUME NEW x \in Var, InitCall(x)
      PROVE  Agrees(store', val')
  <2>1. store.status = "run" /\ x \in Var \ store.live
    BY <1>5 DEF InitCall, Live, Unused, Running
  <2>2. Aborted \/ \E t \in MpzInit(store, x) :
          t.status = "run" /\ store' = t /\ val' = [val EXCEPT ![x] = 0]
    BY <1>5 DEF InitCall, Integer!Zero, Return, Integer!Becomes
  <2>3. ASSUME NEW t \in MpzInit(store, x), t.status = "run", store' = t,
               val' = [val EXCEPT ![x] = 0]
        PROVE  Agrees(store', val')
    <3>1. Sound(store)
      BY <1>4, <2>1
    <3>2. PICK n0 : n0 = 0
      OBVIOUS
    <3>3. Adds(store, t, x, n0)
      BY <2>1, <2>3, <3>1, <3>2, InitValue
    <3>5. val' = [val EXCEPT ![x] = n0]
      BY <2>3, <3>2
    <3>7. PICK g : g = [val EXCEPT ![x] = n0]
      OBVIOUS
    <3>8. Agrees(t, g)
      BY ONLY Powers, Agrees(store, val), <2>1, <3>3, <3>7, AddsAgrees
    <3> QED BY <2>3, <3>5, <3>7, <3>8
  <2> QED BY <1>1, <2>2, <2>3
<1>6. ASSUME NEW x \in Var, Clear(x)
      PROVE  Agrees(store', val')
  <2>1. store.status = "run" /\ x \in store.live
    BY <1>6 DEF Clear, Live, Unused, Running
  <2>2. Aborted \/ \E t \in MpzClear(store, x) :
          t.status = "run" /\ store' = t /\ val' = [val EXCEPT ![x] = 0]
    BY <1>6 DEF Clear, Integer!Zero, Return, Integer!Becomes
  <2>3. ASSUME NEW t \in MpzClear(store, x), t.status = "run", store' = t,
               val' = [val EXCEPT ![x] = 0]
        PROVE  Agrees(store', val')
    <3>1. Sound(store)
      BY <1>4, <2>1
    <3>2. Removes(store, t, x)
      BY <2>1, <2>3, <3>1, ClearValue
    <3> QED BY <2>1, <2>3, <3>2, RemovesAgrees
  <2> QED BY <1>1, <2>2, <2>3
<1>7. ASSUME NEW x \in Var, NEW bits \in Bits, Init2(x, bits)
      PROVE  Agrees(store', val')
  <2>1. store.status = "run" /\ x \in Var \ store.live /\ bits \in Nat
    BY <1>2, <1>7 DEF Init2, Live, Unused, Running
  <2>2. Aborted \/ \E t \in MpzInit2(store, x, bits) :
          t.status = "run" /\ store' = t /\ val' = [val EXCEPT ![x] = 0]
    BY <1>7 DEF Init2, Integer!Zero, Return, Integer!Becomes
  <2>3. ASSUME NEW t \in MpzInit2(store, x, bits), t.status = "run", store' = t,
               val' = [val EXCEPT ![x] = 0]
        PROVE  Agrees(store', val')
    <3>1. Sound(store)
      BY <1>4, <2>1
    <3>2. PICK n0 : n0 = 0
      OBVIOUS
    <3>3. Adds(store, t, x, n0)
      BY <2>1, <2>3, <3>1, <3>2, Init2Value
    <3>5. val' = [val EXCEPT ![x] = n0]
      BY <2>3, <3>2
    <3>7. PICK g : g = [val EXCEPT ![x] = n0]
      OBVIOUS
    <3>8. Agrees(t, g)
      BY ONLY Powers, Agrees(store, val), <2>1, <3>3, <3>7, AddsAgrees
    <3> QED BY <2>3, <3>5, <3>7, <3>8
  <2> QED BY <1>1, <2>2, <2>3
<1>8. ASSUME NEW x \in Var, NEW bits \in Bits, Realloc2(x, bits)
      PROVE  Agrees(store', val')
  <2>1. store.status = "run" /\ x \in store.live /\ bits \in Nat
    BY <1>2, <1>8 DEF Realloc2, Live, Unused, Running
  <2>2. Aborted \/ \E t \in MpzRealloc2(store, x, bits) :
          t.status = "run" /\ store' = t /\ val' = [val EXCEPT ![x] = IF (IF val[x] < 0 THEN -val[x] ELSE val[x]) < B^BitsToLimbs(bits) THEN val[x] ELSE 0]
    BY <1>8 DEF Realloc2, Integer!Realloc2, Integer!Magnitude, Return, Integer!Becomes
  <2>3. ASSUME NEW t \in MpzRealloc2(store, x, bits), t.status = "run", store' = t,
               val' = [val EXCEPT ![x] = IF (IF val[x] < 0 THEN -val[x] ELSE val[x]) < B^BitsToLimbs(bits) THEN val[x] ELSE 0]
        PROVE  Agrees(store', val')
    <3>1. Sound(store)
      BY <1>4, <2>1
    <3>2. PICK n0 : n0 = IF Abs(Value(store, x)) < B^BitsToLimbs(bits) THEN Value(store, x) ELSE 0
      OBVIOUS
    <3>3. Gives(store, t, x, n0)
      BY <2>1, <2>3, <3>1, <3>2, Realloc2Value
    <3>4. Value(store, x) = val[x]
      BY <1>4, <2>1
    <3>5. val' = [val EXCEPT ![x] = n0]
      BY <2>3, <3>2, <3>4 DEF Abs
    <3>7. PICK g : g = [val EXCEPT ![x] = n0]
      OBVIOUS
    <3>8. Agrees(t, g)
      BY ONLY Powers, Agrees(store, val), <2>1, <3>3, <3>7, GivesAgrees
    <3> QED BY <2>3, <3>5, <3>7, <3>8
  <2> QED BY <1>1, <2>2, <2>3
<1>9. ASSUME NEW w \in Var, NEW u \in Var, InitSet(w, u)
      PROVE  Agrees(store', val')
  <2>1. store.status = "run" /\ w \in Var \ store.live /\ u \in store.live
    BY <1>9 DEF InitSet, Live, Unused, Running
  <2>2. Aborted \/ \E t \in MpzInitSet(store, w, u) :
          t.status = "run" /\ store' = t /\ val' = [val EXCEPT ![w] = val[u]]
    BY <1>9 DEF InitSet, Integer!Set, Return, Integer!Becomes
  <2>3. ASSUME NEW t \in MpzInitSet(store, w, u), t.status = "run", store' = t,
               val' = [val EXCEPT ![w] = val[u]]
        PROVE  Agrees(store', val')
    <3>1. Sound(store)
      BY <1>4, <2>1
    <3>2. PICK n0 : n0 = Value(store, u)
      OBVIOUS
    <3>3. Adds(store, t, w, n0)
      BY <2>1, <2>3, <3>1, <3>2, InitSetValue
    <3>4. Value(store, u) = val[u]
      BY <1>4, <2>1
    <3>5. val' = [val EXCEPT ![w] = n0]
      BY <2>3, <3>2, <3>4
    <3>7. PICK g : g = [val EXCEPT ![w] = n0]
      OBVIOUS
    <3>8. Agrees(t, g)
      BY ONLY Powers, Agrees(store, val), <2>1, <3>3, <3>7, AddsAgrees
    <3> QED BY <2>3, <3>5, <3>7, <3>8
  <2> QED BY <1>1, <2>2, <2>3
<1>10. ASSUME NEW w \in Var, NEW u \in Var, Set(w, u)
      PROVE  Agrees(store', val')
  <2>1. store.status = "run" /\ w \in store.live /\ u \in store.live
    BY <1>10 DEF Set, Live, Unused, Running
  <2>2. Aborted \/ \E t \in MpzSet(store, w, u) :
          t.status = "run" /\ store' = t /\ val' = [val EXCEPT ![w] = val[u]]
    BY <1>10 DEF Set, Integer!Set, Return, Integer!Becomes
  <2>3. ASSUME NEW t \in MpzSet(store, w, u), t.status = "run", store' = t,
               val' = [val EXCEPT ![w] = val[u]]
        PROVE  Agrees(store', val')
    <3>1. Sound(store)
      BY <1>4, <2>1
    <3>2. PICK n0 : n0 = Value(store, u)
      OBVIOUS
    <3>3. Gives(store, t, w, n0)
      BY <2>1, <2>3, <3>1, <3>2, SetValue
    <3>4. Value(store, u) = val[u]
      BY <1>4, <2>1
    <3>5. val' = [val EXCEPT ![w] = n0]
      BY <2>3, <3>2, <3>4
    <3>7. PICK g : g = [val EXCEPT ![w] = n0]
      OBVIOUS
    <3>8. Agrees(t, g)
      BY ONLY Powers, Agrees(store, val), <2>1, <3>3, <3>7, GivesAgrees
    <3> QED BY <2>3, <3>5, <3>7, <3>8
  <2> QED BY <1>1, <2>2, <2>3
<1>11. ASSUME NEW w \in Var, NEW u \in Var, Neg(w, u)
      PROVE  Agrees(store', val')
  <2>1. store.status = "run" /\ w \in store.live /\ u \in store.live
    BY <1>11 DEF Neg, Live, Unused, Running
  <2>2. Aborted \/ \E t \in MpzNeg(store, w, u) :
          t.status = "run" /\ store' = t /\ val' = [val EXCEPT ![w] = -val[u]]
    BY <1>11 DEF Neg, Integer!Neg, Return, Integer!Becomes
  <2>3. ASSUME NEW t \in MpzNeg(store, w, u), t.status = "run", store' = t,
               val' = [val EXCEPT ![w] = -val[u]]
        PROVE  Agrees(store', val')
    <3>1. Sound(store)
      BY <1>4, <2>1
    <3>2. PICK n0 : n0 = -Value(store, u)
      OBVIOUS
    <3>3. Gives(store, t, w, n0)
      BY <2>1, <2>3, <3>1, <3>2, NegValue
    <3>4. Value(store, u) = val[u]
      BY <1>4, <2>1
    <3>5. val' = [val EXCEPT ![w] = n0]
      BY <2>3, <3>2, <3>4
    <3>7. PICK g : g = [val EXCEPT ![w] = n0]
      OBVIOUS
    <3>8. Agrees(t, g)
      BY ONLY Powers, Agrees(store, val), <2>1, <3>3, <3>7, GivesAgrees
    <3> QED BY <2>3, <3>5, <3>7, <3>8
  <2> QED BY <1>1, <2>2, <2>3
<1>12. ASSUME NEW w \in Var, NEW u \in Var, AbsCall(w, u)
      PROVE  Agrees(store', val')
  <2>1. store.status = "run" /\ w \in store.live /\ u \in store.live
    BY <1>12 DEF AbsCall, Live, Unused, Running
  <2>2. Aborted \/ \E t \in MpzAbs(store, w, u) :
          t.status = "run" /\ store' = t /\ val' = [val EXCEPT ![w] = IF val[u] < 0 THEN -val[u] ELSE val[u]]
    BY <1>12 DEF AbsCall, Integer!AbsOf, Integer!Magnitude, Return, Integer!Becomes
  <2>3. ASSUME NEW t \in MpzAbs(store, w, u), t.status = "run", store' = t,
               val' = [val EXCEPT ![w] = IF val[u] < 0 THEN -val[u] ELSE val[u]]
        PROVE  Agrees(store', val')
    <3>1. Sound(store)
      BY <1>4, <2>1
    <3>2. PICK n0 : n0 = Abs(Value(store, u))
      OBVIOUS
    <3>3. Gives(store, t, w, n0)
      BY <2>1, <2>3, <3>1, <3>2, AbsValue
    <3>4. Value(store, u) = val[u]
      BY <1>4, <2>1
    <3>5. val' = [val EXCEPT ![w] = n0]
      BY <2>3, <3>2, <3>4 DEF Abs
    <3>7. PICK g : g = [val EXCEPT ![w] = n0]
      OBVIOUS
    <3>8. Agrees(t, g)
      BY ONLY Powers, Agrees(store, val), <2>1, <3>3, <3>7, GivesAgrees
    <3> QED BY <2>3, <3>5, <3>7, <3>8
  <2> QED BY <1>1, <2>2, <2>3
<1>13. ASSUME NEW w \in Var, NEW u \in Var, Swap(w, u)
      PROVE  Agrees(store', val')
  <2>1. store.status = "run" /\ w \in store.live /\ u \in store.live
    BY <1>13 DEF Swap, Live, Unused, Running
  <2>2. Aborted \/ \E t \in MpzSwap(store, w, u) :
          t.status = "run" /\ store' = t /\ val' = [val EXCEPT ![w] = val[u], ![u] = val[w]]
    BY <1>13 DEF Swap, Integer!Swap, Return
  <2>3. ASSUME NEW t \in MpzSwap(store, w, u), t.status = "run", store' = t,
               val' = [val EXCEPT ![w] = val[u], ![u] = val[w]]
        PROVE  Agrees(store', val')
    <3>1. Sound(store)
      BY <1>4, <2>1
    <3> QED BY <2>1, <2>3, <3>1, SwapAgrees
  <2> QED BY <1>1, <2>2, <2>3
<1>14. ASSUME NEW w \in Var, NEW n \in Long, SetSi(w, n)
      PROVE  Agrees(store', val')
  <2>1. store.status = "run" /\ w \in store.live /\ n \in Int /\ Abs(n) < B
    BY WordRange, <1>14 DEF SetSi, Live, Unused, Running
  <2>2. Aborted \/ \E t \in MpzSetSi(store, w, n) :
          t.status = "run" /\ store' = t /\ val' = [val EXCEPT ![w] = n]
    BY <1>14 DEF SetSi, Integer!SetSi, Return, Integer!Becomes
  <2>3. ASSUME NEW t \in MpzSetSi(store, w, n), t.status = "run", store' = t,
               val' = [val EXCEPT ![w] = n]
        PROVE  Agrees(store', val')
    <3>1. Sound(store)
      BY <1>4, <2>1
    <3>2. PICK n0 : n0 = n
      OBVIOUS
    <3>3. Gives(store, t, w, n0)
      BY <2>1, <2>3, <3>1, <3>2, SetSiValue
    <3>5. val' = [val EXCEPT ![w] = n0]
      BY <2>3, <3>2
    <3>7. PICK g : g = [val EXCEPT ![w] = n0]
      OBVIOUS
    <3>8. Agrees(t, g)
      BY ONLY Powers, Agrees(store, val), <2>1, <3>3, <3>7, GivesAgrees
    <3> QED BY <2>3, <3>5, <3>7, <3>8
  <2> QED BY <1>1, <2>2, <2>3
<1>15. ASSUME NEW w \in Var, NEW u \in Var, NEW cnt \in Counts, Mul2Exp(w, u, cnt)
      PROVE  Agrees(store', val')
  <2>1. store.status = "run" /\ w \in store.live /\ u \in store.live /\ cnt \in Nat
    BY <1>3, <1>15 DEF Mul2Exp, Live, Unused, Running
  <2>2. Aborted \/ \E t \in MpzMul2Exp(store, w, u, cnt) :
          t.status = "run" /\ store' = t /\ val' = [val EXCEPT ![w] = val[u] * 2^cnt]
    BY <1>15 DEF Mul2Exp, Integer!Mul2Exp, Return, Integer!Becomes
  <2>3. ASSUME NEW t \in MpzMul2Exp(store, w, u, cnt), t.status = "run", store' = t,
               val' = [val EXCEPT ![w] = val[u] * 2^cnt]
        PROVE  Agrees(store', val')
    <3>1. Sound(store)
      BY <1>4, <2>1
    <3>2. PICK n0 : n0 = Value(store, u) * 2^cnt
      OBVIOUS
    <3>3. Gives(store, t, w, n0)
      BY <2>1, <2>3, <3>1, <3>2, Mul2ExpValue
    <3>4. Value(store, u) = val[u]
      BY <1>4, <2>1
    <3>5. val' = [val EXCEPT ![w] = n0]
      BY <2>3, <3>2, <3>4
    <3>7. PICK g : g = [val EXCEPT ![w] = n0]
      OBVIOUS
    <3>8. Agrees(t, g)
      BY ONLY Powers, Agrees(store, val), <2>1, <3>3, <3>7, GivesAgrees
    <3> QED BY <2>3, <3>5, <3>7, <3>8
  <2> QED BY <1>1, <2>2, <2>3
<1>16. ASSUME NEW w \in Var, NEW u \in Var, NEW n \in Limb, AddUi(w, u, n)
      PROVE  Agrees(store', val')
  <2>1. store.status = "run" /\ w \in store.live /\ u \in store.live /\ n \in Nat /\ n < B
    BY WordRange, <1>16 DEF AddUi, Live, Unused, Running
  <2>2. Aborted \/ \E t \in MpzAorsUi(store, w, u, n, FALSE) :
          t.status = "run" /\ store' = t /\ val' = [val EXCEPT ![w] = val[u] + n]
    BY <1>16 DEF AddUi, Integer!AddUi, MpzAddUi, Return, Integer!Becomes
  <2>3. ASSUME NEW t \in MpzAorsUi(store, w, u, n, FALSE), t.status = "run", store' = t,
               val' = [val EXCEPT ![w] = val[u] + n]
        PROVE  Agrees(store', val')
    <3>1. Sound(store)
      BY <1>4, <2>1
    <3>2. PICK n0 : n0 = Value(store, u) + n
      OBVIOUS
    <3>6. PICK sub \in BOOLEAN : sub = FALSE
      OBVIOUS
    <3>3. Gives(store, t, w, n0)
      BY <2>1, <2>3, <3>1, <3>2, <3>6, AorsUiValue
    <3>4. Value(store, u) = val[u]
      BY <1>4, <2>1
    <3>5. val' = [val EXCEPT ![w] = n0]
      BY <2>3, <3>2, <3>4
    <3>7. PICK g : g = [val EXCEPT ![w] = n0]
      OBVIOUS
    <3>8. Agrees(t, g)
      BY ONLY Powers, Agrees(store, val), <2>1, <3>3, <3>7, GivesAgrees
    <3> QED BY <2>3, <3>5, <3>7, <3>8
  <2> QED BY <1>1, <2>2, <2>3
<1>17. ASSUME NEW w \in Var, NEW u \in Var, NEW n \in Limb, SubUi(w, u, n)
      PROVE  Agrees(store', val')
  <2>1. store.status = "run" /\ w \in store.live /\ u \in store.live /\ n \in Nat /\ n < B
    BY WordRange, <1>17 DEF SubUi, Live, Unused, Running
  <2>2. Aborted \/ \E t \in MpzAorsUi(store, w, u, n, TRUE) :
          t.status = "run" /\ store' = t /\ val' = [val EXCEPT ![w] = val[u] - n]
    BY <1>17 DEF SubUi, Integer!SubUi, MpzSubUi, Return, Integer!Becomes
  <2>3. ASSUME NEW t \in MpzAorsUi(store, w, u, n, TRUE), t.status = "run", store' = t,
               val' = [val EXCEPT ![w] = val[u] - n]
        PROVE  Agrees(store', val')
    <3>1. Sound(store)
      BY <1>4, <2>1
    <3>2. PICK n0 : n0 = Value(store, u) - n
      OBVIOUS
    <3>6. PICK sub \in BOOLEAN : sub = TRUE
      OBVIOUS
    <3>3. Gives(store, t, w, n0)
      BY <2>1, <2>3, <3>1, <3>2, <3>6, AorsUiValue
    <3>4. Value(store, u) = val[u]
      BY <1>4, <2>1
    <3>5. val' = [val EXCEPT ![w] = n0]
      BY <2>3, <3>2, <3>4
    <3>7. PICK g : g = [val EXCEPT ![w] = n0]
      OBVIOUS
    <3>8. Agrees(t, g)
      BY ONLY Powers, Agrees(store, val), <2>1, <3>3, <3>7, GivesAgrees
    <3> QED BY <2>3, <3>5, <3>7, <3>8
  <2> QED BY <1>1, <2>2, <2>3
<1>18. ASSUME NEW w \in Var, NEW u \in Var, NEW n \in Limb, UiSub(w, n, u)
      PROVE  Agrees(store', val')
  <2>1. store.status = "run" /\ w \in store.live /\ u \in store.live /\ n \in Nat /\ n < B
    BY WordRange, <1>18 DEF UiSub, Live, Unused, Running
  <2>2. Aborted \/ \E t \in MpzUiSub(store, w, n, u) :
          t.status = "run" /\ store' = t /\ val' = [val EXCEPT ![w] = n - val[u]]
    BY <1>18 DEF UiSub, Integer!UiSub, Return, Integer!Becomes
  <2>3. ASSUME NEW t \in MpzUiSub(store, w, n, u), t.status = "run", store' = t,
               val' = [val EXCEPT ![w] = n - val[u]]
        PROVE  Agrees(store', val')
    <3>1. Sound(store)
      BY <1>4, <2>1
    <3>2. PICK n0 : n0 = n - Value(store, u)
      OBVIOUS
    <3>3. Gives(store, t, w, n0)
      BY <2>1, <2>3, <3>1, <3>2, UiSubValue
    <3>4. Value(store, u) = val[u]
      BY <1>4, <2>1
    <3>5. val' = [val EXCEPT ![w] = n0]
      BY <2>3, <3>2, <3>4
    <3>7. PICK g : g = [val EXCEPT ![w] = n0]
      OBVIOUS
    <3>8. Agrees(t, g)
      BY ONLY Powers, Agrees(store, val), <2>1, <3>3, <3>7, GivesAgrees
    <3> QED BY <2>3, <3>5, <3>7, <3>8
  <2> QED BY <1>1, <2>2, <2>3
<1>19. ASSUME NEW w \in Var, NEW u \in Var, NEW n \in Limb, AddmulUi(w, u, n)
      PROVE  Agrees(store', val')
  <2>1. store.status = "run" /\ w \in store.live /\ u \in store.live /\ n \in Nat /\ n < B
    BY WordRange, <1>19 DEF AddmulUi, Live, Unused, Running
  <2>2. Aborted \/ \E t \in MpzAorsmul1(store, w, u, n, FALSE) :
          t.status = "run" /\ store' = t /\ val' = [val EXCEPT ![w] = val[w] + val[u] * n]
    BY <1>19 DEF AddmulUi, Integer!AddmulUi, MpzAddmulUi, Return, Integer!Becomes
  <2>3. ASSUME NEW t \in MpzAorsmul1(store, w, u, n, FALSE), t.status = "run", store' = t,
               val' = [val EXCEPT ![w] = val[w] + val[u] * n]
        PROVE  Agrees(store', val')
    <3>1. Sound(store)
      BY <1>4, <2>1
    <3>2. PICK n0 : n0 = Value(store, w) + Value(store, u) * n
      OBVIOUS
    <3>6. PICK sub \in BOOLEAN : sub = FALSE
      OBVIOUS
    <3>3. Gives(store, t, w, n0)
      BY <2>1, <2>3, <3>1, <3>2, <3>6, Aorsmul1Value
    <3>4. Value(store, w) = val[w] /\ Value(store, u) = val[u]
      BY <1>4, <2>1
    <3>5. val' = [val EXCEPT ![w] = n0]
      BY <2>3, <3>2, <3>4
    <3>7. PICK g : g = [val EXCEPT ![w] = n0]
      OBVIOUS
    <3>8. Agrees(t, g)
      BY ONLY Powers, Agrees(store, val), <2>1, <3>3, <3>7, GivesAgrees
    <3> QED BY <2>3, <3>5, <3>7, <3>8
  <2> QED BY <1>1, <2>2, <2>3
<1>20. ASSUME NEW w \in Var, NEW u \in Var, NEW n \in Limb, SubmulUi(w, u, n)
      PROVE  Agrees(store', val')
  <2>1. store.status = "run" /\ w \in store.live /\ u \in store.live /\ n \in Nat /\ n < B
    BY WordRange, <1>20 DEF SubmulUi, Live, Unused, Running
  <2>2. Aborted \/ \E t \in MpzAorsmul1(store, w, u, n, TRUE) :
          t.status = "run" /\ store' = t /\ val' = [val EXCEPT ![w] = val[w] - val[u] * n]
    BY <1>20 DEF SubmulUi, Integer!SubmulUi, MpzSubmulUi, Return, Integer!Becomes
  <2>3. ASSUME NEW t \in MpzAorsmul1(store, w, u, n, TRUE), t.status = "run", store' = t,
               val' = [val EXCEPT ![w] = val[w] - val[u] * n]
        PROVE  Agrees(store', val')
    <3>1. Sound(store)
      BY <1>4, <2>1
    <3>2. PICK n0 : n0 = Value(store, w) - Value(store, u) * n
      OBVIOUS
    <3>6. PICK sub \in BOOLEAN : sub = TRUE
      OBVIOUS
    <3>3. Gives(store, t, w, n0)
      BY <2>1, <2>3, <3>1, <3>2, <3>6, Aorsmul1Value
    <3>4. Value(store, w) = val[w] /\ Value(store, u) = val[u]
      BY <1>4, <2>1
    <3>5. val' = [val EXCEPT ![w] = n0]
      BY <2>3, <3>2, <3>4
    <3>7. PICK g : g = [val EXCEPT ![w] = n0]
      OBVIOUS
    <3>8. Agrees(t, g)
      BY ONLY Powers, Agrees(store, val), <2>1, <3>3, <3>7, GivesAgrees
    <3> QED BY <2>3, <3>5, <3>7, <3>8
  <2> QED BY <1>1, <2>2, <2>3
<1>21. ASSUME NEW w \in Var, NEW u \in Var, NEW n \in Long \cup Limb, MulSi(w, u, n)
      PROVE  Agrees(store', val')
  <2>1. store.status = "run" /\ w \in store.live /\ u \in store.live /\ n \in Int /\ Abs(n) < B
    BY WordRange, <1>21 DEF MulSi, Live, Unused, Running
  <2>2. Aborted \/ \E t \in MpzMulSi(store, w, u, n) :
          t.status = "run" /\ store' = t /\ val' = [val EXCEPT ![w] = val[u] * n]
    BY <1>21 DEF MulSi, Integer!MulSi, Return, Integer!Becomes
  <2>3. ASSUME NEW t \in MpzMulSi(store, w, u, n), t.status = "run", store' = t,
               val' = [val EXCEPT ![w] = val[u] * n]
        PROVE  Agrees(store', val')
    <3>1. Sound(store)
      BY <1>4, <2>1
    <3>2. PICK n0 : n0 = Value(store, u) * n
      OBVIOUS
    <3>3. Gives(store, t, w, n0)
      BY <2>1, <2>3, <3>1, <3>2, MulSiValue
    <3>4. Value(store, u) = val[u]
      BY <1>4, <2>1
    <3>5. val' = [val EXCEPT ![w] = n0]
      BY <2>3, <3>2, <3>4
    <3>7. PICK g : g = [val EXCEPT ![w] = n0]
      OBVIOUS
    <3>8. Agrees(t, g)
      BY ONLY Powers, Agrees(store, val), <2>1, <3>3, <3>7, GivesAgrees
    <3> QED BY <2>3, <3>5, <3>7, <3>8
  <2> QED BY <1>1, <2>2, <2>3
<1>22. ASSUME NEW w \in Var, NEW u \in Var, NEW v \in Var, Add(w, u, v)
      PROVE  Agrees(store', val')
  <2>1. store.status = "run" /\ w \in store.live /\ u \in store.live /\ v \in store.live
    BY <1>22 DEF Add, Live, Unused, Running
  <2>2. Aborted \/ \E t \in MpzAors(store, w, u, v, FALSE) :
          t.status = "run" /\ store' = t /\ val' = [val EXCEPT ![w] = val[u] + val[v]]
    BY <1>22 DEF Add, Integer!Add, MpzAdd, Return, Integer!Becomes
  <2>3. ASSUME NEW t \in MpzAors(store, w, u, v, FALSE), t.status = "run", store' = t,
               val' = [val EXCEPT ![w] = val[u] + val[v]]
        PROVE  Agrees(store', val')
    <3>1. Sound(store)
      BY <1>4, <2>1
    <3>2. PICK n0 : n0 = Value(store, u) + Value(store, v)
      OBVIOUS
    <3>6. PICK sub \in BOOLEAN : sub = FALSE
      OBVIOUS
    <3>3. Gives(store, t, w, n0)
      BY <2>1, <2>3, <3>1, <3>2, <3>6, AorsValue
    <3>4. Value(store, u) = val[u] /\ Value(store, v) = val[v]
      BY <1>4, <2>1
    <3>5. val' = [val EXCEPT ![w] = n0]
      BY <2>3, <3>2, <3>4
    <3>7. PICK g : g = [val EXCEPT ![w] = n0]
      OBVIOUS
    <3>8. Agrees(t, g)
      BY ONLY Powers, Agrees(store, val), <2>1, <3>3, <3>7, GivesAgrees
    <3> QED BY <2>3, <3>5, <3>7, <3>8
  <2> QED BY <1>1, <2>2, <2>3
<1>23. ASSUME NEW w \in Var, NEW u \in Var, NEW v \in Var, Sub(w, u, v)
      PROVE  Agrees(store', val')
  <2>1. store.status = "run" /\ w \in store.live /\ u \in store.live /\ v \in store.live
    BY <1>23 DEF Sub, Live, Unused, Running
  <2>2. Aborted \/ \E t \in MpzAors(store, w, u, v, TRUE) :
          t.status = "run" /\ store' = t /\ val' = [val EXCEPT ![w] = val[u] - val[v]]
    BY <1>23 DEF Sub, Integer!Sub, MpzSub, Return, Integer!Becomes
  <2>3. ASSUME NEW t \in MpzAors(store, w, u, v, TRUE), t.status = "run", store' = t,
               val' = [val EXCEPT ![w] = val[u] - val[v]]
        PROVE  Agrees(store', val')
    <3>1. Sound(store)
      BY <1>4, <2>1
    <3>2. PICK n0 : n0 = Value(store, u) - Value(store, v)
      OBVIOUS
    <3>6. PICK sub \in BOOLEAN : sub = TRUE
      OBVIOUS
    <3>3. Gives(store, t, w, n0)
      BY <2>1, <2>3, <3>1, <3>2, <3>6, AorsValue
    <3>4. Value(store, u) = val[u] /\ Value(store, v) = val[v]
      BY <1>4, <2>1
    <3>5. val' = [val EXCEPT ![w] = n0]
      BY <2>3, <3>2, <3>4
    <3>7. PICK g : g = [val EXCEPT ![w] = n0]
      OBVIOUS
    <3>8. Agrees(t, g)
      BY ONLY Powers, Agrees(store, val), <2>1, <3>3, <3>7, GivesAgrees
    <3> QED BY <2>3, <3>5, <3>7, <3>8
  <2> QED BY <1>1, <2>2, <2>3
<1>24. ASSUME NEW w \in Var, NEW u \in Var, NEW v \in Var, Mul(w, u, v)
      PROVE  Agrees(store', val')
  <2>1. store.status = "run" /\ w \in store.live /\ u \in store.live /\ v \in store.live
    BY <1>24 DEF Mul, Live, Unused, Running
  <2>2. Aborted \/ \E t \in MpzMul(store, w, u, v) :
          t.status = "run" /\ store' = t /\ val' = [val EXCEPT ![w] = val[u] * val[v]]
    BY <1>24 DEF Mul, Integer!Mul, Return, Integer!Becomes
  <2>3. ASSUME NEW t \in MpzMul(store, w, u, v), t.status = "run", store' = t,
               val' = [val EXCEPT ![w] = val[u] * val[v]]
        PROVE  Agrees(store', val')
    <3>1. Sound(store)
      BY <1>4, <2>1
    <3>2. PICK n0 : n0 = Value(store, u) * Value(store, v)
      OBVIOUS
    <3>6. AbSiz(store, u) + AbSiz(store, v) <= IntMax
      <4>1. AbSiz(store, u) \in Nat /\ AbSiz(store, v) \in Nat
        BY <2>1, <3>1, Operand
      <4>2. AbSiz(store, u) + AbSiz(store, v) <= MulMax
        BY <1>24 DEF Mul
      <4> QED BY <4>1, <4>2, MulMaxAssumption, IntMaxAssumption
    <3>3. Gives(store, t, w, n0)
      BY <2>1, <2>3, <3>1, <3>2, <3>6, MulValue
    <3>4. Value(store, u) = val[u] /\ Value(store, v) = val[v]
      BY <1>4, <2>1
    <3>5. val' = [val EXCEPT ![w] = n0]
      BY <2>3, <3>2, <3>4
    <3>7. PICK g : g = [val EXCEPT ![w] = n0]
      OBVIOUS
    <3>8. Agrees(t, g)
      BY ONLY Powers, Agrees(store, val), <2>1, <3>3, <3>7, GivesAgrees
    <3> QED BY <2>3, <3>5, <3>7, <3>8
  <2> QED BY <1>1, <2>2, <2>3
<1>25. ASSUME NEW w \in Var, NEW u \in Var, NEW v \in Var, Addmul(w, u, v)
      PROVE  Agrees(store', val')
  <2>1. store.status = "run" /\ w \in store.live /\ u \in store.live /\ v \in store.live
    BY <1>25 DEF Addmul, Live, Unused, Running
  <2>2. Aborted \/ \E t \in MpzAorsmul(store, w, u, v, FALSE) :
          t.status = "run" /\ store' = t /\ val' = [val EXCEPT ![w] = val[w] + val[u] * val[v]]
    BY <1>25 DEF Addmul, Integer!Addmul, MpzAddmul, Return, Integer!Becomes
  <2>3. ASSUME NEW t \in MpzAorsmul(store, w, u, v, FALSE), t.status = "run", store' = t,
               val' = [val EXCEPT ![w] = val[w] + val[u] * val[v]]
        PROVE  Agrees(store', val')
    <3>1. Sound(store)
      BY <1>4, <2>1
    <3>2. PICK n0 : n0 = Value(store, w) + Value(store, u) * Value(store, v)
      OBVIOUS
    <3>6. PICK sub \in BOOLEAN : sub = FALSE
      OBVIOUS
    <3>3. Gives(store, t, w, n0)
      BY <2>1, <2>3, <3>1, <3>2, <3>6, AorsmulValue
    <3>4. Value(store, w) = val[w] /\ Value(store, u) = val[u] /\ Value(store, v) = val[v]
      BY <1>4, <2>1
    <3>5. val' = [val EXCEPT ![w] = n0]
      BY <2>3, <3>2, <3>4
    <3>7. PICK g : g = [val EXCEPT ![w] = n0]
      OBVIOUS
    <3>8. Agrees(t, g)
      BY ONLY Powers, Agrees(store, val), <2>1, <3>3, <3>7, GivesAgrees
    <3> QED BY <2>3, <3>5, <3>7, <3>8
  <2> QED BY <1>1, <2>2, <2>3
<1>26. ASSUME NEW w \in Var, NEW u \in Var, NEW v \in Var, Submul(w, u, v)
      PROVE  Agrees(store', val')
  <2>1. store.status = "run" /\ w \in store.live /\ u \in store.live /\ v \in store.live
    BY <1>26 DEF Submul, Live, Unused, Running
  <2>2. Aborted \/ \E t \in MpzAorsmul(store, w, u, v, TRUE) :
          t.status = "run" /\ store' = t /\ val' = [val EXCEPT ![w] = val[w] - val[u] * val[v]]
    BY <1>26 DEF Submul, Integer!Submul, MpzSubmul, Return, Integer!Becomes
  <2>3. ASSUME NEW t \in MpzAorsmul(store, w, u, v, TRUE), t.status = "run", store' = t,
               val' = [val EXCEPT ![w] = val[w] - val[u] * val[v]]
        PROVE  Agrees(store', val')
    <3>1. Sound(store)
      BY <1>4, <2>1
    <3>2. PICK n0 : n0 = Value(store, w) - Value(store, u) * Value(store, v)
      OBVIOUS
    <3>6. PICK sub \in BOOLEAN : sub = TRUE
      OBVIOUS
    <3>3. Gives(store, t, w, n0)
      BY <2>1, <2>3, <3>1, <3>2, <3>6, AorsmulValue
    <3>4. Value(store, w) = val[w] /\ Value(store, u) = val[u] /\ Value(store, v) = val[v]
      BY <1>4, <2>1
    <3>5. val' = [val EXCEPT ![w] = n0]
      BY <2>3, <3>2, <3>4
    <3>7. PICK g : g = [val EXCEPT ![w] = n0]
      OBVIOUS
    <3>8. Agrees(t, g)
      BY ONLY Powers, Agrees(store, val), <2>1, <3>3, <3>7, GivesAgrees
    <3> QED BY <2>3, <3>5, <3>7, <3>8
  <2> QED BY <1>1, <2>2, <2>3
<1>27. CASE Life
  BY <1>5, <1>6, <1>7, <1>8, <1>9, <1>27 DEF Life
<1>28. CASE Unary
  BY <1>10, <1>11, <1>12, <1>13, <1>14, <1>15, <1>28 DEF Unary
<1>29. CASE WithWord
  BY <1>16, <1>17, <1>18, <1>19, <1>20, <1>21, <1>29 DEF WithWord
<1>30. CASE Binary
  BY <1>22, <1>23, <1>24, <1>25, <1>26, <1>30 DEF Binary
<1> QED BY <1>27, <1>28, <1>29, <1>30 DEF Next

LEMMA AgreesAlways ==
  ASSUME MulMax <= IntMax, Powers
  PROVE  Spec => []Agrees(store, val)
<1>1. Init => Agrees(store, val)
  BY EmptyAgrees DEF Init, Integer!InitInt
<1>2. Agrees(store, val) /\ [Next]_vars => Agrees(store, val)'
  <2> SUFFICES ASSUME Agrees(store, val), [Next]_vars PROVE Agrees(store', val')
    OBVIOUS
  <2>1. CASE Next
    BY <2>1, NextAgrees
  <2>2. CASE UNCHANGED vars
    BY <2>2 DEF vars
  <2> QED BY <2>1, <2>2
<1> QED BY <1>1, <1>2, PTL DEF Spec

\* Whatever calls the client makes in whatever order, with whatever arguments the same,
\* with words of any width W: every integer holds the value the calls so far should have
\* given it. mpz_init to mpz_submul keep sign, size and limbs in step through every
\* reallocation, and nothing an operand still has to give is overwritten before it is
\* read. The hypothesis about products is that of OwnershipAlways; Powers is what the
\* module Naturals defines ^ to be.
THEOREM RepresentsAlways ==
  ASSUME MulMax <= IntMax, Powers
  PROVE  Spec => []Represents
<1>1. Agrees(store, val) => Represents
  BY DEF Agrees, Represents, Running
<1> QED BY <1>1, AgreesAlways, PTL

\* Every size is exact, under the same hypotheses: the highest limb that counts is not 0,
\* after a carry, a borrow, a cancellation or a product as well.
THEOREM NormalizedAlways ==
  ASSUME MulMax <= IntMax, Powers
  PROVE  Spec => []Normalized
<1>1. Agrees(store, val) => Normalized
  <2> SUFFICES ASSUME Agrees(store, val), NEW x \in store.live, AbSiz(store, x) > 0
               PROVE  High(Mag(store, x), AbSiz(store, x) - 1) # 0
    BY DEF Normalized, Mag
  <2>1. Sound(store)
    BY DEF Agrees
  <2>2. PICK n \in Nat, v \in Nat : n = AbSiz(store, x) /\ v = Mag(store, x) /\ Exact(v, n)
    BY <2>1, Operand
  <2>3. PICK k \in Nat : k = n - 1
    <3>1. n - 1 \in Nat
      BY <2>2
    <3> QED BY <3>1
  <2>4. B^k <= v /\ B^k \in Nat
    BY <2>2, <2>3, Base DEF Exact
  <2>5. High(v, k) # 0
    BY <2>4, HighZero
  <2> QED BY <2>2, <2>3, <2>5
<1> QED BY <1>1, AgreesAlways, PTL

-----------------------------------------------------------------------------
(* The comparisons and conversions. *)

\* The sign that the code computes from two comparisons.
LEMMA SgnIs ==
  ASSUME NEW n \in Int
  PROVE  /\ SgnOf(n) = Integer!Sgn(n)
         /\ SgnOf(n) = IF n > 0 THEN 1 ELSE IF n < 0 THEN -1 ELSE 0
BY DEF SgnOf, Bit, Integer!Sgn

\* The limb at p[0], which is all of an integer of one limb.
LEMMA LowLimb ==
  ASSUME Powers, NEW s, Sound(s), NEW x \in s.live
  PROVE  \E n \in Int, m \in Nat, limb \in Nat :
           /\ n = s.size[x] /\ m = Mag(s, x) /\ limb = Get(s, s.d[x], 1) /\ limb < B
           /\ n = 0 => m = 0
           /\ n # 0 => limb = m % B
           /\ n \in {-1, 1} => limb = m /\ m > 0
           /\ n \notin {-1, 0, 1} => m >= B
           /\ Value(s, x) = Signed(n < 0, m)
<1>1. PICK n \in Int, m \in Nat, k \in Nat :
        /\ n = s.size[x] /\ m = Mag(s, x) /\ k = AbSiz(s, x) /\ k = Abs(n) /\ Exact(m, k)
        /\ Value(s, x) = Signed(n < 0, m) /\ (m = 0 <=> n = 0)
  BY Operand
<1>2. Plain(s) /\ Typed(s) /\ Numbers(s)
  BY DEF Sound, Plain, Good
<1>3. B \in Nat /\ B >= 2 /\ B^1 = B /\ B^0 = 1
  BY Base
<1>4. PICK limb \in Nat : limb = Get(s, s.d[x], 1) /\ limb < B
  <2>1. Get(s, s.d[x], 1) \in Nat /\ Get(s, s.d[x], 1) < B^1
    BY <1>2, GetRange
  <2> QED BY <1>3, <2>1
<1>5. n # 0 => limb = m % B
  <2> SUFFICES ASSUME n # 0 PROVE limb = m % B
    OBVIOUS
  <2>1. k >= 1
    BY <1>1 DEF Abs
  <2>2. PICK b \in Block : b = s.d[x] /\ s.len[b] \in Nat /\ s.len[b] >= k
    <3>1. AbSiz(s, x) > 0
      BY <1>1, <2>1
    <3>2. /\ s.alloc[x] \in Nat \ {0} /\ AbSiz(s, x) <= s.alloc[x]
          /\ s.d[x] \in Block /\ s.len[s.d[x]] = s.alloc[x]
      BY ONLY Powers, <1>2, x \in s.live, <3>1, OperandBlock
    <3> QED BY <1>1, <3>2
  <2>3. PICK v \in Int : v = s.limbs[b]
    BY <1>2 DEF Numbers
  <2>4. DOMAIN s.len = Block
    BY <1>2 DEF Typed
  <2>5. Get(s, b, k) = Low(v, k) /\ Get(s, b, 1) = Low(v, 1)
    BY <2>1, <2>2, <2>3, <2>4 DEF Get
  <2>6. Low(Low(v, k), 1) = Low(v, 1)
    BY <2>1, LowLow
  <2>7. m = Low(v, k) /\ limb = Low(m, 1)
    BY <1>1, <1>4, <2>2, <2>5, <2>6 DEF Mag
  <2> QED BY <1>3, <2>7 DEF Low
<1>6. n \in {-1, 1} => limb = m /\ m > 0
  <2> SUFFICES ASSUME n \in {-1, 1} PROVE limb = m /\ m > 0
    OBVIOUS
  <2>1. k = 1
    BY <1>1 DEF Abs
  <2>2. m < B
    BY <1>1, <1>3, <2>1 DEF Exact
  <2>3. m % B = m
    BY <1>3, <2>2
  <2> QED BY <1>1, <1>5, <2>3
<1>7. n \notin {-1, 0, 1} => m >= B
  <2> SUFFICES ASSUME n \notin {-1, 0, 1} PROVE m >= B
    OBVIOUS
  <2>1. 1 <= k - 1 /\ k - 1 \in Nat /\ k > 0
    BY <1>1 DEF Abs
  <2>2. PICK j \in Nat : j = k - 1 /\ 1 <= j
    BY <2>1
  <2>3. B^1 <= B^j /\ B^j \in Nat
    <3>1. B \in Nat \ {0} /\ 1 \in Nat
      BY <1>3
    <3>2. B^1 <= B^j
      BY ONLY Powers, <3>1, j \in Nat, <2>2, PowOrder
    <3> QED BY <3>2, Base
  <2>4. B^j <= m
    BY <1>1, <2>1, <2>2 DEF Exact
  <2> QED BY <1>3, <2>3, <2>4
<1> QED BY <1>1, <1>4, <1>5, <1>6, <1>7

\* mpz_cmpabs: sizes first, then limbs.
LEMMA CmpabsReads ==
  ASSUME Powers, NEW s, Sound(s), NEW u \in s.live, NEW v \in s.live
  PROVE  MpzCmpabs(s, u, v) = SgnOf(Mag(s, u) - Mag(s, v))
<1>1. PICK m \in Nat, i \in Nat : m = AbSiz(s, u) /\ i = Mag(s, u) /\ Exact(i, m)
  BY Operand
<1>2. PICK n \in Nat, j \in Nat : n = AbSiz(s, v) /\ j = Mag(s, v) /\ Exact(j, n)
  BY Operand
<1>3. MpzCmpabs(s, u, v) = IF m # n THEN SgnOf(m - n) ELSE SgnOf(i - j)
  BY <1>1, <1>2 DEF MpzCmpabs, Mag
<1>4. m < n => i < j
  BY <1>1, <1>2, ExactOrder
<1>5. n < m => j < i
  BY <1>1, <1>2, ExactOrder
<1>6. m # n => SgnOf(m - n) = SgnOf(i - j)
  BY <1>4, <1>5, SgnIs
<1> QED BY <1>1, <1>2, <1>3, <1>6

\* mpz_cmp: two signs, or the limbs the right way round.
LEMMA CmpReads ==
  ASSUME Powers, NEW s, Sound(s), NEW u \in s.live, NEW v \in s.live
  PROVE  MpzCmp(s, u, v) = SgnOf(Value(s, u) - Value(s, v))
<1>1. PICK m \in Nat, i \in Nat, a \in Int :
        /\ m = AbSiz(s, u) /\ i = Mag(s, u) /\ Exact(i, m) /\ a = s.size[u] /\ m = Abs(a)
        /\ Value(s, u) = Signed(a < 0, i)
  BY Operand
<1>2. PICK n \in Nat, j \in Nat, b \in Int :
        /\ n = AbSiz(s, v) /\ j = Mag(s, v) /\ Exact(j, n) /\ b = s.size[v] /\ n = Abs(b)
        /\ Value(s, v) = Signed(b < 0, j)
  BY Operand
<1>3. MpzCmp(s, u, v) = IF a # b THEN SgnOf(a - b)
                        ELSE IF a >= 0 THEN SgnOf(i - j) ELSE -SgnOf(i - j)
  BY <1>1, <1>2, CmpabsReads DEF MpzCmp, CmpSigned
<1>4. (m < n => i < j) /\ (n < m => j < i)
  BY <1>1, <1>2, ExactOrder
<1>5. (i = 0 <=> m = 0) /\ (j = 0 <=> n = 0)
  BY <1>1, <1>2, ExactZero
<1>6. a < b => Signed(a < 0, i) < Signed(b < 0, j)
  BY <1>1, <1>2, <1>4, <1>5 DEF Signed, Abs
<1>7. b < a => Signed(b < 0, j) < Signed(a < 0, i)
  BY <1>1, <1>2, <1>4, <1>5 DEF Signed, Abs
<1>8. CASE a = b
  <2>1. Signed(a < 0, i) - Signed(b < 0, j) = IF a >= 0 THEN i - j ELSE -(i - j)
    BY <1>8 DEF Signed
  <2>2. SgnOf(-(i - j)) = -SgnOf(i - j)
    BY SgnIs
  <2> QED BY <1>1, <1>2, <1>3, <1>8, <2>1, <2>2
<1>9. CASE a # b
  <2>1. PICK p \in Int, q \in Int : p = Signed(a < 0, i) /\ q = Signed(b < 0, j)
    BY DEF Signed
  <2>2. (a < b => p < q) /\ (b < a => q < p)
    BY <1>6, <1>7, <2>1
  <2>3. SgnOf(a - b) = SgnOf(p - q)
    BY <1>9, <2>2, SgnIs
  <2> QED BY <1>1, <1>2, <1>3, <1>9, <2>1, <2>3
<1> QED BY <1>8, <1>9

\* Half the range of a word.
LEMMA HalfBase ==
  ASSUME Powers
  PROVE  \E h \in Nat : h = B \div 2 /\ h > 0 /\ B = 2 * h /\ Long = (-h)..(h - 1)
<1>1. PICK w \in Nat : W = w + 1
  <2>1. W - 1 \in Nat /\ W = (W - 1) + 1
    BY WAssumption
  <2> QED BY <2>1
<1>2. PICK h \in Nat : h = 2^w /\ h > 0
  BY PowPositive
<1>3. 2^(w + 1) = 2 * 2^w
  BY DEF Powers
<1>4. B = 2 * h
  BY <1>1, <1>2, <1>3 DEF B
<1>5. B \div 2 = h
  BY <1>4
<1> QED BY <1>2, <1>4, <1>5 DEF Long

\* mpz_cmp_si: the sign of the size against the sign of the word, then the limb.
LEMMA CmpSiReads ==
  ASSUME Powers, NEW s, Sound(s), NEW u \in s.live, NEW n \in Long
  PROVE  SgnOf(MpzCmpSi(s, u, n)) = SgnOf(Value(s, u) - n)
<1>1. PICK z \in Int, m \in Nat, limb \in Nat :
        /\ z = s.size[u] /\ m = Mag(s, u) /\ limb = Get(s, s.d[u], 1)
        /\ z = 0 => m = 0
        /\ z \in {-1, 1} => limb = m /\ m > 0
        /\ z \notin {-1, 0, 1} => m >= B
        /\ Value(s, u) = Signed(z < 0, m)
  BY LowLimb
<1>2. n \in Int /\ Abs(n) < B /\ B \in Nat
  BY WordRange, Base
<1>3. PICK a \in Int : a = Value(s, u) /\ a = IF z < 0 THEN -m ELSE m
  BY <1>1 DEF Signed
<1>4. PICK g \in Int : g = SgnOf(n) /\ g = IF n > 0 THEN 1 ELSE IF n < 0 THEN -1 ELSE 0
  BY <1>2, SgnIs
<1>5. MpzCmpSi(s, u, n) = IF z = 0 \/ z # g THEN z - g ELSE z * SgnOf(limb - Abs(n))
  BY <1>1, <1>4 DEF MpzCmpSi
<1>6. CASE z = 0 \/ z # g
  <2>1. (z - g > 0 <=> a - n > 0) /\ (z - g < 0 <=> a - n < 0)
    <3>1. CASE z = 0
      BY <1>1, <1>2, <1>3, <1>4, <3>1
    <3>2. CASE z = 1
      BY <1>1, <1>2, <1>3, <1>4, <1>6, <3>2
    <3>3. CASE z = -1
      BY <1>1, <1>2, <1>3, <1>4, <1>6, <3>3
    <3>4. CASE z > 1
      BY <1>1, <1>2, <1>3, <1>4, <3>4 DEF Abs
    <3>5. CASE z < -1
      BY <1>1, <1>2, <1>3, <1>4, <3>5 DEF Abs
    <3> QED BY <3>1, <3>2, <3>3, <3>4, <3>5
  <2>2. SgnOf(z - g) = SgnOf(a - n)
    BY <1>2, <2>1, SgnIs
  <2> QED BY <1>3, <1>5, <1>6, <2>2
<1>7. CASE z = 1 /\ g = 1
  <2>1. MpzCmpSi(s, u, n) = SgnOf(a - n) /\ a - n \in Int
    BY <1>1, <1>2, <1>3, <1>4, <1>5, <1>7, SgnIs DEF Abs
  <2> QED BY <1>3, <2>1, SgnIs
<1>8. CASE z = -1 /\ g = -1
  <2>1. PICK e \in Int : e = SgnOf(limb - Abs(n)) /\ e = SgnOf(n - a)
    BY <1>1, <1>2, <1>3, <1>4, <1>8, SgnIs DEF Abs
  <2>2. MpzCmpSi(s, u, n) = -e
    BY <1>5, <1>8, <2>1
  <2>3. SgnOf(-e) = SgnOf(a - n)
    BY <1>2, <2>1, SgnIs
  <2> QED BY <1>3, <2>2, <2>3
<1> QED BY <1>4, <1>6, <1>7, <1>8

\* mpz_cmp_ui.
LEMMA CmpUiReads ==
  ASSUME Powers, NEW s, Sound(s), NEW u \in s.live, NEW n \in Limb
  PROVE  MpzCmpUi(s, u, n) = SgnOf(Value(s, u) - n)
<1>1. PICK z \in Int, m \in Nat, limb \in Nat :
        /\ z = s.size[u] /\ m = Mag(s, u) /\ limb = Get(s, s.d[u], 1)
        /\ z = 0 => m = 0
        /\ z \in {-1, 1} => limb = m /\ m > 0
        /\ z \notin {-1, 0, 1} => m >= B
        /\ Value(s, u) = Signed(z < 0, m)
  BY LowLimb
<1>2. n \in Nat /\ n < B /\ B \in Nat
  BY WordRange, Base
<1>3. PICK a \in Int : a = Value(s, u) /\ a = IF z < 0 THEN -m ELSE m
  BY <1>1 DEF Signed
<1>4. CASE z = 0
  <2>1. MpzCmpUi(s, u, n) = -Bit(n # 0)
    BY <1>1, <1>4 DEF MpzCmpUi
  <2> QED BY <1>1, <1>2, <1>3, <1>4, <2>1, SgnIs DEF Bit
<1>5. CASE z = 1
  <2>1. MpzCmpUi(s, u, n) = SgnOf(limb - n)
    BY <1>1, <1>5 DEF MpzCmpUi
  <2> QED BY <1>1, <1>3, <1>5, <2>1
<1>6. CASE z \notin {0, 1}
  <2>1. MpzCmpUi(s, u, n) = SgnOf(z)
    BY <1>1, <1>6 DEF MpzCmpUi
  <2>2. (z > 0 <=> a - n > 0) /\ (z < 0 <=> a - n < 0)
    BY <1>1, <1>2, <1>3, <1>6
  <2>3. SgnOf(z) = SgnOf(a - n)
    BY <1>2, <2>2, SgnIs
  <2> QED BY <1>3, <2>1, <2>3
<1> QED BY <1>4, <1>5, <1>6

\* mpz_fits_slong_p and mpz_get_si, LONG_MIN included, and mpz_get_ui.
LEMMA WordReads ==
  ASSUME Powers, NEW s, Sound(s), NEW u \in s.live
  PROVE  /\ MpzFitsSlong(s, u) <=> Value(s, u) \in Long
         /\ Value(s, u) \in Long => MpzGetSi(s, u) = Value(s, u)
         /\ MpzGetUi(s, u) = Abs(Value(s, u)) % B
<1>1. PICK z \in Int, m \in Nat, limb \in Nat :
        /\ z = s.size[u] /\ m = Mag(s, u) /\ limb = Get(s, s.d[u], 1)
        /\ z = 0 => m = 0
        /\ z # 0 => limb = m % B
        /\ z \in {-1, 1} => limb = m /\ m > 0
        /\ z \notin {-1, 0, 1} => m >= B
        /\ Value(s, u) = Signed(z < 0, m)
  BY LowLimb
<1>2. PICK h \in Nat : h = B \div 2 /\ h > 0 /\ B = 2 * h /\ Long = (-h)..(h - 1)
  BY HalfBase
<1>3. PICK a \in Int : a = Value(s, u) /\ a = IF z < 0 THEN -m ELSE m
  BY <1>1 DEF Signed
<1>4. MpzFitsSlong(s, u) <=> a \in Long
  <2>1. CASE z = 0
    <3>1. MpzFitsSlong(s, u)
      BY <1>1, <2>1 DEF MpzFitsSlong
    <3>2. a = 0
      BY <1>1, <1>3, <2>1
    <3>3. 0 \in (-h)..(h - 1)
      BY <1>2, SMTT(30)
    <3>4. 0 \in Long
      BY <1>2, <3>3
    <3>5. a \in Long
      BY <3>2, <3>4
    <3> QED BY ONLY <3>1, <3>5
  <2>2. CASE z = 1
    <3>1. MpzFitsSlong(s, u) <=> limb <= h - 1
      BY <1>1, <1>2, <2>2 DEF MpzFitsSlong
    <3>2. a = limb
      BY <1>1, <1>3, <2>2, SMTT(30)
    <3>3. a \in (-h)..(h - 1) <=> limb <= h - 1
      BY <1>1, <1>2, <3>2, SMTT(30)
    <3> QED BY <1>2, <3>1, <3>3
  <2>3. CASE z = -1
    <3>1. MpzFitsSlong(s, u) <=> limb <= h
      BY <1>1, <1>2, <2>3 DEF MpzFitsSlong
    <3> QED BY <1>1, <1>2, <1>3, <2>3, <3>1, SMTT(30)
  <2>4. CASE z \notin {-1, 0, 1}
    <3>1. MpzFitsSlong(s, u) = FALSE
      BY <1>1, <2>4 DEF MpzFitsSlong
    <3> QED BY <1>1, <1>2, <1>3, <2>4, <3>1
  <2> QED BY <2>1, <2>2, <2>3, <2>4
<1>5. a \in Long => MpzGetSi(s, u) = a
  <2> SUFFICES ASSUME a \in Long PROVE MpzGetSi(s, u) = a
    OBVIOUS
  <2>1. z \in {-1, 0, 1}
    BY <1>1, <1>2, <1>3
  <2>2. CASE z = 0
    BY <1>1, <1>3, <2>2 DEF MpzGetSi
  <2>3. CASE z = 1
    <3>1. MpzGetSi(s, u) = limb % h
      BY <1>1, <1>2, <2>3 DEF MpzGetSi
    <3>2. limb < h /\ limb = a
      BY <1>1, <1>2, <1>3, <2>3
    <3> QED BY <1>2, <3>1, <3>2
  <2>4. CASE z = -1
    <3>1. MpzGetSi(s, u) = -1 - ((limb - 1) % h)
      BY <1>1, <1>2, <2>4 DEF MpzGetSi, NegativeLong
    <3>2. PICK l \in Nat : l = limb - 1 /\ l < h /\ a = -1 - l
      BY <1>1, <1>2, <1>3, <2>4, SMTT(30)
    <3>3. l % h = l
      BY <1>2, <3>2
    <3> QED BY <3>1, <3>2, <3>3
  <2> QED BY <2>1, <2>2, <2>3, <2>4
<1>6. MpzGetUi(s, u) = Abs(a) % B
  <2>1. Abs(a) = m
    BY <1>3 DEF Abs
  <2>2. CASE z = 0
    <3>1. MpzGetUi(s, u) = 0
      BY <1>1, <2>2 DEF MpzGetUi
    <3>2. 0 % B = 0
      BY <1>2
    <3> QED BY <1>1, <2>1, <2>2, <3>1, <3>2
  <2>3. CASE z # 0
    BY <1>1, <2>1, <2>3 DEF MpzGetUi
  <2> QED BY <2>2, <2>3
<1> QED BY <1>3, <1>4, <1>5, <1>6

\* After any calls, mpz_cmp, mpz_cmpabs, mpz_cmp_si, mpz_cmp_ui, mpz_fits_slong_p,
\* mpz_get_si and mpz_get_ui answer as the integers do that the calls should have left:
\* the shortcuts by size decide right, and LONG_MIN comes out as it went in.
THEOREM NumberReadersAlways ==
  ASSUME MulMax <= IntMax, Powers
  PROVE  Spec => []NumberReaders
<1>1. Agrees(store, val) => NumberReaders
  <2> SUFFICES ASSUME Agrees(store, val), Running, NEW u \in store.live
      PROVE  /\ \A v \in store.live :
                  /\ MpzCmp(store, u, v) = Integer!Sgn(val[u] - val[v])
                  /\ MpzCmpabs(store, u, v) = Integer!Sgn(Abs(val[u]) - Abs(val[v]))
             /\ \A n \in Long : SgnOf(MpzCmpSi(store, u, n)) = Integer!Sgn(val[u] - n)
             /\ \A n \in Limb : MpzCmpUi(store, u, n) = Integer!Sgn(val[u] - n)
             /\ MpzFitsSlong(store, u) <=> val[u] \in Long
             /\ val[u] \in Long => MpzGetSi(store, u) = val[u]
             /\ MpzGetUi(store, u) = Abs(val[u]) % B
    BY DEF NumberReaders
  <2>1. Sound(store) /\ \A v \in store.live :
          Value(store, v) = val[v] /\ val[v] \in Int /\ Abs(val[v]) = Mag(store, v)
    <3>1. Sound(store) /\ \A v \in store.live : Value(store, v) = val[v]
      BY DEF Agrees, Running
    <3> QED BY <3>1, Operand
  <2>2. ASSUME NEW v \in store.live
        PROVE  /\ MpzCmp(store, u, v) = Integer!Sgn(val[u] - val[v])
               /\ MpzCmpabs(store, u, v) = Integer!Sgn(Abs(val[u]) - Abs(val[v]))
    <3>1. MpzCmp(store, u, v) = SgnOf(val[u] - val[v])
      BY <2>1, CmpReads
    <3>2. MpzCmpabs(store, u, v) = SgnOf(Abs(val[u]) - Abs(val[v]))
      BY <2>1, CmpabsReads
    <3>3. val[u] - val[v] \in Int /\ Abs(val[u]) - Abs(val[v]) \in Int
      BY <2>1 DEF Abs
    <3> QED BY <3>1, <3>2, <3>3, SgnIs
  <2>3. ASSUME NEW n \in Long PROVE SgnOf(MpzCmpSi(store, u, n)) = Integer!Sgn(val[u] - n)
    <3>1. val[u] - n \in Int
      BY <2>1, WordRange
    <3> QED BY <2>1, <3>1, CmpSiReads, SgnIs
  <2>4. ASSUME NEW n \in Limb PROVE MpzCmpUi(store, u, n) = Integer!Sgn(val[u] - n)
    <3>1. val[u] - n \in Int
      BY <2>1, WordRange
    <3> QED BY <2>1, <3>1, CmpUiReads, SgnIs
  <2>5. /\ MpzFitsSlong(store, u) <=> val[u] \in Long
        /\ val[u] \in Long => MpzGetSi(store, u) = val[u]
        /\ MpzGetUi(store, u) = Abs(val[u]) % B
    <3>1. Sound(store) /\ Value(store, u) = val[u]
      BY <2>1
    <3> QED BY <3>1, WordReads
  <2> QED BY <2>2, <2>3, <2>4, <2>5
<1> QED BY <1>1, AgreesAlways, PTL

-----------------------------------------------------------------------------
(* Types. A call ends well or aborts for want of room, and a struct that is  *)
(* no integer has no block, in the stores between as well.                   *)

Idle(s, live) ==
  /\ s = [alloc |-> s.alloc, size |-> s.size, d |-> s.d, len |-> s.len,
          limbs |-> s.limbs, live |-> s.live, fault |-> s.fault, status |-> s.status]
  /\ DOMAIN s.alloc = Struct
  /\ s.status \in {"run", "overflow"} /\ s.live = live
  /\ \A x \in Struct \ live : s.alloc[x] = 0

\* Limbs and sizes have nothing to do with it.
LEMMA IdleWrite ==
  ASSUME NEW live, NEW s, Idle(s, live), NEW p, NEW n, NEW v
  PROVE  /\ Idle(Put(s, p, n, v), live)
         /\ \A x : Idle([s EXCEPT !.size[x] = n], live)
         /\ \A x : Idle(SetSiz(s, x, n), live)
<1>1. Idle(Put(s, p, n, v), live)
  BY DEF Put, Idle
<1>2. \A x : Idle([s EXCEPT !.size[x] = n], live)
  BY DEF Idle
<1>3. ASSUME NEW x PROVE Idle(SetSiz(s, x, n), live)
  BY DEF SetSiz, Idle
<1> QED BY <1>1, <1>2, <1>3

\* A write and the size after it.
LEMMA IdleStore ==
  ASSUME NEW live, NEW s, Idle(s, live), NEW p, NEW n, NEW v, NEW x, NEW k
  PROVE  Idle(SetSiz(Put(s, p, n, v), x, k), live)
<1>1. PICK t : t = Put(s, p, n, v) /\ Idle(t, live)
  BY IdleWrite
<1>2. Idle(SetSiz(t, x, k), live)
  BY <1>1, IdleWrite
<1> QED BY <1>1, <1>2

\* Blocks come and go without a struct.
LEMMA IdleBlock ==
  ASSUME NEW live, NEW s, Idle(s, live), NEW p, NEW n
  PROVE  Idle(Allocate(s, p, n), live) /\ Idle(Free(s, p, n), live)
<1>1. PICK t : t = Allocate(s, p, n)
  OBVIOUS
<1>2. Idle(t, live)
  BY <1>1 DEF Allocate, Idle
<1>3. PICK r : r = Free(s, p, n)
  OBVIOUS
<1>4. Idle(r, live)
  BY <1>3 DEF Free, Idle
<1> QED BY <1>1, <1>2, <1>3, <1>4

\* A live struct gets a block.
LEMMA IdleHome ==
  ASSUME NEW live, NEW s, Idle(s, live), NEW w \in live, NEW n, NEW f
  PROVE  Idle([s EXCEPT !.alloc[w] = n, !.d[w] = f], live)
<1>1. PICK t : t = [s EXCEPT !.alloc[w] = n, !.d[w] = f]
  OBVIOUS
<1>2. Idle(t, live)
  BY <1>1 DEF Idle
<1> QED BY <1>1, <1>2

\* MPZ_REALLOC.
LEMMA IdleResize ==
  ASSUME NEW live, NEW s, Idle(s, live), NEW w \in live, NEW n, NEW t \in Resize(s, w, n)
  PROVE  Idle(t, live)
<1>1. CASE TooLong(n)
  <2>1. t = Exception(s, "overflow")
    BY <1>1 DEF Resize
  <2> QED BY <2>1 DEF Exception, Idle
<1>2. CASE ~TooLong(n)
  <2>1. PICK f, r : /\ r = Allocate(s, f, n) \/ r = Reallocate(s, s.d[w], s.alloc[w], n, f)
                    /\ t = [r EXCEPT !.alloc[w] = n, !.size[w] = KeptSize(s, w, n), !.d[w] = f]
    BY <1>2 DEF Resize
  <2>2. Idle(r, live)
    BY <2>1 DEF Allocate, Reallocate, Idle
  <2>3. PICK k : k = KeptSize(s, w, n)
    OBVIOUS
  <2>4. t = [r EXCEPT !.alloc[w] = n, !.size[w] = k, !.d[w] = f]
    BY <2>1, <2>3
  <2> QED BY ONLY w \in live, <2>2, <2>4 DEF Idle
<1> QED BY <1>1, <1>2

LEMMA IdleGrow ==
  ASSUME NEW live, NEW s, Idle(s, live), NEW w \in live, NEW n, NEW t \in Grow(s, w, n)
  PROVE  Idle(t, live)
BY IdleResize DEF Grow, MpzRealloc

\* What most functions do: make room in w, write there, set its size.
LEMMA IdleResult ==
  ASSUME NEW live, NEW s, Idle(s, live), NEW w \in live, NEW r,
         \/ r = s
         \/ \E k : r = SetSiz(s, w, k)
         \/ \E m : \E t \in Grow(s, w, m) : \E p, n, v, k : r = SetSiz(Put(t, p, n, v), w, k)
  PROVE  Idle(r, live)
<1>1. CASE \E k : r = SetSiz(s, w, k)
  BY <1>1, IdleWrite
<1>2. CASE \E m : \E t \in Grow(s, w, m) : \E p, n, v, k : r = SetSiz(Put(t, p, n, v), w, k)
  <2>1. PICK m : \E t \in Grow(s, w, m) : \E p, n, v, k : r = SetSiz(Put(t, p, n, v), w, k)
    BY <1>2
  <2>2. PICK t \in Grow(s, w, m) : \E p, n, v, k : r = SetSiz(Put(t, p, n, v), w, k)
    BY <2>1
  <2>3. Idle(t, live)
    BY IdleGrow
  <2> QED BY <2>2, <2>3, IdleStore
<1> QED BY <1>1, <1>2

\* The functions from uninitialised to initialised and back.
LEMMA IdleLife ==
  ASSUME NEW live, NEW s, Idle(s, live), NEW x, NEW n, NEW t
  PROVE  /\ t \in MpzInit(s, x) => Idle(t, live \cup {x})
         /\ t \in MpzInit2(s, x, n) => Idle(t, live) \/ Idle(t, live \cup {x})
         /\ t \in MpzClear(s, x) => Idle(t, live \ {x})
<1>1. ASSUME t \in MpzInit(s, x) PROVE Idle(t, live \cup {x})
  <2>1. PICK r : r = Born(s, x)
    OBVIOUS
  <2>2. Idle(r, live \cup {x})
    BY <2>1 DEF Born, Idle
  <2>3. t = [r EXCEPT !.alloc[x] = 0, !.size[x] = 0, !.d[x] = Null]
    BY <1>1, <2>1 DEF MpzInit
  <2> QED BY ONLY <2>2, <2>3 DEF Idle
<1>2. ASSUME t \in MpzInit2(s, x, n) PROVE Idle(t, live) \/ Idle(t, live \cup {x})
  <2>1. PICK k : k = BitsToLimbs(n)
    OBVIOUS
  <2>2. CASE t = Exception(s, "overflow")
    BY <2>2 DEF Exception, Idle
  <2>3. CASE \E f \in Fresh(s) : t = [Allocate(Born(s, x), f, k) EXCEPT
                                         !.alloc[x] = k, !.size[x] = 0, !.d[x] = f]
    <3>1. PICK f, r : /\ r = Allocate(Born(s, x), f, k)
                      /\ t = [r EXCEPT !.alloc[x] = k, !.size[x] = 0, !.d[x] = f]
      BY <2>3
    <3>2. Idle(Born(s, x), live \cup {x})
      BY DEF Born, Idle
    <3>3. Idle(r, live \cup {x})
      BY <3>1, <3>2, IdleBlock, SMTT(30)
    <3> QED BY ONLY <3>1, <3>3 DEF Idle
  <2> QED BY <1>2, <2>1, <2>2, <2>3 DEF MpzInit2
<1>3. ASSUME t \in MpzClear(s, x) PROVE Idle(t, live \ {x})
  <2>1. PICK r : /\ r = IF Owns(s, x) THEN Free(s, s.d[x], s.alloc[x]) ELSE s
                 /\ t = [r EXCEPT !.live = @ \ {x}, !.alloc[x] = 0, !.size[x] = 0, !.d[x] = Null]
    BY <1>3 DEF MpzClear
  <2>2. Idle(r, live)
    BY <2>1, IdleBlock
  <2> QED BY ONLY <2>1, <2>2 DEF Idle
<1> QED BY <1>1, <1>2, <1>3

LEMMA IdleInitSet ==
  ASSUME NEW live, NEW s, Idle(s, live), NEW w, NEW u, NEW r \in MpzInitSet(s, w, u)
  PROVE  Idle(r, live \cup {w})
<1>1. PICK f, n, v, k : r = Assign([Allocate(Born(s, w), f, n) EXCEPT !.alloc[w] = n, !.d[w] = f], w, v, k)
  BY DEF MpzInitSet
<1>2. PICK t : t = [Allocate(Born(s, w), f, n) EXCEPT !.alloc[w] = n, !.d[w] = f]
  OBVIOUS
<1>3. Idle(t, live \cup {w})
  BY <1>2 DEF Allocate, Born, Idle
<1> QED BY <1>1, <1>2, <1>3, IdleStore DEF Assign

LEMMA IdleSwap ==
  ASSUME NEW live, NEW s, Idle(s, live), NEW u \in live, NEW v \in live, NEW r \in MpzSwap(s, u, v)
  PROVE  Idle(r, live)
BY ZenonT(60) DEF MpzSwap, SwappedField, Idle

\* Assignment.
LEMMA IdleAssign ==
  ASSUME NEW live, NEW s, Idle(s, live), NEW w \in live, NEW u, NEW n, NEW r,
         r \in MpzSet(s, w, u) \/ r \in MpzNeg(s, w, u) \/ r \in MpzAbs(s, w, u)
           \/ r \in MpzSetSi(s, w, n) \/ r \in MpzRealloc2(s, w, n)
  PROVE  Idle(r, live)
<1>1. CASE r \in MpzRealloc2(s, w, n)
  BY <1>1, IdleResize DEF MpzRealloc2
<1>2. CASE \E k : r = [s EXCEPT !.size[w] = k]
  BY <1>2, IdleWrite
<1>3. CASE \E m : \E t \in Grow(s, w, m) : \E v, k : r = Assign(t, w, v, k)
  <2>1. \E m : \E t \in Grow(s, w, m) : \E p, l, v, k : r = SetSiz(Put(t, p, l, v), w, k)
    BY <1>3 DEF Assign
  <2> QED BY <2>1, IdleResult
<1>4. CASE r \in MpzSet(s, w, u)
  BY <1>3, <1>4 DEF MpzSet
<1>5. CASE r \in MpzNeg(s, w, u) \/ r \in MpzAbs(s, w, u)
  <2>1. PICK size : r \in Resign(s, w, u, size)
    BY <1>5 DEF MpzNeg, MpzAbs
  <2> QED BY <1>2, <1>3, <2>1 DEF Resign
<1>6. CASE r \in MpzSetSi(s, w, n)
  BY <1>3, <1>6 DEF MpzSetSi
<1> QED BY <1>1, <1>4, <1>5, <1>6

\* The same with the sizes and limbs each function has, which do not matter here.
LEMMA IdleAors ==
  ASSUME NEW live, NEW s, Idle(s, live), NEW w \in live, NEW u, NEW v, NEW sub,
         NEW r \in MpzAors(s, w, u, v, sub)
  PROVE  Idle(r, live)
<1> DEFINE vsize == Signed(sub, s.size[v])
           swap  == AbSiz(s, u) < AbSiz(s, v)
           a     == IF swap THEN v ELSE u
           b     == IF swap THEN u ELSE v
           asize == IF swap THEN vsize ELSE s.size[u]
           bsize == IF swap THEN s.size[u] ELSE vsize
           n     == Abs(asize)
           add(t, av, bv) ==
             Sized(t, w, n + 1, av + bv, Signed(asize < 0, n + Bit(av + bv >= B^n)))
           diff(t, av, bv) ==
             LET less == Abs(bsize) = n /\ av < bv
                 q    == Low(IF less THEN bv - av ELSE av - bv, n)
             IN  Sized(t, w, n, q, Signed((asize < 0) # less, Normalize(q, n)))
           sum(t, av, bv) == IF (asize < 0) = (bsize < 0) THEN add(t, av, bv)
                             ELSE diff(t, av, bv)
<1>1. PICK t \in Grow(s, w, n + 1) :
        LET av == Source(s, t, a, n)
            bv == Source(s, t, b, Abs(bsize))
        IN  r = SetSiz(sum(t, av, bv), w, sum(t, av, bv).size[w])
  BY ZenonT(60) DEF MpzAors, Sized
<1> DEFINE av == Source(s, t, a, n)
           bv == Source(s, t, b, Abs(bsize))
<1>2. r = SetSiz(sum(t, av, bv), w, sum(t, av, bv).size[w])
  BY <1>1, ZenonT(60)
<1>3. Idle(t, live)
  BY IdleGrow
<1>4. ASSUME NEW l, NEW x, NEW k PROVE Idle(Sized(t, w, l, x, k), live)
  <2>1. PICK q : q = Put(t, t.d[w], l, x) /\ Idle(q, live)
    BY <1>3, IdleWrite
  <2> QED BY <2>1, IdleWrite DEF Sized
<1>5. Idle(sum(t, av, bv), live)
  <2> HIDE DEF n, av, bv
  <2> QED BY <1>4, Zenon
<1> HIDE DEF sum, av, bv
<1>6. PICK q, z : q = sum(t, av, bv) /\ z = q.size[w]
  OBVIOUS
<1> QED BY <1>2, <1>5, <1>6, IdleWrite

LEMMA IdleAorsUi ==
  ASSUME NEW live, NEW s, Idle(s, live), NEW w \in live, NEW u, NEW vval, NEW sub,
         NEW r \in MpzAorsUi(s, w, u, vval, sub)
  PROVE  Idle(r, live)
<1> DEFINE usize == s.size[u]
           n == Abs(usize)
           away == IF sub THEN usize < 0 ELSE usize >= 0
<1>1. CASE usize = 0
  <2>1. PICK t \in Grow(s, w, 1) :
          r = SetSiz(Put(t, t.d[w], 1, vval), w, Signed(sub, Bit(vval # 0)))
    BY <1>1 DEF MpzAorsUi
  <2> QED BY <2>1, IdleGrow, IdleStore
<1>2. CASE usize # 0 /\ away
  <2>1. PICK t \in Grow(s, w, n + 1) :
          LET sum == Source(s, t, u, n) + vval
          IN  r = SetSiz(Put(t, t.d[w], n + 1, sum), w, Signed(sub, n + Bit(sum >= B^n)))
    BY <1>2 DEF MpzAorsUi
  <2> HIDE DEF n
  <2> QED BY <2>1, IdleGrow, IdleStore
<1>3. CASE usize # 0 /\ ~away
  <2>1. PICK t \in Grow(s, w, n) :
          LET up == Source(s, t, u, n)
              less == n = 1 /\ up < vval
              q == Low(IF less THEN vval - up ELSE up - vval, n)
              size == IF less THEN 1 ELSE n - Bit(High(q, n - 1) = 0)
          IN  r = SetSiz(Put(t, t.d[w], n, q), w, Signed(sub # ~less, size))
    BY <1>3 DEF MpzAorsUi
  <2> HIDE DEF n
  <2> QED BY <2>1, IdleGrow, IdleStore
<1> QED BY <1>1, <1>2, <1>3

LEMMA IdleUiSub ==
  ASSUME NEW live, NEW s, Idle(s, live), NEW w \in live, NEW v, NEW uval,
         NEW r \in MpzUiSub(s, w, uval, v)
  PROVE  Idle(r, live)
<1> DEFINE vn == s.size[v]
           n == Abs(vn)
           vp0 == IF vn = 0 THEN 0 ELSE Get(s, s.d[v], 1)
<1>1. CASE vn > 1
  <2>1. PICK t \in Grow(s, w, n) :
          LET q == Low(Source(s, t, v, n) - uval, n)
          IN  r = SetSiz(Put(t, t.d[w], n, q), w, -(n - Bit(High(q, n - 1) = 0)))
    BY <1>1 DEF MpzUiSub
  <2> HIDE DEF n
  <2> QED BY <2>1, IdleGrow, IdleStore
<1>2. CASE ~(vn > 1) /\ vn >= 0
  <2>1. PICK t \in Grow(s, w, 1) :
          r = SetSiz(Put(t, t.d[w], 1, Abs(uval - vp0)), w,
                     IF uval >= vp0 THEN Bit(uval # vp0) ELSE -1)
    BY <1>2 DEF MpzUiSub
  <2> HIDE DEF vp0
  <2> QED BY <2>1, IdleGrow, IdleStore
<1>3. CASE ~(vn > 1) /\ ~(vn >= 0)
  <2>1. PICK t \in Grow(s, w, n + 1) :
          LET sum == Source(s, t, v, n) + uval
          IN  r = SetSiz(Put(t, t.d[w], n + 1, sum), w, n + Bit(sum >= B^n))
    BY <1>3 DEF MpzUiSub
  <2> HIDE DEF n
  <2> QED BY <2>1, IdleGrow, IdleStore
<1> QED BY <1>1, <1>2, <1>3

LEMMA IdleWord ==
  ASSUME NEW live, NEW s, Idle(s, live), NEW w \in live, NEW u, NEW n, NEW sub,
         NEW r, \/ r \in MpzMulSi(s, w, u, n) \/ r \in MpzMul2Exp(s, w, u, n)
                \/ r \in MpzAorsmul1(s, w, u, n, sub)
  PROVE  Idle(r, live)
<1>1. \/ r = s \/ \E k : r = SetSiz(s, w, k)
      \/ \E m : \E t \in Grow(s, w, m) : \E p, l, v, k : r = SetSiz(Put(t, p, l, v), w, k)
  <2>1. CASE r \in MpzMulSi(s, w, u, n)
    BY <2>1, ZenonT(60) DEF MpzMulSi, MulLimb
  <2>2. CASE r \in MpzMul2Exp(s, w, u, n)
    BY <2>2, ZenonT(60) DEF MpzMul2Exp
  <2>3. CASE r \in MpzAorsmul1(s, w, u, n, sub)
    BY <2>3, ZenonT(60) DEF MpzAorsmul1, MulLimb
  <2> QED BY <2>1, <2>2, <2>3
<1> QED BY <1>1, IdleResult

\* mpz_mul, with and without a new block and a copy.
LEMMA IdleMulMany ==
  ASSUME NEW live, NEW s, Idle(s, live), NEW w \in live, NEW a, NEW an \in Nat,
         NEW b, NEW bn \in Nat, s.alloc[w] \in Nat, NEW neg,
         NEW r \in MulMany(s, w, a, an, b, bn, neg)
  PROVE  Idle(r, live)
<1> DEFINE up == s.d[a]
           vp == s.d[b]
           wp == s.d[w]
           wsize == an + bn
           overlap == Overlaps(s, w, a, b)
           size(product) == Signed(neg, wsize - Bit(High(product, wsize - 1) = 0))
           finish(t, p, product) == SetSiz(Put(t, p, wsize, product), w, size(product))
           freed == IF s.alloc[w] # 0 /\ ~overlap THEN Free(s, wp, s.alloc[w]) ELSE s
<1>1. ASSUME NEW t, Idle(t, live), NEW p, NEW x PROVE Idle(finish(t, p, x), live)
  BY <1>1, IdleStore
<1> HIDE DEF size
<1>2. CASE s.alloc[w] < wsize
  <2>0. s.alloc[w] < wsize /\ ~(s.alloc[w] >= wsize /\ overlap)
    BY <1>2, SMTT(30)
  <2>1. PICK f \in Fresh(freed) :
          LET t == [Allocate(freed, f, wsize) EXCEPT !.alloc[w] = ToInt(wsize), !.d[w] = f]
          IN  r = FreeMe(s, w, overlap, finish(t, f, MpnMul(t, f, up, an, vp, bn)))
    BY <2>0, ZenonT(60) DEF MulMany, size
  <2>2. PICK q : q = freed /\ Idle(q, live)
    BY IdleBlock
  <2>3. PICK e, k : e = Allocate(q, f, wsize) /\ k = ToInt(wsize) /\ Idle(e, live)
    BY <2>2, IdleBlock
  <2>4. PICK t : t = [e EXCEPT !.alloc[w] = k, !.d[w] = f] /\ Idle(t, live)
    BY <2>3, IdleHome
  <2>5. t = [Allocate(freed, f, wsize) EXCEPT !.alloc[w] = ToInt(wsize), !.d[w] = f]
    BY <2>2, <2>3, <2>4
  <2>6. PICK z : z = finish(t, f, MpnMul(t, f, up, an, vp, bn)) /\ Idle(z, live)
    BY <1>1, <2>4
  <2>7. r = FreeMe(s, w, overlap, z)
    BY <2>1, <2>5, <2>6, Zenon
  <2> QED BY <2>6, <2>7, IdleBlock DEF FreeMe
<1>3. CASE ~(s.alloc[w] < wsize) /\ s.alloc[w] >= wsize /\ overlap
  <2> DEFINE n == IF wp = up THEN an ELSE bn
             apart(f, p) == IF p = wp THEN f ELSE p
  <2>1. PICK f \in Fresh(s) :
          LET t == Put(Allocate(s, f, n), f, n, Get(s, wp, n))
          IN  r = Free(finish(t, wp, MpnMul(t, wp, apart(f, up), an, apart(f, vp), bn)), f, n)
    BY <1>3, ZenonT(60) DEF MulMany, size
  <2> HIDE DEF n, apart
  <2>2. PICK e, g : e = Allocate(s, f, n) /\ g = Get(s, wp, n) /\ Idle(e, live)
    BY IdleBlock
  <2>3. PICK t : t = Put(e, f, n, g) /\ Idle(t, live)
    BY <2>2, IdleWrite
  <2>4. PICK z : /\ z = finish(t, wp, MpnMul(t, wp, apart(f, up), an, apart(f, vp), bn))
                 /\ Idle(z, live)
    BY <1>1, <2>3
  <2>5. r = Free(z, f, n)
    BY <2>1, <2>2, <2>3, <2>4
  <2> QED BY <2>4, <2>5, IdleBlock
<1>4. CASE ~(s.alloc[w] < wsize) /\ ~(s.alloc[w] >= wsize /\ overlap)
  <2>1. r = finish(s, wp, MpnMul(s, wp, up, an, vp, bn))
    BY <1>4, ZenonT(60) DEF MulMany, size
  <2> QED BY <1>1, <2>1
<1> QED BY <1>2, <1>3, <1>4

LEMMA IdleMul ==
  ASSUME NEW live, NEW s, Idle(s, live), Good(s), NEW w \in s.live, NEW u \in s.live,
         NEW v \in s.live, NEW r \in MpzMul(s, w, u, v)
  PROVE  Idle(r, live)
<1> DEFINE swap == AbSiz(s, u) < AbSiz(s, v)
           a == IF swap THEN v ELSE u
           b == IF swap THEN u ELSE v
           an == AbSiz(s, a)
           bn == AbSiz(s, b)
           neg == (s.size[u] < 0) # (s.size[v] < 0)
<1>0. w \in live /\ s.alloc[w] \in Nat /\ an \in Nat /\ bn \in Nat
  BY SizeRange DEF Idle
<1>1. CASE bn = 0
  <2>1. r = SetSiz(s, w, 0)
    BY <1>1 DEF MpzMul
  <2> QED BY <2>1, IdleWrite
<1>2. CASE bn = 1
  <2>1. PICK t \in Grow(s, w, an + 1) :
          LET product == Source(s, t, a, an) * Source(s, t, b, 1)
          IN  r = SetSiz(Put(t, t.d[w], an + 1, product), w,
                         Signed(neg, an + Bit(product >= B^an)))
    BY <1>2 DEF MpzMul, MulLimb
  <2> HIDE DEF an, a, b, neg
  <2> QED BY <1>0, <2>1, IdleGrow, IdleStore
<1>3. CASE bn # 0 /\ bn # 1
  <2>1. r \in MulMany(s, w, a, an, b, bn, neg)
    BY <1>3 DEF MpzMul
  <2> HIDE DEF an, bn, a, b, neg
  <2> QED BY <1>0, <2>1, IdleMulMany
<1> QED BY <1>1, <1>2, <1>3

LEMMA IdleAorsmul ==
  ASSUME NEW live, NEW s, Idle(s, live), NEW w \in live, NEW x, NEW y, NEW sub,
         NEW r \in MpzAorsmul(s, w, x, y, sub)
  PROVE  Idle(r, live)
<1> DEFINE swap == AbSiz(s, y) > AbSiz(s, x)
           a == IF swap THEN y ELSE x
           b == IF swap THEN x ELSE y
           an == AbSiz(s, a)
           bn == AbSiz(s, b)
           wsize == AbSiz(s, w)
           neg == (sub # (s.size[a] < 0)) # (s.size[b] < 0)
           minus == neg # (s.size[w] < 0)
           room == Larger(wsize, an + bn) + 1
           short(product) == an + bn - Bit(High(product, an + bn - 1) = 0)
           fresh(t) ==
             LET product == MpnMul(t, t.d[w], t.d[a], an, t.d[b], bn)
             IN  SetSiz(Put(t, t.d[w], an + bn, product), w,
                        Signed(neg, short(product)))
           combine(t) ==
             LET tv == MpnMul(t, Null, t.d[a], an, t.d[b], bn)
                 tsize == short(tv)
                 wv == Source(s, t, w, wsize)
                 n == Larger(wsize, tsize)
                 less == wsize < tsize \/ (wsize = tsize /\ wv < tv)
                 diff == IF less THEN tv - wv ELSE wv - tv
             IN  IF minus
                 THEN SetSiz(Put(t, t.d[w], n, diff), w,
                             Signed((s.size[w] < 0) # less, Normalize(diff, n)))
                 ELSE SetSiz(Put(t, t.d[w], n + 1, wv + tv), w,
                             Signed(s.size[w] < 0, n + Bit(wv + tv >= B^n)))
<1>1. CASE an = 0 \/ bn = 0
  BY <1>1 DEF MpzAorsmul
<1>2. CASE an # 0 /\ bn = 1
  <2>1. PICK y1, sub1 : r \in MpzAorsmul1(s, w, a, y1, sub1)
    <3>1. ~(an = 0 \/ bn = 0)
      BY <1>2, SMTT(30)
    <3> QED BY <1>2, <3>1 DEF MpzAorsmul
  <2> HIDE DEF a
  <2> QED BY <2>1, IdleWord, SMTT(30)
<1>3. CASE an # 0 /\ bn # 0 /\ bn # 1
  <2>1. ~(an = 0 \/ bn = 0) /\ ~(an # 0 /\ bn = 1)
    BY <1>3, SMTT(30)
  <2>2. PICK t \in Grow(s, w, room) : r = IF wsize = 0 THEN fresh(t) ELSE combine(t)
    BY <2>1 DEF MpzAorsmul
  <2>3. Idle(t, live)
    BY IdleGrow
  <2>4. Idle(fresh(t), live)
    BY <2>3, IdleStore, SMTT(30)
  <2>5. Idle(combine(t), live)
    BY <2>3, IdleStore, SMTT(30)
  <2> QED BY <2>2, <2>4, <2>5, ZenonT(60)
<1> QED BY <1>1, <1>2, <1>3, SMTT(30)

LEMMA AfterIdle ==
  ASSUME NEW t, NEW live, Idle(t, live)
  PROVE  Idle(t, t.live) /\ Idle(After(t), After(t).live)
<1>1. t.live = live
  BY DEF Idle
<1>2. CASE t.status = "run"
  BY <1>1, <1>2 DEF After
<1>3. CASE t.status # "run"
  <2>1. PICK y : y = t.status /\ y \in {"run", "overflow"}
    BY DEF Idle
  <2>2. After(t) = Exception(EmptyStore, y)
    BY <1>3, <2>1 DEF After
  <2>3. PICK e : e = EmptyStore
    OBVIOUS
  <2>4. Idle(e, {})
    BY <2>3 DEF Idle, EmptyStore
  <2>5. PICK z : z = Exception(e, y)
    OBVIOUS
  <2>6. Idle(z, {}) /\ z.live = {}
    BY <2>1, <2>4, <2>5 DEF Idle, Exception
  <2> QED BY <1>1, <2>2, <2>3, <2>5, <2>6
<1> QED BY <1>2, <1>3

\* Every call leaves a process that runs or was aborted by an overflow, and no block in
\* a struct that is no integer.
LEMMA NextIdle ==
  ASSUME Good(store), Idle(store, store.live), Next
  PROVE  Idle(store', store'.live)
<1>1. SUFFICES \E t, live : store' = After(t) /\ Idle(t, live)
  BY AfterIdle
<1>2. ASSUME NEW x \in Var, InitCall(x)
      PROVE  \E t, live : store' = After(t) /\ Idle(t, live)
  <2>1. x \in Var \ store.live
    BY <1>2 DEF InitCall, Live, Unused, Running
  <2>2. PICK t \in MpzInit(store, x) : store' = After(t)
    BY <1>2 DEF InitCall, Return, After
  <2> QED BY <2>1, <2>2, IdleLife
<1>3. ASSUME NEW x \in Var, Clear(x)
      PROVE  \E t, live : store' = After(t) /\ Idle(t, live)
  <2>1. x \in store.live
    BY <1>3 DEF Clear, Live, Unused, Running
  <2>2. PICK t \in MpzClear(store, x) : store' = After(t)
    BY <1>3 DEF Clear, Return, After
  <2> QED BY <2>1, <2>2, IdleLife
<1>4. ASSUME NEW x \in Var, NEW bits \in Bits, Init2(x, bits)
      PROVE  \E t, live : store' = After(t) /\ Idle(t, live)
  <2>1. x \in Var \ store.live
    BY <1>4 DEF Init2, Live, Unused, Running
  <2>2. PICK t \in MpzInit2(store, x, bits) : store' = After(t)
    BY <1>4 DEF Init2, Return, After
  <2> QED BY <2>1, <2>2, IdleLife
<1>5. ASSUME NEW x \in Var, NEW bits \in Bits, Realloc2(x, bits)
      PROVE  \E t, live : store' = After(t) /\ Idle(t, live)
  <2>1. x \in store.live
    BY <1>5 DEF Realloc2, Live, Unused, Running
  <2>2. PICK t \in MpzRealloc2(store, x, bits) : store' = After(t)
    BY <1>5 DEF Realloc2, Return, After
  <2> QED BY <2>1, <2>2, IdleAssign
<1>6. ASSUME NEW w \in Var, NEW u \in Var, InitSet(w, u)
      PROVE  \E t, live : store' = After(t) /\ Idle(t, live)
  <2>1. w \in Var \ store.live /\ u \in store.live
    BY <1>6 DEF InitSet, Live, Unused, Running
  <2>2. PICK t \in MpzInitSet(store, w, u) : store' = After(t)
    BY <1>6 DEF InitSet, Return, After
  <2> QED BY <2>1, <2>2, IdleInitSet
<1>7. ASSUME NEW w \in Var, NEW u \in Var, Set(w, u)
      PROVE  \E t, live : store' = After(t) /\ Idle(t, live)
  <2>1. w \in store.live /\ u \in store.live
    BY <1>7 DEF Set, Live, Unused, Running
  <2>2. PICK t \in MpzSet(store, w, u) : store' = After(t)
    BY <1>7 DEF Set, Return, After
  <2> QED BY <2>1, <2>2, IdleAssign
<1>8. ASSUME NEW w \in Var, NEW u \in Var, Neg(w, u)
      PROVE  \E t, live : store' = After(t) /\ Idle(t, live)
  <2>1. w \in store.live /\ u \in store.live
    BY <1>8 DEF Neg, Live, Unused, Running
  <2>2. PICK t \in MpzNeg(store, w, u) : store' = After(t)
    BY <1>8 DEF Neg, Return, After
  <2> QED BY <2>1, <2>2, IdleAssign
<1>9. ASSUME NEW w \in Var, NEW u \in Var, AbsCall(w, u)
      PROVE  \E t, live : store' = After(t) /\ Idle(t, live)
  <2>1. w \in store.live /\ u \in store.live
    BY <1>9 DEF AbsCall, Live, Unused, Running
  <2>2. PICK t \in MpzAbs(store, w, u) : store' = After(t)
    BY <1>9 DEF AbsCall, Return, After
  <2> QED BY <2>1, <2>2, IdleAssign
<1>10. ASSUME NEW w \in Var, NEW u \in Var, Swap(w, u)
      PROVE  \E t, live : store' = After(t) /\ Idle(t, live)
  <2>1. w \in store.live /\ u \in store.live
    BY <1>10 DEF Swap, Live, Unused, Running
  <2>2. PICK t \in MpzSwap(store, w, u) : store' = After(t)
    BY <1>10 DEF Swap, Return, After
  <2> QED BY <2>1, <2>2, IdleSwap
<1>11. ASSUME NEW w \in Var, NEW n \in Long, SetSi(w, n)
      PROVE  \E t, live : store' = After(t) /\ Idle(t, live)
  <2>1. w \in store.live
    BY <1>11 DEF SetSi, Live, Unused, Running
  <2>2. PICK t \in MpzSetSi(store, w, n) : store' = After(t)
    BY <1>11 DEF SetSi, Return, After
  <2> QED BY <2>1, <2>2, IdleAssign
<1>12. ASSUME NEW w \in Var, NEW u \in Var, NEW cnt \in Counts, Mul2Exp(w, u, cnt)
      PROVE  \E t, live : store' = After(t) /\ Idle(t, live)
  <2>1. w \in store.live /\ u \in store.live
    BY <1>12 DEF Mul2Exp, Live, Unused, Running
  <2>2. PICK t \in MpzMul2Exp(store, w, u, cnt) : store' = After(t)
    BY <1>12 DEF Mul2Exp, Return, After
  <2> QED BY <2>1, <2>2, IdleWord
<1>13. ASSUME NEW w \in Var, NEW u \in Var, NEW n \in Limb, AddUi(w, u, n)
      PROVE  \E t, live : store' = After(t) /\ Idle(t, live)
  <2>1. w \in store.live /\ u \in store.live
    BY <1>13 DEF AddUi, Live, Unused, Running
  <2>2. PICK t \in MpzAorsUi(store, w, u, n, FALSE) : store' = After(t)
    BY <1>13 DEF AddUi, Return, After, MpzAddUi
  <2> QED BY <2>1, <2>2, IdleAorsUi
<1>14. ASSUME NEW w \in Var, NEW u \in Var, NEW n \in Limb, SubUi(w, u, n)
      PROVE  \E t, live : store' = After(t) /\ Idle(t, live)
  <2>1. w \in store.live /\ u \in store.live
    BY <1>14 DEF SubUi, Live, Unused, Running
  <2>2. PICK t \in MpzAorsUi(store, w, u, n, TRUE) : store' = After(t)
    BY <1>14 DEF SubUi, Return, After, MpzSubUi
  <2> QED BY <2>1, <2>2, IdleAorsUi
<1>15. ASSUME NEW w \in Var, NEW u \in Var, NEW n \in Limb, UiSub(w, n, u)
      PROVE  \E t, live : store' = After(t) /\ Idle(t, live)
  <2>1. w \in store.live /\ u \in store.live
    BY <1>15 DEF UiSub, Live, Unused, Running
  <2>2. PICK t \in MpzUiSub(store, w, n, u) : store' = After(t)
    BY <1>15 DEF UiSub, Return, After
  <2> QED BY <2>1, <2>2, IdleUiSub
<1>16. ASSUME NEW w \in Var, NEW u \in Var, NEW n \in Limb, AddmulUi(w, u, n)
      PROVE  \E t, live : store' = After(t) /\ Idle(t, live)
  <2>1. w \in store.live /\ u \in store.live
    BY <1>16 DEF AddmulUi, Live, Unused, Running
  <2>2. PICK t \in MpzAorsmul1(store, w, u, n, FALSE) : store' = After(t)
    BY <1>16 DEF AddmulUi, Return, After, MpzAddmulUi
  <2> QED BY <2>1, <2>2, IdleWord
<1>17. ASSUME NEW w \in Var, NEW u \in Var, NEW n \in Limb, SubmulUi(w, u, n)
      PROVE  \E t, live : store' = After(t) /\ Idle(t, live)
  <2>1. w \in store.live /\ u \in store.live
    BY <1>17 DEF SubmulUi, Live, Unused, Running
  <2>2. PICK t \in MpzAorsmul1(store, w, u, n, TRUE) : store' = After(t)
    BY <1>17 DEF SubmulUi, Return, After, MpzSubmulUi
  <2> QED BY <2>1, <2>2, IdleWord
<1>18. ASSUME NEW w \in Var, NEW u \in Var, NEW n \in Long \cup Limb, MulSi(w, u, n)
      PROVE  \E t, live : store' = After(t) /\ Idle(t, live)
  <2>1. w \in store.live /\ u \in store.live
    BY <1>18 DEF MulSi, Live, Unused, Running
  <2>2. PICK t \in MpzMulSi(store, w, u, n) : store' = After(t)
    BY <1>18 DEF MulSi, Return, After
  <2> QED BY <2>1, <2>2, IdleWord
<1>19. ASSUME NEW w \in Var, NEW u \in Var, NEW v \in Var, Add(w, u, v)
      PROVE  \E t, live : store' = After(t) /\ Idle(t, live)
  <2>1. w \in store.live /\ u \in store.live /\ v \in store.live
    BY <1>19 DEF Add, Live, Unused, Running
  <2>2. PICK t \in MpzAors(store, w, u, v, FALSE) : store' = After(t)
    BY <1>19 DEF Add, Return, After, MpzAdd
  <2> QED BY <2>1, <2>2, IdleAors
<1>20. ASSUME NEW w \in Var, NEW u \in Var, NEW v \in Var, Sub(w, u, v)
      PROVE  \E t, live : store' = After(t) /\ Idle(t, live)
  <2>1. w \in store.live /\ u \in store.live /\ v \in store.live
    BY <1>20 DEF Sub, Live, Unused, Running
  <2>2. PICK t \in MpzAors(store, w, u, v, TRUE) : store' = After(t)
    BY <1>20 DEF Sub, Return, After, MpzSub
  <2> QED BY <2>1, <2>2, IdleAors
<1>21. ASSUME NEW w \in Var, NEW u \in Var, NEW v \in Var, Mul(w, u, v)
      PROVE  \E t, live : store' = After(t) /\ Idle(t, live)
  <2>1. w \in store.live /\ u \in store.live /\ v \in store.live
    BY <1>21 DEF Mul, Live, Unused, Running
  <2>2. PICK t \in MpzMul(store, w, u, v) : store' = After(t)
    BY <1>21 DEF Mul, Return, After
  <2> QED BY <2>1, <2>2, IdleMul
<1>22. ASSUME NEW w \in Var, NEW u \in Var, NEW v \in Var, Addmul(w, u, v)
      PROVE  \E t, live : store' = After(t) /\ Idle(t, live)
  <2>1. w \in store.live /\ u \in store.live /\ v \in store.live
    BY <1>22 DEF Addmul, Live, Unused, Running
  <2>2. PICK t \in MpzAorsmul(store, w, u, v, FALSE) : store' = After(t)
    BY <1>22 DEF Addmul, Return, After, MpzAddmul
  <2> QED BY <2>1, <2>2, IdleAorsmul
<1>23. ASSUME NEW w \in Var, NEW u \in Var, NEW v \in Var, Submul(w, u, v)
      PROVE  \E t, live : store' = After(t) /\ Idle(t, live)
  <2>1. w \in store.live /\ u \in store.live /\ v \in store.live
    BY <1>23 DEF Submul, Live, Unused, Running
  <2>2. PICK t \in MpzAorsmul(store, w, u, v, TRUE) : store' = After(t)
    BY <1>23 DEF Submul, Return, After, MpzSubmul
  <2> QED BY <2>1, <2>2, IdleAorsmul
<1>24. CASE Life
  BY <1>2, <1>3, <1>4, <1>5, <1>6, <1>24 DEF Life
<1>25. CASE Unary
  BY <1>7, <1>8, <1>9, <1>10, <1>11, <1>12, <1>25 DEF Unary
<1>26. CASE WithWord
  BY <1>13, <1>14, <1>15, <1>16, <1>17, <1>18, <1>26 DEF WithWord
<1>27. CASE Binary
  BY <1>19, <1>20, <1>21, <1>22, <1>23, <1>27 DEF Binary
<1> QED BY <1>24, <1>25, <1>26, <1>27 DEF Next

\* The fields of every mpz_t are what an int holds, of integers that are cleared or were
\* never made as well, a call ends well or in the abort of an overflow and nothing else,
\* and the heap is as the heap should be: TypeOK, after any sequence of calls.
THEOREM TypeAlways ==
  ASSUME MulMax <= IntMax, Powers
  PROVE  Spec => []TypeOK
<1>1. Init => Idle(store, store.live)
  BY DEF Init, EmptyStore, Idle
<1>2. Good(store) /\ Idle(store, store.live) /\ [Next]_vars => Idle(store, store.live)'
  <2> SUFFICES ASSUME Good(store), Idle(store, store.live), [Next]_vars
               PROVE  Idle(store', store'.live)
    OBVIOUS
  <2>1. CASE Next
    BY <2>1, NextIdle
  <2>2. CASE UNCHANGED vars
    BY <2>2 DEF vars
  <2> QED BY <2>1, <2>2
<1>3. Good(store) /\ Idle(store, store.live) /\ Agrees(store, val) => TypeOK
  <2> SUFFICES ASSUME Good(store), Idle(store, store.live), Agrees(store, val) PROVE TypeOK
    OBVIOUS
  <2>1. ASSUME NEW x \in Struct
        PROVE  store.alloc[x] \in 0..IntMax /\ store.size[x] \in -IntMax..IntMax
    <3>1. CASE x \in store.live
      BY <3>1, SizeRange, IntMaxAssumption DEF Abs
    <3>2. CASE x \notin store.live
      <4>1. store.alloc[x] = 0 /\ store.size[x] = 0
        BY <3>2 DEF Idle, Good, Unborn
      <4> QED BY <4>1, IntMaxAssumption
    <3> QED BY <3>1, <3>2
  <2>2. store.live \subseteq Var /\ \A b \in Block : store.len[b] \in Nat
    BY DEF Good, Typed
  <2>3. store.status \in {"run", "overflow"}
    BY DEF Idle
  <2>4. val \in [Var -> Int]
    BY DEF Agrees
  <2> QED BY <2>1, <2>2, <2>3, <2>4 DEF TypeOK
<1> QED BY <1>1, <1>2, <1>3, GoodAlways, AgreesAlways, PTL DEF Spec
=============================================================================
