-------------------------- MODULE TalNotreentProofs --------------------------
(***************************************************************************)
(* Whatever the memory, the sizes and the alignment: the stack of chunks   *)
(* of TalNotreent hands out blocks inside its chunks, counts them right    *)
(* and keeps the promise of TMP_ALLOC.                                     *)
(*                                                                         *)
(* The argument. The chunk and the point that a mark notes stay in the     *)
(* stack while the function is active. Below them are the marks and all    *)
(* the blocks of the functions that called it, so that going back to the   *)
(* mark takes nothing from them (MarksSound); every chunk has a block of   *)
(* some active function, so that none is left at the end (ChunksUsed).     *)
(***************************************************************************)
EXTENDS TalNotreent, SequenceTheorems, FiniteSetTheorems, WellFoundedInduction, TLAPS

-----------------------------------------------------------------------------
(* Numbers. *)

\* A set of natural numbers has a least one.
LEMMA LeastOf ==
  ASSUME NEW S \in SUBSET Nat, S # {}
  PROVE  \E n \in S : \A k \in S : n <= k
<1> DEFINE UpTo == {0..n : n \in S}
<1>1. UpTo \subseteq FiniteSubsetsOf(Nat) /\ UpTo # {}
  <2>1. ASSUME NEW n \in S PROVE 0..n \in FiniteSubsetsOf(Nat)
    BY FS_Interval DEF FiniteSubsetsOf
  <2> HIDE DEF FiniteSubsetsOf
  <2> QED BY <2>1
<1>2. IsWellFoundedOn(StrictSubsetOrdering(Nat), FiniteSubsetsOf(Nat))
  BY FS_StrictSubsetOrderingWellFounded
<1> HIDE DEF UpTo
<1>3. PICK I \in UpTo : \A J \in UpTo : ~(<<J, I>> \in StrictSubsetOrdering(Nat))
  BY <1>1, <1>2, WFMin
<1>4. PICK n \in S : I = 0..n
  BY <1>3 DEF UpTo
<1>5. ASSUME NEW k \in S PROVE n <= k
  <2>1. 0..k \in UpTo /\ k \in Nat /\ n \in Nat
    BY <1>4 DEF UpTo
  <2>2. ~(<<0..k, 0..n>> \in StrictSubsetOrdering(Nat))
    BY <1>3, <1>4, <2>1
  <2>3. 0..k \in SUBSET Nat /\ 0..n \in SUBSET Nat
    BY <2>1
  <2>4. ~(0..k \subseteq 0..n) \/ 0..k = 0..n
    BY <2>2, <2>3 DEF StrictSubsetOrdering
  <2> QED BY <2>1, <2>4
<1> QED BY <1>4, <1>5

\* Multiples of a number.
LEMMA Multiple ==
  ASSUME NEW a \in Nat \ {0}, NEW q \in Int
  PROVE  (q * a) % a = 0
OBVIOUS

\* Division with remainder.
LEMMA Quotient ==
  ASSUME NEW a \in Nat \ {0}, NEW x \in Int
  PROVE  x = (x \div a) * a + (x % a) /\ x \div a \in Int /\ x % a \in 0..(a - 1)
OBVIOUS

\* A sum of multiples is one.
LEMMA AlignedSum ==
  ASSUME NEW a \in Nat \ {0}, NEW x \in Int, NEW y \in Int, x % a = 0, y % a = 0
  PROVE  (x + y) % a = 0
<1> DEFINE p == x \div a
           q == y \div a
<1>1. p \in Int /\ q \in Int /\ x = p * a /\ y = q * a
  <2>1. x = p * a + (x % a) /\ p \in Int
    BY Quotient
  <2>2. y = q * a + (y % a) /\ q \in Int
    BY Quotient
  <2>3. p * a \in Int /\ q * a \in Int
    BY <2>1, <2>2
  <2> HIDE DEF p, q
  <2> QED BY <2>1, <2>2, <2>3
<1> HIDE DEF p, q
<1>2. x + y = (p + q) * a
  BY <1>1
<1>3. PICK r \in Int : r = p + q
  BY <1>1
<1>4. x + y = r * a
  BY <1>2, <1>3
<1> QED BY <1>4, Multiple

\* ROUND_UP_MULTIPLE gives a multiple that is not less.
LEMMA Rounded ==
  ASSUME Align \in Nat \ {0}, NEW n \in Nat
  PROVE  RoundUp(n) \in Nat /\ n <= RoundUp(n) /\ RoundUp(n) % Align = 0
<1>1. PICK m \in Int : m = -n
  OBVIOUS
<1>2. PICK q \in Int, r \in Int : q = m \div Align /\ r = m % Align
  OBVIOUS
<1>3. m = q * Align + r /\ r >= 0
  BY <1>2, Quotient
<1>4. RoundUp(n) = n + r
  BY <1>1, <1>2 DEF RoundUp
<1>5. PICK p \in Int : p = -q
  OBVIOUS
<1>6. p * Align = -(q * Align) /\ q * Align \in Int
  BY <1>5
<1>7. RoundUp(n) = p * Align
  BY <1>1, <1>3, <1>4, <1>6
<1>8. (p * Align) % Align = 0
  BY Multiple
<1> QED BY <1>3, <1>4, <1>7, <1>8

\* What the code knows of its constants.
LEMMA Constants ==
  ASSUME Bounded
  PROVE  /\ Align \in Nat \ {0} /\ Memory \in Nat /\ MaxTotal \in Nat
         /\ HeaderSize \in Nat \ {0} /\ HeaderSize % Align = 0
         /\ \A n \in Sizes : /\ n \in Nat /\ n >= 1
                             /\ RoundUp(n) \in Nat /\ n <= RoundUp(n) /\ RoundUp(n) % Align = 0
<1>1. Align \in Nat \ {0} /\ Header \in Nat \ {0} /\ Memory \in Nat /\ MaxTotal \in Nat
  BY DEF Bounded
<1>2. HeaderSize \in Nat \ {0} /\ HeaderSize % Align = 0
  BY <1>1, Rounded DEF HeaderSize
<1>3. ASSUME NEW n \in Sizes
      PROVE  /\ n \in Nat /\ n >= 1
             /\ RoundUp(n) \in Nat /\ n <= RoundUp(n) /\ RoundUp(n) % Align = 0
  <2>1. n \in Nat \ {0}
    BY DEF Bounded
  <2> QED BY <1>1, <2>1, Rounded
<1> QED BY <1>1, <1>2, <1>3

-----------------------------------------------------------------------------
(* Sums, by induction: a least place where something fails is no such place. *)

IsSum(s, w, n) == s \in [1..n -> Int] /\ s[1] = 0 /\ \A k \in 2..n : s[k] = s[k - 1] + w[k]

\* There are sums of any numbers.
LEMMA SumExists ==
  ASSUME NEW n \in Nat \ {0}, NEW w, \A k \in 2..n : w[k] \in Int
  PROVE  \E s : IsSum(s, w, n)
<1> DEFINE M == {m \in 1..n : ~\E s : IsSum(s, w, m)}
<1>1. ASSUME M # {} PROVE FALSE
  <2>1. PICK m \in M : \A k \in M : m <= k
    <3>1. M \in SUBSET Nat
      OBVIOUS
    <3> HIDE DEF M
    <3> QED BY <1>1, <3>1, LeastOf
  <2>2. m \in 1..n /\ ~\E s : IsSum(s, w, m)
    BY <2>1
  <2>3. CASE m = 1
    <3>1. IsSum([k \in 1..1 |-> 0], w, 1)
      BY DEF IsSum
    <3> QED BY <2>2, <2>3, <3>1
  <2>4. CASE m # 1
    <3>1. m - 1 \in 1..n /\ m - 1 \notin M
      BY <2>1, <2>2, <2>4
    <3>2. PICK s : IsSum(s, w, m - 1)
      BY <3>1
    <3> DEFINE t == [k \in 1..m |-> IF k = m THEN s[m - 1] + w[m] ELSE s[k]]
    <3>3. t \in [1..m -> Int]
      BY <2>2, <2>4, <3>2 DEF IsSum
    <3>4. t[1] = 0
      BY <2>2, <2>4, <3>2 DEF IsSum
    <3>5. ASSUME NEW k \in 2..m PROVE t[k] = t[k - 1] + w[k]
      BY <2>2, <2>4, <3>2 DEF IsSum
    <3>6. IsSum(t, w, m)
      BY <3>3, <3>4, <3>5 DEF IsSum
    <3> QED BY <2>2, <3>6
  <2> QED BY <2>3, <2>4
<1>2. n \notin M
  BY <1>1
<1> QED BY <1>2

\* They are the only ones.
LEMMA SumUnique ==
  ASSUME NEW n \in Nat \ {0}, NEW w, NEW s, NEW t, IsSum(s, w, n), IsSum(t, w, n)
  PROVE  s = t
<1> DEFINE M == {m \in 1..n : s[m] # t[m]}
<1>1. ASSUME M # {} PROVE FALSE
  <2>1. PICK m \in M : \A k \in M : m <= k
    <3>1. M \in SUBSET Nat
      OBVIOUS
    <3> HIDE DEF M
    <3> QED BY <1>1, <3>1, LeastOf
  <2>2. m \in 1..n /\ s[m] # t[m] /\ m # 1
    BY <2>1 DEF IsSum
  <2>3. m - 1 \in 1..n /\ m - 1 \notin M
    BY <2>1, <2>2
  <2>4. s[m - 1] = t[m - 1]
    BY <2>3
  <2>5. s[m] = s[m - 1] + w[m] /\ t[m] = t[m - 1] + w[m]
    BY <2>2 DEF IsSum
  <2> QED BY <2>2, <2>4, <2>5
<1>2. \A m \in 1..n : s[m] = t[m]
  BY <1>1
<1> QED BY <1>2 DEF IsSum

\* Sums of natural numbers are natural numbers.
LEMMA SumNatural ==
  ASSUME NEW n \in Nat \ {0}, NEW w, NEW s, IsSum(s, w, n), \A k \in 2..n : w[k] \in Nat
  PROVE  s[n] \in Nat
<1> DEFINE M == {m \in 1..n : s[m] \notin Nat}
<1>1. ASSUME M # {} PROVE FALSE
  <2>1. PICK m \in M : \A k \in M : m <= k
    <3>1. M \in SUBSET Nat
      OBVIOUS
    <3> HIDE DEF M
    <3> QED BY <1>1, <3>1, LeastOf
  <2>2. m \in 1..n /\ s[m] \notin Nat /\ m # 1
    BY <2>1 DEF IsSum
  <2>3. m - 1 \in 1..n /\ m - 1 \notin M
    BY <2>1, <2>2
  <2>4. s[m - 1] \in Nat
    BY <2>3
  <2>5. s[m] = s[m - 1] + w[m] /\ w[m] \in Nat
    BY <2>2 DEF IsSum
  <2> QED BY <2>2, <2>4, <2>5
<1> QED BY <1>1
-----------------------------------------------------------------------------
(* What the chunks have for blocks. *)

TmpBlock == [at : Nat, n : Nat]
Chunk == [at : 0..Memory, end : 0..Memory, point : 0..Memory]
Payloads(cs) == [k \in 1..Len(cs) |-> Payload(cs[k])]

\* What a chunk has for blocks is a number.
LEMMA PayloadInt ==
  ASSUME Bounded, NEW c \in Chunk
  PROVE  Payload(c) \in Int
BY Constants DEF Chunk, Payload

\* The payload at a place of the stack.
LEMMA PayloadsOf ==
  ASSUME NEW n, NEW cs, Len(cs) = n, NEW k \in 1..n
  PROVE  Payloads(cs)[k] = Payload(cs[k])
BY DEF Payloads

\* Front and Last of a sequence that has two elements or more.
LEMMA FrontLast ==
  ASSUME NEW S, NEW s \in Seq(S), Len(s) > 0
  PROVE  /\ Last(s) \in S /\ Last(s) = s[Len(s)]
         /\ Front(s) \in Seq(S) /\ Len(Front(s)) = Len(s) - 1 /\ Len(Front(s)) \in Nat
         /\ \A i \in 1..Len(Front(s)) : i \in 1..Len(s) /\ Front(s)[i] = s[i]
         /\ s = Append(Front(s), Last(s))
<1>1. Len(s) \in Nat /\ \A i \in 1..Len(s) : s[i] \in S
  OBVIOUS
<1>2. Last(s) \in S /\ Last(s) = s[Len(s)]
  BY <1>1 DEF Last
<1>3. PICK n \in Nat : n = Len(s) - 1
  BY <1>1
<1>4. PICK u : u = SubSeq(s, 1, n)
  OBVIOUS
<1>5. u \in Seq(S) /\ Len(u) = n /\ \A i \in 1..n : u[i] = s[i]
  BY <1>1, <1>3, <1>4, SubSeqProperties
<1>6. Front(s) = u
  BY <1>3, <1>4 DEF Front
<1>7. PICK v : v = Append(u, s[n + 1])
  OBVIOUS
<1>8. /\ v \in Seq(S) /\ Len(v) = n + 1 /\ v[n + 1] = s[n + 1] /\ \A i \in 1..n : v[i] = u[i]
  BY <1>1, <1>3, <1>5, <1>7, AppendProperties
<1>9. s = v
  BY <1>3, <1>5, <1>8, SeqEqual
<1> QED BY <1>2, <1>3, <1>5, <1>6, <1>7, <1>9

\* The sum in Accounting is the only one there is.
LEMMA AllottedIs ==
  ASSUME NEW n \in Nat \ {0}, NEW cs, Len(cs) = n, NEW s, IsSum(s, Payloads(cs), n),
         \A k \in 1..n : Payload(cs[k]) \in Int
  PROVE  Allotted(cs) = s[n]
<1> DEFINE Is(g) == g = [k \in 1..Len(cs) |-> IF k = 1 THEN 0 ELSE g[k - 1] + Payload(cs[k])]
           sum == CHOOSE g : Is(g)
<1>p. PICK w : w = Payloads(cs)
  OBVIOUS
<1>w. \A k \in 1..n : w[k] = Payload(cs[k])
  BY <1>p, PayloadsOf
<1>s. s \in [1..n -> Int] /\ s[1] = 0 /\ \A k \in 2..n : s[k] = s[k - 1] + Payload(cs[k])
  <2>1. s \in [1..n -> Int] /\ s[1] = 0 /\ \A k \in 2..n : s[k] = s[k - 1] + w[k]
    BY <1>p DEF IsSum
  <2>2. ASSUME NEW k \in 2..n PROVE s[k] = s[k - 1] + Payload(cs[k])
    <3>1. k \in 1..n
      OBVIOUS
    <3>2. w[k] = Payload(cs[k])
      BY <1>w, <3>1
    <3> QED BY <2>1, <3>2
  <2> QED BY <2>1, <2>2
<1>1. Is(s)
  <2>1. s = [k \in 1..n |-> s[k]]
    BY DEF IsSum
  <2>2. ASSUME NEW k \in 1..n PROVE s[k] = IF k = 1 THEN 0 ELSE s[k - 1] + Payload(cs[k])
    BY <1>s
  <2> QED BY <2>1, <2>2
<1>2. ASSUME NEW g, Is(g) PROVE g = s
  <2>1. PICK h : h = g /\ h = [k \in 1..n |-> IF k = 1 THEN 0 ELSE h[k - 1] + Payload(cs[k])]
    BY <1>2
  <2>2. DOMAIN h = 1..n /\ h[1] = 0 /\ \A k \in 2..n : h[k] = h[k - 1] + Payload(cs[k])
    BY <2>1
  <2>3. \A k \in 1..n : h[k] = s[k]
    <3> DEFINE M == {m \in 1..n : h[m] # s[m]}
    <3>1. ASSUME M # {} PROVE FALSE
      <4>1. PICK m \in M : \A k \in M : m <= k
        <5>1. M \in SUBSET Nat
          OBVIOUS
        <5> HIDE DEF M
        <5> QED BY <3>1, <5>1, LeastOf
      <4>2. m \in 1..n /\ h[m] # s[m] /\ m # 1
        BY <2>2, <4>1 DEF IsSum
      <4>3. m - 1 \in 1..n /\ m - 1 \notin M
        BY <4>1, <4>2
      <4>4. h[m - 1] = s[m - 1]
        BY <4>3
      <4>5. h[m] = h[m - 1] + Payload(cs[m]) /\ s[m] = s[m - 1] + Payload(cs[m])
        BY <2>2, <4>2, <1>s
      <4> QED BY <4>2, <4>4, <4>5
    <3> QED BY <3>1
  <2>4. h = [k \in 1..n |-> h[k]] /\ s = [k \in 1..n |-> s[k]]
    BY <2>1 DEF IsSum
  <2> QED BY <2>1, <2>3, <2>4
<1>3. sum = s
  BY <1>1, <1>2
<1>4. Allotted(cs) = sum[Len(cs)]
  BY Zenon DEF Allotted
<1> QED BY <1>3, <1>4

\* A sequence of chunks has sums.
LEMMA ChunkSums ==
  ASSUME Bounded, NEW cs \in Seq(Chunk), cs # <<>>
  PROVE  \E s : IsSum(s, Payloads(cs), Len(cs)) /\ Allotted(cs) = s[Len(cs)]
<1>1. PICK n \in Nat \ {0} : n = Len(cs)
  OBVIOUS
<1>2. \A k \in 1..n : Payload(cs[k]) \in Int
  BY <1>1, PayloadInt
<1>3. \A k \in 2..n : Payloads(cs)[k] \in Int
  BY <1>1, <1>2 DEF Payloads
<1>4. PICK s : IsSum(s, Payloads(cs), n)
  BY <1>3, SumExists
<1> QED BY <1>1, <1>2, <1>4, AllottedIs

\* A chunk more.
LEMMA AllottedMore ==
  ASSUME Bounded, NEW cs \in Seq(Chunk), cs # <<>>, NEW c \in Chunk
  PROVE  Allotted(Append(cs, c)) = Allotted(cs) + Payload(c)
<1>0. PICK n \in Nat \ {0} : n = Len(cs)
  OBVIOUS
<1>d. PICK ds \in Seq(Chunk) : ds = Append(cs, c)
  BY AppendProperties
<1>1. n = Len(cs) /\ ds = Append(cs, c)
  BY <1>0, <1>d
<1>2. Len(ds) = n + 1 /\ ds[n + 1] = c /\ \A k \in 1..n : ds[k] = cs[k]
  BY <1>1
<1>3. PICK s : IsSum(s, Payloads(cs), n) /\ Allotted(cs) = s[n]
  BY <1>1, ChunkSums
<1>4. Payload(c) \in Int /\ \A k \in 1..(n + 1) : Payload(ds[k]) \in Int
  BY <1>2, PayloadInt
<1> DEFINE t == [k \in 1..(n + 1) |-> IF k = n + 1 THEN s[n] + Payload(c) ELSE s[k]]
<1>5. t \in [1..(n + 1) -> Int] /\ t[1] = 0
  BY <1>3, <1>4 DEF IsSum
<1>6. ASSUME NEW k \in 2..(n + 1) PROVE t[k] = t[k - 1] + Payloads(ds)[k]
  <2>1. Payloads(ds)[k] = Payload(ds[k])
    BY <1>2 DEF Payloads
  <2>2. CASE k = n + 1
    BY <1>2, <2>1, <2>2
  <2>3. CASE k # n + 1
    <3>1. k \in 2..n /\ k - 1 \in 1..n
      BY <2>3
    <3>2. s[k] = s[k - 1] + Payload(cs[k])
      <4>1. PICK w : w = Payloads(cs)
        OBVIOUS
      <4>2. w[k] = Payload(cs[k])
        <5>1. k \in 1..n
          BY <3>1
        <5>2. Payloads(cs)[k] = Payload(cs[k])
          BY <1>1, <5>1, PayloadsOf
        <5> QED BY <4>1, <5>2
      <4> QED BY <1>3, <3>1, <4>1, <4>2 DEF IsSum
    <3> QED BY <1>2, <2>1, <2>3, <3>1, <3>2
  <2> QED BY <2>2, <2>3
<1>7. IsSum(t, Payloads(ds), n + 1)
  BY <1>5, <1>6 DEF IsSum
<1> HIDE DEF t
<1>8. Allotted(ds) = t[n + 1]
  BY <1>2, <1>4, <1>7, AllottedIs
<1> QED BY <1>1, <1>3, <1>8 DEF t

\* A chunk less.
LEMMA AllottedLess ==
  ASSUME Bounded, NEW cs \in Seq(Chunk), Len(cs) > 1
  PROVE  Allotted(Front(cs)) = Allotted(cs) - Payload(Last(cs)) /\ Allotted(cs) \in Int
<1>d. PICK ds \in Seq(Chunk) : ds = Front(cs)
  BY FrontLast
<1>c. PICK c \in Chunk : c = Last(cs)
  BY FrontLast
<1>1. ds = Front(cs) /\ c = Last(cs)
  BY <1>d, <1>c
<1>2. Len(ds) = Len(cs) - 1 /\ ds # <<>>
  <2>1. Len(ds) = Len(cs) - 1 /\ Len(cs) \in Nat
    BY <1>1, FrontLast
  <2> QED BY <2>1
<1>3. cs = Append(ds, c)
  BY <1>1, FrontLast
<1>4. Allotted(cs) = Allotted(ds) + Payload(c)
  BY <1>2, <1>3, AllottedMore
<1>5. PICK s : IsSum(s, Payloads(ds), Len(ds)) /\ Allotted(ds) = s[Len(ds)]
  BY <1>2, ChunkSums
<1>6. Allotted(ds) \in Int /\ Payload(c) \in Int
  BY <1>2, <1>5, PayloadInt DEF IsSum
<1> QED BY <1>1, <1>4, <1>6

\* What a chunk is for, and where its point is, does not matter.
LEMMA AllottedSame ==
  ASSUME Bounded, NEW cs \in Seq(Chunk), NEW ds \in Seq(Chunk), cs # <<>>, Len(ds) = Len(cs),
         \A k \in 1..Len(cs) : ds[k].at = cs[k].at /\ ds[k].end = cs[k].end
  PROVE  Allotted(ds) = Allotted(cs)
<1>1. PICK s : IsSum(s, Payloads(cs), Len(cs)) /\ Allotted(cs) = s[Len(cs)]
  BY ChunkSums
<1>2. \A k \in 1..Len(cs) : Payload(ds[k]) = Payload(cs[k]) /\ Payload(ds[k]) \in Int
  BY PayloadInt DEF Payload
<1>3. Payloads(ds) = Payloads(cs)
  BY <1>2 DEF Payloads
<1> QED BY <1>1, <1>2, <1>3, AllottedIs

\* The chunk that is always there has nothing.
LEMMA AllottedFirst ==
  ASSUME Bounded, NEW cs \in Seq(Chunk), Len(cs) = 1
  PROVE  Allotted(cs) = 0
<1>2. cs # <<>>
  BY EmptySeq
<1>1. PICK s : IsSum(s, Payloads(cs), 1) /\ Allotted(cs) = s[1]
  BY <1>2, ChunkSums
<1> QED BY <1>1 DEF IsSum

\* There is never less than nothing for blocks.
LEMMA AllottedNat ==
  ASSUME Bounded, NEW cs \in Seq(Chunk), cs # <<>>,
         \A k \in 2..Len(cs) : cs[k].at + HeaderSize <= cs[k].end
  PROVE  Allotted(cs) \in Nat
<1>1. PICK n \in Nat \ {0} : n = Len(cs)
  OBVIOUS
<1>2. PICK s : IsSum(s, Payloads(cs), n) /\ Allotted(cs) = s[n]
  BY <1>1, ChunkSums
<1>3. ASSUME NEW k \in 2..n PROVE Payloads(cs)[k] \in Nat
  <2>1. cs[k] \in Chunk /\ cs[k].at + HeaderSize <= cs[k].end
    BY <1>1
  <2>2. PICK c \in Chunk : c = cs[k]
    BY <2>1
  <2>3. c.at \in Int /\ c.end \in Int /\ HeaderSize \in Int /\ c.at + HeaderSize <= c.end
    BY <2>1, <2>2, Constants DEF Chunk
  <2>4. Payload(c) \in Nat
    BY <2>3 DEF Payload
  <2> QED BY <1>1, <2>2, <2>4, PayloadsOf
<1> QED BY <1>2, <1>3, SumNatural

-----------------------------------------------------------------------------
(* The inductive invariant. *)

Shape ==
  /\ chunks \in Seq(Chunk) /\ Len(chunks) > 0 /\ chunks[1] = Xxx
  /\ marks \in Seq(Marker)
  /\ blocks \in Seq(SUBSET TmpBlock) /\ Len(blocks) = Len(marks)
  /\ back \in Marker \cup {NoMarker}

\* The chunks are apart, with their points after the header, where a block can start.
ChunksSound ==
  /\ \A i \in 2..Len(chunks) :
       /\ chunks[i].at + HeaderSize <= chunks[i].point /\ chunks[i].point <= chunks[i].end
       /\ chunks[i].at % Align = 0 /\ chunks[i].point % Align = 0
  /\ \A i, j \in 2..Len(chunks) :
       i = j \/ chunks[i].end <= chunks[j].at \/ chunks[j].end <= chunks[i].at

Counted == total \in Nat /\ max \in Nat /\ total = Allotted(chunks) /\ total <= max

\* A block is in a chunk.
In(b, c) ==
  /\ c.at + HeaderSize <= b.at /\ b.at + b.n <= c.point
  /\ b.at % Align = 0 /\ b.n \in Sizes

\* A mark is in chunk i.
Noted(m, i) ==
  /\ m.which_chunk = chunks[i].at /\ m.alloc_point <= chunks[i].point
  /\ IF i = 1 THEN m.alloc_point = Memory
     ELSE chunks[i].at + HeaderSize <= m.alloc_point /\ m.alloc_point % Align = 0

\* A block is in chunk i, which is under the point p of chunk k.
Under(b, i, k, p) == In(b, chunks[i]) /\ (i = k => b.at + b.n <= p)

\* The mark of function f is in chunk k. The marks and blocks of the functions that called
\* it are below, and have a block in each chunk up to there.
SoundAt(m, f, k) ==
  /\ Noted(m, k)
  /\ \A g \in 1..(f - 1) :
       /\ \E j \in 1..k : Noted(marks[g], j) /\ (j = k => marks[g].alloc_point <= m.alloc_point)
       /\ \A b \in blocks[g] : \E j \in 2..k : Under(b, j, k, m.alloc_point)
  /\ \A i \in 2..k : \E g \in 1..(f - 1) : \E b \in blocks[g] : Under(b, i, k, m.alloc_point)

Sound(m, f) == \E k \in 1..Len(chunks) : SoundAt(m, f, k)

MarksSound == \A f \in 1..Len(marks) : Sound(marks[f], f)
BackSound == ~Running => Sound(back, Len(marks) + 1)
BlocksSound ==
  \A f \in 1..Len(blocks) : \A b \in blocks[f] : \E i \in 2..Len(chunks) : In(b, chunks[i])

\* Every chunk after the first has a block, but for those that TMP_FREE has yet to free.
ChunksUsed ==
  Running => \A i \in 2..Len(chunks) :
               \E f \in 1..Len(blocks) : \E b \in blocks[f] : In(b, chunks[i])

Inv ==
  /\ Shape /\ ChunksSound /\ Counted
  /\ MarksSound /\ BackSound /\ BlocksSound /\ ChunksUsed

\* The invariant holds when no function is active: there is nothing but xxx.
LEMMA InvInit == Bounded /\ Init => Inv
<1> SUFFICES ASSUME Bounded, Init PROVE Inv
  OBVIOUS
<1> USE DEF Init
<1>1. chunks \in Seq(Chunk) /\ Len(chunks) = 1 /\ chunks[1] = Xxx
  BY Constants DEF Chunk, Xxx
<1>2. Shape
  BY <1>1 DEF Shape
<1>3. Counted
  <2>1. PICK cs \in Seq(Chunk) : cs = chunks
    BY <1>1
  <2>2. Allotted(cs) = 0
    BY <1>1, <2>1, AllottedFirst
  <2> QED BY <2>1, <2>2 DEF Counted
<1>4. ChunksSound /\ MarksSound /\ BackSound /\ BlocksSound /\ ChunksUsed
  BY <1>1 DEF ChunksSound, MarksSound, BackSound, BlocksSound, ChunksUsed, Running
<1> QED BY <1>2, <1>3, <1>4 DEF Inv

\* The numbers of the state.
LEMMA Numbers ==
  ASSUME Bounded, Inv
  PROVE  /\ Len(chunks) \in Nat \ {0} /\ Len(marks) \in Nat /\ Len(blocks) = Len(marks)
         /\ \A i \in 1..Len(chunks) : /\ chunks[i] \in Chunk /\ chunks[i].at \in Nat
                                      /\ chunks[i].end \in Nat /\ chunks[i].point \in Nat
                                      /\ chunks[i].point <= Memory
         /\ \A i \in 1..Len(marks) : /\ marks[i] \in Marker
                                     /\ marks[i].alloc_point \in Nat
         /\ \A i \in 1..Len(marks) : /\ blocks[i] \in SUBSET TmpBlock
                                     /\ \A b \in blocks[i] : b.at \in Nat /\ b.n \in Nat
<1>1. /\ Len(chunks) \in Nat \ {0} /\ Len(marks) \in Nat /\ Len(blocks) = Len(marks)
      /\ \A i \in 1..Len(chunks) : chunks[i] \in Chunk
      /\ \A i \in 1..Len(marks) : marks[i] \in Marker
      /\ \A i \in 1..Len(marks) : blocks[i] \in SUBSET TmpBlock
  BY DEF Inv, Shape
<1>2. Memory \in Nat
  BY Constants
<1>3. \A c \in Chunk : c.at \in Nat /\ c.end \in Nat /\ c.point \in Nat /\ c.point <= Memory
  BY <1>2 DEF Chunk
<1>4. \A m \in Marker : m.alloc_point \in Nat
  BY <1>2 DEF Marker
<1>5. \A b \in TmpBlock : b.at \in Nat /\ b.n \in Nat
  BY DEF TmpBlock
<1>6. \A i \in 1..Len(marks) : \A b \in blocks[i] : b \in TmpBlock
  BY <1>1
<1> QED BY <1>1, <1>3, <1>4, <1>5, <1>6

\* No two chunks are at the same place.
LEMMA SamePlace ==
  ASSUME Bounded, Inv, NEW i \in 1..Len(chunks), NEW j \in 1..Len(chunks),
         chunks[i].at = chunks[j].at
  PROVE  i = j
<1>1. chunks[1].at = Memory /\ HeaderSize \in Nat \ {0} /\ Memory \in Nat
  BY Constants DEF Inv, Shape, Xxx
<1>2. \A k \in 1..Len(chunks) :
        chunks[k].at \in Nat /\ chunks[k].end \in Nat /\ chunks[k].end <= Memory
  <2>1. \A c \in Chunk : c.at \in Nat /\ c.end \in Nat /\ c.end <= Memory
    BY <1>1 DEF Chunk
  <2> QED BY <2>1, Numbers
<1>3. \A k \in 2..Len(chunks) : chunks[k].at < chunks[k].end
  <2> SUFFICES ASSUME NEW k \in 2..Len(chunks) PROVE chunks[k].at < chunks[k].end
    OBVIOUS
  <2>1. k \in 1..Len(chunks) /\ chunks[k].point \in Nat
    BY Numbers
  <2>2. chunks[k].at + HeaderSize <= chunks[k].point /\ chunks[k].point <= chunks[k].end
    BY DEF Inv, ChunksSound
  <2> QED BY <1>1, <1>2, <2>1, <2>2
<1>4. CASE i \in 2..Len(chunks) /\ j \in 2..Len(chunks)
  <2>1. i = j \/ chunks[i].end <= chunks[j].at \/ chunks[j].end <= chunks[i].at
    BY <1>4 DEF Inv, ChunksSound
  <2> QED BY <1>2, <1>3, <1>4, <2>1
<1>5. \A k \in 2..Len(chunks) : k \in 1..Len(chunks) /\ chunks[k].at < Memory
  BY <1>1, <1>2, <1>3
<1> QED BY <1>1, <1>4, <1>5

\* A mark stays sound while what is below its point stays as it is.
LEMMA SoundKept ==
  ASSUME Bounded, Inv, NEW m, NEW f \in Nat, f <= Len(marks) + 1,
         NEW k \in 1..Len(chunks), SoundAt(m, f, k),
         Len(chunks') \in Nat, k <= Len(chunks'),
         \A i \in 1..k : chunks'[i].at = chunks[i].at /\ (i < k => chunks'[i] = chunks[i]),
         m.alloc_point <= chunks'[k].point, m.alloc_point \in Int, chunks'[k].point \in Int,
         \A g \in 1..(f - 1) : marks'[g] = marks[g] /\ blocks'[g] = blocks[g]
  PROVE  k \in 1..Len(chunks') /\ SoundAt(m, f, k)' /\ Sound(m, f)'
<1>1. k \in 1..Len(chunks')
  BY Numbers
<1>2. Noted(m, k)'
  BY DEF SoundAt, Noted
<1>3. ASSUME NEW g \in 1..(f - 1)
      PROVE  /\ marks[g].alloc_point \in Int /\ g \in 1..Len(marks)
             /\ \A b \in blocks[g] : b.at \in Int /\ b.n \in Int
  BY Numbers
<1>4. ASSUME NEW g \in 1..(f - 1)
      PROVE  (\E j \in 1..k : /\ Noted(marks[g], j)
                              /\ j = k => marks[g].alloc_point <= m.alloc_point)'
  <2>1. PICK j \in 1..k : Noted(marks[g], j) /\ (j = k => marks[g].alloc_point <= m.alloc_point)
    BY DEF SoundAt
  <2>2. marks'[g] = marks[g] /\ marks[g].alloc_point \in Int
    BY <1>3
  <2>3. CASE j = k
    BY <2>1, <2>2, <2>3 DEF Noted
  <2>4. CASE j # k
    <3>1. chunks'[j] = chunks[j]
      BY <2>4
    <3> QED BY <2>1, <2>2, <2>4, <3>1 DEF Noted
  <2> QED BY <2>3, <2>4
<1>5. ASSUME NEW g \in 1..(f - 1), NEW b \in blocks[g], NEW j \in 2..k,
             Under(b, j, k, m.alloc_point)
      PROVE  Under(b, j, k, m.alloc_point)'
  <2>1. b.at \in Int /\ b.n \in Int /\ b.at + b.n \in Int
    BY <1>3
  <2>2. CASE j = k
    BY <1>5, <2>1, <2>2 DEF Under, In
  <2>3. CASE j # k
    <3>1. chunks'[j] = chunks[j]
      BY <2>3
    <3> QED BY <1>5, <2>3, <3>1 DEF Under, In
  <2> QED BY <2>2, <2>3
<1>6. ASSUME NEW g \in 1..(f - 1), NEW b \in blocks'[g]
      PROVE  \E j \in 2..k : Under(b, j, k, m.alloc_point)'
  <2>1. b \in blocks[g]
    OBVIOUS
  <2>2. PICK j \in 2..k : Under(b, j, k, m.alloc_point)
    BY <2>1 DEF SoundAt
  <2> QED BY <1>5, <2>1, <2>2
<1>7. ASSUME NEW i \in 2..k
      PROVE  (\E g \in 1..(f - 1) : \E b \in blocks[g] : Under(b, i, k, m.alloc_point))'
  <2>1. PICK g \in 1..(f - 1) : \E b \in blocks[g] : Under(b, i, k, m.alloc_point)
    BY DEF SoundAt
  <2>2. PICK b \in blocks[g] : Under(b, i, k, m.alloc_point)
    BY <2>1
  <2> QED BY <1>5, <2>2
<1>8. SoundAt(m, f, k)'
  BY <1>2, <1>4, <1>6, <1>7 DEF SoundAt
<1> QED BY <1>1, <1>8 DEF Sound

\* A step that takes nothing from the chunks.
Growing ==
  /\ Len(chunks') \in Nat /\ Len(chunks) <= Len(chunks')
  /\ \A i \in 1..Len(chunks) :
       /\ chunks'[i].at = chunks[i].at /\ chunks'[i].point \in Int
       /\ chunks[i].point <= chunks'[i].point
       /\ i < Len(chunks) => chunks'[i] = chunks[i]

\* A step that does nothing with the chunks.
LEMMA SameGrowing ==
  ASSUME Bounded, Inv, chunks' = chunks
  PROVE  Growing
BY Numbers DEF Growing

\* It leaves the blocks where they are.
LEMMA BlocksKept ==
  ASSUME Bounded, Inv, Growing, NEW g \in 1..Len(marks), NEW b \in blocks[g]
  PROVE  /\ \E i \in 2..Len(chunks) : In(b, chunks[i])
         /\ \A i \in 2..Len(chunks) : In(b, chunks[i]) => i \in 2..Len(chunks') /\ In(b, chunks'[i])
         /\ \E i \in 2..Len(chunks') : In(b, chunks'[i])
<1>1. \E i \in 2..Len(chunks) : In(b, chunks[i])
  BY Numbers DEF Inv, BlocksSound
<1>2. ASSUME NEW i \in 2..Len(chunks), In(b, chunks[i])
      PROVE  i \in 2..Len(chunks') /\ In(b, chunks'[i])
  <2>1. i \in 1..Len(chunks) /\ chunks[i].point \in Int /\ b.at \in Int /\ b.n \in Int
    BY Numbers
  <2>2. i \in 2..Len(chunks')
    BY Numbers DEF Growing
  <2>3. /\ chunks'[i].at = chunks[i].at /\ chunks'[i].point \in Int
        /\ chunks[i].point <= chunks'[i].point
    BY <2>1 DEF Growing
  <2> QED BY <1>2, <2>1, <2>2, <2>3 DEF In
<1> QED BY <1>1, <1>2

\* It leaves the marks sound of the functions that stay and whose callers stay as they are.
LEMMA MarksKept ==
  ASSUME Bounded, Inv, Growing, NEW f \in 1..Len(marks),
         \A g \in 1..f : marks'[g] = marks[g], \A g \in 1..(f - 1) : blocks'[g] = blocks[g]
  PROVE  Sound(marks[f], f)'
<1>1. PICK m \in Marker : m = marks[f]
  BY Numbers
<1>2. PICK k \in 1..Len(chunks) : SoundAt(m, f, k)
  BY <1>1 DEF Inv, MarksSound, Sound
<1>3. f \in Nat /\ f <= Len(marks) + 1 /\ m.alloc_point \in Int /\ f \in 1..f
  BY <1>1, Numbers
<1>4. m.alloc_point <= chunks[k].point /\ chunks[k].point \in Int
  BY <1>2, Numbers DEF SoundAt, Noted
<1>5. Len(chunks') \in Nat /\ k <= Len(chunks')
  BY Numbers DEF Growing
<1>6. chunks'[k].point \in Int /\ m.alloc_point <= chunks'[k].point
  BY <1>3, <1>4 DEF Growing
<1>7. ASSUME NEW i \in 1..k
      PROVE  chunks'[i].at = chunks[i].at /\ (i < k => chunks'[i] = chunks[i])
  <2>1. i \in 1..Len(chunks) /\ (i < k => i < Len(chunks))
    BY Numbers
  <2> QED BY <2>1 DEF Growing
<1>8. \A g \in 1..(f - 1) : marks'[g] = marks[g]
  OBVIOUS
<1>9. Sound(m, f)'
  BY <1>2, <1>3, <1>5, <1>6, <1>7, <1>8, SoundKept
<1>10. marks'[f] = m
  BY <1>1, <1>3
<1> QED BY <1>9, <1>10 DEF Sound, SoundAt, Noted

-----------------------------------------------------------------------------
(* Every action keeps the invariant. *)

\* TMP_MARK notes the place up to which everything is in use.
LEMMA InvMark ==
  ASSUME Bounded, Inv, TmpMark
  PROVE  Inv'
<1>n. PICK n \in Nat \ {0} : n = Len(chunks)
  BY Numbers
<1>d. PICK d \in Nat : d = Len(marks) /\ d = Len(blocks)
  BY Numbers
<1>1. /\ Running /\ chunks' = chunks /\ total' = total /\ max' = max /\ back' = back
  BY DEF TmpMark
<1>2. PICK m \in Marker : m = [which_chunk |-> chunks[n].at, alloc_point |-> chunks[n].point]
  <2>1. chunks[n] \in Chunk
    BY <1>n, <1>d, Numbers
  <2> QED BY <2>1 DEF Chunk, Marker
<1>3. marks' = Append(marks, m) /\ blocks' = Append(blocks, {})
  BY <1>2, <1>n DEF TmpMark, current, Last
<1>4. /\ marks' \in Seq(Marker) /\ Len(marks') = d + 1 /\ marks'[d + 1] = m
      /\ \A g \in 1..d : marks'[g] = marks[g]
  BY <1>3, <1>d DEF Inv, Shape
<1>5. /\ blocks' \in Seq(SUBSET TmpBlock) /\ Len(blocks') = d + 1 /\ blocks'[d + 1] = {}
      /\ \A g \in 1..d : blocks'[g] = blocks[g]
  <2>1. blocks \in Seq(SUBSET TmpBlock) /\ {} \in SUBSET TmpBlock
    BY DEF Inv, Shape
  <2> QED BY <1>3, <1>n, <1>d, <2>1, AppendProperties
<1>6. Shape'
  BY <1>1, <1>4, <1>5 DEF Inv, Shape
<1>7. ChunksSound' /\ Counted' /\ BackSound'
  BY <1>1 DEF Inv, ChunksSound, Counted, BackSound, Running
<1>8. Growing
  BY <1>1, SameGrowing
<1>9. BlocksSound'
  <2> SUFFICES ASSUME NEW f \in 1..(d + 1), NEW b \in blocks'[f]
               PROVE  \E i \in 2..Len(chunks') : In(b, chunks'[i])
    BY <1>5 DEF BlocksSound
  <2>1. f \in 1..d /\ b \in blocks[f]
    BY <1>n, <1>d, <1>5
  <2> QED BY <1>8, <1>d, <2>1, BlocksKept
<1>10. ChunksUsed'
  <2> SUFFICES ASSUME NEW i \in 2..Len(chunks)
               PROVE  \E f \in 1..(d + 1) : \E b \in blocks'[f] : In(b, chunks[i])
    BY <1>1, <1>5 DEF ChunksUsed
  <2>1. PICK f \in 1..d : \E b \in blocks[f] : In(b, chunks[i])
    BY <1>1, <1>n, <1>d DEF Inv, ChunksUsed
  <2>2. f \in 1..(d + 1) /\ blocks'[f] = blocks[f]
    BY <1>n, <1>d, <1>5
  <2> QED BY <2>1, <2>2
<1>11. SoundAt(m, d + 1, n)'
  <2>1. n \in 1..n /\ Noted(m, n)'
    <3>1. n \in 1..Len(chunks) /\ chunks[n].point \in Nat
      BY <1>n, <1>d, Numbers
    <3>2. n = 1 => chunks[n].point = Memory
      BY DEF Inv, Shape, Xxx
    <3>3. n # 1 => chunks[n].at + HeaderSize <= chunks[n].point /\ chunks[n].point % Align = 0
      BY <1>n, <1>d DEF Inv, ChunksSound
    <3> QED BY <1>1, <1>2, <1>n, <1>d, <3>1, <3>2, <3>3 DEF Noted
  <2>2. ASSUME NEW g \in 1..d
        PROVE  (\E j \in 1..n : Noted(marks[g], j) /\ (j = n => marks[g].alloc_point <= m.alloc_point))'
    <3>1. PICK j \in 1..n : Noted(marks[g], j)
      BY <1>n, <1>d DEF Inv, MarksSound, Sound, SoundAt
    <3> QED BY <1>1, <1>2, <1>4, <3>1 DEF Noted
  <2>3. ASSUME NEW g \in 1..d, NEW b \in blocks'[g]
        PROVE  (\E j \in 2..n : Under(b, j, n, m.alloc_point))'
    <3>1. b \in blocks[g] /\ g \in 1..Len(marks)
      BY <1>5, <1>d
    <3>2. PICK j \in 2..n : In(b, chunks[j])
      BY <3>1, <1>n, <1>d DEF Inv, BlocksSound
    <3> QED BY <1>1, <1>2, <3>2 DEF Under, In
  <2>4. ASSUME NEW i \in 2..n
        PROVE  (\E g \in 1..d : \E b \in blocks[g] : Under(b, i, n, m.alloc_point))'
    <3>1. PICK g \in 1..d : \E b \in blocks[g] : In(b, chunks[i])
      BY <1>1, <1>n, <1>d DEF Inv, ChunksUsed
    <3>2. blocks'[g] = blocks[g]
      BY <1>5
    <3> QED BY <1>1, <1>2, <3>1, <3>2 DEF Under, In
  <2>5. (d + 1) - 1 = d
    BY <1>n, <1>d
  <2> QED BY <2>1, <2>2, <2>3, <2>4, <2>5 DEF SoundAt
<1>12. MarksSound'
  <2> SUFFICES ASSUME NEW f \in 1..(d + 1) PROVE Sound(marks[f], f)'
    BY <1>4 DEF MarksSound
  <2>1. CASE f = d + 1
    <3>1. n \in 1..Len(chunks')
      BY <1>1, <1>n, <1>d
    <3> QED BY <1>4, <1>11, <2>1, <3>1 DEF Sound, SoundAt, Noted
  <2>2. CASE f # d + 1
    <3>1. f \in 1..Len(marks) /\ \A g \in 1..f : g \in 1..d
      BY <1>n, <1>d, <2>2
    <3>2. \A g \in 1..f : marks'[g] = marks[g]
      BY <1>4, <3>1
    <3>3. \A g \in 1..(f - 1) : blocks'[g] = blocks[g]
      BY <1>5, <3>1
    <3> QED BY <1>8, <3>1, <3>2, <3>3, MarksKept
  <2> QED BY <2>1, <2>2
<1> QED BY <1>6, <1>7, <1>9, <1>10, <1>12 DEF Inv

\* The innermost function goes, with its mark and its blocks.
LEMMA Popped ==
  ASSUME Bounded, Inv, marks # <<>>, marks' = Front(marks), blocks' = Front(blocks),
         chunks' = chunks, total' = total, max' = max
  PROVE  /\ Len(marks) \in Nat \ {0} /\ Len(marks') = Len(marks) - 1
         /\ marks' \in Seq(Marker) /\ blocks' \in Seq(SUBSET TmpBlock)
         /\ Len(blocks') = Len(marks') /\ Last(marks) = marks[Len(marks)]
         /\ Last(blocks) = blocks[Len(marks)]
         /\ \A g \in 1..Len(marks') : g \in 1..Len(marks) /\ marks'[g] = marks[g] /\ blocks'[g] = blocks[g]
         /\ ChunksSound' /\ Counted' /\ MarksSound' /\ BlocksSound'
<1>d. PICK d \in Nat \ {0} : d = Len(marks) /\ d = Len(blocks)
  <2>1. marks \in Seq(Marker) /\ Len(blocks) = Len(marks)
    BY DEF Inv, Shape
  <2> QED BY <2>1, EmptySeq
<1>1. PICK ms \in Seq(Marker), bs \in Seq(SUBSET TmpBlock) : ms = marks /\ bs = blocks
  BY DEF Inv, Shape
<1>2. /\ Last(ms) = ms[d] /\ Front(ms) \in Seq(Marker) /\ Len(Front(ms)) = d - 1
      /\ \A g \in 1..(d - 1) : Front(ms)[g] = ms[g]
  <2>1. Len(ms) = d /\ Len(ms) > 0
    BY <1>1, <1>d
  <2>2. /\ Last(ms) = ms[Len(ms)] /\ Front(ms) \in Seq(Marker)
        /\ Len(Front(ms)) = Len(ms) - 1
        /\ \A i \in 1..Len(Front(ms)) : i \in 1..Len(ms) /\ Front(ms)[i] = ms[i]
    BY <2>1, FrontLast
  <2> QED BY <2>1, <2>2
<1>3. /\ Last(bs) = bs[d] /\ Front(bs) \in Seq(SUBSET TmpBlock) /\ Len(Front(bs)) = d - 1
      /\ \A g \in 1..(d - 1) : Front(bs)[g] = bs[g]
  <2>1. Len(bs) = d /\ Len(bs) > 0
    BY <1>1, <1>d
  <2>2. /\ Last(bs) = bs[Len(bs)] /\ Front(bs) \in Seq(SUBSET TmpBlock)
        /\ Len(Front(bs)) = Len(bs) - 1
        /\ \A i \in 1..Len(Front(bs)) : i \in 1..Len(bs) /\ Front(bs)[i] = bs[i]
    BY <2>1, FrontLast
  <2> QED BY <2>1, <2>2
<1>4. /\ Len(marks') = d - 1 /\ Len(blocks') = d - 1
      /\ marks' \in Seq(Marker) /\ blocks' \in Seq(SUBSET TmpBlock)
      /\ \A g \in 1..(d - 1) : marks'[g] = marks[g] /\ blocks'[g] = blocks[g]
  BY <1>1, <1>2, <1>3
<1>5. \A g \in 1..(d - 1) : g \in 1..d
  OBVIOUS
<1>6. ChunksSound' /\ Counted'
  BY DEF Inv, ChunksSound, Counted
<1>7. Growing
  BY SameGrowing
<1>8. BlocksSound'
  <2> SUFFICES ASSUME NEW f \in 1..(d - 1), NEW b \in blocks'[f]
               PROVE  \E i \in 2..Len(chunks') : In(b, chunks'[i])
    BY <1>4 DEF BlocksSound
  <2>1. f \in 1..Len(marks) /\ b \in blocks[f]
    BY <1>4, <1>5, <1>d
  <2> QED BY <1>7, <2>1, BlocksKept
<1>9. MarksSound'
  <2> SUFFICES ASSUME NEW f \in 1..(d - 1) PROVE Sound(marks[f], f)'
    BY <1>4 DEF MarksSound
  <2>1. f \in 1..Len(marks) /\ \A g \in 1..f : g \in 1..(d - 1)
    BY <1>d
  <2>2. \A g \in 1..f : marks'[g] = marks[g]
    BY <1>4, <2>1
  <2>3. \A g \in 1..(f - 1) : blocks'[g] = blocks[g]
    BY <1>4, <2>1
  <2> QED BY <1>7, <2>1, <2>2, <2>3, MarksKept
<1> QED BY <1>1, <1>2, <1>3, <1>4, <1>5, <1>6, <1>8, <1>9, <1>d

\* TMP_FREE begins: its mark is as sound as it was.
LEMMA InvFree ==
  ASSUME Bounded, Inv, TmpFree
  PROVE  Inv'
<1>1. /\ Running /\ marks # <<>> /\ back' = Last(marks) /\ marks' = Front(marks)
      /\ blocks' = Front(blocks) /\ chunks' = chunks /\ total' = total /\ max' = max
  BY DEF TmpFree
<1>d. PICK d \in Nat \ {0} : d = Len(marks)
  BY <1>1, Popped
<1>2. /\ Len(marks') = d - 1 /\ marks' \in Seq(Marker) /\ blocks' \in Seq(SUBSET TmpBlock)
      /\ Len(blocks') = Len(marks') /\ back' = marks[d]
      /\ \A g \in 1..(d - 1) : marks'[g] = marks[g] /\ blocks'[g] = blocks[g]
      /\ ChunksSound' /\ Counted' /\ MarksSound' /\ BlocksSound'
  BY <1>1, <1>d, Popped
<1>3. PICK m \in Marker : m = marks[d]
  BY <1>d, Numbers
<1>4. Shape'
  BY <1>1, <1>2, <1>3 DEF Inv, Shape
<1>5. ~Running'
  <2>1. m.which_chunk \in 0..Memory /\ NoMarker.which_chunk = -1
    BY DEF Marker, NoMarker
  <2>2. m # NoMarker
    BY <2>1, Constants
  <2> QED BY <1>2, <1>3, <2>2 DEF Running
<1>6. Sound(m, d)'
  <2>1. PICK k \in 1..Len(chunks) : SoundAt(m, d, k)
    BY <1>3, <1>d DEF Inv, MarksSound, Sound
  <2>2. /\ m.alloc_point <= chunks'[k].point /\ m.alloc_point \in Int /\ chunks'[k].point \in Int
        /\ Len(chunks') \in Nat /\ k <= Len(chunks') /\ d <= Len(marks) + 1
    BY <1>1, <1>3, <1>d, <2>1, Numbers DEF SoundAt, Noted
  <2>3. \A i \in 1..k : chunks'[i].at = chunks[i].at /\ (i < k => chunks'[i] = chunks[i])
    BY <1>1
  <2> QED BY <1>2, <2>1, <2>2, <2>3, SoundKept
<1>7. BackSound'
  <2>1. (Len(marks) + 1)' = d
    BY <1>2
  <2>2. back' = m
    BY <1>2, <1>3
  <2> QED BY <1>6, <2>1, <2>2 DEF BackSound, Sound, SoundAt, Noted
<1>8. ChunksUsed'
  BY <1>5 DEF ChunksUsed
<1> QED BY <1>2, <1>4, <1>7, <1>8 DEF Inv

\* A function that returns without TMP_FREE has no block: the chunks are all in use still.
LEMMA InvReturn ==
  ASSUME Bounded, Inv, TmpReturn
  PROVE  Inv'
<1>1. /\ Running /\ marks # <<>> /\ back' = back /\ marks' = Front(marks) /\ Last(blocks) = {}
      /\ blocks' = Front(blocks) /\ chunks' = chunks /\ total' = total /\ max' = max
  BY DEF TmpReturn
<1>d. PICK d \in Nat \ {0} : d = Len(marks)
  BY <1>1, Popped
<1>2. /\ Len(marks') = d - 1 /\ marks' \in Seq(Marker) /\ blocks' \in Seq(SUBSET TmpBlock)
      /\ Len(blocks') = Len(marks') /\ blocks[d] = {}
      /\ \A g \in 1..(d - 1) : marks'[g] = marks[g] /\ blocks'[g] = blocks[g]
      /\ ChunksSound' /\ Counted' /\ MarksSound' /\ BlocksSound'
  BY <1>1, <1>d, Popped
<1>3. Shape'
  BY <1>1, <1>2 DEF Inv, Shape
<1>4. BackSound'
  BY <1>1 DEF BackSound, Running
<1>5. ChunksUsed'
  <2> SUFFICES ASSUME NEW i \in 2..Len(chunks)
               PROVE  \E f \in 1..(d - 1) : \E b \in blocks'[f] : In(b, chunks[i])
    BY <1>1, <1>2 DEF ChunksUsed
  <2>1. PICK f \in 1..d : \E b \in blocks[f] : In(b, chunks[i])
    BY <1>1, <1>d, Numbers DEF Inv, ChunksUsed
  <2>2. f \in 1..(d - 1)
    BY <1>2, <2>1
  <2> QED BY <1>2, <2>1, <2>2
<1> QED BY <1>2, <1>3, <1>4, <1>5 DEF Inv

\* The mark that TMP_FREE goes back to is in a chunk, with the marks and blocks of the
\* functions that are active below it.
LEMMA GoingBack ==
  ASSUME Bounded, Inv, ~Running
  PROVE  /\ back \in Marker
         /\ \E k \in 1..Len(chunks) :
              /\ SoundAt(back, Len(marks) + 1, k)
              /\ Above(back) <=> k # Len(chunks)
              /\ back.alloc_point <= chunks[k].point
              /\ \A f \in 1..Len(marks), i \in 1..Len(chunks) :
                   Noted(marks[f], i) => i <= k /\ (i = k => marks[f].alloc_point <= back.alloc_point)
              /\ \A f \in 1..Len(marks) : \A b \in blocks[f] :
                   \E j \in 2..k : Under(b, j, k, back.alloc_point)
<1>1. back \in Marker
  BY DEF Inv, Shape, Running
<1>2. PICK k \in 1..Len(chunks) : SoundAt(back, Len(marks) + 1, k)
  BY DEF Inv, BackSound, Sound
<1>3. back.alloc_point <= chunks[k].point /\ back.which_chunk = chunks[k].at
  BY <1>2 DEF SoundAt, Noted
<1>4. PICK n \in Nat \ {0}, d \in Nat : n = Len(chunks) /\ d = Len(marks) /\ (d + 1) - 1 = d
  BY Numbers
<1>5. Above(back) <=> k # n
  <2>1. current = chunks[n]
    BY <1>4 DEF current, Last
  <2>2. n \in 1..Len(chunks)
    BY <1>4
  <2> QED BY <1>3, <2>1, <2>2, SamePlace DEF Above
<1>6. ASSUME NEW f \in 1..d, NEW i \in 1..n, Noted(marks[f], i)
      PROVE  i <= k /\ (i = k => marks[f].alloc_point <= back.alloc_point)
  <2>1. PICK j \in 1..k : /\ Noted(marks[f], j)
                          /\ j = k => marks[f].alloc_point <= back.alloc_point
    BY <1>2, <1>4 DEF SoundAt
  <2>2. i \in 1..Len(chunks) /\ j \in 1..Len(chunks) /\ chunks[i].at = chunks[j].at
    BY <1>4, <1>6, <2>1 DEF Noted
  <2>3. i = j
    BY <2>2, SamePlace
  <2> QED BY <2>1, <2>3
<1>7. \A f \in 1..d : \A b \in blocks[f] : \E j \in 2..k : Under(b, j, k, back.alloc_point)
  BY <1>2, <1>4 DEF SoundAt
<1> QED BY <1>1, <1>2, <1>3, <1>4, <1>5, <1>6, <1>7

\* A chunk is freed that no mark is in and no block.
LEMMA InvFreeChunk ==
  ASSUME Bounded, Inv, FreeChunk
  PROVE  Inv'
<1>1. /\ ~Running /\ Above(back) /\ chunks' = Front(chunks) /\ max' = max
      /\ total' = total - Payload(Last(chunks)) /\ marks' = marks /\ blocks' = blocks /\ back' = back
  BY DEF FreeChunk, Released, current
<1>2. PICK m \in Marker : m = back
  BY <1>1, GoingBack
<1>n. PICK n \in Nat \ {0}, d \in Nat : n = Len(chunks) /\ d = Len(marks) /\ (d + 1) - 1 = d
  BY Numbers
<1>d. d = Len(blocks)
  BY <1>n, Numbers
<1>3. PICK k \in 1..n :
        /\ SoundAt(m, d + 1, k) /\ k # n /\ m.alloc_point <= chunks[k].point
        /\ \A f \in 1..d, i \in 1..n : Noted(marks[f], i) => i <= k
        /\ \A f \in 1..d : \A b \in blocks[f] : \E j \in 2..k : Under(b, j, k, m.alloc_point)
  BY <1>1, <1>2, <1>n, GoingBack
<1>4. PICK cs \in Seq(Chunk) : cs = chunks
  BY DEF Inv, Shape
<1>5. /\ Last(cs) = cs[n] /\ chunks' \in Seq(Chunk) /\ Len(chunks') = n - 1 /\ n > 1 /\ k <= n - 1
      /\ \A i \in 1..(n - 1) : i \in 1..n /\ chunks'[i] = chunks[i]
  <2>1. Len(cs) = n /\ Len(cs) > 0
    BY <1>4, <1>n
  <2>2. /\ Last(cs) = cs[Len(cs)] /\ Front(cs) \in Seq(Chunk) /\ Len(Front(cs)) = Len(cs) - 1
        /\ \A i \in 1..Len(Front(cs)) : i \in 1..Len(cs) /\ Front(cs)[i] = cs[i]
    BY <2>1, FrontLast
  <2> QED BY <1>1, <1>3, <1>4, <2>1, <2>2
<1>6. Shape'
  <2>1. chunks'[1] = Xxx
    BY <1>5 DEF Inv, Shape
  <2>2. Len(chunks') > 0
    BY <1>5
  <2> QED BY <1>1, <1>5, <2>1, <2>2 DEF Inv, Shape
<1>7. ChunksSound'
  <2>1. \A i \in 2..(n - 1) : i \in 2..n /\ chunks'[i] = chunks[i]
    BY <1>5
  <2>2. \A i \in 2..(n - 1) :
          /\ chunks'[i].at + HeaderSize <= chunks'[i].point /\ chunks'[i].point <= chunks'[i].end
          /\ chunks'[i].at % Align = 0 /\ chunks'[i].point % Align = 0
    BY <1>n, <2>1 DEF Inv, ChunksSound
  <2>3. \A i, j \in 2..(n - 1) :
          i = j \/ chunks'[i].end <= chunks'[j].at \/ chunks'[j].end <= chunks'[i].at
    BY <1>n, <2>1 DEF Inv, ChunksSound
  <2> QED BY <1>5, <2>2, <2>3 DEF ChunksSound
<1>8. Counted'
  <2>1. Allotted(Front(cs)) = Allotted(cs) - Payload(Last(cs)) /\ Allotted(cs) \in Int
    BY <1>4, <1>5, <1>n, AllottedLess
  <2>2. PICK ds \in Seq(Chunk) : ds = chunks' /\ ds = Front(cs)
    BY <1>1, <1>4, <1>5
  <2>3. Allotted(ds) \in Nat
    <3>1. \A i \in 2..Len(ds) : ds[i].at + HeaderSize <= ds[i].end
      <4> SUFFICES ASSUME NEW i \in 2..Len(ds) PROVE ds[i].at + HeaderSize <= ds[i].end
        OBVIOUS
      <4>1. i \in 1..n /\ i \in 2..n /\ i \in 1..(n - 1) /\ ds[i] = chunks[i]
        BY <1>5, <2>2
      <4>2. /\ chunks[i].at + HeaderSize <= chunks[i].point /\ chunks[i].point <= chunks[i].end
        BY <1>n, <4>1 DEF Inv, ChunksSound
      <4>3. chunks[i].at \in Nat /\ chunks[i].point \in Nat /\ chunks[i].end \in Nat
        BY <1>n, <4>1, Numbers
      <4>4. HeaderSize \in Nat
        BY Constants
      <4> QED BY <4>1, <4>2, <4>3, <4>4
    <3>2. ds # <<>>
      BY <1>5, <2>2
    <3> QED BY <3>1, <3>2, AllottedNat
  <2>4. PICK c \in Chunk : c = Last(cs)
    BY <1>4, <1>5, <1>n, Numbers
  <2>5. Payload(c) \in Nat
    <3>1. /\ c.at + HeaderSize <= c.point /\ c.point <= c.end
      BY <1>4, <1>5, <1>n, <2>4 DEF Inv, ChunksSound
    <3>2. c.at \in Int /\ c.point \in Int /\ c.end \in Int /\ HeaderSize \in Int
      BY Constants DEF Chunk
    <3> QED BY <3>1, <3>2 DEF Payload
  <2>6. total = Allotted(cs) /\ total <= max /\ max \in Nat /\ total \in Nat
    BY <1>4 DEF Inv, Counted
  <2>7. total' = Allotted(ds)
    BY <1>1, <1>4, <2>1, <2>2, <2>6
  <2>8. total' <= max
    BY <1>1, <1>4, <2>4, <2>5, <2>6
  <2> QED BY <1>1, <2>2, <2>3, <2>6, <2>7, <2>8 DEF Counted
\* Whatever is in a chunk up to k stays sound.
<1>9. ASSUME NEW p \in Marker, NEW f \in 1..(d + 1), NEW i \in 1..k, SoundAt(p, f, i)
      PROVE  Sound(p, f)'
  <2>1. i \in 1..n /\ i \in 1..(n - 1) /\ f <= Len(marks) + 1 /\ f \in Nat
    BY <1>5, <1>n
  <2>2. p.alloc_point \in Int /\ chunks[i].point \in Int
    BY <1>n, <2>1, Numbers, Constants DEF Marker
  <2>3. \A j \in 1..i : j \in 1..(n - 1)
    BY <2>1
  <2>4. \A j \in 1..i : chunks'[j].at = chunks[j].at /\ (j < i => chunks'[j] = chunks[j])
    BY <1>5, <2>3
  <2>7. p.alloc_point <= chunks[i].point
    BY <1>9 DEF SoundAt, Noted
  <2>5. p.alloc_point <= chunks'[i].point /\ chunks'[i].point \in Int
    BY <1>5, <2>1, <2>2, <2>7
  <2>6. Len(chunks') \in Nat /\ i <= Len(chunks')
    BY <1>5, <2>1
  <2> QED BY <1>1, <1>9, <1>n, <2>1, <2>2, <2>4, <2>5, <2>6, SoundKept
<1>10. MarksSound'
  <2> SUFFICES ASSUME NEW f \in 1..d PROVE Sound(marks[f], f)'
    BY <1>1, <1>n DEF MarksSound
  <2>1. PICK p \in Marker : p = marks[f]
    BY <1>n, Numbers
  <2>2. PICK i \in 1..n : SoundAt(p, f, i)
    BY <1>n, <2>1 DEF Inv, MarksSound, Sound
  <2>3. i \in 1..k /\ f \in 1..(d + 1)
    BY <1>3, <2>1, <2>2 DEF SoundAt
  <2>4. Sound(p, f)'
    BY <1>9, <2>2, <2>3
  <2> QED BY <1>1, <2>1, <2>4 DEF Sound, SoundAt, Noted
<1>11. BackSound'
  <2>1. Sound(m, d + 1)'
    BY <1>3, <1>9
  <2>2. (Len(marks) + 1)' = d + 1 /\ back' = m
    BY <1>1, <1>2, <1>n
  <2>3. Sound(back, Len(marks) + 1)'
    BY <2>1, <2>2 DEF Sound, SoundAt, Noted
  <2> QED BY <2>3 DEF BackSound
<1>12. BlocksSound'
  <2> SUFFICES ASSUME NEW f \in 1..d, NEW b \in blocks[f]
               PROVE  \E i \in 2..Len(chunks') : In(b, chunks'[i])
    BY <1>1, <1>d DEF BlocksSound
  <2>1. PICK j \in 2..k : Under(b, j, k, m.alloc_point)
    BY <1>3
  <2>2. j \in 2..Len(chunks') /\ chunks'[j] = chunks[j]
    BY <1>5
  <2> QED BY <2>1, <2>2 DEF Under
<1>13. ChunksUsed'
  BY <1>1 DEF ChunksUsed, Running
<1> QED BY <1>6, <1>7, <1>8, <1>10, <1>11, <1>12, <1>13 DEF Inv

\* Its point goes back to the end of the blocks that were there at TMP_MARK.
LEMMA InvFreeEnd ==
  ASSUME Bounded, Inv, FreeEnd
  PROVE  Inv'
<1>n. PICK n \in Nat \ {0}, d \in Nat : n = Len(chunks) /\ d = Len(marks) /\ (d + 1) - 1 = d
  BY Numbers
<1>d. d = Len(blocks) /\ n \in 1..n
  BY <1>n, Numbers
<1>1. ~Running
  BY DEF FreeEnd
<1>2. PICK m \in Marker : m = back
  BY <1>1, GoingBack
<1>3. /\ SoundAt(m, d + 1, n) /\ m.alloc_point <= chunks[n].point
      /\ \A f \in 1..d, i \in 1..n :
           Noted(marks[f], i) => (i = n => marks[f].alloc_point <= m.alloc_point)
      /\ \A f \in 1..d : \A b \in blocks[f] : \E j \in 2..n : Under(b, j, n, m.alloc_point)
  <2>1. PICK k \in 1..n :
          /\ SoundAt(m, d + 1, k) /\ (Above(m) <=> k # n) /\ m.alloc_point <= chunks[k].point
          /\ \A f \in 1..d, i \in 1..n :
               Noted(marks[f], i) => i <= k /\ (i = k => marks[f].alloc_point <= m.alloc_point)
          /\ \A f \in 1..d : \A b \in blocks[f] : \E j \in 2..k : Under(b, j, k, m.alloc_point)
    BY <1>1, <1>2, <1>n, GoingBack
  <2>2. k = n
    BY <1>2, <2>1 DEF FreeEnd
  <2> QED BY <2>1, <2>2
<1>c. chunks[n] \in Chunk
  BY <1>n, <1>d, Numbers
<1>4. PICK r \in Chunk : r = [at |-> chunks[n].at, end |-> chunks[n].end, point |-> m.alloc_point]
  BY <1>c DEF Chunk, Marker
<1>r. r.at = chunks[n].at /\ r.end = chunks[n].end /\ r.point = m.alloc_point
  BY <1>4
<1>5. /\ chunks' = [chunks EXCEPT ![n] = r] /\ back' = NoMarker
      /\ total' = total /\ max' = max /\ marks' = marks /\ blocks' = blocks
  BY <1>2, <1>4, <1>n DEF FreeEnd, current, Last
<1>6. /\ chunks' \in Seq(Chunk) /\ Len(chunks') = n /\ chunks'[n] = r
      /\ \A i \in 1..n : i # n => chunks'[i] = chunks[i]
  <2>1. chunks \in Seq(Chunk)
    BY DEF Inv, Shape
  <2> QED BY <1>5, <1>n, <1>d, <2>1, ExceptSeq
<1>7. /\ n = 1 => m.alloc_point = Memory
      /\ n # 1 => /\ chunks[n].at + HeaderSize <= m.alloc_point /\ m.alloc_point % Align = 0
                  /\ chunks[n].point <= chunks[n].end /\ chunks[n].at % Align = 0
  <2>1. n # 1 => n \in 2..n
    BY <1>n
  <2>2. n # 1 => chunks[n].point <= chunks[n].end /\ chunks[n].at % Align = 0
    BY <1>n, <2>1 DEF Inv, ChunksSound
  <2>3. Noted(m, n)
    BY <1>3 DEF SoundAt
  <2> QED BY <2>2, <2>3 DEF Noted
<1>i. /\ chunks[n].at \in Int /\ chunks[n].end \in Int /\ chunks[n].point \in Int
      /\ m.alloc_point \in Int /\ HeaderSize \in Int
  BY <1>n, <1>d, Numbers, Constants DEF Marker
<1>8. Shape'
  <2>1. chunks'[1] = Xxx
    <3>1. CASE n = 1
      <4>1. chunks[1] = Xxx
        BY DEF Inv, Shape
      <4>2. r = [at |-> Memory, end |-> Memory, point |-> Memory]
        BY <1>4, <1>7, <3>1, <4>1 DEF Xxx
      <4> QED BY <1>6, <3>1, <4>2 DEF Xxx
    <3>2. CASE n # 1
      BY <1>6, <3>2, <1>n DEF Inv, Shape
    <3> QED BY <3>1, <3>2
  <2> QED BY <1>5, <1>6, <1>n, <2>1 DEF Inv, Shape
<1>9. ChunksSound'
  <2>0. \A i \in 2..n : i \in 1..n /\ i \in 2..Len(chunks)
    BY <1>n
  <2>1. ASSUME NEW i \in 2..n
        PROVE  /\ chunks'[i].at = chunks[i].at /\ chunks'[i].end = chunks[i].end
               /\ chunks'[i].at + HeaderSize <= chunks'[i].point
               /\ chunks'[i].point <= chunks'[i].end
               /\ chunks'[i].at % Align = 0 /\ chunks'[i].point % Align = 0
    <3>1. CASE i = n
      BY <1>3, <1>6, <1>7, <1>i, <1>r, <3>1
    <3>2. CASE i # n
      BY <1>6, <2>0, <3>2 DEF Inv, ChunksSound
    <3> QED BY <3>1, <3>2
  <2>2. \A i, j \in 2..n :
          i = j \/ chunks'[i].end <= chunks'[j].at \/ chunks'[j].end <= chunks'[i].at
    BY <2>0, <2>1 DEF Inv, ChunksSound
  <2> QED BY <1>6, <2>1, <2>2 DEF ChunksSound
<1>10. Counted'
  <2>1. PICK cs \in Seq(Chunk), ds \in Seq(Chunk) : cs = chunks /\ ds = chunks'
    BY <1>6 DEF Inv, Shape
  <2>2. \A i \in 1..n : ds[i].at = cs[i].at /\ ds[i].end = cs[i].end
    BY <1>6, <1>r, <2>1
  <2>3. Allotted(ds) = Allotted(cs)
    <3>1. cs # <<>> /\ Len(ds) = Len(cs) /\ Len(cs) = n
      BY <1>6, <1>n, <2>1
    <3> QED BY <2>2, <3>1, AllottedSame
  <2> QED BY <1>5, <2>1, <2>3 DEF Inv, Counted
<1>11. MarksSound'
  <2> SUFFICES ASSUME NEW f \in 1..d PROVE Sound(marks[f], f)'
    BY <1>5, <1>n DEF MarksSound
  <2>1. PICK p \in Marker : p = marks[f]
    BY <1>n, Numbers
  <2>2. PICK i \in 1..n : SoundAt(p, f, i)
    BY <1>n, <2>1 DEF Inv, MarksSound, Sound
  <2>3. Noted(p, i) /\ p.alloc_point <= chunks[i].point /\ p.alloc_point \in Int
    BY <2>2, Constants DEF SoundAt, Noted, Marker
  <2>4. p.alloc_point <= chunks'[i].point /\ chunks'[i].point \in Int
    <3>1. CASE i = n
      BY <1>3, <1>6, <1>i, <1>r, <2>1, <2>3, <3>1
    <3>2. CASE i # n
      BY <1>6, <1>n, <2>3, <3>2, Numbers
    <3> QED BY <3>1, <3>2
  <2>5. \A j \in 1..i : j \in 1..n /\ (j < i => j # n)
    BY <2>2
  <2>6. \A j \in 1..i : chunks'[j].at = chunks[j].at /\ (j < i => chunks'[j] = chunks[j])
    BY <1>6, <1>r, <2>5
  <2>7. f \in Nat /\ f <= Len(marks) + 1 /\ i \in 1..Len(chunks) /\ i <= Len(chunks')
        /\ Len(chunks') \in Nat
    BY <1>6, <1>n
  <2>8. Sound(p, f)'
    BY <1>5, <2>2, <2>3, <2>4, <2>6, <2>7, SoundKept
  <2> QED BY <1>5, <2>1, <2>8 DEF Sound, SoundAt, Noted
<1>12. BackSound'
  BY <1>5 DEF BackSound, Running
\* A block that is under the new point is in its chunk still.
<1>13. ASSUME NEW b \in TmpBlock, NEW j \in 2..n, Under(b, j, n, m.alloc_point)
       PROVE  In(b, chunks'[j])
  <2>1. j \in 1..n
    OBVIOUS
  <2>2. CASE j = n
    BY <1>6, <1>13, <1>r, <2>2 DEF Under, In
  <2>3. CASE j # n
    BY <1>6, <1>13, <2>1, <2>3 DEF Under
  <2> QED BY <2>2, <2>3
<1>14. BlocksSound'
  <2> SUFFICES ASSUME NEW f \in 1..d, NEW b \in blocks[f]
               PROVE  \E i \in 2..n : In(b, chunks'[i])
    BY <1>5, <1>6, <1>d DEF BlocksSound
  <2>1. b \in TmpBlock
    BY <1>n, Numbers
  <2>2. PICK j \in 2..n : Under(b, j, n, m.alloc_point)
    BY <1>3
  <2> QED BY <1>13, <2>1, <2>2
<1>15. ChunksUsed'
  <2> SUFFICES ASSUME NEW i \in 2..n
               PROVE  \E f \in 1..d : \E b \in blocks[f] : In(b, chunks'[i])
    BY <1>5, <1>6, <1>d DEF ChunksUsed
  <2>1. PICK f \in 1..d : \E b \in blocks[f] : Under(b, i, n, m.alloc_point)
    BY <1>3, <1>n DEF SoundAt
  <2>2. PICK b \in blocks[f] : Under(b, i, n, m.alloc_point)
    BY <2>1
  <2>3. b \in TmpBlock
    BY <1>n, Numbers
  <2> QED BY <1>13, <2>2, <2>3
<1> QED BY <1>8, <1>9, <1>10, <1>11, <1>12, <1>14, <1>15 DEF Inv

\* What the innermost function has when it is given a block more.
LEMMA OneMore ==
  ASSUME Bounded, Inv, marks # <<>>, NEW c \in TmpBlock, NEW n \in Nat, GivenTo(Len(blocks), c.at, n),
         c.n = n
  PROVE  /\ Len(marks) \in Nat \ {0} /\ Len(blocks') = Len(marks)
         /\ blocks' \in Seq(SUBSET TmpBlock)
         /\ blocks'[Len(marks)] = blocks[Len(marks)] \cup {c}
         /\ \A f \in 1..Len(marks) : f # Len(marks) => blocks'[f] = blocks[f]
<1>d. PICK d \in Nat \ {0} : d = Len(marks) /\ d = Len(blocks)
  <2>1. marks \in Seq(Marker) /\ Len(blocks) = Len(marks)
    BY DEF Inv, Shape
  <2> QED BY <2>1, EmptySeq
<1>1. c = [at |-> c.at, n |-> n]
  BY DEF TmpBlock
<1>2. PICK S \in SUBSET TmpBlock : S = blocks[d] \cup {c}
  <2>1. d \in 1..Len(marks)
    BY <1>d
  <2>2. blocks[d] \in SUBSET TmpBlock
    BY <1>d, <2>1, Numbers
  <2> QED BY <2>2
<1>3. blocks' = [blocks EXCEPT ![d] = S]
  BY <1>1, <1>2, <1>d DEF GivenTo
<1>4. blocks \in Seq(SUBSET TmpBlock) /\ d \in 1..d
  BY <1>d DEF Inv, Shape
<1>5. /\ blocks' \in Seq(SUBSET TmpBlock) /\ Len(blocks') = d /\ blocks'[d] = S
      /\ \A f \in 1..d : f # d => blocks'[f] = blocks[f]
  BY <1>3, <1>4, <1>d, ExceptSeq
<1> QED BY <1>2, <1>5, <1>d

\* A block more in the last chunk, old or new, keeps the marks, the blocks and the use of the
\* chunks there were.
LEMMA MoreKept ==
  ASSUME Bounded, Inv, Running, marks # <<>>, NEW c \in TmpBlock, NEW n \in Nat,
         GivenTo(Len(blocks), c.at, n), c.n = n, Growing, marks' = marks, back' = back,
         Len(chunks') \in 2..(Len(chunks) + 1), In(c, chunks'[Len(chunks')])
  PROVE  MarksSound' /\ BackSound' /\ BlocksSound' /\ ChunksUsed'
<1>d. PICK d \in Nat \ {0}, e \in Nat \ {0} :
        d = Len(marks) /\ d = Len(blocks') /\ d = Len(blocks) /\ e = Len(chunks')
  <2>1. Len(chunks') \in Nat \ {0}
    BY Numbers
  <2> QED BY <2>1, OneMore, Numbers
<1>1. /\ blocks'[d] = blocks[d] \cup {c} /\ \A f \in 1..d : f # d => blocks'[f] = blocks[f]
  BY <1>d, OneMore
<1>2. e \in 2..e
  BY <1>d, Numbers
<1>3. MarksSound'
  <2> SUFFICES ASSUME NEW f \in 1..d PROVE Sound(marks[f], f)'
    BY <1>d DEF MarksSound
  <2>1. \A g \in 1..(f - 1) : g \in 1..d /\ g # d
    BY <1>d
  <2>2. \A g \in 1..(f - 1) : blocks'[g] = blocks[g]
    BY <1>1, <2>1
  <2> QED BY <1>d, <2>2, MarksKept
<1>4. BackSound'
  BY DEF BackSound, Running
<1>5. BlocksSound'
  <2> SUFFICES ASSUME NEW f \in 1..d, NEW b \in blocks'[f]
               PROVE  \E i \in 2..e : In(b, chunks'[i])
    BY <1>d DEF BlocksSound
  <2>1. CASE b \in blocks[f]
    <3>1. f \in 1..Len(marks)
      BY <1>d
    <3>2. \E i \in 2..Len(chunks') : In(b, chunks'[i])
      BY <2>1, <3>1, BlocksKept
    <3> QED BY <1>d, <3>2
  <2>2. CASE b = c
    BY <1>2, <1>d, <2>2
  <2> QED BY <1>1, <2>1, <2>2
<1>6. ChunksUsed'
  <2> SUFFICES ASSUME NEW i \in 2..e
               PROVE  \E f \in 1..d : \E b \in blocks'[f] : In(b, chunks'[i])
    BY <1>d DEF ChunksUsed
  <2>1. CASE i = e
    <3>1. c \in blocks'[d] /\ d \in 1..d
      BY <1>1
    <3> QED BY <1>d, <2>1, <3>1
  <2>2. CASE i # e
    <3>1. i \in 2..Len(chunks)
      BY <1>d, <2>2, Numbers
    <3>2. PICK f \in 1..d : \E b \in blocks[f] : In(b, chunks[i])
      BY <1>d, <3>1 DEF Inv, ChunksUsed
    <3>3. PICK b \in blocks[f] : In(b, chunks[i])
      BY <3>2
    <3>4. In(b, chunks'[i])
      <4>1. f \in 1..Len(marks)
        BY <1>d
      <4> QED BY <3>1, <3>3, <4>1, BlocksKept
    <3>5. b \in blocks'[f]
      BY <1>1
    <3> QED BY <3>4, <3>5
  <2> QED BY <2>1, <2>2
<1> QED BY <1>3, <1>4, <1>5, <1>6

\* A block from what is left of the current chunk starts at its point, an aligned address.
LEMMA InvFromCurrent ==
  ASSUME Bounded, Inv, NEW n \in Sizes, TmpAllocate(n), Fits(current, RoundUp(n))
  PROVE  /\ Inv'
         /\ \E c \in TmpBlock :
              /\ c.n = n /\ GivenTo(Len(blocks), c.at, n) /\ c.at + n <= Memory
              /\ \A f \in 1..Len(marks) : \A b \in blocks[f] : b.at + b.n <= c.at \/ c.at + n <= b.at
<1>e. PICK e \in Nat \ {0} : e = Len(chunks) /\ e \in 1..e /\ e \in 1..Len(chunks)
  BY Numbers
<1>s. PICK size \in Nat : size = RoundUp(n) /\ n <= size /\ size % Align = 0
  BY Constants
<1>n. n \in Nat /\ n >= 1
  BY Constants
<1>0. current = chunks[e]
  BY <1>e DEF current, Last
<1>1. /\ Running /\ marks # <<>> /\ marks' = marks /\ back' = back /\ total' = total /\ max' = max
      /\ GivenTo(Len(blocks), chunks[e].point, n)
      /\ chunks' = [chunks EXCEPT ![e] = Take(chunks[e], size)]
      /\ size <= chunks[e].end - chunks[e].point
  BY <1>0, <1>e, <1>s DEF TmpAllocate, FromCurrent, Fits
<1>f. size <= chunks[e].end - chunks[e].point
  BY <1>1
<1>2. /\ chunks[e] \in Chunk /\ chunks[e].at \in Nat /\ chunks[e].end \in Nat
      /\ chunks[e].point \in Nat /\ HeaderSize \in Nat
  BY <1>e, Numbers, Constants
<1>3. PICK r \in Chunk : r = Take(chunks[e], size)
  <2>1. chunks[e].point + size \in 0..Memory
    <3>1. chunks[e].end <= Memory /\ Memory \in Nat
      BY <1>2, Constants DEF Chunk
    <3> QED BY <1>1, <1>2, <3>1
  <2> QED BY <1>2, <2>1 DEF Take, Chunk
<1>4. r.at = chunks[e].at /\ r.end = chunks[e].end /\ r.point = chunks[e].point + size
  BY <1>3 DEF Take
<1>5. /\ chunks' \in Seq(Chunk) /\ Len(chunks') = e /\ chunks'[e] = r
      /\ \A i \in 1..e : i # e => chunks'[i] = chunks[i]
  <2>1. chunks \in Seq(Chunk)
    BY DEF Inv, Shape
  <2> QED BY <1>1, <1>3, <1>e, <2>1, ExceptSeq
\* xxx has no room.
<1>6. e # 1 /\ e \in 2..e
  <2>1. chunks[1].end = Memory /\ chunks[1].point = Memory /\ Memory \in Nat
    BY Constants DEF Inv, Shape, Xxx
  <2> QED BY <1>1, <1>s, <1>n, <1>e, <2>1
<1>7. /\ chunks[e].at + HeaderSize <= chunks[e].point /\ chunks[e].at % Align = 0
      /\ chunks[e].point % Align = 0
  BY <1>6, <1>e DEF Inv, ChunksSound
<1>8. r.point % Align = 0 /\ r.point <= r.end
  <2>1. PICK x \in Int, y \in Int : x = chunks[e].point /\ y = size
    BY <1>2
  <2>2. (x + y) % Align = 0
    BY <1>7, <1>s, <2>1, Constants, AlignedSum
  <2> QED BY <1>1, <1>2, <1>4, <2>1, <2>2
<1>9. PICK c \in TmpBlock : c = [at |-> chunks[e].point, n |-> n]
  BY <1>2, <1>n DEF TmpBlock
<1>10. c.at = chunks[e].point /\ c.n = n
  BY <1>9
<1>11. In(c, r)
  BY <1>2, <1>4, <1>7, <1>10, <1>s, <1>n DEF In
<1>12. Growing
  <2>1. r.point \in Int /\ chunks[e].point <= r.point
    BY <1>2, <1>4
  <2>2. \A i \in 1..e : chunks[i].point \in Int
    BY <1>e, Numbers
  <2> QED BY <1>4, <1>5, <1>e, <2>1, <2>2 DEF Growing
<1>13. MarksSound' /\ BackSound' /\ BlocksSound' /\ ChunksUsed'
  <2>1. Len(chunks') \in 2..(Len(chunks) + 1) /\ In(c, chunks'[Len(chunks')])
    BY <1>5, <1>6, <1>11, <1>e
  <2>2. GivenTo(Len(blocks), c.at, n)
    BY <1>1, <1>10
  <2> QED BY <1>1, <1>10, <1>12, <1>n, <2>1, <2>2, MoreKept
<1>14. Shape'
  <2>1. blocks' \in Seq(SUBSET TmpBlock) /\ Len(blocks') = Len(marks)
    BY <1>1, <1>10, <1>n, OneMore
  <2>2. chunks'[1] = Xxx
    BY <1>5, <1>6, <1>e DEF Inv, Shape
  <2> QED BY <1>1, <1>5, <1>e, <2>1, <2>2 DEF Inv, Shape
<1>15. ChunksSound'
  <2>0. \A i \in 2..e : i \in 1..e /\ i \in 2..Len(chunks)
    BY <1>e
  <2>1. ASSUME NEW i \in 2..e
        PROVE  /\ chunks'[i].at = chunks[i].at /\ chunks'[i].end = chunks[i].end
               /\ chunks'[i].at + HeaderSize <= chunks'[i].point
               /\ chunks'[i].point <= chunks'[i].end
               /\ chunks'[i].at % Align = 0 /\ chunks'[i].point % Align = 0
    <3>1. CASE i = e
      BY <1>2, <1>4, <1>5, <1>7, <1>8, <3>1
    <3>2. CASE i # e
      BY <1>5, <2>0, <3>2 DEF Inv, ChunksSound
    <3> QED BY <3>1, <3>2
  <2>2. \A i, j \in 2..e :
          i = j \/ chunks'[i].end <= chunks'[j].at \/ chunks'[j].end <= chunks'[i].at
    BY <2>0, <2>1 DEF Inv, ChunksSound
  <2> QED BY <1>5, <2>1, <2>2 DEF ChunksSound
<1>16. Counted'
  <2>1. PICK cs \in Seq(Chunk), ds \in Seq(Chunk) : cs = chunks /\ ds = chunks'
    BY <1>5 DEF Inv, Shape
  <2>2. \A i \in 1..e : ds[i].at = cs[i].at /\ ds[i].end = cs[i].end
    BY <1>4, <1>5, <2>1
  <2>3. Allotted(ds) = Allotted(cs)
    <3>1. cs # <<>> /\ Len(ds) = Len(cs) /\ Len(cs) = e
      BY <1>5, <1>e, <2>1
    <3> QED BY <2>2, <3>1, AllottedSame
  <2> QED BY <1>1, <2>1, <2>3 DEF Inv, Counted
<1>17. ASSUME NEW f \in 1..Len(marks), NEW b \in blocks[f]
       PROVE  b.at + b.n <= c.at \/ c.at + n <= b.at
  <2>1. PICK i \in 2..e : In(b, chunks[i])
    BY <1>e, Numbers DEF Inv, BlocksSound
  <2>2. b.at \in Int /\ b.n \in Int
    BY Numbers
  <2>3. CASE i = e
    BY <1>10, <2>1, <2>3 DEF In
  <2>4. CASE i # e
    <3>1. chunks[i].end <= chunks[e].at \/ chunks[e].end <= chunks[i].at
      BY <1>6, <1>e, <2>4 DEF Inv, ChunksSound
    <3>2. chunks[i].at \in Int /\ chunks[i].end \in Int /\ chunks[i].point \in Int
      <4>1. i \in 1..Len(chunks)
        BY <1>e
      <4> QED BY <4>1, Numbers
    <3>3. chunks[i].at + HeaderSize <= b.at /\ b.at + b.n <= chunks[i].point
      BY <2>1 DEF In
    <3>4. chunks[i].point <= chunks[i].end
      BY <1>e DEF Inv, ChunksSound
    <3>5. PICK ca \in Nat, ea \in Nat, ee \in Nat :
            ca = c.at /\ ea = chunks[e].at /\ ee = chunks[e].end
      BY <1>2, <1>10
    <3>6. PICK ia \in Int, ie \in Int, ip \in Int, ba \in Int, bn \in Int :
            /\ ia = chunks[i].at /\ ie = chunks[i].end /\ ip = chunks[i].point
            /\ ba = b.at /\ bn = b.n
      BY <2>2, <3>2
    <3>h. PICK h \in Nat : h = HeaderSize
      BY <1>2
    <3>7. ca + n <= ee /\ ea <= ca
      <4>1. n <= size /\ size <= ee - ca
        BY <1>10, <1>f, <1>s, <3>5
      <4>2. ea + h <= ca
        BY <1>7, <1>10, <3>5, <3>h
      <4> QED BY <1>n, <4>1, <4>2
    <3>8. ia <= ba /\ ba + bn <= ie
      <4>1. ia + h <= ba /\ ba + bn <= ip /\ ip <= ie
        BY <3>3, <3>4, <3>6, <3>h
      <4> QED BY <4>1
    <3>9. ie <= ea \/ ee <= ia
      BY <3>1, <3>5, <3>6
    <3>10. ba + bn <= ca \/ ca + n <= ba
      BY <1>n, <3>7, <3>8, <3>9
    <3> QED BY <3>5, <3>6, <3>10
  <2> QED BY <2>3, <2>4
<1>18. c.at + n <= Memory
  <2>1. r.point <= Memory /\ r.point \in Nat /\ Memory \in Nat
    BY Constants DEF Chunk
  <2> QED BY <1>2, <1>4, <1>10, <1>s, <1>n, <2>1
<1>19. Inv'
  BY <1>13, <1>14, <1>15, <1>16 DEF Inv
<1> QED BY <1>1, <1>10, <1>17, <1>18, <1>19

\* The next chunk has room for what it is allocated for.
LEMMA GrownRoom ==
  ASSUME Bounded, Inv, NEW size \in Nat
  PROVE  /\ Grown(size) \in Nat /\ total + size <= Grown(size) /\ total \in Nat
         /\ total <= Grown(size)
<1>1. total \in Nat /\ max \in Nat
  BY DEF Inv, Counted
<1>2. PICK a \in Nat : a = total + size
  BY <1>1
<1>3. CASE a > max
  <2>1. PICK x \in Nat : x = (a * 3) \div 2
    OBVIOUS
  <2>2. a <= x
    BY <2>1
  <2>3. RoundUp(x) \in Nat /\ x <= RoundUp(x)
    BY Constants, Rounded
  <2>4. Grown(size) = RoundUp(x)
    BY <1>2, <1>3, <2>1 DEF Grown
  <2> QED BY <1>1, <1>2, <2>2, <2>3, <2>4
<1>4. CASE ~(a > max)
  <2>1. Grown(size) = max
    BY <1>2, <1>4 DEF Grown
  <2> QED BY <1>1, <1>2, <1>4, <2>1
<1> QED BY <1>3, <1>4

\* A new chunk is apart from the others and has room for the block.
LEMMA InvFromNew ==
  ASSUME Bounded, Inv, NEW n \in Sizes, TmpAllocate(n), ~Fits(current, RoundUp(n))
  PROVE  /\ Inv'
         /\ \E c \in TmpBlock :
              /\ c.n = n /\ GivenTo(Len(blocks), c.at, n) /\ c.at + n <= Memory
              /\ \A f \in 1..Len(marks) : \A b \in blocks[f] : b.at + b.n <= c.at \/ c.at + n <= b.at
<1>e. PICK e \in Nat \ {0} : e = Len(chunks)
  BY Numbers
<1>s. PICK size \in Nat : size = RoundUp(n) /\ n <= size /\ size % Align = 0
  BY Constants
<1>n. n \in Nat /\ n >= 1 /\ HeaderSize \in Nat \ {0} /\ HeaderSize % Align = 0 /\ Memory \in Nat
  BY Constants
<1>g. PICK now \in Nat : now = Grown(size) /\ total + size <= now /\ total <= now /\ total \in Nat
  BY GrownRoom
<1>l. PICK length \in Nat : length = now - total + HeaderSize
  BY <1>g, <1>n
<1>f. FromNew(n, size) /\ Running /\ marks # <<>> /\ marks' = marks /\ back' = back
  BY <1>s DEF TmpAllocate
<1>1. PICK p \in Places(length) :
        /\ GivenTo(Len(blocks), p + HeaderSize, n)
        /\ chunks' = Append(chunks, Take([at |-> p, end |-> p + length,
                                          point |-> p + HeaderSize], size))
  BY <1>f, <1>g, <1>l DEF FromNew
<1>t. total' = now /\ max' = now
  BY <1>f, <1>g DEF FromNew
<1>2. /\ p \in Nat /\ p + length <= Memory /\ p % Align = 0
      /\ \A i \in 2..e : p + length <= chunks[i].at \/ chunks[i].end <= p
  BY <1>l, <1>n, <1>e DEF Places
<1>3. PICK point \in Nat : point = p + HeaderSize + size
  BY <1>2, <1>n
<1>4. p + HeaderSize <= point /\ point <= p + length /\ p + HeaderSize + n <= point
  BY <1>2, <1>3, <1>n, <1>s, <1>g, <1>l
<1>5. PICK r \in Chunk : r = [at |-> p, end |-> p + length, point |-> point]
  <2>1. p + length \in 0..Memory /\ p \in 0..Memory /\ point \in 0..Memory
    BY <1>2, <1>4, <1>n
  <2> QED BY <2>1 DEF Chunk
<1>6. r.at = p /\ r.end = p + length /\ r.point = point
  BY <1>5
<1>7. chunks' = Append(chunks, r)
  BY <1>1, <1>3, <1>5 DEF Take
<1>8. chunks \in Seq(Chunk)
  BY DEF Inv, Shape
<1>9. /\ chunks' \in Seq(Chunk) /\ Len(chunks') = e + 1 /\ chunks'[e + 1] = r
      /\ \A i \in 1..e : chunks'[i] = chunks[i]
  BY <1>7, <1>8, <1>e, AppendProperties
<1>10. point % Align = 0 /\ (p + HeaderSize) % Align = 0
  <2>1. PICK x \in Int : x = p + HeaderSize
    BY <1>2, <1>n
  <2>2. x % Align = 0
    BY <1>2, <1>n, <2>1, Constants, AlignedSum
  <2>3. (x + size) % Align = 0
    BY <1>s, <2>1, <2>2, Constants, AlignedSum
  <2> QED BY <1>3, <2>1, <2>2, <2>3
<1>11. PICK c \in TmpBlock : c = [at |-> p + HeaderSize, n |-> n]
  <2>1. p + HeaderSize \in Nat
    BY <1>2, <1>n
  <2> QED BY <1>n, <2>1 DEF TmpBlock
<1>12. c.at = p + HeaderSize /\ c.n = n
  BY <1>11
<1>13. In(c, r)
  BY <1>2, <1>4, <1>6, <1>10, <1>12, <1>n DEF In
<1>14. Growing
  <2>1. \A i \in 1..e : chunks[i].point \in Int
    BY <1>e, Numbers
  <2> QED BY <1>9, <1>e, <2>1 DEF Growing
<1>15. MarksSound' /\ BackSound' /\ BlocksSound' /\ ChunksUsed'
  <2>1. Len(chunks') \in 2..(Len(chunks) + 1) /\ In(c, chunks'[Len(chunks')])
    BY <1>9, <1>13, <1>e
  <2>2. GivenTo(Len(blocks), c.at, n)
    BY <1>1, <1>12
  <2> QED BY <1>f, <1>12, <1>14, <1>n, <2>1, <2>2, MoreKept
<1>16. Shape'
  <2>0. GivenTo(Len(blocks), c.at, n)
    BY <1>1, <1>12
  <2>1. blocks' \in Seq(SUBSET TmpBlock) /\ Len(blocks') = Len(marks)
    BY <1>f, <1>12, <1>n, <2>0, OneMore
  <2>2. chunks'[1] = Xxx
    BY <1>9, <1>e DEF Inv, Shape
  <2> QED BY <1>f, <1>9, <1>e, <2>1, <2>2 DEF Inv, Shape
<1>17. ChunksSound'
  <2>0. \A i \in 2..e : i \in 1..e /\ i \in 2..Len(chunks)
    BY <1>e
  <2>1. ASSUME NEW i \in 2..(e + 1)
        PROVE  /\ chunks'[i].at + HeaderSize <= chunks'[i].point
               /\ chunks'[i].point <= chunks'[i].end
               /\ chunks'[i].at % Align = 0 /\ chunks'[i].point % Align = 0
    <3>1. CASE i = e + 1
      BY <1>2, <1>4, <1>6, <1>9, <1>10, <3>1
    <3>2. CASE i # e + 1
      <4>1. i \in 2..e
        BY <3>2
      <4> QED BY <1>9, <2>0, <4>1 DEF Inv, ChunksSound
    <3> QED BY <3>1, <3>2
  <2>2. ASSUME NEW i \in 2..(e + 1), NEW j \in 2..(e + 1)
        PROVE  i = j \/ chunks'[i].end <= chunks'[j].at \/ chunks'[j].end <= chunks'[i].at
    <3>1. CASE i \in 2..e /\ j \in 2..e
      BY <1>9, <2>0, <3>1 DEF Inv, ChunksSound
    <3>2. CASE i = e + 1 /\ j \in 2..e
      <4>1. chunks'[i] = r /\ chunks'[j] = chunks[j]
        BY <1>9, <2>0, <3>2
      <4> QED BY <1>2, <1>6, <3>2, <4>1
    <3>3. CASE j = e + 1 /\ i \in 2..e
      <4>1. chunks'[j] = r /\ chunks'[i] = chunks[i]
        BY <1>9, <2>0, <3>3
      <4> QED BY <1>2, <1>6, <3>3, <4>1
    <3> QED BY <3>1, <3>2, <3>3
  <2> QED BY <1>9, <2>1, <2>2 DEF ChunksSound
<1>18. Counted'
  <2>1. PICK cs \in Seq(Chunk) : cs = chunks
    BY <1>8
  <2>2. cs # <<>>
    BY <1>e, <2>1
  <2>3. Allotted(Append(cs, r)) = Allotted(cs) + Payload(r)
    BY <2>2, AllottedMore
  <2>4. Payload(r) = now - total
    BY <1>2, <1>6, <1>n, <1>g, <1>l DEF Payload
  <2>5. Allotted(cs) = total
    BY <2>1 DEF Inv, Counted
  <2>6. Allotted(Append(cs, r)) = now
    BY <1>g, <2>3, <2>4, <2>5
  <2>7. PICK ds : ds = Append(cs, r)
    OBVIOUS
  <2>8. chunks' = ds /\ Allotted(ds) = now
    BY <1>7, <2>1, <2>6, <2>7
  <2> QED BY <1>t, <2>8 DEF Counted
<1>19. ASSUME NEW f \in 1..Len(marks), NEW b \in blocks[f]
       PROVE  b.at + b.n <= c.at \/ c.at + n <= b.at
  <2>1. PICK i \in 2..e : In(b, chunks[i])
    BY <1>e, Numbers DEF Inv, BlocksSound
  <2>2. i \in 1..Len(chunks)
    BY <1>e
  <2>3. chunks[i].point <= chunks[i].end
    BY <1>e DEF Inv, ChunksSound
  <2>b. b.at \in Int /\ b.n \in Int
    <3>1. \A g \in 1..Len(marks) : \A q \in blocks[g] : q.at \in Nat /\ q.n \in Nat
      BY Numbers
    <3> QED BY <3>1
  <2>c. chunks[i].at \in Int /\ chunks[i].end \in Int /\ chunks[i].point \in Int
    BY <2>2, Numbers
  <2>d. c.at \in Int
    BY <1>2, <1>12, <1>n
  <2>4. PICK ia \in Int, ie \in Int, ip \in Int, ba \in Int, bn \in Int, ca \in Int :
          /\ ia = chunks[i].at /\ ie = chunks[i].end /\ ip = chunks[i].point
          /\ ba = b.at /\ bn = b.n /\ ca = c.at
    BY <2>b, <2>c, <2>d
  <2>5. ia + HeaderSize <= ba /\ ba + bn <= ip /\ ip <= ie
    BY <2>1, <2>3, <2>4 DEF In
  <2>6. p + length <= ia \/ ie <= p
    BY <1>2, <2>4
  <2>7. ca = p + HeaderSize /\ ca + n <= p + length
    BY <1>2, <1>3, <1>4, <1>12, <1>n, <1>s, <1>l, <2>4
  <2>8. ba + bn <= ca \/ ca + n <= ba
    BY <1>2, <1>n, <1>l, <2>5, <2>6, <2>7
  <2> QED BY <2>4, <2>8
<1>20. c.at + n <= Memory
  BY <1>2, <1>3, <1>4, <1>12, <1>n
<1>21. Inv'
  BY <1>15, <1>16, <1>17, <1>18 DEF Inv
<1>22. GivenTo(Len(blocks), c.at, n)
  BY <1>1, <1>12
<1> QED BY <1>12, <1>19, <1>20, <1>21, <1>22

\* Every step keeps the invariant.
LEMMA InvNext == Bounded /\ Inv /\ [Next]_vars => Inv'
<1> SUFFICES ASSUME Bounded, Inv, [Next]_vars PROVE Inv'
  OBVIOUS
<1>1. CASE TmpMark
  BY <1>1, InvMark
<1>2. CASE TmpFree
  BY <1>2, InvFree
<1>3. CASE FreeChunk
  BY <1>3, InvFreeChunk
<1>4. CASE FreeEnd
  BY <1>4, InvFreeEnd
<1>5. CASE TmpReturn
  BY <1>5, InvReturn
<1>6. ASSUME NEW n \in Sizes, TmpAllocate(n) PROVE Inv'
  <2>1. CASE Fits(current, RoundUp(n))
    BY <1>6, <2>1, InvFromCurrent
  <2>2. CASE ~Fits(current, RoundUp(n))
    BY <1>6, <2>2, InvFromNew
  <2> QED BY <2>1, <2>2
<1>7. CASE UNCHANGED vars
  <2>1. /\ chunks' = chunks /\ total' = total /\ max' = max
        /\ marks' = marks /\ blocks' = blocks /\ back' = back
    BY <1>7 DEF vars
  <2>2. Shape' /\ ChunksSound' /\ Counted' /\ BlocksSound'
    BY <2>1 DEF Inv, Shape, ChunksSound, Counted, BlocksSound
  <2>3. MarksSound'
    <3> SUFFICES ASSUME NEW f \in 1..Len(marks) PROVE Sound(marks[f], f)'
      BY <2>1 DEF MarksSound
    <3> QED BY <2>1, SameGrowing, MarksKept
  <2>4. BackSound'
    <3>1. ASSUME ~Running PROVE Sound(back, Len(marks) + 1)'
      <4>1. PICK m \in Marker : m = back
        BY <3>1, GoingBack
      <4>2. PICK d \in Nat : d = Len(marks)
        BY Numbers
      <4>3. PICK k \in 1..Len(chunks) : SoundAt(m, d + 1, k)
        BY <3>1, <4>1, <4>2 DEF Inv, BackSound, Sound
      <4>4. /\ m.alloc_point <= chunks[k].point /\ m.alloc_point \in Int /\ chunks[k].point \in Int
            /\ Len(chunks) \in Nat /\ k <= Len(chunks)
        BY <4>3, Numbers, Constants DEF SoundAt, Noted, Marker
      <4>5. Sound(m, d + 1)'
        BY <2>1, <4>2, <4>3, <4>4, SoundKept
      <4>6. (Len(marks) + 1)' = d + 1 /\ back' = m
        BY <2>1, <4>1, <4>2
      <4> QED BY <4>5, <4>6 DEF Sound, SoundAt, Noted
    <3> QED BY <2>1, <3>1 DEF BackSound, Running
  <2>5. ChunksUsed'
    BY <2>1 DEF Inv, ChunksUsed, Running
  <2> QED BY <2>2, <2>3, <2>4, <2>5 DEF Inv
<1> QED BY <1>1, <1>2, <1>3, <1>4, <1>5, <1>6, <1>7 DEF Next

\* The invariant holds always.
LEMMA InvAlways ==
  ASSUME Bounded
  PROVE  Spec => []Inv
<1>1. Init => Inv
  BY InvInit
<1>2. Inv /\ [Next]_vars => Inv'
  BY InvNext
<1> QED BY <1>1, <1>2, PTL DEF Spec

-----------------------------------------------------------------------------
(* What follows for the blocks and the counts. *)

\* Every block that is held is aligned and lies in a chunk that is allocated, after its header
\* and before its point: TMP_FREE never frees a chunk with a block of a function that is still
\* active, and never takes the point back into one.
THEOREM InsideAlways ==
  ASSUME Bounded
  PROVE  Spec => []Inside
<1>1. Inv => Inside
  <2> SUFFICES ASSUME Inv PROVE Inside
    OBVIOUS
  <2> SUFFICES ASSUME NEW f \in 1..Len(blocks), NEW b \in blocks[f]
               PROVE  /\ b.at % Align = 0
                      /\ \E i \in 2..Len(chunks) :
                           /\ chunks[i].at + HeaderSize <= b.at /\ b.at + b.n <= chunks[i].point
                           /\ chunks[i].point <= chunks[i].end
    BY DEF Inside
  <2>1. PICK i \in 2..Len(chunks) : In(b, chunks[i])
    BY DEF Inv, BlocksSound
  <2>2. chunks[i].point <= chunks[i].end
    BY DEF Inv, ChunksSound
  <2> QED BY <2>1, <2>2 DEF In
<1> QED BY <1>1, InvAlways, PTL

\* The total is exactly what the chunks have for blocks and never above its maximum, and when no
\* function is active every chunk has been freed.
THEOREM AccountingAlways ==
  ASSUME Bounded
  PROVE  Spec => []Accounting
<1>1. Inv => Accounting
  <2> SUFFICES ASSUME Inv PROVE Accounting
    OBVIOUS
  <2>1. total = Allotted(chunks) /\ total <= max
    BY DEF Inv, Counted
  <2>2. ASSUME marks = <<>>, Running PROVE chunks = <<Xxx>>
    <3>1. Len(blocks) = 0
      BY <2>2 DEF Inv, Shape
    <3>2. ~\E i \in 2..Len(chunks) : TRUE
      BY <2>2, <3>1 DEF Inv, ChunksUsed
    <3>3. chunks \in Seq(Chunk) /\ Len(chunks) > 0 /\ chunks[1] = Xxx
      BY DEF Inv, Shape
    <3>4. PICK n \in Nat : n = Len(chunks)
      BY <3>3
    <3>5. n = 1
      <4>1. n < 2
        <5>1. n \notin 2..n
          BY <3>2, <3>4
        <5> QED BY <5>1
      <4> QED BY <3>3, <3>4, <4>1
    <3>6. Xxx \in Chunk
      <4>1. Xxx = [at |-> Memory, end |-> Memory, point |-> Memory] /\ Memory \in 0..Memory
        BY Constants DEF Xxx
      <4> QED BY <4>1 DEF Chunk
    <3>7. PICK s : s = <<Xxx>>
      OBVIOUS
    <3>8. s \in Seq(Chunk) /\ Len(s) = 1 /\ s[1] = Xxx
      BY <3>6, <3>7
    <3>9. Len(s) = Len(chunks) /\ \A i \in 1..Len(s) : s[i] = chunks[i]
      BY <3>3, <3>4, <3>5, <3>8
    <3>10. s = chunks
      BY <3>3, <3>8, <3>9, SeqEqual
    <3> QED BY <3>7, <3>10
  <2> QED BY <2>1, <2>2 DEF Accounting
<1> QED BY <1>1, InvAlways, PTL

-----------------------------------------------------------------------------
(* The promise of TMP_ALLOC. *)

\* The regions of every function.
RegionsOf(bs) == [i \in 1..Len(bs) |-> {Cells(b) : b \in bs[i]}]

Cellsets == SUBSET (SUBSET Int)

\* They are a sequence, as long as the one of the blocks.
LEMMA RegionsSeq ==
  ASSUME NEW bs \in Seq(SUBSET TmpBlock)
  PROVE  /\ RegionsOf(bs) \in Seq(Cellsets) /\ Len(RegionsOf(bs)) = Len(bs)
         /\ \A i \in 1..Len(bs) : RegionsOf(bs)[i] = {Cells(b) : b \in bs[i]}
<1>1. PICK n \in Nat : n = Len(bs)
  OBVIOUS
<1>2. PICK rs : rs = RegionsOf(bs)
  OBVIOUS
<1>3. ASSUME NEW i \in 1..n PROVE {Cells(b) : b \in bs[i]} \in Cellsets
  <2>1. \A b \in bs[i] : b \in TmpBlock
    BY <1>1
  <2>2. \A b \in TmpBlock : Cells(b) \in SUBSET Int
    BY DEF Cells, TmpBlock
  <2> QED BY <2>1, <2>2 DEF Cellsets
<1>4. rs = [i \in 1..n |-> {Cells(b) : b \in bs[i]}]
  BY <1>1, <1>2 DEF RegionsOf
<1>5. rs \in [1..n -> Cellsets]
  BY <1>3, <1>4
<1>6. rs \in Seq(Cellsets) /\ Len(rs) = n
  BY <1>5
<1>7. \A i \in 1..n : rs[i] = {Cells(b) : b \in bs[i]}
  BY <1>4
<1> QED BY <1>1, <1>2, <1>6, <1>7

\* What the functions hold, before and after a step.
LEMMA GrantedIs ==
  ASSUME Inv, Inv'
  PROVE  /\ blocks \in Seq(SUBSET TmpBlock) /\ blocks' \in Seq(SUBSET TmpBlock)
         /\ Granted = [t \in {"main"} |-> RegionsOf(blocks)]
         /\ Granted' = [t \in {"main"} |-> RegionsOf(blocks')]
BY DEF Inv, Shape, Granted, RegionsOf

\* TMP_MARK.
LEMMA StepMark ==
  ASSUME Inv, Inv', TmpMark
  PROVE  Tmp!Mark("main")
<1>1. PICK bs \in Seq(SUBSET TmpBlock), cs \in Seq(SUBSET TmpBlock) :
        bs = blocks /\ cs = blocks'
  BY GrantedIs
<1>2. cs = Append(bs, {})
  BY <1>1 DEF TmpMark
<1>3. PICK n \in Nat : n = Len(bs)
  OBVIOUS
<1>4. Len(cs) = n + 1 /\ cs[n + 1] = {} /\ \A i \in 1..n : cs[i] = bs[i]
  BY <1>2, <1>3
<1>5. PICK rs \in Seq(Cellsets), ss \in Seq(Cellsets) : rs = RegionsOf(bs) /\ ss = RegionsOf(cs)
  BY RegionsSeq
<1>6. /\ Len(rs) = n /\ \A i \in 1..n : rs[i] = {Cells(b) : b \in bs[i]}
      /\ Len(ss) = n + 1 /\ \A i \in 1..(n + 1) : ss[i] = {Cells(b) : b \in cs[i]}
  BY <1>3, <1>4, <1>5, RegionsSeq
<1>7. PICK ts : ts = Append(rs, {})
  OBVIOUS
<1>8. ts \in Seq(Cellsets) /\ Len(ts) = n + 1 /\ ts[n + 1] = {} /\ \A i \in 1..n : ts[i] = rs[i]
  <2>1. {} \in Cellsets
    BY DEF Cellsets
  <2> QED BY <1>6, <1>7, <2>1, AppendProperties
<1>9. ASSUME NEW i \in 1..(n + 1) PROVE ss[i] = ts[i]
  <2>1. CASE i = n + 1
    BY <1>4, <1>6, <1>8, <2>1
  <2>2. CASE i # n + 1
    <3>1. i \in 1..n
      BY <2>2
    <3> QED BY <1>4, <1>6, <1>8, <3>1
  <2> QED BY <2>1, <2>2
<1>10. ss = ts
  BY <1>6, <1>8, <1>9, SeqEqual
<1>11. Granted = [t \in {"main"} |-> rs] /\ Granted' = [t \in {"main"} |-> Append(rs, {})]
  BY <1>1, <1>5, <1>7, <1>10, GrantedIs
<1> QED BY <1>11 DEF Tmp!Mark

\* TMP_FREE takes the blocks of the innermost function, before it goes back to its mark, and
\* so does a return without it.
LEMMA StepFree ==
  ASSUME Inv, Inv', marks # <<>>, blocks' = Front(blocks)
  PROVE  Tmp!Free("main")
<1>1. PICK bs \in Seq(SUBSET TmpBlock), cs \in Seq(SUBSET TmpBlock) :
        bs = blocks /\ cs = blocks'
  BY GrantedIs
<1>2. cs = Front(bs)
  BY <1>1
<1>3. PICK n \in Nat \ {0} : n = Len(bs)
  <2>1. marks \in Seq(Marker) /\ Len(blocks) = Len(marks)
    BY DEF Inv, Shape
  <2>2. Len(bs) \in Nat /\ Len(bs) # 0
    BY <1>1, <2>1, EmptySeq
  <2> QED BY <2>2
<1>4. Len(cs) = n - 1 /\ \A i \in 1..(n - 1) : cs[i] = bs[i]
  <2>1. Len(bs) > 0
    BY <1>3
  <2>2. Len(Front(bs)) = Len(bs) - 1 /\ \A i \in 1..Len(Front(bs)) : Front(bs)[i] = bs[i]
    BY <2>1, FrontLast
  <2> QED BY <1>2, <1>3, <2>2
<1>5. PICK rs \in Seq(Cellsets), ss \in Seq(Cellsets) : rs = RegionsOf(bs) /\ ss = RegionsOf(cs)
  BY RegionsSeq
<1>6. /\ Len(rs) = n /\ \A i \in 1..n : rs[i] = {Cells(b) : b \in bs[i]}
      /\ Len(ss) = n - 1 /\ \A i \in 1..(n - 1) : ss[i] = {Cells(b) : b \in cs[i]}
  BY <1>3, <1>4, <1>5, RegionsSeq
<1>7. PICK ts : ts = SubSeq(rs, 1, n - 1)
  OBVIOUS
<1>8. ts \in Seq(Cellsets) /\ Len(ts) = n - 1 /\ \A i \in 1..(n - 1) : ts[i] = rs[i]
  BY <1>6, <1>7
<1>9. ASSUME NEW i \in 1..(n - 1) PROVE ss[i] = ts[i]
  <2>1. i \in 1..n
    OBVIOUS
  <2> QED BY <1>4, <1>6, <1>8, <2>1
<1>10. ss = ts
  BY <1>6, <1>8, <1>9, SeqEqual
<1>11. /\ Granted = [t \in {"main"} |-> rs] /\ rs # <<>>
       /\ Granted' = [t \in {"main"} |-> SubSeq(rs, 1, Len(rs) - 1)]
  BY <1>1, <1>5, <1>6, <1>7, <1>10, GrantedIs
<1> QED BY <1>11 DEF Tmp!Free

\* TMP_ALLOC gives bytes that nobody holds.
LEMMA StepAlloc ==
  ASSUME Bounded, Inv, Inv', NEW n \in Sizes, TmpAllocate(n)
  PROVE  \E r \in Regions : Tmp!Alloc("main", r)
<1>1. PICK c \in TmpBlock :
        /\ c.n = n /\ GivenTo(Len(blocks), c.at, n) /\ c.at + n <= Memory
        /\ \A f \in 1..Len(marks) : \A b \in blocks[f] : b.at + b.n <= c.at \/ c.at + n <= b.at
  BY InvFromCurrent, InvFromNew
<1>2. n \in Nat /\ n >= 1 /\ Memory \in Nat /\ c.at \in Nat
  BY Constants DEF TmpBlock
<1>3. Cells(c) \in Regions
  <2>1. PICK a \in 0..(Memory - 1) : a = c.at
    BY <1>1, <1>2
  <2> QED BY <1>1, <2>1 DEF Cells, Regions
<1>4. PICK bs \in Seq(SUBSET TmpBlock), cs \in Seq(SUBSET TmpBlock) :
        bs = blocks /\ cs = blocks'
  BY GrantedIs
<1>m. marks # <<>>
  BY DEF TmpAllocate
<1>5. PICK d \in Nat \ {0} : /\ d = Len(bs) /\ d = Len(marks)
                             /\ Len(cs) = d /\ cs[d] = bs[d] \cup {c}
                             /\ \A f \in 1..d : f # d => cs[f] = bs[f]
  <2>1. /\ Len(marks) \in Nat \ {0} /\ Len(blocks') = Len(marks)
        /\ blocks'[Len(marks)] = blocks[Len(marks)] \cup {c}
        /\ \A f \in 1..Len(marks) : f # Len(marks) => blocks'[f] = blocks[f]
    BY <1>m, <1>1, <1>2, OneMore
  <2>2. Len(blocks) = Len(marks)
    BY DEF Inv, Shape
  <2> QED BY <1>4, <2>1, <2>2
<1>6. PICK rs \in Seq(Cellsets), ss \in Seq(Cellsets) : rs = RegionsOf(bs) /\ ss = RegionsOf(cs)
  BY RegionsSeq
<1>7. /\ Len(rs) = d /\ \A i \in 1..d : rs[i] = {Cells(b) : b \in bs[i]}
      /\ Len(ss) = d /\ \A i \in 1..d : ss[i] = {Cells(b) : b \in cs[i]}
  BY <1>5, <1>6, RegionsSeq
<1>8. d \in 1..d /\ ss[d] = rs[d] \cup {Cells(c)}
  BY <1>5, <1>7
<1>9. PICK ts : ts = [rs EXCEPT ![d] = rs[d] \cup {Cells(c)}]
  OBVIOUS
<1>10. /\ ts \in Seq(Cellsets) /\ Len(ts) = d
       /\ \A i \in 1..d : ts[i] = IF i = d THEN rs[d] \cup {Cells(c)} ELSE rs[i]
  <2>1. rs[d] \cup {Cells(c)} \in Cellsets
    <3>1. ss[d] \in Cellsets
      BY <1>7, <1>8, ElementOfSeq
    <3> QED BY <1>8, <3>1
  <2> QED BY <1>7, <1>8, <1>9, <2>1, ExceptSeq
<1>11. ASSUME NEW i \in 1..d PROVE ss[i] = ts[i]
  <2>1. CASE i = d
    BY <1>8, <1>10, <2>1
  <2>2. CASE i # d
    <3>1. cs[i] = bs[i]
      BY <1>5, <2>2
    <3> QED BY <1>7, <1>10, <2>2, <3>1
  <2> QED BY <2>1, <2>2
<1>12. ss = ts
  BY <1>7, <1>10, <1>11, SeqEqual
<1>13. Granted = [t \in {"main"} |-> rs] /\ Granted' = [t \in {"main"} |-> ss]
  BY <1>4, <1>6, GrantedIs
<1>14. ASSUME NEW q \in Tmp!Held PROVE q \cap Cells(c) = {}
  <2>1. PICK f \in 1..d : q \in rs[f]
    BY <1>7, <1>13 DEF Tmp!Held, Tmp!Holding
  <2>2. PICK b \in bs[f] : q = Cells(b)
    BY <1>7, <2>1
  <2>3. b \in TmpBlock
    BY <1>5
  <2>4. PICK x \in Nat, y \in Nat, z \in Nat : x = b.at /\ y = b.n /\ z = c.at
    BY <1>2, <2>3 DEF TmpBlock
  <2>5. x + y <= z \/ z + n <= x
    BY <1>1, <1>4, <1>5, <2>4
  <2>6. q = x..(x + y - 1) /\ Cells(c) = z..(z + n - 1)
    BY <1>1, <2>2, <2>4 DEF Cells
  <2> QED BY <1>2, <2>5, <2>6
<1>15. Granted["main"] # <<>> /\ Granted["main"] = rs
  BY <1>7, <1>13
<1>16. Granted' = [Granted EXCEPT !["main"] = ts]
  BY <1>12, <1>13
<1>17. Tmp!Alloc("main", Cells(c))
  BY <1>7, <1>9, <1>14, <1>15, <1>16 DEF Tmp!Alloc
<1> QED BY <1>3, <1>17

\* No block overlaps one that is held, however the marks cut the chunks, and TMP_FREE takes back
\* the blocks of the function that calls it and no others: the stack of chunks implements what
\* TMP_ALLOC promises.
THEOREM KeepsPromise ==
  ASSUME Bounded
  PROVE  Spec => StackPromise
<1>1. Init => Tmp!Init
  BY DEF Init, Tmp!Init, Granted
<1>2. Inv /\ Inv' /\ [Next]_vars => [Tmp!Next]_Granted
  <2> SUFFICES ASSUME Inv, Inv', [Next]_vars
               PROVE  Tmp!Next \/ Granted' = Granted
    OBVIOUS
  <2>1. CASE TmpMark
    BY <2>1, StepMark DEF Tmp!Next
  <2>2. CASE TmpFree
    BY <2>2, StepFree DEF TmpFree, Tmp!Next
  <2>3. CASE TmpReturn
    BY <2>3, StepFree DEF TmpReturn, Tmp!Next
  <2>4. ASSUME NEW n \in Sizes, TmpAllocate(n) PROVE Tmp!Next
    BY <2>4, StepAlloc DEF Tmp!Next
  <2>5. CASE blocks' = blocks
    BY <2>5 DEF Granted
  <2>6. CASE FreeChunk \/ FreeEnd
    BY <2>5, <2>6 DEF FreeChunk, FreeEnd
  <2>7. CASE UNCHANGED vars
    BY <2>5, <2>7 DEF vars
  <2> QED BY <2>1, <2>2, <2>3, <2>4, <2>6, <2>7 DEF Next
<1> QED BY <1>1, <1>2, InvAlways, PTL DEF Spec, StackPromise, Tmp!Spec
===============================================================================
