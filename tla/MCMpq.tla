------------------------------- MODULE MCMpq -------------------------------
(***************************************************************************)
(* One call from every state of a few fractions in p1 and q1, which have   *)
(* one or two limbs of three bits in each part, in blocks that fit exactly *)
(* or have room. r1 is 0, as mpq_init leaves it, or not initialised. p1    *)
(* may also be no canonical fraction, for mpq_canonicalize.                *)
(***************************************************************************)
EXTENDS Mpq, TLC

CONSTANTS p1, q1, r1, z1, Spare

VARIABLE called

callVars == <<store, val, ended, called>>

MCVar == UNION {{Num(x), Den(x)} : x \in {p1, q1, r1}} \cup {Int1(z1)}
           \cup TmpSpace
\* Every part of a rational lives in the block of its own name.
MCBlock == {Num(x) : x \in {p1, q1, r1}} \cup {Den(x) : x \in {p1, q1, r1}} \cup {Int1(z1)} \cup TmpSpace \cup Spare

MCWords == {-4, 0, 2, 7}
MCFloats ==
  {[size |-> 0, exp |-> 0, m |-> 0]}
    \cup [size : {1, -1}, exp : -1..2, m : {1, 4}]
    \cup [size : {2}, exp : -1..3, m : {8, 12, 21, 48}]

Over(n, dens) == {Q!Frac(n, d) : d \in dens}
First == {0, 1, -1, 4, -7, 12, 35}
Fractions ==
  {f \in UNION {Over(n, {1, 4, 6, 9, 12}) : n \in First} : Q!Canonical(f)}
Raw == UNION {Over(n, {-12, -3, 0, 2, 8, 12, 18}) : n \in {0, 1, -6, 12, 30}}
Integers1 == {-1, 0, 6}
\* p1 and q1 are interchangeable.
Before(f, g) == f.num < g.num \/ (f.num = g.num /\ f.den <= g.den)

Limbs(n) == Cardinality({k \in 0..3 : Abs(n) >= B^k})

\* The structs with these values, in blocks of room(x) limbs or as many as they need.
Start(values, live, room(_)) ==
  LET in(x) == x \in DOMAIN values
      len(x) == IF in(x) THEN Larger(room(x), Limbs(values[x])) ELSE 0
  IN  [alloc  |-> [x \in Struct |-> len(x)],
       size   |-> [x \in Struct |-> IF in(x) THEN Signed(values[x] < 0, Limbs(values[x])) ELSE 0],
       d      |-> [x \in Struct |-> IF len(x) > 0 THEN x ELSE Null],
       len    |-> [b \in Block |-> IF b \in TmpSpace THEN Idle ELSE len(b)],
       limbs  |-> [b \in Block |-> IF len(b) = 0 THEN 0
                                   ELSE Abs(values[b]) + Ones(Limbs(values[b]), len(b))],
       live   |-> live,
       fault  |-> FALSE,
       status |-> "run"]

Begin(f, g, n, withR, spare) ==
  LET rat(x, h) == (Num(x) :> h.num) @@ (Den(x) :> h.den)
      values == rat(p1, f) @@ rat(q1, g) @@ (Int1(z1) :> n)
                  @@ (IF withR THEN rat(r1, Q!OverUnit(0)) ELSE <<>>)
  IN  /\ store = Start(values, DOMAIN values, LAMBDA x : IF x = Int1(z1) THEN 0 ELSE spare)
      /\ val = [x \in Client |-> CASE x = p1 -> f [] x = q1 -> g [] x = r1 -> Q!OverUnit(0)
                                   [] OTHER -> Q!OverUnit(n)]
      /\ ended = FALSE /\ called = FALSE

CallInit ==
  \/ \E f, g \in Fractions, spare \in {0, 5} :
       Before(f, g) /\ Begin(f, g, 6, TRUE, spare)
  \/ \E f \in Raw, n \in Integers1, spare \in {0, 4}, withR \in BOOLEAN :
       Begin(f, Q!OverUnit(1), n, withR, spare)

Call == ~called /\ called' = TRUE /\ Next

CallSpec == CallInit /\ [][Call]_callVars

\* What the comparisons say of the rationals the calls start from.
ReadersAtFirst == ~called => Readers
=============================================================================
