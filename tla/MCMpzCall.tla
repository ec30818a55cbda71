----------------------------- MODULE MCMpzCall -----------------------------
(***************************************************************************)
(* One call from every state of three variables: two of them take all the  *)
(* values of up to MaxLimbs limbs and a few Large ones with one limb more, *)
(* in blocks that fit exactly, while the third is zero, or all three take  *)
(* the values in Few and their negatives, in blocks that fit exactly or    *)
(* have room for a product. The variables are interchangeable, so their    *)
(* values come in order. The runs of Mpz explore sequences of calls on     *)
(* small variables; this one reaches the functions that need larger and    *)
(* different operands. The library is GMP or, on the values in MiniFew,    *)
(* mini-gmp, whose store has its local structs and blocks for them too.    *)
(***************************************************************************)
EXTENDS MiniCalls, TLC

CONSTANTS MaxLimbs, Large, Few, First, Second, Spare, MiniFew, MiniBlocks

VARIABLES called, mini   \* mini: the library is mini-gmp

callVars == <<store, val, called, mini>>

Wide == (1 - B^MaxLimbs)..(B^MaxLimbs - 1) \cup Large
Pairs == {v \in [Var -> Wide] : /\ v[First] <= v[Second]
                                  /\ \A x \in Var \ {First, Second} : v[x] = 0}
Triples(S) == {v \in [Var -> S \cup {-n : n \in S}] :
                 v[First] <= v[Second] /\ \A x \in Var \ {First} : v[Second] <= v[x]}
Width(n) == Normalize(Abs(n), MaxLimbs + 2)

\* Every variable lives in the block of its own name.
Start(v, roomy, structs, blocks) ==
  LET room == [x \in Var |-> IF roomy THEN 2 * MaxLimbs + 1 ELSE Width(v[x])]
      at(b) == IF b \in Var THEN room[b] ELSE 0
      home(x) == IF x \in Var /\ at(x) > 0 THEN x ELSE Null
  IN  [alloc  |-> [x \in structs |-> at(x)],
       size   |-> [x \in structs |-> IF x \in Var THEN Signed(v[x] < 0, Width(v[x])) ELSE 0],
       d      |-> [x \in structs |-> home(x)],
       len    |-> [b \in blocks |-> at(b)],
       limbs  |-> [b \in blocks |-> IF at(b) = 0 THEN 0
                                   ELSE Abs(v[b]) + Ones(Width(v[b]), at(b))],
       live   |-> Var,
       fault  |-> FALSE,
       status |-> "run"]

\* mini-gmp's first MiniBlocks blocks beside those of the client's variables.
GmpInit(v, roomy) ==
  mini = FALSE /\ store = Start(v, roomy, Struct, Block)
MiniInit(v) ==
  mini = TRUE /\ store = Start(v, FALSE, Var \cup Locals, Var \cup 1..MiniBlocks)

CallInit ==
  /\ \/ \E v \in Triples(MiniFew) : val = v /\ MiniInit(v)
     \/ \E v \in Pairs \cup Triples(Few), roomy \in BOOLEAN :
          (roomy => v \in Triples(Few)) /\ val = v /\ GmpInit(v, roomy)
  /\ called = FALSE

GmpCall == Unary \/ WithWord \/ Binary \/ ByInteger \/ ByWord \/ ByBits \/ ByDivisors \/ ByPowers
             \/ ByLimbs
Call == ~called /\ called' = TRUE /\ mini' = mini /\ IF mini THEN MiniCall ELSE GmpCall

CallSpec == CallInit /\ [][Call]_callVars

\* What the functions read of every integer the calls start from.
ReadersAtFirst == ~called => IF mini THEN MiniReaders ELSE Readers /\ DivisorReaders

SpareSymmetry == Permutations(Spare)
=============================================================================
