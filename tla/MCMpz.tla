------------------------------- MODULE MCMpz -------------------------------
(* Instances of Mpz for TLC. *)
EXTENDS Mpz, TLC

\* Blocks are interchangeable addresses.
BlockSymmetry == Permutations(Block)

\* And so are the client's variables.
FullSymmetry == Permutations(Block) \cup Permutations(Var)
=============================================================================
