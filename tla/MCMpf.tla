------------------------------- MODULE MCMpf -------------------------------
(* Floats for TLC: two operands of any few limbs, and a third float. *)
EXTENDS Mpf

CONSTANTS fx, fy, fz, bfx, bfy, bfz, spare

WholeSet == {0, 1, 7, 13, -64}

Digits == {0, 1, 3}
Mantissas(n) ==
  {m \in 1..(B^n - 1) : /\ High(m, n - 1) # 0
                        /\ \A i \in 0..(n - 1) : Low(High(m, i), 1) \in Digits}

\* Zero, and the floats of some lengths, exponents and signs.
FloatsOf(lens, exps, signs) ==
  {[size |-> 0, exp |-> 0, m |-> 0]} \cup
  UNION {[size : {Signed(neg, n) : neg \in signs}, exp : exps, m : Mantissas(n)] : n \in lens}
\* Floats as long as the block of precision 3.
LongFloats == [size : {4, -4}, exp : {1, 3}, m : {71, 131, 197, 255}]

Each(a, b, c) == [w \in Struct |-> CASE w = fx -> a [] w = fy -> b [] w = fz -> c [] OTHER -> 0]
BlockOf(p, f) == f.m + Ones(Abs(f.size), p + 1)

\* fx holds f with precision px in a block for precision fullx, y holds g with
\* precision py; fz is 0 when pz # 0, and not initialised otherwise.
Held(px, fullx, f, py, g, pz) ==
  [store |->
     [prec  |-> Each(px, py, pz),
      size  |-> Each(f.size, g.size, 0),
      exp   |-> Each(f.exp, g.exp, 0),
      d     |-> [w \in Struct |-> CASE w = fx -> bfx [] w = fy -> bfy
                                    [] w = fz /\ pz # 0 -> bfz [] OTHER -> Null],
      len   |-> [b \in Block |-> CASE b = bfx -> fullx + 1 [] b = bfy -> py + 1
                                   [] b = bfz /\ pz # 0 -> pz + 1 [] OTHER -> 0],
      limbs |-> [b \in Block |-> CASE b = bfx -> BlockOf(fullx, f) [] b = bfy -> BlockOf(py, g)
                                   [] b = bfz /\ pz # 0 -> B^(pz + 1) - 1 [] OTHER -> 0],
      live  |-> {w \in Var : w # fz \/ pz # 0},
      fault |-> FALSE,
      status |-> "run"],
   full |-> [w \in Var |-> CASE w = fx -> fullx [] w = fy -> py [] OTHER -> pz]]

StartSet ==
  {Held(2, 2, f, 3, g, 3) : f \in FloatsOf(1..2, {1}, BOOLEAN),
                            g \in FloatsOf(1..2, -1..2, {FALSE}) \cup FloatsOf({3}, {0, 2}, {FALSE})}
    \cup {Held(2, 2, f, 3, g, 3) : f \in FloatsOf({3}, {1}, {FALSE}), g \in FloatsOf(1..3, {1}, {FALSE})}
    \cup {Held(p, 3, f, 3, g, pz) : p \in 2..3, f \in LongFloats, g \in {h \in LongFloats : h.size > 0},
                                    pz \in {0, 2}}
=============================================================================
