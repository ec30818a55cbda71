---------------------------- MODULE MCFatCpuvec ----------------------------
(* Instances of FatCpuvec for TLC. *)
EXTENDS FatCpuvec

MCFunc == {"add_n", "divrem_1", "preinv_divrem_1"}
MCThreshold == {"mul_toom22_threshold", "sqr_toom2_threshold"}
MCOrder == <<"add_n", "divrem_1", "preinv_divrem_1",
             "mul_toom22_threshold", "sqr_toom2_threshold">>

\* Generic routines for everything but the preinv one, and a few fields each for
\* the chips.
MCDefines ==
  [s \in Suffix |->
     CASE s = "x86_64" -> MCFunc \ {"preinv_divrem_1"}
       [] s = "fat" -> MCThreshold
       [] s \in {"core2", "k8"} -> {"add_n", "mul_toom22_threshold"}
       [] s = "coreisbr" -> {"divrem_1", "preinv_divrem_1"}
       [] s \in {"coreihwl", "zen"} -> {"add_n", "sqr_toom2_threshold"}
       [] OTHER -> {}]

Intel(kind, bmi2, misnamed) ==
  [kind |-> kind, bmi2 |-> bmi2, ebx81 |-> FALSE, misnamed |-> misnamed]

\* Leaf 0x80000001 has nothing in EBX on these chips.
MCCpu ==
  {Intel(kind, FALSE, FALSE) : kind \in {"core2", "nehalem", "k10", "zen", "other"}}
    \cup {Intel("haswell", bmi2, FALSE) : bmi2 \in BOOLEAN}
    \cup {Intel("skylake", TRUE, misnamed) : misnamed \in BOOLEAN}
=============================================================================
