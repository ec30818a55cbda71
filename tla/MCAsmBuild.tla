----------------------------- MODULE MCAsmBuild -----------------------------
(***************************************************************************)
(* An excerpt of the tree: files of mpn/x86_64, core2 and coreisbr         *)
(* for functions of every kind: two in one file (aors_n, popham), one of   *)
(* which has a file of its own in another directory, one whose file        *)
(* includes a template (com), one whose file defines the symbol of another *)
(* function too (divrem_1) and is included by that of another directory,   *)
(* one only core2 has (sqr_basecase), one with assembly only (invert_limb).*)
(***************************************************************************)
EXTENDS AsmBuild

MCFunc == {"add_n", "sub_n", "popcount", "com", "divrem_1", "pre_divrem_1",
           "sqr_basecase", "add_err1_n"}
MCOptional == {"invert_limb"}

MCTune == {"generic", "core2", "sandybridge"}
MCPath ==
  [t \in MCTune |->
     CASE t = "generic" -> <<"x86_64">>
       [] t = "core2" -> <<"core2", "x86_64">>
       [] t = "sandybridge" -> <<"coreisbr", "coreinhm", "core2", "x86_64">>]

MCParents ==
  [f \in MCFunc \cup MCOptional |->
     CASE f \in {"add_n", "sub_n"} -> <<"aors_n">>
       [] f = "popcount" -> <<"popham">>
       [] f = "add_err1_n" -> <<"aors_err1_n">>
       [] OTHER -> <<>>]

In(dir, bases) == {[dir |-> dir, base |-> b] : b \in bases}
MCAsmFile ==
  In("x86_64", {"aors_n", "popham", "com", "divrem_1", "aors_err1_n",
                "invert_limb"})
    \cup In("core2", {"aors_n", "popcount", "com", "divrem_1", "sqr_basecase"})
    \cup In("coreisbr", {"divrem_1"})
\* Of each kind one: a file for two functions, two files for one function in one
\* directory order, one with a template, one that only core2 has, one that another one
\* includes.
MCWork == {[dir |-> "core2", base |-> "aors_n"], [dir |-> "core2", base |-> "popcount"],
           [dir |-> "x86_64", base |-> "popham"], [dir |-> "core2", base |-> "com"],
           [dir |-> "core2", base |-> "sqr_basecase"],
           [dir |-> "x86_64", base |-> "divrem_1"]}
MCTemplate == In("fastsse", {"com-palignr"})
MCIncludes ==
  [f \in MCAsmFile |->
     CASE f = [dir |-> "core2", base |-> "com"] -> MCTemplate
       [] f = [dir |-> "coreisbr", base |-> "divrem_1"] -> In("x86_64", {"divrem_1"})
       [] OTHER -> {}]
MCSymbols ==
  [f \in MCAsmFile, g \in MCFunc \cup MCOptional |->
     IF g = "divrem_1" THEN {"divrem_1", "preinv_divrem_1"} ELSE {g}]

MCCFile == MCFunc \ {"popcount"}
MCCSymbols ==
  [f \in MCCFile |-> IF f = "pre_divrem_1" THEN {"preinv_divrem_1"} ELSE {f}]
MCSecOps == {"popcount"}
=============================================================================
