------------------------------ MODULE AsmBuild ------------------------------
(***************************************************************************)
(* How the mpn layer of libgmp is put together on x64. gn runs             *)
(* tools/select_mpn_asm.py when it generates the build files: for every    *)
(* mpn function it looks for an assembly file along the search path of the *)
(* tune, and the generic C files of the functions found are taken out of   *)
(* the library. ninja later runs tools/build_mpn_asm.py, which makes the   *)
(* selection a SECOND time and archives what it then finds, but only when  *)
(* it sees a reason to: a changed command, or an input file newer than the *)
(* archive. Between the two a developer edits, adds and removes files and  *)
(* changes the tune.                                                       *)
(*                                                                         *)
(* m4 and as are abstracted to which symbols an assembly file defines for  *)
(* a function and to the text, a number, it was assembled from. ninja's    *)
(* rule is external: an action reruns when its command line differs from   *)
(* the last one or a listed input was modified since. The inputs listed    *)
(* are the selected files; what they include is not among them.            *)
(***************************************************************************)
EXTENDS Naturals, FiniteSets, Sequences

CONSTANTS
  Func,       \* GMP_MPN_FUNCTIONS: built in any case
  Optional,   \* GMP_MPN_FUNCTIONS_OPTIONAL: built when there is assembly for them
  Tune,       \* the tunes a user picks
  Path,       \* CPU_PATHS["x64"]: the directories of a tune, in search order
  Parents,    \* _FUNC_TO_PARENTS: the multi-function files that can provide a function
  AsmFile,    \* the assembly files, [dir, base]
  Template,   \* the files that are only included by others
  Includes,   \* Includes[file]: the files it includes
  Symbols,    \* Symbols[file, function]: what it defines with OPERATION_<function>
  CFile,      \* mpn_full_sources: the files of mpn/generic by the function they are named for
  CSymbols,   \* CSymbols[function]: what that file defines
  SecOps,     \* what missing/mpn_sec_ops.c defines
  Work,       \* the assembly files a developer touches (a bound)
  MaxMoves    \* how often (a bound)

ASSUME WorkAssumption == Work \subseteq AsmFile
ASSUME MaxMovesAssumption == MaxMoves \in Nat

\* A file may include one that is assembled by itself for another tune or function.
ASSUME IncludesAssumption == Includes \in [AsmFile -> SUBSET (AsmFile \cup Template)]

\* Names and paths are what select_mpn_asm.py has as lists of strings.
ASSUME NamesAssumption ==
  /\ Path \in [Tune -> Seq(STRING)]
  /\ Parents \in [Func \cup Optional -> Seq(STRING)]
  /\ Func \subseteq STRING /\ Optional \subseteq STRING

\* Of the sources: an assembly file that can provide a function defines what the C file
\* of that name defines.
ASSUME SymbolsAssumption ==
  \A f \in CFile \cap (Func \cup Optional), a \in AsmFile :
    (\E i \in 1..(Len(Parents[f]) + 1) : (<<f>> \o Parents[f])[i] = a.base) =>
      CSymbols[f] \subseteq Symbols[a, f]

VARIABLES
  tree,       \* the assembly files that exist
  text,       \* the text of every source file
  tune,       \* args.gn
  gen,        \* what gn generated, or None
  archive,    \* libgmp_asm.a, or None
  touched,    \* the sources modified since the archive was written
  lib,        \* libgmp when it has just been linked, or None
  moves

vars == <<tree, text, tune, gen, archive, touched, lib, moves>>

None == [none |-> TRUE]

-----------------------------------------------------------------------------
(* The selection. *)

Candidates(f) == <<f>> \o Parents[f]

\* The places along the path of t where a file for f is, as pairs of indices.
Hits(files, t, f) ==
  {h \in (DOMAIN Path[t]) \X (DOMAIN Candidates(f)) :
     [dir |-> Path[t][h[1]], base |-> Candidates(f)[h[2]]] \in files}

\* Directories from left to right, <func>.asm before its parents in each.
Before(h, k) == h[1] < k[1] \/ (h[1] = k[1] /\ h[2] <= k[2])
First(hits) == CHOOSE h \in hits : \A k \in hits : Before(h, k)

FindAsm(files, t, f) ==
  LET h == First(Hits(files, t, f))
  IN  [dir |-> Path[t][h[1]], base |-> Candidates(f)[h[2]]]

Select(files, t, funcs) ==
  {[func |-> f, file |-> FindAsm(files, t, f)] :
     f \in {g \in funcs : Hits(files, t, g) # {}}}

Resolve(files, t) == Select(files, t, Func \cup Optional)

\* A slip: the selected files are not listed.
NoInputs(pairs) == {}

DropC(pairs) == {p.func : p \in pairs} \cap CFile
Inputs(pairs) == {p.file : p \in pairs}

-----------------------------------------------------------------------------
(* gn gen, ninja. *)

Generated == gen # None
UpToDate == Generated /\ gen.tune = tune

\* gn gen. ninja does it by itself after args.gn changed.
Gen ==
  LET pairs == Resolve(tree, tune)
  IN  /\ gen' = [tune |-> tune, asm |-> pairs, drop |-> DropC(pairs), inputs |-> Inputs(pairs)]
      /\ lib' = None
      /\ UNCHANGED <<tree, text, tune, archive, touched, moves>>

\* ninja has no reason to run the action again. The slip: its command does not
\* name the tune.
FreshForAnyTune(g) == archive # None /\ touched \cap g.inputs = {}
Fresh(g) == archive # None /\ archive.tune = g.tune /\ touched \cap g.inputs = {}

\* ninja gives up on a listed input that does not exist. The slip goes on.
NoCheck(g) == TRUE
InputsExist(g) == g.inputs \subseteq tree

\* compile_one: m4 and as on one pair. The slip keeps an object whose own file is the same.
CompileChanged(p) ==
  LET kept == IF archive = None \/ p.file \in touched THEN {}
              ELSE {o \in archive.objects : o.func = p.func /\ o.file = p.file}
  IN  IF kept # {} THEN CHOOSE o \in kept : TRUE
      ELSE [func |-> p.func, file |-> p.file, text |-> text[p.file],
            included |-> [i \in Includes[p.file] |-> text[i]]]
Compile(p) ==
  [func |-> p.func, file |-> p.file, text |-> text[p.file],
   included |-> [i \in Includes[p.file] |-> text[i]]]

\* m4 stops where a file that is included does not exist.
Compiles(p) == Includes[p.file] \cap AsmFile \subseteq tree

\* build_mpn_asm.py. The old archive is replaced when every pair has compiled.
BuildArchive ==
  /\ UpToDate /\ InputsExist(gen) /\ ~Fresh(gen)
  /\ \A p \in Resolve(tree, gen.tune) : Compiles(p)
  /\ archive' = [tune |-> gen.tune,
                 objects |-> {Compile(p) : p \in Resolve(tree, gen.tune)}]
  /\ touched' = {}
  /\ lib' = None
  /\ UNCHANGED <<tree, text, tune, gen, moves>>

\* mpn_no_asm_overlap.
KeptC(g) == CFile \ g.drop

\* libgmp: the generic C files that are left, mpn_sec_ops.c and the whole archive.
Link ==
  /\ UpToDate /\ InputsExist(gen) /\ Fresh(gen) /\ lib = None
  /\ lib' = [c |-> KeptC(gen), objects |-> archive.objects]
  /\ UNCHANGED <<tree, text, tune, gen, archive, touched, moves>>

-----------------------------------------------------------------------------
(* The developer. *)

Move == moves < MaxMoves /\ moves' = moves + 1 /\ lib' = None

Edit(f) ==
  /\ Move
  /\ text' = [text EXCEPT ![f] = @ + 1]
  /\ touched' = touched \cup {f}
  /\ UNCHANGED <<tree, tune, gen, archive>>

Add(f) ==
  /\ Move /\ f \notin tree
  /\ tree' = tree \cup {f}
  /\ touched' = touched \cup {f}
  /\ UNCHANGED <<text, tune, gen, archive>>

Remove(f) ==
  /\ Move /\ f \in tree
  /\ tree' = tree \ {f}
  /\ UNCHANGED <<text, tune, gen, archive, touched>>

Retune(t) ==
  /\ Move /\ t # tune
  /\ tune' = t
  /\ UNCHANGED <<tree, text, gen, archive, touched>>

\* A checkout may lack one of the files.
Init ==
  /\ tree \in {AsmFile} \cup {AsmFile \ {f} : f \in Work}
  /\ text = [f \in AsmFile \cup Template |-> 0]
  /\ tune \in Tune
  /\ gen = None /\ archive = None /\ lib = None
  /\ touched = {}
  /\ moves = 0

Next ==
  \/ Gen \/ BuildArchive \/ Link
  \/ \E f \in (tree \cap Work) \cup Template : Edit(f)
  \/ \E f \in Work : Add(f) \/ Remove(f)
  \/ \E t \in Tune : Retune(t)

Spec == Init /\ [][Next]_vars

-----------------------------------------------------------------------------
(* Properties. *)

Linked == lib # None
FromC == UNION {CSymbols[f] : f \in lib.c}
FromObject(o) == Symbols[o.file, o.func]
FromAsm == UNION {FromObject(o) : o \in lib.objects}

\* Whatever happened between gn gen and ninja, a library that links has every
\* symbol of the pure C library: no C file is dropped for assembly that is then
\* not in the archive.
Complete ==
  Linked => (UNION {CSymbols[f] : f \in CFile}) \cup SecOps
              \subseteq FromC \cup SecOps \cup FromAsm

\* What the archive has of a file that gn selected is its present text; and of what
\* the file includes, the present text unless that was edited since. So the only edits a
\* library misses are those of files that others include, which ninja does not know of, and
\* none of them outlives the next archive. (The object of a file that was removed stays, as long as
\* nothing else changes.)
Selected(o) == o.file \in {p.file : p \in gen.asm}
Current ==
  Linked => \A o \in lib.objects :
    Selected(o) => /\ o.text = text[o.file]
                   /\ \A i \in Includes[o.file] : i \notin touched => o.included[i] = text[i]

\* BUILD.gn of the inputs: "Every asm file consumed by this build is a dependency", and "if
\* someone edits any of them the action reruns": no library has an object that was
\* assembled from an old text of a file or of what it includes.
EditsReassembled ==
  Linked => \A o \in lib.objects :
    Selected(o) => /\ o.text = text[o.file]
                   /\ \A i \in Includes[o.file] : o.included[i] = text[i]
=============================================================================
