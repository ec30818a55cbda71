---------------------------- MODULE AsmBuildProofs ----------------------------
(***************************************************************************)
(* Whatever the files, the tunes and the changes between gn gen and ninja: *)
(* a library that links has every symbol of the C library, and its objects *)
(* are of the present texts but for included files edited since.           *)
(*                                                                         *)
(* The argument. What ninja compares is the inputs that gn listed with     *)
(* what was touched since the archive was written; the archive was made by *)
(* a selection of its own, from a tree of its own. What ties the two       *)
(* together is every file that exists and was not touched since: it was    *)
(* there when the archive was made, so that every function it can provide  *)
(* has an object.                                                          *)
(***************************************************************************)
EXTENDS AsmBuild, FiniteSetTheorems, WellFoundedInduction, TLAPS

Names == Func \cup Optional

\* File a can provide function f on the path of tune t.
Provides(a, t, f) ==
  \E h \in (DOMAIN Path[t]) \X (DOMAIN Candidates(f)) :
    a = [dir |-> Path[t][h[1]], base |-> Candidates(f)[h[2]]]

-----------------------------------------------------------------------------
(* The inductive invariant. *)

TreeSound ==
  /\ tree \subseteq AsmFile
  /\ tune \in Tune
  /\ text \in [AsmFile \cup Template -> Nat]

GenSound ==
  Generated => /\ gen.tune \in Tune
               /\ gen.drop = DropC(gen.asm) /\ gen.inputs = Inputs(gen.asm)
               /\ \A p \in gen.asm : p.func \in Names /\ Provides(p.file, gen.tune, p.func)

ArchiveSound ==
  archive # None =>
    /\ archive.tune \in Tune
    /\ \A o \in archive.objects :
         /\ o.func \in Names /\ o.file \in AsmFile /\ Provides(o.file, archive.tune, o.func)
         /\ o.file \notin touched => o.text = text[o.file]
         /\ \A i \in Includes[o.file] : i \notin touched => o.included[i] = text[i]
    /\ \A f \in Names, a \in tree \ touched :
         Provides(a, archive.tune, f) => \E o \in archive.objects : o.func = f

LibSound ==
  Linked => /\ Generated /\ InputsExist(gen) /\ Fresh(gen)
            /\ lib.c = KeptC(gen) /\ lib.objects = archive.objects

Inv == TreeSound /\ GenSound /\ ArchiveSound /\ LibSound

-----------------------------------------------------------------------------
(* The selection. *)

\* A set of natural numbers has a least one.
LEMMA LeastOf ==
  ASSUME NEW S \in SUBSET Nat, S # {}
  PROVE  \E n \in S : \A k \in S : n <= k
<1> DEFINE Below == {0..n : n \in S}
<1>1. Below \subseteq FiniteSubsetsOf(Nat) /\ Below # {}
  <2>1. ASSUME NEW n \in S PROVE 0..n \in FiniteSubsetsOf(Nat)
    BY FS_Interval DEF FiniteSubsetsOf
  <2> HIDE DEF FiniteSubsetsOf
  <2> QED BY <2>1
<1>2. IsWellFoundedOn(StrictSubsetOrdering(Nat), FiniteSubsetsOf(Nat))
  BY FS_StrictSubsetOrderingWellFounded
<1> HIDE DEF Below
<1>3. PICK I \in Below : \A J \in Below : ~(<<J, I>> \in StrictSubsetOrdering(Nat))
  BY <1>1, <1>2, WFMin
<1>4. PICK n \in S : I = 0..n
  BY <1>3 DEF Below
<1>5. ASSUME NEW k \in S PROVE n <= k
  <2>1. 0..k \in Below /\ k \in Nat /\ n \in Nat
    BY <1>4 DEF Below
  <2>2. ~(<<0..k, 0..n>> \in StrictSubsetOrdering(Nat))
    BY <1>3, <1>4, <2>1
  <2>3. 0..k \in SUBSET Nat /\ 0..n \in SUBSET Nat
    BY <2>1
  <2>4. ~(0..k \subseteq 0..n) \/ 0..k = 0..n
    BY <2>2, <2>3 DEF StrictSubsetOrdering
  <2> QED BY <2>1, <2>4
<1> QED BY <1>4, <1>5

\* Of pairs of indices one comes before all the others.
LEMMA FirstPair ==
  ASSUME NEW S \in SUBSET (Nat \X Nat), S # {}
  PROVE  First(S) \in S
<1> DEFINE Lefts == {h[1] : h \in S}
<1>1. PICK i \in Lefts : \A k \in Lefts : i <= k
  <2>1. Lefts \in SUBSET Nat /\ Lefts # {}
    OBVIOUS
  <2> HIDE DEF Lefts
  <2> QED BY <2>1, LeastOf
<1> DEFINE Rights == {h[2] : h \in {g \in S : g[1] = i}}
<1>2. PICK j \in Rights : \A k \in Rights : j <= k
  <2>1. Rights \in SUBSET Nat /\ Rights # {}
    OBVIOUS
  <2> HIDE DEF Rights
  <2> QED BY <2>1, LeastOf
<1>3. PICK h \in S : h[1] = i /\ h[2] = j
  BY <1>2
<1>4. \A k \in S : Before(h, k)
  <2> SUFFICES ASSUME NEW k \in S PROVE Before(h, k)
    OBVIOUS
  <2>1. k[1] \in Nat /\ k[2] \in Nat /\ i \in Nat /\ j \in Nat
    BY <1>3
  <2>2. i <= k[1] /\ (k[1] = i => j <= k[2])
    BY <1>1, <1>2
  <2> QED BY <1>3, <2>1, <2>2 DEF Before
<1> QED BY <1>4 DEF First

\* The selection finds a file for a function exactly when there is one on the path, and
\* then one of those.
LEMMA Found ==
  ASSUME NEW files, NEW t \in Tune, NEW f \in Names, Hits(files, t, f) # {}
  PROVE  FindAsm(files, t, f) \in files /\ Provides(FindAsm(files, t, f), t, f)
<1>1. DOMAIN Path[t] \subseteq Nat /\ DOMAIN Candidates(f) \subseteq Nat
  <2>1. Path[t] \in Seq(STRING) /\ Parents[f] \in Seq(STRING) /\ f \in STRING
    BY NamesAssumption DEF Names
  <2>2. PICK S, s, p : S = STRING /\ s = Parents[f] /\ p = Path[t]
    OBVIOUS
  <2>3. s \in Seq(S) /\ f \in S /\ p \in Seq(S)
    BY <2>1, <2>2
  <2>4. <<f>> \o s \in Seq(S)
    BY <2>3
  <2>5. Candidates(f) \in Seq(S)
    BY <2>2, <2>4 DEF Candidates
  <2>6. PICK c : c = Candidates(f)
    OBVIOUS
  <2>7. DOMAIN p \subseteq Nat /\ DOMAIN c \subseteq Nat
    BY <2>3, <2>5, <2>6
  <2> QED BY <2>2, <2>6, <2>7
<1>2. Hits(files, t, f) \in SUBSET (Nat \X Nat)
  BY <1>1 DEF Hits
<1>3. First(Hits(files, t, f)) \in Hits(files, t, f)
  BY <1>2, FirstPair
<1> HIDE DEF First
<1> QED BY <1>3 DEF FindAsm, Hits, Provides

LEMMA FoundIf ==
  ASSUME NEW files, NEW t, NEW f, NEW a \in files, Provides(a, t, f)
  PROVE  Hits(files, t, f) # {}
BY DEF Provides, Hits

\* The selection for a tune: a file that exists for each of its pairs, and a pair for
\* every function that a file can provide.
LEMMA Resolved ==
  ASSUME NEW files, NEW t \in Tune
  PROVE  /\ \A p \in Resolve(files, t) :
              p.func \in Names /\ p.file \in files /\ Provides(p.file, t, p.func)
         /\ \A f \in Names, a \in files :
              Provides(a, t, f) => \E p \in Resolve(files, t) : p.func = f
<1>1. \A p \in Resolve(files, t) :
        p.func \in Names /\ p.file \in files /\ Provides(p.file, t, p.func)
  <2> SUFFICES ASSUME NEW f \in Names, Hits(files, t, f) # {}
               PROVE  FindAsm(files, t, f) \in files /\ Provides(FindAsm(files, t, f), t, f)
    BY DEF Resolve, Select, Names
  <2> QED BY Found
<1>2. ASSUME NEW f \in Names, NEW a \in files, Provides(a, t, f)
      PROVE  \E p \in Resolve(files, t) : p.func = f
  <2>1. f \in {g \in Func \cup Optional : Hits(files, t, g) # {}}
    BY <1>2, FoundIf DEF Names
  <2>2. [func |-> f, file |-> FindAsm(files, t, f)] \in Resolve(files, t)
    BY <2>1 DEF Resolve, Select
  <2> QED BY <2>2
<1> QED BY <1>1, <1>2

-----------------------------------------------------------------------------
(* The invariant. *)

\* The invariant holds in a fresh checkout.
LEMMA InvInit == Init => Inv
BY WorkAssumption DEF Init, Inv, TreeSound, GenSound, ArchiveSound, LibSound, Generated, Linked

\* gn gen keeps it: the old library is no longer looked at.
LEMMA InvGen ==
  ASSUME Inv, Gen
  PROVE  Inv'
<1>1. TreeSound' /\ LibSound'
  BY DEF Inv, Gen, TreeSound, LibSound, Linked
<1>2. GenSound'
  <2>1. tune \in Tune
    BY DEF Inv, TreeSound
  <2>2. /\ gen'.tune = tune /\ gen'.asm = Resolve(tree, tune)
        /\ gen'.drop = DropC(gen'.asm) /\ gen'.inputs = Inputs(gen'.asm)
    BY DEF Gen
  <2> QED BY <2>1, <2>2, Resolved DEF GenSound
<1>3. ArchiveSound'
  BY DEF Inv, Gen, ArchiveSound
<1> QED BY <1>1, <1>2, <1>3 DEF Inv

\* The archive is made from the tree as it is.
LEMMA InvBuild ==
  ASSUME Inv, BuildArchive
  PROVE  Inv'
<1>1. TreeSound' /\ GenSound' /\ LibSound'
  BY DEF Inv, BuildArchive, TreeSound, GenSound, Generated, LibSound, Linked
<1>2. ArchiveSound'
  <2>1. gen.tune \in Tune /\ tree \subseteq AsmFile
    BY DEF Inv, TreeSound, GenSound, BuildArchive, UpToDate
  <2>2. /\ archive'.tune = gen.tune
        /\ archive'.objects = {Compile(p) : p \in Resolve(tree, gen.tune)}
        /\ tree' = tree /\ text' = text /\ touched' = {}
    BY DEF BuildArchive
  <2>3. \A p : /\ Compile(p).func = p.func /\ Compile(p).file = p.file
               /\ Compile(p).text = text[p.file]
               /\ \A i \in Includes[p.file] : Compile(p).included[i] = text[i]
    BY DEF Compile
  <2>4. ASSUME NEW o \in archive'.objects
        PROVE  /\ o.func \in Names /\ o.file \in AsmFile
               /\ Provides(o.file, gen.tune, o.func) /\ o.text = text[o.file]
               /\ \A i \in Includes[o.file] : o.included[i] = text[i]
    <3>1. PICK p \in Resolve(tree, gen.tune) : o = Compile(p)
      BY <2>2
    <3>2. /\ o.func = p.func /\ o.file = p.file /\ o.text = text[p.file]
          /\ \A i \in Includes[p.file] : o.included[i] = text[i]
      BY <2>3, <3>1
    <3> QED BY <2>1, <3>2, Resolved
  <2>5. ASSUME NEW f \in Names, NEW a \in tree, Provides(a, gen.tune, f)
        PROVE  \E o \in archive'.objects : o.func = f
    <3>1. PICK p \in Resolve(tree, gen.tune) : p.func = f
      BY <2>1, <2>5, Resolved
    <3> QED BY <2>2, <2>3, <3>1
  <2>6. \A a, t, f : Provides(a, t, f)' <=> Provides(a, t, f)
    BY DEF Provides
  <2> QED BY <2>1, <2>2, <2>4, <2>5 DEF ArchiveSound
<1> QED BY <1>1, <1>2 DEF Inv

\* A library is linked from what gn listed and the archive.
LEMMA InvLink ==
  ASSUME Inv, Link
  PROVE  Inv'
<1>1. /\ TreeSound' /\ GenSound' /\ ArchiveSound'
  BY DEF Inv, Link, TreeSound, GenSound, Generated, ArchiveSound
<1>2. LibSound'
  <2>1. /\ Generated' /\ InputsExist(gen)' /\ Fresh(gen)'
    BY DEF Link, UpToDate, Generated, InputsExist, Fresh
  <2>2. lib'.c = KeptC(gen') /\ lib'.objects = archive'.objects
    BY DEF Link, KeptC
  <2> QED BY <2>1, <2>2 DEF LibSound
<1> QED BY <1>1, <1>2 DEF Inv

\* A developer's change keeps it: what the archive knows of is less, or the same.
LEMMA InvMove ==
  ASSUME Inv,
         \/ \E f \in (tree \cap Work) \cup Template : Edit(f)
         \/ \E f \in Work : Add(f) \/ Remove(f)
         \/ \E t \in Tune : Retune(t)
  PROVE  Inv'
<1>1. gen' = gen /\ archive' = archive /\ lib' = None
  BY DEF Edit, Add, Remove, Retune, Move
<1>2. GenSound' /\ LibSound'
  BY <1>1 DEF Inv, GenSound, Generated, LibSound, Linked
<1>3. TreeSound'
  BY WorkAssumption DEF Inv, TreeSound, Edit, Add, Remove, Retune, Move
<1>4. /\ touched \subseteq touched' /\ tree' \ touched' \subseteq tree \ touched
      /\ \A a \in AsmFile \cup Template : a \notin touched' => text'[a] = text[a]
  BY DEF Inv, TreeSound, Edit, Add, Remove, Retune, Move
<1>5. ArchiveSound'
  <2>1. \A a \in AsmFile : Includes[a] \subseteq AsmFile \cup Template
    BY IncludesAssumption
  <2> QED BY <1>1, <1>4, <2>1 DEF Inv, ArchiveSound
<1> QED BY <1>2, <1>3, <1>5 DEF Inv

\* Every step keeps the invariant.
LEMMA InvNext == Inv /\ [Next]_vars => Inv'
<1> SUFFICES ASSUME Inv, [Next]_vars PROVE Inv'
  OBVIOUS
<1>1. CASE UNCHANGED vars
  BY <1>1 DEF vars, Inv, TreeSound, GenSound, ArchiveSound, LibSound, Generated, Linked,
              InputsExist, Fresh
<1> QED BY <1>1, InvGen, InvBuild, InvLink, InvMove DEF Next

\* The invariant holds in every state that is reached.
LEMMA InvAlways == Spec => []Inv
BY InvInit, InvNext, PTL DEF Spec

-----------------------------------------------------------------------------
(* What follows from the invariant. *)

\* A C file is only left out of a library whose archive has an object for its function:
\* the library has every symbol of the C library, for every tree, path and history.
THEOREM CompleteAlways == Spec => []Complete
<1>1. Inv => Complete
  <2> SUFFICES ASSUME Inv, Linked, NEW f \in CFile, NEW x \in CSymbols[f]
               PROVE  x \in FromC \/ x \in FromAsm
    BY DEF Complete
  <2>1. /\ Generated /\ archive # None /\ archive.tune = gen.tune
        /\ gen.inputs \subseteq tree /\ touched \cap gen.inputs = {}
        /\ lib.c = CFile \ gen.drop /\ lib.objects = archive.objects
    BY DEF Inv, LibSound, InputsExist, Fresh, KeptC
  <2>2. CASE f \notin gen.drop
    BY <2>1, <2>2 DEF FromC
  <2>3. CASE f \in gen.drop
    <3>1. PICK p \in gen.asm : p.func = f
      BY <2>1, <2>3 DEF Inv, GenSound, DropC
    <3>2. /\ f \in Names /\ Provides(p.file, archive.tune, f) /\ p.file \in gen.inputs
      BY <2>1, <3>1 DEF Inv, GenSound, Inputs
    <3>3. PICK o \in archive.objects : o.func = f
      BY <2>1, <3>2 DEF Inv, ArchiveSound
    <3>4. o.file \in AsmFile /\ Provides(o.file, archive.tune, f)
      BY <2>1, <3>3 DEF Inv, ArchiveSound
    <3>5. \E i \in 1..(Len(Parents[f]) + 1) : (<<f>> \o Parents[f])[i] = o.file.base
      <4>1. DOMAIN Candidates(f) = 1..(Len(Parents[f]) + 1)
        BY <3>2, NamesAssumption DEF Candidates, Names
      <4> QED BY <3>4, <4>1 DEF Provides, Candidates
    <3>6. x \in Symbols[o.file, f]
      BY <3>2, <3>4, <3>5, SymbolsAssumption DEF Names
    <3> QED BY <2>1, <3>3, <3>6 DEF FromAsm, FromObject
  <2> QED BY <2>2, <2>3
<1> QED BY <1>1, InvAlways, PTL

\* The objects of a library are those of the present texts, whatever was edited, added,
\* removed or selected anew, but for files that others include, edited since the archive was made.
THEOREM CurrentAlways == Spec => []Current
<1>1. Inv => Current
  <2> SUFFICES ASSUME Inv, Linked, NEW o \in lib.objects, Selected(o)
               PROVE  /\ o.text = text[o.file]
                      /\ \A i \in Includes[o.file] : i \notin touched => o.included[i] = text[i]
    BY DEF Current
  <2>1. o \in archive.objects /\ archive # None /\ o.file \in gen.inputs /\ o.file \notin touched
    BY DEF Inv, LibSound, GenSound, Fresh, Inputs, Selected
  <2> QED BY <2>1 DEF Inv, ArchiveSound
<1> QED BY <1>1, InvAlways, PTL
===============================================================================
