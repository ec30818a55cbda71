----------------------------- MODULE FatCpuvec -----------------------------
(***************************************************************************)
(* The fat binary: one library with the assembly routines of many x86_64   *)
(* chips, and a vector __gmpn_cpuvec of pointers and thresholds that the   *)
(* first call fills in for the chip it runs on.                            *)
(*                                                                         *)
(* Every mpn entry point jumps through its pointer in the vector. The      *)
(* pointers start at stubs that call __gmpn_cpuvec_init and jump through   *)
(* the vector again; a threshold is read after a look at                   *)
(* __gmpn_cpuvec_initialized. There is no lock: any number of threads may  *)
(* be in __gmpn_cpuvec_init together while others already use the vector.  *)
(* One step of a thread is one access to the shared vector or flag; what a *)
(* thread works out in its own decided_cpuvec is one step.                 *)
(***************************************************************************)
EXTENDS Naturals, Sequences

CONSTANTS
  Thread,
  Cpu,        \* the chips the library can find itself on
  Func,       \* the fields of the vector that are pointers to routines
  Threshold,  \* the fields that are thresholds
  Order,      \* all of them, in the order CPUVEC_INSTALL copies them
  Defines,    \* for every directory of routines, the fields it sets up
  MaxRuns     \* the most initialisations of one thread that are counted

Field == Func \cup Threshold

\* A chip: its kind in the terms of the switch, bit 8 of EBX of cpuid leaf 7
\* (BMI2) and of leaf 0x80000001, and whether its name is on the list of those
\* that claim BMI2 wrongly.
ASSUME CpuAssumption ==
  Cpu \subseteq [kind : {"core2", "nehalem", "sandybridge", "haswell", "broadwell",
                         "skylake", "atom", "silvermont", "goldmont", "pentium4", "k8",
                         "k10", "bobcat", "jaguar", "bulldozer", "zen", "nano", "other"},
                 bmi2 : BOOLEAN, ebx81 : BOOLEAN, misnamed : BOOLEAN]
ASSUME FieldAssumption == Func \cap Threshold = {} /\ "none" \notin Func \cup Threshold
ASSUME OrderAssumption ==
  Order \in Seq(Field) /\ \A f \in Field : \E i \in 1..Len(Order) : Order[i] = f
ASSUME MaxRunsAssumption == MaxRuns \in Nat \ {0, 1}

Init0 == "init"         \* the stub a pointer starts at
Unset == "0"            \* what a threshold starts at, and NULL in decided_cpuvec
Suffix == {"x86_64", "fat", "core2", "coreinhm", "coreisbr", "coreihwl", "coreibwl",
           "skylake", "atom", "silvermont", "goldmont", "pentium4", "k8", "k10",
           "bt1", "bt2", "bd1", "zen", "nano"}

Initial == [f \in Field |-> IF f \in Func THEN Init0 ELSE Unset]

\* The preinv routines default to the plain ones.
Plain(f) == CASE f = "preinv_divrem_1" -> "divrem_1"
              [] f = "preinv_mod_1" -> "mod_1"
              [] OTHER -> f

\* The generic directories have everything but the preinv routines.
ASSUME DefinesAssumption ==
  \A f \in Field : Plain(f) \in Field \cap (Defines["x86_64"] \cup Defines["fat"])

-----------------------------------------------------------------------------
(* What __gmpn_cpuvec_init decides. *)

\* Bit 8 of EBX of the leaf that dummy_string was last filled from.
Ebx8(c, leaf) == IF leaf = "7" THEN c.bmi2 ELSE c.ebx81

\* The leaf dummy_string holds when the switch looks at its BMI2 bit: the case of
\* Haswell asks for leaf 7, those of the later chips look at what is there.
DummyLeaf(c) == IF c.kind = "haswell" THEN "7" ELSE "80000001"

\* CPUVEC_SETUP_s: the fields the directory s has something for.
Setup(v, s) == [f \in Field |-> IF f \in Defines[s] THEN s ELSE v[f]]

Generic == Setup(Setup([f \in Field |-> Unset], "x86_64"), "fat")
Core2 == Setup(Generic, "core2")
Nehalem == Setup(Core2, "coreinhm")
SandyBridge == Setup(Nehalem, "coreisbr")
Haswell == Setup(SandyBridge, "coreihwl")
Broadwell == Setup(Haswell, "coreibwl")
Silvermont == Setup(Setup(Generic, "atom"), "silvermont")
K10 == Setup(Setup(Generic, "k8"), "k10")
Bobcat == Setup(K10, "bt1")

\* A chip that may lack BMI2 stops where it looks for it.
Bmi2(c) == Ebx8(c, DummyLeaf(c))
Chip(c) ==
  CASE c.kind = "core2" -> Core2
    [] c.kind = "nehalem" -> Nehalem
    [] c.kind = "sandybridge" -> SandyBridge
    [] c.kind = "haswell" -> IF Bmi2(c) THEN Haswell ELSE SandyBridge
    [] c.kind = "broadwell" -> IF Bmi2(c) THEN Broadwell ELSE SandyBridge
    [] c.kind = "skylake" ->
         IF Bmi2(c) /\ ~c.misnamed THEN Setup(Broadwell, "skylake") ELSE SandyBridge
    [] c.kind = "silvermont" -> Silvermont
    [] c.kind = "goldmont" -> Setup(Silvermont, "goldmont")
    [] c.kind \in {"atom", "pentium4", "k8", "zen", "nano"} -> Setup(Generic, c.kind)
    [] c.kind = "k10" -> K10
    [] c.kind = "bobcat" -> Bobcat
    [] c.kind = "jaguar" -> Setup(Bobcat, "bt2")
    [] c.kind = "bulldozer" -> Setup(K10, "bd1")
    [] c.kind = "other" -> Generic

\* decided_cpuvec. The abort of a chip without the long mode bit is left out: this code runs in
\* long mode, so that every chip in Cpu has the bit. The slip leaves out the default of the preinv routines.
NoDefault(c) == Chip(c)
Decision(c) ==
  [f \in Field |-> IF Chip(c)[f] = Unset THEN Chip(c)[Plain(f)] ELSE Chip(c)[f]]

-----------------------------------------------------------------------------
VARIABLES
  cpu,          \* the chip
  vec,          \* __gmpn_cpuvec
  initialized,  \* __gmpn_cpuvec_initialized
  pc,           \* where a thread is
  want,         \* the field a thread is after
  decided,      \* its decided_cpuvec
  next,         \* the field of Order it copies next
  used,         \* the last routine or threshold it got from the vector
  runs          \* how often it has called __gmpn_cpuvec_init

shared == <<cpu, vec, initialized>>
vars == <<cpu, vec, initialized, pc, want, decided, next, used, runs>>

NoField == "none"

Init ==
  /\ cpu \in Cpu
  /\ vec = Initial
  /\ initialized = FALSE
  /\ pc = [t \in Thread |-> "idle"]
  /\ want = [t \in Thread |-> NoField]
  /\ decided = [t \in Thread |-> Initial]
  /\ next = [t \in Thread |-> 1]
  /\ used = [t \in Thread |-> Unset]
  /\ runs = [t \in Thread |-> 0]

\* A thread calls an mpn function, or a function that looks at a threshold.
Call(t, f) ==
  /\ pc[t] = "idle"
  /\ pc' = [pc EXCEPT ![t] = IF f \in Func THEN "jump" ELSE "check"]
  /\ want' = [want EXCEPT ![t] = f]
  /\ UNCHANGED <<shared, decided, next, used, runs>>

\* FAT_ENTRY: a jump through the vector. FAT_INIT, the stub, calls
\* __gmpn_cpuvec_init and comes back here.
Jump(t) ==
  /\ pc[t] = "jump"
  /\ IF vec[want[t]] = Init0
     THEN pc' = [pc EXCEPT ![t] = "decide"] /\ UNCHANGED used
     ELSE /\ pc' = [pc EXCEPT ![t] = "idle"]
          /\ used' = [used EXCEPT ![t] = vec[want[t]]]
  /\ UNCHANGED <<shared, want, decided, next, runs>>

\* CPUVEC_THRESHOLD: the flag, then, maybe after an initialisation, the field.
\* The slip takes the threshold as it is.
CheckNothing(t) ==
  /\ pc[t] = "check"
  /\ pc' = [pc EXCEPT ![t] = "read"]
  /\ UNCHANGED <<shared, want, decided, next, used, runs>>
Check(t) ==
  /\ pc[t] = "check"
  /\ pc' = [pc EXCEPT ![t] = IF initialized THEN "read" ELSE "decide"]
  /\ UNCHANGED <<shared, want, decided, next, used, runs>>
Read(t) ==
  /\ pc[t] = "read"
  /\ pc' = [pc EXCEPT ![t] = "idle"]
  /\ used' = [used EXCEPT ![t] = vec[want[t]]]
  /\ UNCHANGED <<shared, want, decided, next, runs>>

\* __gmpn_cpuvec_init up to CPUVEC_INSTALL: it reads cpuid and writes only the
\* local vector.
Decide(t) ==
  /\ pc[t] = "decide"
  /\ decided' = [decided EXCEPT ![t] = Decision(cpu)]
  /\ runs' = [runs EXCEPT ![t] = IF @ < MaxRuns THEN @ + 1 ELSE @]
  /\ next' = [next EXCEPT ![t] = 1]
  /\ pc' = [pc EXCEPT ![t] = "install"]
  /\ UNCHANGED <<shared, want, used>>

\* CPUVEC_INSTALL: one field, with one write. The slips go through a generic
\* value, and forget the first field.
InstallInPlace(t) ==
  /\ pc[t] = "install"
  /\ next[t] <= Len(Order)
  /\ LET f == Order[next[t]]
     IN  IF vec[f] = Initial[f] /\ decided[t][f] # "x86_64"
         THEN vec' = [vec EXCEPT ![f] = "x86_64"] /\ UNCHANGED next
         ELSE /\ vec' = [vec EXCEPT ![f] = decided[t][f]]
              /\ next' = [next EXCEPT ![t] = @ + 1]
  /\ UNCHANGED <<cpu, initialized, pc, want, decided, used, runs>>
InstallAllButFirst(t) ==
  /\ pc[t] = "install"
  /\ next[t] <= Len(Order)
  /\ vec' = IF next[t] = 1 THEN vec
            ELSE [vec EXCEPT ![Order[next[t]]] = decided[t][Order[next[t]]]]
  /\ next' = [next EXCEPT ![t] = @ + 1]
  /\ UNCHANGED <<cpu, initialized, pc, want, decided, used, runs>>
Install(t) ==
  /\ pc[t] = "install"
  /\ next[t] <= Len(Order)
  /\ vec' = [vec EXCEPT ![Order[next[t]]] = decided[t][Order[next[t]]]]
  /\ next' = [next EXCEPT ![t] = @ + 1]
  /\ UNCHANGED <<cpu, initialized, pc, want, decided, used, runs>>

\* The flag is set when every field is there. The slip sets it before.
SetFlagEarly(t) ==
  /\ pc[t] = "install"
  /\ initialized' = TRUE
  /\ pc' = IF next[t] > Len(Order)
           THEN [pc EXCEPT ![t] = IF want[t] \in Func THEN "jump" ELSE "read"] ELSE pc
  /\ UNCHANGED <<cpu, vec, want, decided, next, used, runs>>
SetFlag(t) ==
  /\ pc[t] = "install"
  /\ next[t] > Len(Order)
  /\ initialized' = TRUE
  /\ pc' = [pc EXCEPT ![t] = IF want[t] \in Func THEN "jump" ELSE "read"]
  /\ UNCHANGED <<cpu, vec, want, decided, next, used, runs>>

\* What a thread does once it has made a call.
Step(t) ==
  Jump(t) \/ Check(t) \/ Read(t) \/ Decide(t) \/ Install(t) \/ SetFlag(t)

Next == \E t \in Thread : Step(t) \/ \E f \in Field : Call(t, f)

\* A thread that is in a call goes on with it: there is nothing to wait for.
Spec == Init /\ [][Next]_vars /\ \A t \in Thread : WF_vars(Step(t))

-----------------------------------------------------------------------------
(* Properties. *)

\* Every value has its type. That of the vector says that it never holds a null
\* pointer, what ASSERT_CPUVEC asks of a decided vector.
TypeOK ==
  /\ cpu \in Cpu
  /\ vec \in [Field -> Suffix \cup {Init0, Unset}]
  /\ \A f \in Func : vec[f] # Unset
  /\ initialized \in BOOLEAN
  /\ pc \in [Thread -> {"idle", "jump", "check", "read", "decide", "install"}]
  /\ want \in [Thread -> Field \cup {NoField}]
  /\ decided \in [Thread -> [Field -> Suffix \cup {Init0, Unset}]]
  /\ next \in [Thread -> 1..(Len(Order) + 1)]
  /\ used \in [Thread -> Suffix \cup {Unset}]
  /\ runs \in [Thread -> 0..MaxRuns]

\* Every call that has returned ran the routine, or used the threshold, decided
\* for this chip, whoever wrote it and however far the writers were: never a stub,
\* a zero threshold or the value of a lesser chip.
RightChoice ==
  \A t \in Thread :
    pc[t] = "idle" /\ want[t] # NoField => used[t] = Decision(cpu)[want[t]]

\* The flag promises the thresholds.
FlagMeansReady == initialized => vec = Decision(cpu)

\* A thread that has been through the initialiser never meets a stub again.
NoSecondRun == \A t \in Thread : runs[t] <= 1

\* A field changes once, from its initial value to its final one, even while two
\* threads install over each other: "some of the asm routines only operate
\* correctly up to their own defined threshold, not an arbitrary value".
WrittenOnce ==
  [][\A f \in Field : vec'[f] = vec[f]
       \/ (vec[f] = Initial[f] /\ vec'[f] = Decision(cpu)[f])]_vars

\* Every call gets its routine or its threshold.
CallsReturn == \A t \in Thread : (pc[t] # "idle") ~> (pc[t] = "idle")

\* fat.c of the setups: their arrangement "will normally be the same as the $path
\* selections in configure.in for the respective chips". A Broadwell or a Skylake that
\* has BMI2, and is not on the list of those that claim it wrongly, gets the routines
\* of coreihwl, coreibwl and skylake wherever there are any.
Bmi2Used ==
  \A t \in Thread :
    pc[t] = "install" /\ cpu.kind \in {"broadwell", "skylake"} /\ cpu.bmi2 /\ ~cpu.misnamed
    => \A f \in Defines["coreihwl"] \cup Defines["coreibwl"] :
         decided[t][f] \in {"coreihwl", "coreibwl", "skylake"}
=============================================================================
