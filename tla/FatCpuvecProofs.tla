-------------------------- MODULE FatCpuvecProofs --------------------------
(***************************************************************************)
(* What FatCpuvec promises, for any number of threads, any chips, fields   *)
(* and directories.                                                        *)
(*                                                                         *)
(* The argument is that of the comment in fat.c. A field of the vector is  *)
(* at its initial value or at its final one (Settled): every thread        *)
(* decides the same vector, and writes nothing else. A thread that is past *)
(* a field, in the order CPUVEC_INSTALL copies them, leaves it final       *)
(* (Covered), so the flag is set, and the threads that trust it read, when *)
(* all are final. No final value is a stub or null (DecisionRoutine), so   *)
(* what a jump takes for a routine is one.                                 *)
(***************************************************************************)
EXTENDS FatCpuvec, TLAPS

\* A vector that a setup may write, and one in which the generic setups have been.
Written == [Field -> Suffix \cup {Unset}]
Filled(v) == v \in Written /\ \A f \in Field : v[Plain(f)] # Unset

\* A setup leaves no field empty that was filled, and fills its own.
LEMMA SetupFills ==
  ASSUME NEW v \in Written, NEW s \in Suffix
  PROVE  /\ Setup(v, s) \in Written
         /\ Filled(v) => Filled(Setup(v, s))
<1>1. s # Unset BY DEF Suffix, Unset
<1> QED BY <1>1, DefinesAssumption DEF Setup, Written, Filled

LEMMA GenericFilled == Filled(Generic)
<1> DEFINE nothing == [f \in Field |-> Unset]
           first == Setup(nothing, "x86_64")
<1>1. {"x86_64", "fat"} \subseteq Suffix /\ Unset \notin Suffix
  BY DEF Suffix, Unset
<1>2. first \in Written /\ Generic \in Written
  BY <1>1 DEF Setup, Written, Generic
<1>3. \A f \in Field : Generic[Plain(f)] # Unset
  BY <1>1, DefinesAssumption DEF Setup, Generic
<1> QED BY <1>2, <1>3 DEF Filled

\* Whatever the chip, each field of the decision is a routine or threshold of a
\* directory: neither a stub nor empty.
LEMMA DecisionRoutine ==
  ASSUME NEW c \in Cpu
  PROVE  Decision(c) \in [Field -> Suffix]
<1> DEFINE Good(v) == v \in Written /\ Filled(v)
<1>1. Good(Generic)
  BY GenericFilled DEF Filled
<1>2. ASSUME NEW v, Good(v), NEW s \in Suffix
      PROVE  Good(Setup(v, s))
  BY <1>2, SetupFills
<1> HIDE DEF Good
<1>3. Good(Core2) /\ Good(Nehalem) /\ Good(SandyBridge)
  BY <1>1, <1>2 DEF Core2, Nehalem, SandyBridge, Suffix
<1>4. Good(Haswell) /\ Good(Broadwell) /\ Good(Setup(Broadwell, "skylake"))
  BY <1>2, <1>3 DEF Haswell, Broadwell, Suffix
<1>5. Good(Silvermont) /\ Good(Setup(Silvermont, "goldmont"))
  BY <1>1, <1>2 DEF Silvermont, Suffix
<1>6. /\ Good(K10) /\ Good(Setup(K10, "bd1"))
      /\ Good(Bobcat) /\ Good(Setup(Bobcat, "bt2"))
  BY <1>1, <1>2 DEF K10, Bobcat, Suffix
<1>7. \A k \in {"atom", "pentium4", "k8", "zen", "nano"} : Good(Setup(Generic, k))
  BY <1>1, <1>2 DEF Suffix
<1>8. Good(Chip(c))
  BY <1>1, <1>3, <1>4, <1>5, <1>6, <1>7, CpuAssumption DEF Chip
<1> QED BY <1>8, DefinesAssumption DEF Good, Decision, Filled, Written

-----------------------------------------------------------------------------
(* The inductive invariant. *)

\* A field has its first or its last value.
Settled == \A f \in Field : vec[f] = Initial[f] \/ vec[f] = Decision(cpu)[f]

\* What a thread that installs works from, and has behind it.
Covered ==
  \A t \in Thread : pc[t] = "install" =>
    /\ decided[t] = Decision(cpu)
    /\ \A i \in 1..Len(Order) : i < next[t] => vec[Order[i]] = Decision(cpu)[Order[i]]

\* A thread on its way has something it wants, and reads a threshold only once the
\* flag is set.
Trusts ==
  \A t \in Thread :
    /\ pc[t] # "idle" => want[t] \in Field
    /\ pc[t] = "jump" => want[t] \in Func
    /\ pc[t] = "read" => initialized

\* A thread that has run the initialiser is in it, or has left it with the flag set.
RanOnce ==
  \A t \in Thread :
    /\ runs[t] <= 1
    /\ runs[t] > 0 => pc[t] = "install" \/ initialized
    /\ pc[t] = "decide" => runs[t] = 0

IInv ==
  /\ TypeOK
  /\ Settled
  /\ Covered
  /\ Trusts
  /\ RanOnce
  /\ FlagMeansReady
  /\ RightChoice

LEMMA InitialType == Initial \in [Field -> Suffix \cup {Init0, Unset}]
                     /\ \A f \in Func : Initial[f] = Init0
BY DEF Initial, Field

LEMMA OrderType ==
  /\ Len(Order) \in Nat
  /\ \A i \in 1..Len(Order) : Order[i] \in Field
  /\ \A f \in Field : \E i \in 1..Len(Order) : Order[i] = f
BY OrderAssumption

LEMMA InitIInv == Init => IInv
<1> SUFFICES ASSUME Init PROVE IInv OBVIOUS
<1> USE DEF Init
<1>1. TypeOK
  <2>1. 1 \in 1..(Len(Order) + 1) /\ 0 \in 0..MaxRuns
    BY OrderType, MaxRunsAssumption
  <2>2. \A f \in Func : Initial[f] # Unset
    BY InitialType DEF Init0, Unset
  <2> QED BY <2>1, <2>2, InitialType DEF TypeOK
<1>2. Settled BY DEF Settled
<1> QED
  BY <1>2, <1>1, FieldAssumption
     DEF IInv, Settled, Covered, Trusts, RanOnce, FlagMeansReady, RightChoice, NoField

\* Every step keeps the invariant. Only Install and SetFlag write what is shared.
LEMMA NextIInv == IInv /\ [Next]_vars => IInv'
<1> SUFFICES ASSUME IInv, [Next]_vars PROVE IInv' OBVIOUS
<1> DEFINE final == Decision(cpu)
<1>1. final \in [Field -> Suffix] /\ Init0 \notin Suffix /\ Unset \notin Suffix
  BY DecisionRoutine DEF IInv, TypeOK, Suffix, Init0, Unset
<1>2. Func \subseteq Field /\ NoField \notin Field
  BY FieldAssumption DEF Field, NoField
<1> HIDE DEF final
<1> USE <1>1, <1>2 DEF IInv, Settled, Covered, Trusts, RanOnce, FlagMeansReady, RightChoice
<1>3. ASSUME NEW t \in Thread, NEW f \in Field, Call(t, f) PROVE IInv'
  BY <1>3 DEF Call, TypeOK, shared, Field
<1>4. ASSUME NEW t \in Thread, Jump(t) PROVE IInv'
  <2>1. want[t] \in Func /\ (vec[want[t]] # Init0 => vec[want[t]] = final[want[t]])
    BY <1>4, InitialType DEF Jump, final
  <2>2. vec[want[t]] = Init0 => ~initialized
    BY <2>1 DEF final
  <2>3. CASE vec[want[t]] = Init0
    <3>1. /\ pc' = [pc EXCEPT ![t] = "decide"]
          /\ UNCHANGED <<cpu, vec, initialized, want, decided, next, used, runs>>
      BY <1>4, <2>3 DEF Jump, shared
    <3>2. TypeOK' BY <3>1 DEF TypeOK
    <3>3. pc[t] = "jump" /\ runs[t] \in Nat /\ ~(runs[t] > 0)
      BY <1>4, <2>2, <2>3, MaxRunsAssumption DEF Jump, TypeOK
    <3>4. Covered' /\ Trusts' BY <2>1, <3>1 DEF TypeOK
    <3>5. RanOnce' BY <3>1, <3>3 DEF TypeOK
    <3>6. RightChoice' BY <3>1 DEF TypeOK
    <3> QED BY <3>1, <3>2, <3>4, <3>5, <3>6
  <2>4. CASE vec[want[t]] # Init0
    <3>1. /\ pc' = [pc EXCEPT ![t] = "idle"]
          /\ used' = [used EXCEPT ![t] = final[want[t]]]
          /\ UNCHANGED <<cpu, vec, initialized, want, decided, next, runs>>
      BY <1>4, <2>1, <2>4 DEF Jump, shared
    <3>2. TypeOK' BY <2>1, <3>1 DEF TypeOK
    <3>3. RightChoice' BY <3>1 DEF TypeOK, final
    <3>4. pc[t] = "jump" BY <1>4 DEF Jump
    <3>5. Covered' /\ Trusts' BY <3>1 DEF TypeOK
    <3>6. RanOnce' BY <3>1, <3>4 DEF TypeOK
    <3> QED BY <3>1, <3>2, <3>3, <3>5, <3>6
  <2> QED BY <2>3, <2>4
<1>5. ASSUME NEW t \in Thread, Check(t) PROVE IInv'
  BY <1>5 DEF Check, TypeOK, shared, final
<1>6. ASSUME NEW t \in Thread, Read(t) PROVE IInv'
  BY <1>6 DEF Read, TypeOK, shared, final
<1>7. ASSUME NEW t \in Thread, Decide(t) PROVE IInv'
  BY <1>7, OrderType, MaxRunsAssumption DEF Decide, TypeOK, shared, final
<1>8. ASSUME NEW t \in Thread, Install(t) PROVE IInv'
  BY <1>8, OrderType DEF Install, TypeOK, final
<1>9. ASSUME NEW t \in Thread, SetFlag(t) PROVE IInv'
  <2>1. \A f \in Field : vec[f] = final[f]
    <3> TAKE f \in Field
    <3>1. PICK i \in 1..Len(Order) : Order[i] = f BY OrderType
    <3>2. i < next[t] BY <1>9, <3>1, OrderType DEF SetFlag, TypeOK
    <3> QED BY <1>9, <3>1, <3>2 DEF SetFlag, final
  <2>2. vec = final BY <2>1 DEF TypeOK
  <2>3. TypeOK' BY <1>9, <2>2 DEF SetFlag, TypeOK
  <2> QED BY <1>9, <2>2, <2>3 DEF SetFlag, TypeOK, final
<1>10. CASE UNCHANGED vars
  BY <1>10 DEF vars, TypeOK
<1> QED
  BY <1>3, <1>4, <1>5, <1>6, <1>7, <1>8, <1>9, <1>10 DEF Next, Step

LEMMA Invariance == Spec => []IInv
BY InitIInv, NextIInv, PTL DEF Spec

-----------------------------------------------------------------------------
(* The theorems. *)

\* Type correctness, and no null pointer in the vector: ASSERT_CPUVEC.
THEOREM Typing == Spec => []TypeOK
BY Invariance, PTL DEF IInv

\* Every call that returns has run the routine, or used the threshold, that
\* __gmpn_cpuvec_init decides for the chip, however many threads install the vector
\* meanwhile.
THEOREM RightChoiceAlways == Spec => []RightChoice
BY Invariance, PTL DEF IInv

\* Once __gmpn_cpuvec_initialized is set, the whole vector is the decided one.
THEOREM FlagMeansReadyAlways == Spec => []FlagMeansReady
BY Invariance, PTL DEF IInv

\* No thread runs __gmpn_cpuvec_init twice.
THEOREM NoSecondRunAlways == Spec => []NoSecondRun
<1>1. IInv => NoSecondRun BY DEF IInv, RanOnce, NoSecondRun
<1> QED BY Invariance, <1>1, PTL

\* A field of the vector is written to its final value only: "both write the same to
\* __gmpn_cpuvec".
THEOREM WrittenOnceAlways == Spec => WrittenOnce
<1> DEFINE Change == \A f \in Field :
             vec'[f] = vec[f] \/ (vec[f] = Initial[f] /\ vec'[f] = Decision(cpu)[f])
<1>1. IInv /\ [Next]_vars => [Change]_vars
  <2> SUFFICES ASSUME IInv, Next PROVE Change BY DEF vars
  <2>1. ASSUME NEW t \in Thread, Install(t) PROVE Change
    BY <2>1 DEF Install, IInv, TypeOK, Settled, Covered
  <2>2. CASE vec' = vec BY <2>2
  <2> QED
    BY <2>1, <2>2 DEF Next, Step, Call, Jump, Check, Read, Decide, SetFlag, shared
<1> QED BY Invariance, <1>1, PTL DEF Spec, WrittenOnce
=============================================================================
