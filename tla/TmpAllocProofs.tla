--------------------------- MODULE TmpAllocProofs ---------------------------
(***************************************************************************)
(* The promise of TMP_ALLOC keeps temporary blocks apart, for any threads  *)
(* and any blocks. TalProofs proves that the lists of tal-reent.c          *)
(* keep the promise, TalNotreentProofs that the stack of chunks does.      *)
(***************************************************************************)
EXTENDS TmpAlloc, TLAPS

\* Every thread has a stack of sets of regions.
LEMMA Typing == Spec => []FramesType
<1>1. Init => FramesType
  BY DEF Init, FramesType
<1>2. FramesType /\ [Next]_frames => FramesType'
  <2> SUFFICES ASSUME FramesType, [Next]_frames PROVE FramesType'
    OBVIOUS
  <2>1. ASSUME NEW t \in Thread, Mark(t) PROVE FramesType'
    <3>1. Append(frames[t], {}) \in Seq(SUBSET Region)
      BY DEF FramesType
    <3> QED BY <2>1, <3>1 DEF Mark, FramesType
  <2>2. ASSUME NEW t \in Thread, Free(t) PROVE FramesType'
    <3>1. SubSeq(frames[t], 1, Len(frames[t]) - 1) \in Seq(SUBSET Region)
      BY <2>2 DEF Free, FramesType
    <3> QED BY <2>2, <3>1 DEF Free, FramesType
  <2>3. ASSUME NEW t \in Thread, NEW r \in Region, Alloc(t, r) PROVE FramesType'
    <3> DEFINE n == Len(frames[t])
    <3>1. frames[t] \in Seq(SUBSET Region) /\ n \in 1..Len(frames[t])
      BY <2>3 DEF Alloc, FramesType
    <3>2. [frames[t] EXCEPT ![n] = @ \cup {r}] \in Seq(SUBSET Region)
      BY <3>1
    <3> QED BY <2>3, <3>2 DEF Alloc, FramesType
  <2>4. CASE UNCHANGED frames
    BY <2>4 DEF FramesType
  <2> QED BY <2>1, <2>2, <2>3, <2>4 DEF Next
<1> QED BY <1>1, <1>2, PTL DEF Spec

\* Mark and Free leave no region in a frame that was not in the same one before.
LEMMA FewerApart ==
  ASSUME Apart, FramesType, FramesType',
         \A t \in Thread : \A i \in 1..Len(frames'[t]) : \A q \in frames'[t][i] :
           i \in 1..Len(frames[t]) /\ q \in frames[t][i]
  PROVE  Apart'
<1> SUFFICES ASSUME NEW t \in Thread, NEW u \in Thread,
                    NEW i \in 1..Len(frames'[t]), NEW j \in 1..Len(frames'[u]),
                    NEW q \in frames'[t][i], NEW r \in frames'[u][j], q \cap r # {}
             PROVE  t = u /\ i = j /\ q = r
  BY DEF Apart
<1>1. i \in 1..Len(frames[t]) /\ q \in frames[t][i]
  OBVIOUS
<1>2. j \in 1..Len(frames[u]) /\ r \in frames[u][j]
  OBVIOUS
<1> QED BY <1>1, <1>2 DEF Apart

\* A region that is given to a function keeps apart from all that are held, so what a
\* function writes to its temporary space never shows in that of another one.
THEOREM ApartAlways == Spec => []Apart
<1>1. Init => Apart
  BY DEF Init, Apart
<1>2. Apart /\ FramesType /\ FramesType' /\ [Next]_frames => Apart'
  <2> SUFFICES ASSUME Apart, FramesType, FramesType', [Next]_frames PROVE Apart'
    OBVIOUS
  <2>1. ASSUME NEW t \in Thread, Mark(t) PROVE Apart'
    <3>1. ASSUME NEW u \in Thread, NEW i \in 1..Len(frames'[u]), NEW q \in frames'[u][i]
          PROVE  i \in 1..Len(frames[u]) /\ q \in frames[u][i]
      <4>1. CASE u = t
        <5>1. frames'[u] = Append(frames[u], {}) /\ frames[u] \in Seq(SUBSET Region)
          BY <2>1, <4>1 DEF Mark, FramesType
        <5> QED BY <5>1
      <4>2. CASE u # t
        BY <2>1, <4>2 DEF Mark, FramesType
      <4> QED BY <4>1, <4>2
    <3> QED BY <3>1, FewerApart
  <2>2. ASSUME NEW t \in Thread, Free(t) PROVE Apart'
    <3>1. ASSUME NEW u \in Thread, NEW i \in 1..Len(frames'[u]), NEW q \in frames'[u][i]
          PROVE  i \in 1..Len(frames[u]) /\ q \in frames[u][i]
      <4>1. CASE u = t
        <5>1. /\ frames'[u] = SubSeq(frames[u], 1, Len(frames[u]) - 1)
              /\ frames[u] \in Seq(SUBSET Region)
              /\ frames[u] # <<>>
          BY <2>2, <4>1 DEF Free, FramesType
        <5> QED BY <5>1
      <4>2. CASE u # t
        BY <2>2, <4>2 DEF Free, FramesType
      <4> QED BY <4>1, <4>2
    <3> QED BY <3>1, FewerApart
  <2>3. ASSUME NEW t \in Thread, NEW r \in Region, Alloc(t, r) PROVE Apart'
    <3> DEFINE top == Len(frames[t])
    \* A region that is held now was held before, in the same place, or is the new one.
    <3>1. ASSUME NEW u \in Thread, NEW i \in 1..Len(frames'[u]), NEW q \in frames'[u][i]
          PROVE  /\ i \in 1..Len(frames[u])
                 /\ q \in frames[u][i] \/ (q = r /\ u = t /\ i = top)
      <4>1. CASE u = t
        <5>1. /\ frames'[u] = [frames[u] EXCEPT ![top] = @ \cup {r}]
              /\ frames[u] \in Seq(SUBSET Region)
          BY <2>3, <4>1 DEF Alloc, FramesType
        <5> QED BY <5>1, <4>1
      <4>2. CASE u # t
        BY <2>3, <4>2 DEF Alloc, FramesType
      <4> QED BY <4>1, <4>2
    <3>2. \A u \in Thread : \A i \in 1..Len(frames[u]) : \A q \in frames[u][i] : q \cap r = {}
      <4> TAKE u \in Thread
      <4> TAKE i \in 1..Len(frames[u])
      <4> TAKE q \in frames[u][i]
      <4>1. q \in Holding(u)
        BY DEF Holding
      <4>2. q \in Held
        BY <4>1 DEF Held
      <4> QED BY <2>3, <4>2 DEF Alloc
    <3> SUFFICES ASSUME NEW u \in Thread, NEW v \in Thread,
                        NEW i \in 1..Len(frames'[u]), NEW j \in 1..Len(frames'[v]),
                        NEW p \in frames'[u][i], NEW q \in frames'[v][j], p \cap q # {}
                 PROVE  u = v /\ i = j /\ p = q
      BY DEF Apart
    <3>3. CASE p \in frames[u][i] /\ q \in frames[v][j]
      BY <3>1, <3>3 DEF Apart
    <3>4. CASE p \in frames[u][i] /\ q = r
      BY <3>1, <3>2, <3>4
    <3>5. CASE p = r /\ q \in frames[v][j]
      BY <3>1, <3>2, <3>5
    <3>6. CASE (p = r /\ u = t /\ i = top) /\ (q = r /\ v = t /\ j = top)
      BY <3>6
    <3> QED BY <3>1, <3>3, <3>4, <3>5, <3>6
  <2>4. CASE UNCHANGED frames
    BY <2>4 DEF Apart
  <2> QED BY <2>1, <2>2, <2>3, <2>4 DEF Next
<1> QED BY <1>1, <1>2, Typing, PTL DEF Spec
=============================================================================
