----------------------------- MODULE TalProofs -----------------------------
(***************************************************************************)
(* What holds of temporary space in a build of either kind, whatever the   *)
(* threads, the memory and the sizes.                                      *)
(*                                                                         *)
(* First the lists of blocks of TalReent: they give each block back once,  *)
(* with its size, leak none and keep the promise of TMP_ALLOC. Every block *)
(* that is allocated has one owner: a function that is active, or a thread *)
(* that is in TMP_FREE. The blocks of an owner are exactly the ones of a   *)
(* list from its marker, or from where TMP_FREE has got to. That a list    *)
(* ends, and has no other blocks, is said with the depth of a block, the   *)
(* number of blocks from it to the end.                                    *)
(*                                                                         *)
(* Then what TalNotreentProofs proves of the stack of chunks, carried over *)
(* to the build of MCTal, which has either way to allocate: the run that   *)
(* checks a property and the theorem that states it are about one          *)
(* specification.                                                          *)
(***************************************************************************)
EXTENDS MCTal, SequenceTheorems, TLAPS

-----------------------------------------------------------------------------
(* The inductive invariant. *)

TmpBlock == [at : Nat, n : Nat]
Frame == [marker : 0..Memory, big : SUBSET TmpBlock, small : SUBSET TmpBlock, sp : Nat]

Shape ==
  /\ header \in [Address -> [next : 0..Memory, size : Nat]]
  /\ frames \in [Thread -> Seq(Frame)]
  /\ loop \in [Thread -> [pc : {"out", "test", "give", "advance"},
                          mark : 0..Memory, next : 0..Memory]]
  /\ heap \in [DOMAIN heap -> Nat]
  /\ DOMAIN heap \subseteq Address

\* Blocks of the heap do not overlap, and their headers have their sizes.
HeapSound ==
  /\ \A a \in DOMAIN heap : /\ heap[a] > Hsiz /\ a + heap[a] <= Memory
                            /\ header[a].size = heap[a]
  /\ \A a, b \in DOMAIN heap : a = b \/ a + heap[a] <= b \/ b + heap[b] <= a

\* The heap blocks a function has are allocated, after a header, with the size it asked for.
BigSound ==
  \A t \in Thread : \A f \in 1..Len(frames[t]) : \A b \in frames[t][f].big :
    /\ b.at - Hsiz \in DOMAIN heap
    /\ b.n \in Sizes /\ heap[b.at - Hsiz] = b.n + Hsiz

\* The alloca blocks of a function are below its stack pointer, which is not above the one
\* of a function it has called.
SmallSound ==
  \A t \in Thread : \A f \in 1..Len(frames[t]) :
    /\ frames[t][f].sp <= StackRoom
    /\ \A b \in frames[t][f].small : b.n \in Sizes /\ b.at + b.n <= frames[t][f].sp
    /\ \A g \in f..Len(frames[t]) : frames[t][f].sp <= frames[t][g].sp

\* What a thread that is in TMP_FREE has read is what the header says.
LoopSound ==
  \A t \in Thread :
    /\ loop[t].pc = "out" => loop[t] = Idle
    /\ loop[t].pc = "give" => loop[t].mark # Null /\ loop[t].next = header[loop[t].mark].next

\* A list that starts at first has the blocks S and no others.
IsList(first, S, headers, depth) ==
  /\ IF S = {} THEN first = Null ELSE first \in S
  /\ \A a \in S : /\ depth[a] \in 1..depth[first]
                  /\ IF depth[a] = 1
                     THEN headers[a].next = Null
                     ELSE headers[a].next \in S /\ depth[headers[a].next] = depth[a] - 1
  /\ \A a, b \in S : depth[a] = depth[b] => a = b

\* The block from which on a thread still has to free a list.
Rest(t) == IF loop[t].pc = "advance" THEN loop[t].next ELSE loop[t].mark

\* The blocks that function f of thread t owns, or its TMP_FREE when f is 0.
Of(owner, t, f) == {a \in DOMAIN heap : owner[a] = <<t, f>>}

Owned(owner, depth) ==
  /\ owner \in [DOMAIN heap -> Thread \X Nat]
  /\ depth \in [DOMAIN heap -> Nat]
  /\ \A t \in Thread, f \in Nat : Of(owner, t, f) # {} => f <= Len(frames[t])
  /\ \A t \in Thread : \A f \in 1..Len(frames[t]) :
       /\ Of(owner, t, f) = {b.at - Hsiz : b \in frames[t][f].big}
       /\ IsList(frames[t][f].marker, Of(owner, t, f), header, depth)
  /\ \A t \in Thread : IsList(Rest(t), Of(owner, t, 0), header, depth)

Inv ==
  /\ Shape /\ HeapSound /\ BigSound /\ SmallSound /\ LoopSound
  /\ \E owner, depth : Owned(owner, depth)

-----------------------------------------------------------------------------
(* Lists. *)

\* What is left when the first block of a list is gone is the list from its next field.
LEMMA ListRest ==
  ASSUME NEW first, NEW S, NEW h, NEW d,
         IsList(first, S, h, d), S # {}, \A a \in S : d[a] \in Nat
  PROVE  first \in S /\ IsList(h[first].next, S \ {first}, h, d)
<1>1. first \in S
  BY DEF IsList
<1>2. CASE d[first] = 1
  <2>1. \A a \in S : a = first
    BY <1>1, <1>2 DEF IsList
  <2> QED BY <1>1, <1>2, <2>1 DEF IsList
<1>3. CASE d[first] # 1
  <2> DEFINE second == h[first].next
  <2>1. second \in S /\ d[second] = d[first] - 1 /\ second # first
    BY <1>1, <1>3 DEF IsList
  <2>2. ASSUME NEW a \in S \ {first} PROVE d[a] \in 1..d[second]
    <3>1. d[a] # d[first] /\ d[a] \in 1..d[first]
      BY <1>1, <2>2 DEF IsList
    <3> QED BY <1>1, <2>1, <3>1
  <2>3. ASSUME NEW a \in S \ {first}, d[a] # 1
        PROVE  h[a].next \in S \ {first} /\ d[h[a].next] = d[a] - 1
    <3>1. d[a] \in 1..d[first] /\ h[a].next \in S /\ d[h[a].next] = d[a] - 1
      BY <2>3 DEF IsList
    <3> QED BY <3>1, <1>1
  <2> QED BY <1>1, <2>1, <2>2, <2>3 DEF IsList
<1> QED BY <1>1, <1>2, <1>3

\* A block that is put before a list makes it longer.
LEMMA ListLonger ==
  ASSUME NEW first, NEW S, NEW h, NEW d, NEW p, NEW T, NEW g, NEW e,
         IsList(first, S, h, d), \A a \in S : d[a] \in Nat, p \notin S,
         \A a : a \in T <=> a \in S \/ a = p,
         \A a \in S : h[a] = g[a] /\ d[a] = e[a],
         g[p].next = first, S = {} => e[p] = 1, S # {} => e[p] = d[first] + 1
  PROVE  IsList(p, T, g, e)
<1>1. CASE S = {}
  BY <1>1 DEF IsList
<1>2. CASE S # {}
  <2>1. first \in S /\ d[first] \in Nat /\ d[first] >= 1 /\ e[p] = d[first] + 1
    BY <1>2 DEF IsList
  <2>2. \A a \in S : e[a] \in 1..d[first] /\ e[a] # e[p]
    BY <2>1 DEF IsList
  <2>3. ASSUME NEW a \in T
        PROVE  /\ e[a] \in 1..e[p]
               /\ IF e[a] = 1 THEN g[a].next = Null
                  ELSE g[a].next \in T /\ e[g[a].next] = e[a] - 1
    <3>1. CASE a = p
      BY <2>1, <3>1
    <3>2. CASE a # p
      BY <2>1, <2>2, <3>2 DEF IsList
    <3> QED BY <3>1, <3>2
  <2>4. \A a, b \in T : e[a] = e[b] => a = b
    BY <2>2 DEF IsList
  <2>5. p \in T
    OBVIOUS
  <2> QED BY <2>3, <2>4, <2>5 DEF IsList
<1> QED BY <1>1, <1>2

-----------------------------------------------------------------------------
(* The invariant holds at the start and every action keeps it. *)

\* The invariant holds when no function is active: nothing is allocated.
LEMMA InvInit == Init => Inv
<1> SUFFICES ASSUME Init PROVE Inv
  OBVIOUS
<1> USE MemoryAssumption, BoundAssumption DEF Init
<1>1. DOMAIN heap = {}
  OBVIOUS
<1>2. Shape
  BY <1>1 DEF Shape, Address, Null, Idle, Frame
<1>3. HeapSound /\ BigSound /\ SmallSound /\ LoopSound
  BY <1>1 DEF HeapSound, BigSound, SmallSound, LoopSound, Idle
<1>4. Owned(heap, heap)
  <2>1. heap \in [DOMAIN heap -> Thread \X Nat] /\ heap \in [DOMAIN heap -> Nat]
    BY <1>1
  <2>2. \A t \in Thread, f \in Nat : Of(heap, t, f) = {}
    BY <1>1 DEF Of
  <2>3. \A t \in Thread : Rest(t) = Null
    BY DEF Rest, Idle
  <2> QED BY <2>1, <2>2, <2>3 DEF Owned, IsList
<1> QED BY <1>2, <1>3, <1>4 DEF Inv

\* The stack pointer of a thread is above all alloca blocks of its functions.
LEMMA PointerTop ==
  ASSUME Inv, NEW t \in Thread
  PROVE  /\ Pointer(t) \in Nat /\ Pointer(t) <= StackRoom
         /\ \A f \in 1..Len(frames[t]) : frames[t][f].sp <= Pointer(t)
<1>1. frames[t] \in Seq(Frame)
  BY DEF Inv, Shape
<1>2. CASE frames[t] = <<>>
  BY <1>2, BoundAssumption DEF Pointer
<1>3. CASE frames[t] # <<>>
  <2> DEFINE last == Len(frames[t])
  <2>1. last \in 1..last /\ frames[t][last] \in Frame /\ Pointer(t) = frames[t][last].sp
    BY <1>1, <1>3 DEF Pointer, Top
  <2>2. frames[t][last].sp \in Nat /\ frames[t][last].sp <= StackRoom
    BY <2>1 DEF Frame, Inv, SmallSound
  <2>3. \A f \in 1..last : last \in f..last
    BY <2>1
  <2>4. \A f \in 1..last : frames[t][f].sp <= frames[t][last].sp
    BY <2>3 DEF Inv, SmallSound
  <2> QED BY <2>1, <2>2, <2>4
<1> QED BY <1>2, <1>3

\* The frame of a function that has got one more block.
LEMMA FrameMoreSmall ==
  ASSUME NEW f \in Frame, NEW n \in Nat
  PROVE  MoreSmall(f, n) \in Frame
<1>1. [at |-> f.sp, n |-> n] \in TmpBlock
  BY DEF TmpBlock, Frame
<1>2. f.small \cup {[at |-> f.sp, n |-> n]} \in SUBSET TmpBlock
  BY <1>1 DEF Frame
<1>3. f.marker \in 0..Memory /\ f.big \in SUBSET TmpBlock /\ f.sp + n \in Nat
  BY DEF Frame
<1> QED BY <1>2, <1>3 DEF MoreSmall, Frame

\* A function keeps its form when it takes a block from the heap.
LEMMA FrameMoreBig ==
  ASSUME NEW f \in Frame, NEW n \in Nat, NEW p \in 0..Memory
  PROVE  MoreBig(f, p, n) \in Frame
<1>1. [at |-> Given(p), n |-> n] \in TmpBlock
  BY MemoryAssumption DEF TmpBlock, Given
<1>2. f.big \cup {[at |-> Given(p), n |-> n]} \in SUBSET TmpBlock
  BY <1>1 DEF Frame
<1>3. f.small \in SUBSET TmpBlock /\ f.sp \in Nat
  BY DEF Frame
<1> QED BY <1>2, <1>3 DEF MoreBig, Frame

\* What the functions are like after the frame of the innermost one of a thread changed.
LEMMA TopChanged ==
  ASSUME NEW before \in [Thread -> Seq(Frame)], NEW t \in Thread, before[t] # <<>>,
         NEW new \in Frame, NEW after,
         after = [before EXCEPT ![t] = [@ EXCEPT ![Len(before[t])] = new]]
  PROVE  /\ after \in [Thread -> Seq(Frame)]
         /\ Len(before[t]) \in Nat /\ Len(before[t]) \in 1..Len(before[t])
         /\ after[t][Len(before[t])] = new
         /\ \A u \in Thread : Len(after[u]) = Len(before[u])
         /\ \A u \in Thread : \A f \in 1..Len(before[u]) :
              u # t \/ f # Len(before[t]) => after[u][f] = before[u][f]
<1> DEFINE last == Len(before[t])
           top == [before[t] EXCEPT ![last] = new]
<1>1. before[t] \in Seq(Frame) /\ last \in Nat /\ last \in 1..last
  OBVIOUS
<1>2. /\ top \in Seq(Frame) /\ Len(top) = last /\ top[last] = new
      /\ \A f \in 1..last : f # last => top[f] = before[t][f]
  BY <1>1
<1> HIDE DEF top
<1>3. after = [before EXCEPT ![t] = top]
  BY DEF top
<1> QED BY <1>1, <1>2, <1>3

\* TMP_MARK owns nothing and changes no list.
LEMMA InvMark ==
  ASSUME Inv, NEW t \in Thread, TmpMark(t)
  PROVE  Inv'
<1> USE MemoryAssumption, BoundAssumption
<1> DEFINE last == Len(frames[t])
           new == [marker |-> Null, big |-> {}, small |-> {}, sp |-> Pointer(t)]
<1> PICK owner, depth : Owned(owner, depth)
  BY DEF Inv
<1>1. frames[t] \in Seq(Frame) /\ last \in Nat
  BY DEF Inv, Shape
<1>2. Pointer(t) \in Nat /\ Pointer(t) <= StackRoom
      /\ \A f \in 1..last : frames[t][f].sp <= Pointer(t)
  BY PointerTop
<1>3. new \in Frame
  BY <1>2 DEF Frame, Null
<1>4. /\ frames' = [frames EXCEPT ![t] = Append(@, new)]
      /\ Append(frames[t], new) \in Seq(Frame)
      /\ Len(frames'[t]) = last + 1 /\ frames'[t][last + 1] = new
      /\ \A f \in 1..last : frames'[t][f] = frames[t][f]
      /\ \A u \in Thread \ {t} : frames'[u] = frames[u]
      /\ heap' = heap /\ header' = header /\ loop' = loop
  BY <1>1, <1>3 DEF TmpMark, Inv, Shape
<1>5. Shape'
  BY <1>4 DEF Inv, Shape
<1>6. HeapSound' /\ LoopSound'
  BY <1>4 DEF Inv, HeapSound, LoopSound
<1>7. BigSound'
  BY <1>1, <1>4 DEF Inv, BigSound
<1>8. SmallSound'
  BY <1>1, <1>2, <1>4 DEF Inv, SmallSound
<1>9. Owned(owner, depth)'
  <2>1. \A u \in Thread, f \in Nat : Of(owner, u, f)' = Of(owner, u, f)
    BY <1>4 DEF Of
  <2>2. Of(owner, t, last + 1) = {}
    BY <1>1 DEF Owned
  <2>3. \A u \in Thread : Rest(u)' = Rest(u)
    BY <1>4 DEF Rest
  <2>4. IsList(Null, {}, header, depth)
    BY DEF IsList
  <2>5. ASSUME NEW u \in Thread, NEW f \in 1..Len(frames'[u])
        PROVE  /\ Of(owner, u, f)' = {b.at - Hsiz : b \in frames'[u][f].big}
               /\ IsList(frames'[u][f].marker, Of(owner, u, f)', header', depth)
    <3>1. CASE u = t /\ f = last + 1
      <4>1. frames'[u][f].big = {} /\ frames'[u][f].marker = Null
        BY <1>4, <3>1
      <4>2. Of(owner, u, f)' = {} /\ f \in Nat
        BY <1>1, <2>1, <2>2, <3>1
      <4> QED BY <1>4, <2>4, <4>1, <4>2
    <3>2. CASE ~(u = t /\ f = last + 1)
      <4>1. f \in 1..Len(frames[u]) /\ frames'[u][f] = frames[u][f]
        BY <1>1, <1>4, <3>2
      <4> QED BY <1>4, <2>1, <4>1 DEF Owned
    <3> QED BY <3>1, <3>2
  <2>6. \A u \in Thread, f \in Nat : Of(owner, u, f)' # {} => f <= Len(frames'[u])
    BY <1>1, <1>4, <2>1 DEF Owned
  <2> QED BY <1>4, <2>1, <2>3, <2>5, <2>6 DEF Owned
<1> QED BY <1>5, <1>6, <1>7, <1>8, <1>9 DEF Inv

\* An alloca block changes no list.
LEMMA InvSalloc ==
  ASSUME Inv, NEW t \in Thread, NEW n \in Sizes, Salloc(t, n)
  PROVE  Inv'
<1> USE MemoryAssumption, SizesAssumption, BoundAssumption
<1> DEFINE last == Len(frames[t])
           top == Top(t)
           new == MoreSmall(top, n)
<1> PICK owner, depth : Owned(owner, depth)
  BY DEF Inv
<1>1. /\ frames \in [Thread -> Seq(Frame)] /\ frames[t] # <<>> /\ frames[t] \in Seq(Frame)
      /\ last \in Nat /\ last \in 1..last /\ top \in Frame /\ top = frames[t][last]
      /\ Pointer(t) = top.sp /\ Pointer(t) + n <= StackRoom
  BY DEF Inv, Shape, Salloc, Running, Pointer, Top
<1>2. top.sp \in Nat /\ n \in Nat /\ \A f \in 1..last : frames[t][f].sp <= top.sp
  BY <1>1, PointerTop
<1>3. new \in Frame
  BY <1>1, <1>2, FrameMoreSmall
<1>4. /\ new.marker = top.marker /\ new.big = top.big /\ new.sp = top.sp + n
      /\ new.small = top.small \cup {[at |-> top.sp, n |-> n]}
  BY DEF MoreSmall
<1> HIDE DEF top, new
<1>5. /\ frames' = [frames EXCEPT ![t] = [@ EXCEPT ![last] = new]]
      /\ heap' = heap /\ header' = header /\ loop' = loop
  BY DEF Salloc, top, new
<1>6. /\ frames' \in [Thread -> Seq(Frame)]
      /\ frames'[t][last] = new
      /\ \A u \in Thread : Len(frames'[u]) = Len(frames[u])
      /\ \A u \in Thread : \A f \in 1..Len(frames[u]) :
           u # t \/ f # last => frames'[u][f] = frames[u][f]
  BY <1>1, <1>3, <1>5, TopChanged
<1>7. Shape'
  BY <1>5, <1>6 DEF Inv, Shape
<1>8. HeapSound' /\ LoopSound'
  BY <1>5 DEF Inv, HeapSound, LoopSound
\* No marker and no set of heap blocks changes.
<1>9. \A u \in Thread : \A f \in 1..Len(frames[u]) :
        frames'[u][f].big = frames[u][f].big /\ frames'[u][f].marker = frames[u][f].marker
  BY <1>1, <1>4, <1>6
<1>10. BigSound'
  BY <1>5, <1>6, <1>9 DEF Inv, BigSound
<1>11. SmallSound'
  <2> SUFFICES ASSUME NEW u \in Thread, NEW f \in 1..Len(frames[u])
               PROVE  /\ frames'[u][f].sp <= StackRoom
                      /\ \A b \in frames'[u][f].small :
                           b.n \in Sizes /\ b.at + b.n <= frames'[u][f].sp
                      /\ \A g \in f..Len(frames[u]) : frames'[u][f].sp <= frames'[u][g].sp
    BY <1>6 DEF SmallSound
  <2>1. CASE u # t
    <3>1. Len(frames[u]) \in Nat
      BY <1>1
    <3>2. \A g \in f..Len(frames[u]) : g \in 1..Len(frames[u]) /\ frames'[u][g] = frames[u][g]
      BY <1>6, <2>1, <3>1
    <3> QED BY <1>6, <2>1, <3>2 DEF Inv, SmallSound
  <2>2. CASE u = t /\ f = last
    <3>1. \A b \in top.small : b.n \in Sizes /\ b.at + b.n <= top.sp
      BY <1>1 DEF Inv, SmallSound
    <3>2. \A b \in top.small : b.n \in Nat /\ b.at \in Nat
      BY <1>1 DEF Frame, TmpBlock
    <3>3. \A b \in new.small : b.n \in Sizes /\ b.at + b.n <= new.sp
      BY <1>2, <1>4, <3>1, <3>2
    <3>4. \A g \in f..Len(frames[u]) : g = last
      BY <1>1, <2>2
    <3>5. new.sp \in Nat
      BY <1>3 DEF Frame
    <3> QED BY <1>1, <1>4, <1>6, <2>2, <3>3, <3>4, <3>5
  <2>3. CASE u = t /\ f # last
    <3>1. f \in 1..last /\ frames'[u][f] = frames[t][f]
      BY <1>1, <1>6, <2>3
    <3>a. frames[t][f] \in Frame
      BY <1>1, <3>1
    <3>b. frames[t][f].sp \in Nat /\ frames[t][f].sp <= top.sp
      BY <1>2, <3>1, <3>a DEF Frame
    <3>2. ASSUME NEW g \in f..last PROVE frames[t][f].sp <= frames'[t][g].sp
      <4>1. CASE g = last
        BY <1>2, <1>4, <1>6, <3>b, <4>1
      <4>2. CASE g # last
        <5>1. g \in 1..last /\ frames'[t][g] = frames[t][g]
          BY <1>1, <1>6, <3>1, <4>2
        <5> QED BY <3>1, <5>1 DEF Inv, SmallSound
      <4> QED BY <4>1, <4>2
    <3> QED BY <2>3, <3>1, <3>2 DEF Inv, SmallSound
  <2> QED BY <2>1, <2>2, <2>3
<1>12. Owned(owner, depth)'
  <2>1. \A u \in Thread, f \in Nat : Of(owner, u, f)' = Of(owner, u, f)
    BY <1>5 DEF Of
  <2>2. \A u \in Thread : Rest(u)' = Rest(u)
    BY <1>5 DEF Rest
  <2>3. ASSUME NEW u \in Thread, NEW f \in 1..Len(frames'[u])
        PROVE  /\ Of(owner, u, f)' = {b.at - Hsiz : b \in frames'[u][f].big}
               /\ IsList(frames'[u][f].marker, Of(owner, u, f)', header', depth)
    <3>1. f \in 1..Len(frames[u]) /\ f \in Nat
      BY <1>1, <1>6
    <3>2. /\ Of(owner, u, f) = {b.at - Hsiz : b \in frames[u][f].big}
          /\ IsList(frames[u][f].marker, Of(owner, u, f), header, depth)
      BY <3>1 DEF Owned
    <3> QED BY <1>5, <1>9, <2>1, <3>1, <3>2
  <2>4. \A u \in Thread, f \in Nat : Of(owner, u, f)' # {} => f <= Len(frames'[u])
    BY <1>6, <2>1 DEF Owned
  <2>5. ASSUME NEW u \in Thread PROVE IsList(Rest(u)', Of(owner, u, 0)', header', depth)
    <3>1. IsList(Rest(u), Of(owner, u, 0), header, depth)
      BY DEF Owned
    <3> QED BY <1>5, <2>1, <2>2, <3>1
  <2>6. owner \in [DOMAIN heap' -> Thread \X Nat] /\ depth \in [DOMAIN heap' -> Nat]
    BY <1>5 DEF Owned
  <2> QED BY <2>3, <2>4, <2>5, <2>6 DEF Owned
<1> QED BY <1>7, <1>8, <1>10, <1>11, <1>12 DEF Inv

\* A block from the heap becomes the first of the list of the function that asked for it.
LEMMA InvBalloc ==
  ASSUME Inv, NEW t \in Thread, NEW n \in Sizes, Balloc(t, n)
  PROVE  Inv'
<1> USE MemoryAssumption, SizesAssumption, BoundAssumption
<1> DEFINE last == Len(frames[t])
           top == Top(t)
<1>p. PICK p \in Places(n + Hsiz) :
       /\ heap' = [a \in DOMAIN heap \cup {p} |-> IF a = p THEN n + Hsiz ELSE heap[a]]
       /\ header' = [header EXCEPT ![p] = [next |-> top.marker, size |-> n + Hsiz]]
       /\ frames' = [frames EXCEPT ![t] = [@ EXCEPT ![last] = MoreBig(top, p, n)]]
       /\ loop' = loop
  BY DEF Balloc, Link, TotalSize
<1> DEFINE block == [at |-> p + Hsiz, n |-> n]
           new == MoreBig(top, p, n)
<1>o. PICK owner, depth : Owned(owner, depth)
  BY DEF Inv
<1>1. /\ n \in Nat /\ n >= 1 /\ p \in Nat /\ p \in Address /\ p + (n + Hsiz) <= Memory
      /\ \A a \in DOMAIN heap : p + (n + Hsiz) <= a \/ a + heap[a] <= p
  BY <1>p DEF Places, Address
<1>2. /\ frames \in [Thread -> Seq(Frame)] /\ frames[t] # <<>> /\ frames[t] \in Seq(Frame)
      /\ last \in Nat /\ last \in 1..last /\ top \in Frame /\ top = frames[t][last]
  BY DEF Inv, Shape, Balloc, Running, Top
<1>3. /\ new \in Frame /\ new.marker = p /\ new.big = top.big \cup {block} /\ new.sp = top.sp
      /\ new.small = top.small
  <2>1. p \in 0..Memory
    BY <1>1
  <2> QED BY <1>1, <1>2, <2>1, FrameMoreBig DEF MoreBig, Given
<1> HIDE DEF top, new
<1>4. /\ frames' \in [Thread -> Seq(Frame)]
      /\ frames'[t][last] = new
      /\ \A u \in Thread : Len(frames'[u]) = Len(frames[u])
      /\ \A u \in Thread : \A f \in 1..Len(frames[u]) :
           u # t \/ f # last => frames'[u][f] = frames[u][f]
  BY <1>2, <1>3, <1>p, TopChanged DEF new
<1>5. /\ DOMAIN heap' = DOMAIN heap \cup {p} /\ heap'[p] = n + Hsiz
      /\ \A a \in DOMAIN heap : heap'[a] = heap[a] /\ header'[a] = header[a] /\ a # p
      /\ header'[p] = [next |-> top.marker, size |-> n + Hsiz]
      /\ \A a \in Address : a # p => header'[a] = header[a]
  <2>1. p \notin DOMAIN heap
    <3>1. \A a \in DOMAIN heap : heap[a] \in Nat /\ heap[a] > Hsiz /\ a \in Nat
      BY DEF Inv, Shape, HeapSound, Address
    <3> QED BY <1>1, <3>1
  <2>2. DOMAIN heap \subseteq Address
    BY DEF Inv, Shape
  <2>3. header \in [Address -> [next : 0..Memory, size : Nat]]
    BY DEF Inv, Shape
  <2> QED BY <1>1, <1>p, <2>1, <2>2, <2>3
<1>6. Shape'
  <2>1. [next |-> top.marker, size |-> n + Hsiz] \in [next : 0..Memory, size : Nat]
    BY <1>1, <1>2 DEF Frame
  <2>2. header' \in [Address -> [next : 0..Memory, size : Nat]]
    BY <1>p, <2>1 DEF Inv, Shape
  <2>3. frames' \in [Thread -> Seq(Frame)]
    BY <1>4 DEF Inv, Shape
  <2>4. heap' \in [DOMAIN heap' -> Nat] /\ DOMAIN heap' \subseteq Address
    BY <1>1, <1>5, <1>p DEF Inv, Shape
  <2> QED BY <1>p, <2>2, <2>3, <2>4 DEF Inv, Shape
<1>7. HeapSound'
  <2>1. \A a \in DOMAIN heap : heap[a] \in Nat /\ a \in Nat
    BY DEF Inv, Shape, Address
  <2>2. \A a \in DOMAIN heap' : /\ heap'[a] > Hsiz /\ a + heap'[a] <= Memory
                                /\ header'[a].size = heap'[a]
    BY <1>1, <1>5 DEF Inv, HeapSound
  <2>3. \A a, b \in DOMAIN heap' : a = b \/ a + heap'[a] <= b \/ b + heap'[b] <= a
    BY <1>1, <1>5, <2>1 DEF Inv, HeapSound
  <2> QED BY <2>2, <2>3 DEF HeapSound
<1>8. BigSound'
  <2> SUFFICES ASSUME NEW u \in Thread, NEW f \in 1..Len(frames'[u]),
                      NEW b \in frames'[u][f].big
               PROVE  /\ b.at - Hsiz \in DOMAIN heap'
                      /\ b.n \in Sizes /\ heap'[b.at - Hsiz] = b.n + Hsiz
    BY DEF BigSound
  <2>1. CASE b = block
    BY <1>1, <1>5, <2>1
  <2>2. CASE b # block
    <3>1. f \in 1..Len(frames[u]) /\ b \in frames[u][f].big
      BY <1>2, <1>3, <1>4, <2>2
    <3> QED BY <1>5, <3>1 DEF Inv, BigSound
  <2> QED BY <2>1, <2>2
<1>9. SmallSound'
  <2>1. \A u \in Thread : /\ Len(frames'[u]) = Len(frames[u])
                          /\ \A f \in 1..Len(frames[u]) :
                               /\ frames'[u][f].sp = frames[u][f].sp
                               /\ frames'[u][f].small = frames[u][f].small
    BY <1>2, <1>3, <1>4
  <2>2. \A u \in Thread : Len(frames[u]) \in Nat
    BY DEF Inv, Shape
  <2>3. \A u \in Thread : \A f \in 1..Len(frames[u]) : \A g \in f..Len(frames[u]) :
          g \in 1..Len(frames[u])
    BY <2>2
  <2> QED BY <2>1, <2>3 DEF Inv, SmallSound
<1>10. LoopSound'
  <2> SUFFICES ASSUME NEW u \in Thread
               PROVE  /\ loop[u].pc = "out" => loop[u] = Idle
                      /\ loop[u].pc = "give" => /\ loop[u].mark # Null
                                                /\ loop[u].next = header'[loop[u].mark].next
    BY <1>p DEF LoopSound
  <2>1. CASE loop[u].pc = "give"
    <3>1. loop[u].mark # Null /\ Rest(u) = loop[u].mark
      BY <2>1 DEF Inv, LoopSound, Rest
    <3>2. IsList(Rest(u), Of(owner, u, 0), header, depth)
      BY <1>o DEF Owned
    <3>3. loop[u].mark \in Of(owner, u, 0)
      BY <3>1, <3>2 DEF IsList
    <3>4. loop[u].mark \in DOMAIN heap
      BY <3>3 DEF Of
    <3> QED BY <1>5, <2>1, <3>1, <3>4 DEF Inv, LoopSound
  <2> QED BY <1>p, <2>1 DEF Inv, LoopSound
<1> DEFINE before == IF Of(owner, t, last) = {} THEN 0 ELSE depth[top.marker]
<1>11. /\ owner \in [DOMAIN heap -> Thread \X Nat] /\ depth \in [DOMAIN heap -> Nat]
       /\ Of(owner, t, last) = {b.at - Hsiz : b \in top.big}
       /\ IsList(top.marker, Of(owner, t, last), header, depth)
  BY <1>2, <1>o DEF Owned
<1>a. PICK o, d : /\ o = [a \in DOMAIN heap \cup {p} |-> IF a = p THEN <<t, last>> ELSE owner[a]]
                  /\ d = [a \in DOMAIN heap \cup {p} |-> IF a = p THEN before + 1 ELSE depth[a]]
  OBVIOUS
<1>12. /\ o \in [DOMAIN heap' -> Thread \X Nat] /\ d \in [DOMAIN heap' -> Nat]
       /\ o[p] = <<t, last>> /\ d[p] = before + 1
       /\ \A a \in DOMAIN heap : o[a] = owner[a] /\ d[a] = depth[a]
  <2>1. before \in Nat
    <3>1. Of(owner, t, last) # {} => top.marker \in DOMAIN heap
      BY <1>11 DEF IsList, Of
    <3> QED BY <1>11, <3>1
  <2> HIDE DEF before
  <2>2. o \in [DOMAIN heap' -> Thread \X Nat]
    BY <1>2, <1>5, <1>11, <1>a
  <2>3. d \in [DOMAIN heap' -> Nat]
    BY <1>5, <1>11, <1>a, <2>1
  <2>4. /\ o[p] = <<t, last>> /\ d[p] = before + 1
        /\ \A a \in DOMAIN heap : o[a] = owner[a] /\ d[a] = depth[a]
    BY <1>5, <1>a
  <2> QED BY <2>2, <2>3, <2>4
<1>13. Owned(o, d)'
  <2>4. Of(o, t, last)' = Of(owner, t, last) \cup {p} /\ p \notin Of(owner, t, last)
    <3>1. Of(o, t, last)' = {a \in DOMAIN heap' : o[a] = <<t, last>>}
      BY <1>4 DEF Of
    <3> QED BY <1>5, <1>12, <3>1 DEF Of
  <2>5. ASSUME NEW u \in Thread, NEW f \in Nat, u # t \/ f # last
        PROVE  Of(o, u, f)' = Of(owner, u, f)
    BY <1>5, <1>12, <2>5 DEF Of
  <2>6. ASSUME NEW u \in Thread, NEW f \in Nat, NEW first,
               IsList(first, Of(owner, u, f), header, depth)
        PROVE  IsList(first, Of(owner, u, f), header', d)
    <3>1. \A a \in Of(owner, u, f) : header[a] = header'[a] /\ depth[a] = d[a]
      BY <1>5, <1>12 DEF Of
    <3> QED BY <2>6, <3>1 DEF IsList
  <2>7. IsList(p, Of(o, t, last)', header', d)
    <3>1. PICK S, T, h, g, first :
            S = Of(owner, t, last) /\ T = Of(o, t, last)' /\ h = header /\ g = header'
              /\ first = top.marker
      OBVIOUS
    <3>2. IsList(first, S, h, depth) /\ p \notin S /\ \A a : a \in T <=> a \in S \/ a = p
      BY <1>11, <2>4, <3>1
    <3>3. \A a \in S : depth[a] \in Nat
      BY <1>11, <3>1 DEF Of
    <3>4. \A a \in S : h[a] = g[a] /\ depth[a] = d[a]
      BY <1>5, <1>12, <3>1 DEF Of
    <3>5. /\ S = {} => d[p] = 1
          /\ S # {} => d[p] = depth[first] + 1
          /\ g[p].next = first
      BY <1>5, <1>12, <3>1
    <3>6. IsList(p, T, g, d)
      BY <3>2, <3>3, <3>4, <3>5, ListLonger
    <3> QED BY <3>1, <3>6
  <2>8. {b.at - Hsiz : b \in new.big} = Of(owner, t, last) \cup {p}
    <3>1. block.at - Hsiz = p
      BY <1>1
    <3> QED BY <1>3, <1>11, <3>1
  <2>9. ASSUME NEW u \in Thread, NEW f \in 1..Len(frames'[u])
        PROVE  /\ Of(o, u, f)' = {b.at - Hsiz : b \in frames'[u][f].big}
               /\ IsList(frames'[u][f].marker, Of(o, u, f)', header', d)
    <3>1. CASE u = t /\ f = last
      BY <1>3, <1>4, <2>4, <2>7, <2>8, <3>1
    <3>2. CASE u # t \/ f # last
      <4>1. f \in 1..Len(frames[u]) /\ f \in Nat /\ frames'[u][f] = frames[u][f]
        BY <1>2, <1>4, <3>2
      <4>2. /\ Of(owner, u, f) = {b.at - Hsiz : b \in frames[u][f].big}
            /\ IsList(frames[u][f].marker, Of(owner, u, f), header, depth)
        BY <1>o, <4>1 DEF Owned
      <4> QED BY <2>5, <2>6, <3>2, <4>1, <4>2
    <3> QED BY <3>1, <3>2
  <2>10. ASSUME NEW u \in Thread PROVE IsList(Rest(u), Of(o, u, 0), header, d)'
    <3>1. Rest(u)' = Rest(u)
      BY <1>p DEF Rest
    <3>2. Of(o, u, 0)' = Of(owner, u, 0)
      BY <1>2, <2>5
    <3>3. IsList(Rest(u), Of(owner, u, 0), header, depth)
      BY <1>o DEF Owned
    <3> QED BY <2>6, <3>1, <3>2, <3>3
  <2>11. ASSUME NEW u \in Thread, NEW f \in Nat, Of(o, u, f)' # {} PROVE f <= Len(frames'[u])
    <3>1. CASE u = t /\ f = last
      BY <1>2, <1>4, <3>1
    <3>2. CASE u # t \/ f # last
      BY <1>2, <1>4, <1>o, <2>5, <2>11, <3>2 DEF Owned
    <3> QED BY <3>1, <3>2
  <2> QED BY <1>12, <2>9, <2>10, <2>11 DEF Owned
<1> QED BY <1>6, <1>7, <1>8, <1>9, <1>10, <1>13 DEF Inv

\* The functions below the innermost one stay as they are when it returns.
LEMMA FrontOf ==
  ASSUME NEW s \in Seq(Frame), s # <<>>
  PROVE  /\ Front(s) \in Seq(Frame)
         /\ Len(Front(s)) = Len(s) - 1
         /\ \A f \in 1..(Len(s) - 1) : Front(s)[f] = s[f]
<1>1. Len(s) \in Nat /\ Len(s) # 0
  OBVIOUS
<1>2. PICK n \in Nat : n = Len(s) - 1
  BY <1>1
<1>3. Front(s) = SubSeq(s, 1, n)
  BY <1>2 DEF Front
<1>4. \A f \in 1..n : f \in 1..Len(s) /\ s[f] \in Frame
  BY <1>1, <1>2
<1>5. /\ Front(s) \in Seq(Frame) /\ Len(Front(s)) = IF 1 <= n THEN n - 1 + 1 ELSE 0
      /\ \A f \in 1..(n - 1 + 1) : Front(s)[f] = s[1 + f - 1]
  BY <1>3, <1>4, SubSeqProperties
<1>6. n - 1 + 1 = n /\ \A f \in 1..n : 1 + f - 1 = f
  OBVIOUS
<1>7. Len(Front(s)) = n /\ \A f \in 1..n : Front(s)[f] = s[f]
  BY <1>5, <1>6
<1> QED BY <1>2, <1>5, <1>7

\* The list of a function that returns becomes the one TMP_FREE goes through.
LEMMA InvTmpFree ==
  ASSUME Inv, NEW t \in Thread, TmpFree(t)
  PROVE  Inv'
<1> USE MemoryAssumption, BoundAssumption
<1> DEFINE last == Len(frames[t])
           top == Top(t)
<1>o. PICK owner, depth : Owned(owner, depth)
  BY DEF Inv
<1>1. /\ frames \in [Thread -> Seq(Frame)] /\ frames[t] # <<>> /\ frames[t] \in Seq(Frame)
      /\ last \in Nat \ {0} /\ last \in 1..last /\ top \in Frame /\ top = frames[t][last]
  BY DEF Inv, Shape, TmpFree, Running, Top
<1>2. /\ frames' \in [Thread -> Seq(Frame)] /\ Len(frames'[t]) = last - 1
      /\ \A u \in Thread : u # t => frames'[u] = frames[u]
      /\ \A f \in 1..(last - 1) : frames'[t][f] = frames[t][f]
  <2>1. PICK rest : rest = Front(frames[t])
    OBVIOUS
  <2>2. frames' = [frames EXCEPT ![t] = rest]
    BY <2>1 DEF TmpFree
  <2>3. /\ rest \in Seq(Frame) /\ Len(rest) = last - 1
        /\ \A f \in 1..(last - 1) : rest[f] = frames[t][f]
    BY <1>1, <2>1, FrontOf
  <2> QED BY <1>1, <2>2, <2>3
<1>3. heap' = heap /\ header' = header
  BY DEF TmpFree
<1>4. /\ loop[t] = Idle
      /\ loop' = IF top.marker = Null THEN loop
                 ELSE [loop EXCEPT ![t] = [pc |-> "test", mark |-> top.marker, next |-> Null]]
  BY DEF TmpFree, Running, Inv, LoopSound
<1> HIDE DEF top
<1>5. /\ \A u \in Thread \ {t} : loop'[u] = loop[u]
      /\ loop'[t].pc \in {"out", "test"} /\ loop'[t].mark = top.marker
      /\ loop'[t].pc = "out" => loop'[t] = Idle
      /\ loop' \in [Thread -> [pc : {"out", "test", "give", "advance"},
                               mark : 0..Memory, next : 0..Memory]]
  <2>1. loop \in [Thread -> [pc : {"out", "test", "give", "advance"},
                             mark : 0..Memory, next : 0..Memory]]
    BY DEF Inv, Shape
  <2>2. top.marker \in 0..Memory /\ Null \in 0..Memory
    BY <1>1 DEF Frame, Null
  <2> QED BY <1>4, <2>1, <2>2 DEF Idle
<1>6. Shape'
  BY <1>2, <1>3, <1>5 DEF Inv, Shape
<1>7. HeapSound'
  BY <1>3 DEF Inv, HeapSound
<1>8. \A u \in Thread : \A f \in 1..Len(frames'[u]) :
        f \in 1..Len(frames[u]) /\ frames'[u][f] = frames[u][f] /\ (u # t \/ f # last)
  <2> SUFFICES ASSUME NEW u \in Thread, NEW f \in 1..Len(frames'[u])
               PROVE  /\ f \in 1..Len(frames[u]) /\ frames'[u][f] = frames[u][f]
                      /\ u # t \/ f # last
    OBVIOUS
  <2>1. CASE u = t
    <3>1. f \in 1..(last - 1)
      BY <1>1, <1>2, <2>1
    <3> QED BY <1>1, <1>2, <2>1, <3>1
  <2>2. CASE u # t
    BY <1>2, <2>2
  <2> QED BY <2>1, <2>2
<1>9. BigSound'
  BY <1>3, <1>8 DEF Inv, BigSound
<1>10. SmallSound'
  <2>1. \A u \in Thread : \A f \in 1..Len(frames'[u]) : \A g \in f..Len(frames'[u]) :
          g \in 1..Len(frames'[u]) /\ g \in f..Len(frames[u])
    BY <1>1, <1>2
  <2> QED BY <1>8, <2>1 DEF Inv, SmallSound
<1>11. LoopSound'
  BY <1>3, <1>5 DEF Inv, LoopSound
<1>12. Of(owner, t, 0) = {}
  <2>1. Rest(t) = Null
    BY <1>4 DEF Rest, Idle
  <2>2. IsList(Null, Of(owner, t, 0), header, depth)
    BY <1>o, <2>1 DEF Owned
  <2>3. Null \notin Of(owner, t, 0)
    BY DEF Inv, Shape, Address, Null, Of
  <2> QED BY <2>2, <2>3 DEF IsList
<1>a. PICK o : o = [a \in DOMAIN heap |-> IF owner[a] = <<t, last>> THEN <<t, 0>> ELSE owner[a]]
  OBVIOUS
<1>13. Owned(o, depth)'
  <2>1. owner \in [DOMAIN heap -> Thread \X Nat] /\ depth \in [DOMAIN heap -> Nat]
    BY <1>o DEF Owned
  <2>2. /\ o \in [DOMAIN heap' -> Thread \X Nat]
        /\ \A a \in DOMAIN heap : o[a] = IF owner[a] = <<t, last>> THEN <<t, 0>> ELSE owner[a]
    BY <1>1, <1>3, <1>a, <2>1
  <2>3. Of(o, t, 0)' = Of(owner, t, last)
    BY <1>1, <1>3, <1>12, <2>2 DEF Of
  <2>4. ASSUME NEW u \in Thread, NEW f \in Nat, ~(u = t /\ f \in {0, last})
        PROVE  Of(o, u, f)' = Of(owner, u, f)
    BY <1>1, <1>3, <2>2, <2>4 DEF Of
  <2>5. \A a \in DOMAIN heap : o[a] # <<t, last>>
    <3>1. <<t, 0>> # <<t, last>>
      BY <1>1
    <3> QED BY <2>2, <3>1
  <2>6. ASSUME NEW u \in Thread, NEW f \in 1..Len(frames'[u])
        PROVE  /\ Of(o, u, f)' = {b.at - Hsiz : b \in frames'[u][f].big}
               /\ IsList(frames'[u][f].marker, Of(o, u, f)', header', depth)
    <3>1. f \in 1..Len(frames[u]) /\ frames'[u][f] = frames[u][f] /\ (u # t \/ f # last)
      BY <1>8
    <3>2. f \in Nat /\ f # 0
      BY <1>2
    <3>3. /\ Of(owner, u, f) = {b.at - Hsiz : b \in frames[u][f].big}
          /\ IsList(frames[u][f].marker, Of(owner, u, f), header, depth)
      BY <1>o, <3>1 DEF Owned
    <3> QED BY <1>3, <2>4, <3>1, <3>2, <3>3
  <2>7. ASSUME NEW u \in Thread PROVE IsList(Rest(u)', Of(o, u, 0)', header', depth)
    <3>1. CASE u = t
      <4>1. Rest(t)' = top.marker
        BY <1>5 DEF Rest
      <4>2. IsList(top.marker, Of(owner, t, last), header, depth)
        BY <1>1, <1>o DEF Owned
      <4> QED BY <1>3, <2>3, <3>1, <4>1, <4>2
    <3>2. CASE u # t
      <4>1. Rest(u)' = Rest(u) /\ Of(o, u, 0)' = Of(owner, u, 0)
        BY <1>5, <2>4, <3>2 DEF Rest
      <4>2. IsList(Rest(u), Of(owner, u, 0), header, depth)
        BY <1>o DEF Owned
      <4> QED BY <1>3, <4>1, <4>2
    <3> QED BY <3>1, <3>2
  <2>8. ASSUME NEW u \in Thread, NEW f \in Nat, Of(o, u, f)' # {} PROVE f <= Len(frames'[u])
    <3>1. f # last \/ u # t
      <4>1. Of(o, u, f)' = {a \in DOMAIN heap' : o[a] = <<u, f>>}
        BY DEF Of
      <4> QED BY <1>3, <2>5, <2>8, <4>1
    <3>2. CASE u = t /\ f = 0
      BY <1>1, <1>2, <3>2
    <3>3. CASE ~(u = t /\ f = 0)
      <4>1. Of(owner, u, f) # {}
        BY <2>4, <2>8, <3>1, <3>3
      <4>2. f <= Len(frames[u])
        BY <1>o, <4>1 DEF Owned
      <4> QED BY <1>1, <1>2, <3>1, <4>2
    <3> QED BY <3>2, <3>3
  <2> QED BY <1>3, <2>1, <2>2, <2>6, <2>7, <2>8 DEF Owned
<1> QED BY <1>6, <1>7, <1>9, <1>10, <1>11, <1>13 DEF Inv

\* What a step of TMP_FREE leaves alone when it changes no header and no function.
LEMMA InvOthers ==
  ASSUME Inv, NEW t \in Thread, frames' = frames, header' = header,
         DOMAIN heap' \subseteq DOMAIN heap, heap' \in [DOMAIN heap' -> Nat],
         \A a \in DOMAIN heap' : heap'[a] = heap[a],
         NEW l, l \in [pc : {"out", "test", "give", "advance"}, mark : 0..Memory,
                       next : 0..Memory],
         loop' = [loop EXCEPT ![t] = l],
         l.pc = "out" => l = Idle,
         l.pc = "give" => l.mark # Null /\ l.next = header[l.mark].next
  PROVE  Shape' /\ HeapSound' /\ SmallSound' /\ LoopSound'
<1>1. Shape'
  BY DEF Inv, Shape
<1>2. HeapSound'
  BY DEF Inv, HeapSound
<1>3. SmallSound'
  BY DEF Inv, SmallSound
<1>4. LoopSound'
  BY DEF Inv, Shape, LoopSound
<1> QED BY <1>1, <1>2, <1>3, <1>4

\* A step of TMP_FREE that frees nothing keeps its list.
LEMMA InvStay ==
  ASSUME Inv, NEW t \in Thread, heap' = heap, header' = header, frames' = frames,
         NEW l, l \in [pc : {"out", "test", "give", "advance"}, mark : 0..Memory,
                       next : 0..Memory],
         loop' = [loop EXCEPT ![t] = l],
         l.pc = "out" => l = Idle,
         l.pc = "give" => l.mark # Null /\ l.next = header[l.mark].next,
         Rest(t)' = Rest(t)
  PROVE  Inv'
<1>o. PICK owner, depth : Owned(owner, depth)
  BY DEF Inv
<1>1. Shape' /\ HeapSound' /\ SmallSound' /\ LoopSound'
  <2>1. heap' \in [DOMAIN heap' -> Nat]
    BY DEF Inv, Shape
  <2> QED BY <2>1, InvOthers
<1>2. BigSound'
  BY DEF Inv, BigSound
<1>3. \A u \in Thread : Rest(u)' = Rest(u)
  <2> SUFFICES ASSUME NEW u \in Thread, u # t PROVE Rest(u)' = Rest(u)
    OBVIOUS
  <2>1. loop'[u] = loop[u]
    BY DEF Inv, Shape
  <2> QED BY <2>1 DEF Rest
<1>4. \A u \in Thread, f \in Nat : Of(owner, u, f)' = Of(owner, u, f)
  BY DEF Of
<1>5. Owned(owner, depth)'
  <2>1. ASSUME NEW u \in Thread, NEW f \in 1..Len(frames[u])
        PROVE  /\ Of(owner, u, f)' = {b.at - Hsiz : b \in frames'[u][f].big}
               /\ IsList(frames'[u][f].marker, Of(owner, u, f)', header', depth)
    <3>1. f \in Nat
      BY DEF Inv, Shape
    <3>2. /\ Of(owner, u, f) = {b.at - Hsiz : b \in frames[u][f].big}
          /\ IsList(frames[u][f].marker, Of(owner, u, f), header, depth)
      BY <1>o DEF Owned
    <3> QED BY <1>4, <3>1, <3>2
  <2>2. ASSUME NEW u \in Thread PROVE IsList(Rest(u)', Of(owner, u, 0)', header', depth)
    <3>1. IsList(Rest(u), Of(owner, u, 0), header, depth)
      BY <1>o DEF Owned
    <3> QED BY <1>3, <1>4, <3>1
  <2>3. \A u \in Thread, f \in Nat : Of(owner, u, f)' # {} => f <= Len(frames'[u])
    BY <1>o, <1>4 DEF Owned
  <2>4. owner \in [DOMAIN heap' -> Thread \X Nat] /\ depth \in [DOMAIN heap' -> Nat]
    BY <1>o DEF Owned
  <2> QED BY <2>1, <2>2, <2>3, <2>4 DEF Owned
<1> QED BY <1>1, <1>2, <1>5 DEF Inv

\* The test of the loop of TMP_FREE, with the read of the next block, keeps the
\* invariant: the rest of the list is what it was.
LEMMA InvFreeTest ==
  ASSUME Inv, NEW t \in Thread, FreeTest(t)
  PROVE  Inv'
<1>1. /\ loop \in [Thread -> [pc : {"out", "test", "give", "advance"}, mark : 0..Memory,
                              next : 0..Memory]]
      /\ header \in [Address -> [next : 0..Memory, size : Nat]]
      /\ heap' = heap /\ header' = header /\ frames' = frames /\ loop[t].pc = "test"
      /\ Null = Memory /\ Null \in 0..Memory /\ Address = 0..(Memory - 1)
  BY MemoryAssumption DEF Inv, Shape, FreeTest, Null, Address
<1>2. PICK l : l = IF loop[t].mark = Null THEN Idle
                   ELSE [pc |-> "give", mark |-> loop[t].mark,
                         next |-> header[loop[t].mark].next]
  OBVIOUS
<1>3. loop' = [loop EXCEPT ![t] = l]
  BY <1>2 DEF FreeTest
<1>4. /\ l \in [pc : {"out", "test", "give", "advance"}, mark : 0..Memory, next : 0..Memory]
      /\ l.pc = "out" => l = Idle
      /\ l.pc = "give" => l.mark # Null /\ l.next = header[l.mark].next
      /\ l.pc # "advance" /\ l.mark = loop[t].mark
  <2>1. CASE loop[t].mark = Null
    BY <1>1, <1>2, <2>1 DEF Idle
  <2>2. CASE loop[t].mark # Null
    <3>1. loop[t].mark \in Address /\ loop[t].mark \in 0..Memory
      BY <1>1, <2>2, MemoryAssumption
    <3>2. header[loop[t].mark].next \in 0..Memory
      BY <1>1, <3>1
    <3> QED BY <1>2, <2>2, <3>1, <3>2
  <2> QED BY <2>1, <2>2
<1>5. Rest(t)' = Rest(t)
  BY <1>1, <1>3, <1>4 DEF Rest
<1> QED BY <1>1, <1>3, <1>4, <1>5, InvStay

\* The last statement of the loop of TMP_FREE keeps the invariant.
LEMMA InvFreeAdvance ==
  ASSUME Inv, NEW t \in Thread, FreeAdvance(t)
  PROVE  Inv'
<1>1. /\ loop \in [Thread -> [pc : {"out", "test", "give", "advance"}, mark : 0..Memory,
                              next : 0..Memory]]
      /\ heap' = heap /\ header' = header /\ frames' = frames /\ loop[t].pc = "advance"
  BY DEF Inv, Shape, FreeAdvance
<1>2. PICK l : l = [pc |-> "test", mark |-> loop[t].next, next |-> loop[t].next]
  OBVIOUS
<1>3. loop' = [loop EXCEPT ![t] = l]
  BY <1>2 DEF FreeAdvance, Follow
<1>4. /\ l \in [pc : {"out", "test", "give", "advance"}, mark : 0..Memory, next : 0..Memory]
      /\ l.pc = "test" /\ l.mark = loop[t].next
  BY <1>1, <1>2
<1>5. Rest(t)' = Rest(t)
  BY <1>1, <1>3, <1>4 DEF Rest
<1> QED BY <1>1, <1>3, <1>4, <1>5, InvStay

\* The block that is freed is the first of the list that is left to free, and no other
\* owner's: every other list stays what it is.
LEMMA InvFreeGive ==
  ASSUME Inv, NEW t \in Thread, FreeGive(t)
  PROVE  Inv'
<1>o. PICK owner, depth : Owned(owner, depth)
  BY DEF Inv
<1> DEFINE mark == loop[t].mark
<1>1. /\ loop \in [Thread -> [pc : {"out", "test", "give", "advance"}, mark : 0..Memory,
                              next : 0..Memory]]
      /\ header' = header /\ frames' = frames /\ loop[t].pc = "give"
      /\ mark # Null /\ loop[t].next = header[mark].next
  BY DEF Inv, Shape, LoopSound, FreeGive
<1>2. PICK l : l = [pc |-> "advance", mark |-> mark, next |-> loop[t].next]
  OBVIOUS
<1>3. loop' = [loop EXCEPT ![t] = l]
  <2>1. [loop[t] EXCEPT !.pc = "advance"] = l
    BY <1>1, <1>2
  <2> QED BY <1>1, <2>1 DEF FreeGive
<1>4. /\ l \in [pc : {"out", "test", "give", "advance"}, mark : 0..Memory, next : 0..Memory]
      /\ l.pc = "advance" /\ l.next = header[mark].next
  BY <1>1, <1>2
<1>5. /\ DOMAIN heap' = DOMAIN heap \ {mark} /\ heap' \in [DOMAIN heap' -> Nat]
      /\ \A a \in DOMAIN heap' : heap'[a] = heap[a]
  BY DEF FreeGive, Inv, Shape
<1>6. Shape' /\ HeapSound' /\ SmallSound' /\ LoopSound'
  BY <1>1, <1>3, <1>4, <1>5, InvOthers
<1>7. IsList(mark, Of(owner, t, 0), header, depth)
  BY <1>o, <1>1 DEF Owned, Rest
<1>8. mark \in Of(owner, t, 0) /\ owner[mark] = <<t, 0>> /\ mark \in DOMAIN heap
  <2>1. mark \in Of(owner, t, 0)
    BY <1>1, <1>7 DEF IsList
  <2> QED BY <2>1 DEF Of
<1>9. /\ owner \in [DOMAIN heap -> Thread \X Nat] /\ depth \in [DOMAIN heap -> Nat]
  BY <1>o DEF Owned
<1>10. \A u \in Thread : \A f \in 1..Len(frames[u]) :
         /\ Of(owner, u, f) = {b.at - Hsiz : b \in frames[u][f].big}
         /\ IsList(frames[u][f].marker, Of(owner, u, f), header, depth)
  BY <1>o DEF Owned
<1>11. BigSound'
  <2> SUFFICES ASSUME NEW u \in Thread, NEW f \in 1..Len(frames[u]), NEW b \in frames[u][f].big
               PROVE  /\ b.at - Hsiz \in DOMAIN heap'
                      /\ b.n \in Sizes /\ heap'[b.at - Hsiz] = b.n + Hsiz
    BY <1>1 DEF BigSound
  <2>1. b.at - Hsiz \in Of(owner, u, f)
    BY <1>10
  <2>2. owner[b.at - Hsiz] = <<u, f>>
    BY <2>1 DEF Of
  <2>3. f # 0
    BY DEF Inv, Shape
  <2>4. b.at - Hsiz # mark
    BY <1>8, <2>2, <2>3
  <2> QED BY <1>5, <2>4 DEF Inv, BigSound
<1>a. PICK o, d : /\ o = [a \in DOMAIN heap \ {mark} |-> owner[a]]
                  /\ d = [a \in DOMAIN heap \ {mark} |-> depth[a]]
  OBVIOUS
<1>12. Owned(o, d)'
  <2>1. o \in [DOMAIN heap' -> Thread \X Nat] /\ d \in [DOMAIN heap' -> Nat]
    BY <1>5, <1>9, <1>a
  <2>2. \A a \in DOMAIN heap \ {mark} : o[a] = owner[a] /\ d[a] = depth[a]
    BY <1>a
  <2>3. \A u \in Thread, f \in Nat : Of(o, u, f)' = Of(owner, u, f) \ {mark}
    BY <1>5, <2>2 DEF Of
  <2>4. ASSUME NEW u \in Thread, NEW f \in Nat, u # t \/ f # 0
        PROVE  Of(o, u, f)' = Of(owner, u, f) /\ mark \notin Of(owner, u, f)
    <3>1. mark \notin Of(owner, u, f)
      BY <1>8, <2>4 DEF Of
    <3> QED BY <2>3, <3>1
  <2>5. ASSUME NEW u \in Thread, NEW f \in Nat, u # t \/ f # 0, NEW first,
               IsList(first, Of(owner, u, f), header, depth)
        PROVE  IsList(first, Of(o, u, f)', header', d)
    <3>1. \A a \in Of(owner, u, f) : depth[a] = d[a]
      BY <2>2, <2>4, <2>5 DEF Of
    <3>2. IsList(first, Of(owner, u, f), header, d)
      BY <2>5, <3>1 DEF IsList
    <3> QED BY <1>1, <2>4, <2>5, <3>2
  <2>6. IsList(header[mark].next, Of(o, t, 0)', header', d)
    <3>1. \A a \in Of(owner, t, 0) : depth[a] \in Nat
      BY <1>9 DEF Of
    <3>2. PICK S, h : S = Of(owner, t, 0) /\ h = header
      OBVIOUS
    <3>3. IsList(mark, S, h, depth) /\ S # {} /\ \A a \in S : depth[a] \in Nat
      BY <1>7, <1>8, <3>1, <3>2
    <3>4. IsList(h[mark].next, S \ {mark}, h, depth)
      BY <3>3, ListRest
    <3>5. PICK T, g : T = S \ {mark} /\ g = header'
      OBVIOUS
    <3>6. IsList(h[mark].next, T, h, depth) /\ g = h
      BY <1>1, <3>2, <3>4, <3>5
    <3>7. \A a \in T : depth[a] = d[a]
      BY <2>2, <3>2, <3>5 DEF Of
    <3>8. IsList(h[mark].next, T, g, d)
      BY <3>6, <3>7 DEF IsList
    <3> QED BY <2>3, <3>2, <3>5, <3>8
  <2>7. ASSUME NEW u \in Thread, NEW f \in 1..Len(frames'[u])
        PROVE  /\ Of(o, u, f)' = {b.at - Hsiz : b \in frames'[u][f].big}
               /\ IsList(frames'[u][f].marker, Of(o, u, f)', header', d)
    <3>1. f \in 1..Len(frames[u]) /\ f \in Nat /\ f # 0
      BY <1>1 DEF Inv, Shape
    <3> QED BY <1>1, <1>10, <2>4, <2>5, <3>1
  <2>8. ASSUME NEW u \in Thread PROVE IsList(Rest(u)', Of(o, u, 0)', header', d)
    <3>1. CASE u = t
      <4>1. Rest(t)' = header[mark].next
        BY <1>1, <1>3, <1>4 DEF Rest
      <4> QED BY <2>6, <3>1, <4>1
    <3>2. CASE u # t
      <4>1. Rest(u)' = Rest(u)
        BY <1>1, <1>3, <3>2 DEF Rest
      <4>2. IsList(Rest(u), Of(owner, u, 0), header, depth)
        BY <1>o DEF Owned
      <4> QED BY <2>5, <3>2, <4>1, <4>2
    <3> QED BY <3>1, <3>2
  <2>9. ASSUME NEW u \in Thread, NEW f \in Nat, Of(o, u, f)' # {} PROVE f <= Len(frames'[u])
    <3>1. Of(owner, u, f) # {}
      BY <2>3, <2>9
    <3> QED BY <1>o, <1>1, <3>1 DEF Owned
  <2> QED BY <2>1, <2>7, <2>8, <2>9 DEF Owned
<1> QED BY <1>6, <1>11, <1>12 DEF Inv

\* Every step of every thread keeps the invariant.
LEMMA InvNext == Inv /\ [Next]_vars => Inv'
<1> SUFFICES ASSUME Inv, [Next]_vars PROVE Inv'
  OBVIOUS
<1>1. ASSUME NEW t \in Thread, TmpMark(t) PROVE Inv'
  BY <1>1, InvMark
<1>2. ASSUME NEW t \in Thread, NEW n \in Sizes, Salloc(t, n) PROVE Inv'
  BY <1>2, InvSalloc
<1>3. ASSUME NEW t \in Thread, NEW n \in Sizes, Balloc(t, n) PROVE Inv'
  BY <1>3, InvBalloc
<1>4. ASSUME NEW t \in Thread, TmpFree(t) PROVE Inv'
  BY <1>4, InvTmpFree
<1>5. ASSUME NEW t \in Thread, FreeStep(t) PROVE Inv'
  BY <1>5, InvFreeTest, InvFreeGive, InvFreeAdvance DEF FreeStep
<1>6. CASE UNCHANGED vars
  <2> USE <1>6 DEF vars
  <2>1. Shape' /\ HeapSound' /\ BigSound' /\ SmallSound' /\ LoopSound'
    BY DEF Inv, Shape, HeapSound, BigSound, SmallSound, LoopSound
  <2>2. PICK owner, depth : Owned(owner, depth)
    BY DEF Inv
  <2>3. Owned(owner, depth)'
    <3>1. \A u \in Thread, f \in Nat : Of(owner, u, f)' = Of(owner, u, f)
      BY DEF Of
    <3>2. \A u \in Thread : Rest(u)' = Rest(u)
      BY DEF Rest
    <3>3. \A u \in Thread : Len(frames[u]) \in Nat
      BY DEF Inv, Shape
    <3> QED BY <2>2, <3>1, <3>2, <3>3 DEF Owned
  <2> QED BY <2>1, <2>3 DEF Inv
<1> QED BY <1>1, <1>2, <1>3, <1>4, <1>5, <1>6 DEF Next

\* The invariant holds in every state that is reached.
LEMMA InvAlways == Spec => []Inv
BY InvInit, InvNext, PTL DEF Spec

-----------------------------------------------------------------------------
(* What follows from the invariant. *)

\* A block of a function starts after the header of a block of the heap that it owns.
LEMMA BlockOf ==
  ASSUME Inv, NEW owner, NEW depth, Owned(owner, depth),
         NEW t \in Thread, NEW f \in 1..Len(frames[t]), NEW b \in frames[t][f].big
  PROVE  /\ b.at - Hsiz \in DOMAIN heap /\ owner[b.at - Hsiz] = <<t, f>> /\ f # 0
         /\ b.at \in Nat /\ b.n \in Sizes /\ b.n \in Nat
         /\ heap[b.at - Hsiz] = b.n + Hsiz /\ b.at + b.n <= Memory
<1> USE MemoryAssumption, SizesAssumption
<1>1. b.at - Hsiz \in DOMAIN heap /\ b.n \in Sizes /\ heap[b.at - Hsiz] = b.n + Hsiz
  BY DEF Inv, BigSound
<1>2. f \in Nat /\ f # 0
  BY DEF Inv, Shape
<1>3. b.at - Hsiz \in Of(owner, t, f)
  <2>1. Of(owner, t, f) = {c.at - Hsiz : c \in frames[t][f].big}
    BY DEF Owned
  <2> QED BY <2>1
<1>4. b \in TmpBlock
  <2>1. frames[t][f] \in Frame
    BY DEF Inv, Shape
  <2> QED BY <2>1 DEF Frame
<1>5. b.at - Hsiz + heap[b.at - Hsiz] <= Memory
  BY <1>1 DEF Inv, HeapSound
<1> QED BY <1>1, <1>2, <1>3, <1>4, <1>5 DEF Of, TmpBlock

\* TMP_FREE of any thread gives back a block that is allocated and nobody else's, with its
\* own size, and what functions write to their blocks reaches no header.
THEOREM FreedRightAlways == Spec => []FreedRight
<1>1. Inv => FreedRight
  <2> SUFFICES ASSUME Inv PROVE FreedRight
    OBVIOUS
  <2> USE MemoryAssumption
  <2>1. PICK owner, depth : Owned(owner, depth)
    BY DEF Inv
  <2> DEFINE held == UNION {UNION {frames[t][f].big : f \in 1..Len(frames[t])} : t \in Thread}
  <2>2. \A b \in held : \E t \in Thread : \E f \in 1..Len(frames[t]) : b \in frames[t][f].big
    OBVIOUS
  <2> HIDE DEF held
  <2>3. ASSUME NEW b \in held
        PROVE  /\ b.at - Hsiz \in DOMAIN heap /\ b.at \in Nat /\ b.n \in Nat
               /\ heap[b.at - Hsiz] = b.n + Hsiz
               /\ \A u \in Thread : owner[b.at - Hsiz] # <<u, 0>>
    <3>0. PICK t \in Thread : \E f \in 1..Len(frames[t]) : b \in frames[t][f].big
      BY <2>2
    <3>1. PICK f \in 1..Len(frames[t]) : b \in frames[t][f].big
      BY <3>0
    <3>2. /\ b.at - Hsiz \in DOMAIN heap /\ owner[b.at - Hsiz] = <<t, f>> /\ f # 0
          /\ b.at \in Nat /\ b.n \in Nat /\ heap[b.at - Hsiz] = b.n + Hsiz
      BY <2>1, <3>1, BlockOf
    <3> QED BY <3>2
  <2>4. ASSUME NEW t \in Thread, loop[t].pc = "give"
        PROVE  LET mark == loop[t].mark
               IN  /\ mark \in DOMAIN heap
                   /\ header[mark].size = heap[mark]
                   /\ \A b \in held : b.at # mark + Hsiz
    <3> DEFINE mark == loop[t].mark
    <3>1. mark # Null /\ Rest(t) = mark
      BY <2>4 DEF Inv, LoopSound, Rest
    <3>2. IsList(mark, Of(owner, t, 0), header, depth)
      BY <2>1, <3>1 DEF Owned
    <3>3. mark \in Of(owner, t, 0)
      BY <3>1, <3>2 DEF IsList
    <3>4. mark \in DOMAIN heap /\ owner[mark] = <<t, 0>> /\ mark \in Nat
      BY <3>3 DEF Of, Inv, Shape, Address
    <3>5. ASSUME NEW b \in held PROVE b.at # mark + Hsiz
      <4>1. b.at - Hsiz # mark
        BY <2>3, <3>4
      <4> QED BY <2>3, <3>4, <4>1
    <3> QED BY <3>4, <3>5 DEF Inv, HeapSound
  <2>5. ASSUME NEW b \in held, NEW a \in DOMAIN heap
        PROVE  b.at + b.n <= a \/ a + Hsiz <= b.at
    <3> DEFINE base == b.at - Hsiz
    <3>1. a \in Nat /\ heap[a] \in Nat /\ heap[a] > Hsiz
      BY DEF Inv, Shape, HeapSound, Address
    <3>2. base = a \/ base + heap[base] <= a \/ a + heap[a] <= base
      BY <2>3 DEF Inv, HeapSound
    <3> QED BY <2>3, <3>1, <3>2
  <2> QED BY <2>4, <2>5 DEF FreedRight, held
<1> QED BY <1>1, InvAlways, PTL

\* When every function has returned and no TMP_FREE is under way the heap is empty.
THEOREM NoLeakAlways == Spec => []NoLeak
<1>1. Inv => NoLeak
  <2> SUFFICES ASSUME Inv, \A t \in Thread : frames[t] = <<>> /\ loop[t] = Idle
               PROVE  heap = <<>>
    BY DEF NoLeak
  <2>1. PICK owner, depth : Owned(owner, depth)
    BY DEF Inv
  <2>2. ASSUME NEW a \in DOMAIN heap PROVE FALSE
    <3>1. PICK t \in Thread, f \in Nat : owner[a] = <<t, f>>
      BY <2>1 DEF Owned
    <3>2. a \in Of(owner, t, f)
      BY <3>1 DEF Of
    <3>3. f <= Len(frames[t])
      BY <2>1, <3>2 DEF Owned
    <3>4. f = 0
      BY <3>3
    <3>5. IsList(Rest(t), Of(owner, t, 0), header, depth) /\ Rest(t) = Null
      BY <2>1 DEF Owned, Rest, Idle
    <3>6. Null \in Of(owner, t, 0)
      BY <3>2, <3>4, <3>5 DEF IsList
    <3>7. Null \in 0..(Memory - 1)
      BY <3>6 DEF Of, Inv, Shape, Address
    <3> QED BY <3>7, MemoryAssumption DEF Null
  <2>3. heap \in [{} -> Nat]
    BY <2>2 DEF Inv, Shape
  <2> QED BY <2>3
<1> QED BY <1>1, InvAlways, PTL

-----------------------------------------------------------------------------
(* Lists and alloca keep the promise of TMP_ALLOC. *)

GrantedSound ==
  /\ Granted \in [Thread -> Seq(SUBSET Regions)]
  /\ \A t \in Thread : /\ Len(Granted[t]) = Len(frames[t])
                       /\ \A f \in 1..Len(frames[t]) : Granted[t][f] = RegionsOf(t, f)

\* The regions of every function are ones an allocation can return.
LEMMA InvRegions ==
  ASSUME Inv, NEW t \in Thread, NEW f \in 1..Len(frames[t])
  PROVE  RegionsOf(t, f) \in SUBSET Regions
<1> USE MemoryAssumption, SizesAssumption, BoundAssumption
<1>1. frames[t][f] \in Frame
  BY DEF Inv, Shape
<1>2. ASSUME NEW b \in frames[t][f].big PROVE b.at \in Address /\ b.n \in Sizes
  <2>1. PICK owner, depth : Owned(owner, depth)
    BY DEF Inv
  <2>2. b.at \in Nat /\ b.n \in Sizes /\ b.n \in Nat /\ b.at + b.n <= Memory
    BY <2>1, BlockOf
  <2> QED BY <2>2 DEF Address
<1>3. ASSUME NEW b \in frames[t][f].small PROVE b.at \in 0..(StackRoom - 1) /\ b.n \in Sizes
  <2>1. b \in TmpBlock /\ frames[t][f].sp \in Nat
    BY <1>1 DEF Frame
  <2>2. b.at \in Nat
    BY <2>1 DEF TmpBlock
  <2>3. b.n \in Sizes /\ b.at + b.n <= frames[t][f].sp /\ frames[t][f].sp <= StackRoom
    BY DEF Inv, SmallSound
  <2>4. PICK a, n, s : a = b.at /\ n = b.n /\ s = frames[t][f].sp
    OBVIOUS
  <2>5. n \in Nat /\ n >= 1
    <3>1. n \in Nat \ {0}
      BY <2>3, <2>4
    <3> QED BY <3>1
  <2>6. a \in 0..(StackRoom - 1)
    BY <2>1, <2>2, <2>3, <2>4, <2>5
  <2> QED BY <2>3, <2>4, <2>6
<1>4. \A b \in frames[t][f].big : Bytes(HeapSpace, b.at, b.n) \in Regions
  BY <1>2 DEF Regions
<1>5. \A b \in frames[t][f].small : Bytes(StackSpace(t), b.at, b.n) \in Regions
  BY <1>3 DEF Regions
<1> QED BY <1>4, <1>5 DEF RegionsOf

\* The regions of the functions have the form that TmpAlloc asks for.
LEMMA InvGranted == Inv => GrantedSound
<1> SUFFICES ASSUME Inv PROVE GrantedSound
  OBVIOUS
<1>1. ASSUME NEW t \in Thread
      PROVE  /\ Granted[t] \in Seq(SUBSET Regions) /\ Len(Granted[t]) = Len(frames[t])
             /\ \A f \in 1..Len(frames[t]) : Granted[t][f] = RegionsOf(t, f)
  <2>0. Len(frames[t]) \in Nat
    BY DEF Inv, Shape
  <2>1. PICK n \in Nat : n = Len(frames[t])
    BY <2>0
  <2>2. Granted[t] = [f \in 1..n |-> RegionsOf(t, f)]
    BY <2>1 DEF Granted
  <2>3. Granted[t] \in [1..n -> SUBSET Regions]
    BY <2>1, <2>2, InvRegions
  <2>4. Granted[t] \in Seq(SUBSET Regions)
    BY <2>3, SeqDef
  <2>5. Len(Granted[t]) \in Nat /\ DOMAIN Granted[t] = 1..Len(Granted[t])
    BY <2>4, LenProperties
  <2>6. Len(Granted[t]) = n
    BY <2>3, <2>5
  <2> QED BY <2>1, <2>2, <2>4, <2>6
<1>2. Granted \in [Thread -> Seq(SUBSET Regions)]
  BY <1>1 DEF Granted
<1> QED BY <1>1, <1>2 DEF GrantedSound

\* The sequence of a thread is all that changes.
LEMMA OnlyOf ==
  ASSUME NEW S, NEW g \in [Thread -> Seq(S)], NEW h \in [Thread -> Seq(S)],
         NEW t \in Thread, NEW s \in Seq(S),
         \A u \in Thread : u # t => h[u] = g[u],
         Len(h[t]) = Len(s), \A f \in 1..Len(s) : h[t][f] = s[f]
  PROVE  h = [g EXCEPT ![t] = s]
<1>1. h[t] = s
  BY SeqEqual
<1> QED BY <1>1

\* The regions of all threads change to what those of one thread became.
LEMMA GrantedBecomes ==
  ASSUME GrantedSound, GrantedSound', NEW t \in Thread, NEW s \in Seq(SUBSET Regions),
         \A u \in Thread : u # t => Granted'[u] = Granted[u],
         Len(frames'[t]) = Len(s), \A f \in 1..Len(s) : Granted'[t][f] = s[f]
  PROVE  Granted' = [Granted EXCEPT ![t] = s]
<1>1. PICK S, g, h : S = SUBSET Regions /\ g = Granted /\ h = Granted'
  OBVIOUS
<1>2. g \in [Thread -> Seq(S)] /\ h \in [Thread -> Seq(S)] /\ s \in Seq(S)
  BY <1>1 DEF GrantedSound
<1>3. Len(h[t]) = Len(s) /\ \A f \in 1..Len(s) : h[t][f] = s[f]
  BY <1>1 DEF GrantedSound
<1>4. \A u \in Thread : u # t => h[u] = g[u]
  BY <1>1
<1>5. h = [g EXCEPT ![t] = s]
  BY <1>2, <1>3, <1>4, OnlyOf
<1> QED BY <1>1, <1>5

\* A function keeps its regions while it keeps its blocks.
LEMMA SameRegions ==
  ASSUME NEW t \in Thread, NEW f, frames'[t][f].big = frames[t][f].big,
         frames'[t][f].small = frames[t][f].small
  PROVE  RegionsOf(t, f)' = RegionsOf(t, f)
BY DEF RegionsOf

\* Two ranges of bytes share none when they are in different spaces or one ends before
\* the other begins.
LEMMA BytesApart ==
  ASSUME NEW x, NEW y, NEW a \in Int, NEW b \in Int, NEW m \in Int, NEW n \in Int,
         x # y \/ a + m <= b \/ b + n <= a
  PROVE  Bytes(x, a, m) \cap Bytes(y, b, n) = {}
<1> SUFFICES ASSUME NEW i \in a..(a + m - 1), NEW j \in b..(b + n - 1), <<x, i>> = <<y, j>>
             PROVE  FALSE
  BY DEF Bytes
<1>1. x = y /\ i = j
  OBVIOUS
<1> QED BY <1>1

\* What is held, with the function that holds it.
LEMMA HeldRegion ==
  ASSUME Inv, NEW q \in Tmp!Held
  PROVE  \E t \in Thread : \E f \in 1..Len(frames[t]) :
           \/ \E b \in frames[t][f].big : q = Bytes(HeapSpace, b.at, b.n)
           \/ \E b \in frames[t][f].small : q = Bytes(StackSpace(t), b.at, b.n)
<1>1. PICK t \in Thread : q \in Tmp!Holding(t)
  BY DEF Tmp!Held
<1>2. PICK f \in 1..Len(Granted[t]) : q \in Granted[t][f]
  BY <1>1 DEF Tmp!Holding
<1>3. f \in 1..Len(frames[t]) /\ q \in RegionsOf(t, f)
  BY <1>2, InvGranted DEF GrantedSound
<1> QED BY <1>3 DEF RegionsOf

\* TMP_MARK is the step Mark of the promise.
LEMMA StepMark ==
  ASSUME Inv, GrantedSound, GrantedSound', NEW t \in Thread, TmpMark(t)
  PROVE  Tmp!Mark(t)
<1> DEFINE last == Len(frames[t])
<1>1. frames[t] \in Seq(Frame) /\ last \in Nat /\ Pointer(t) \in Nat
  BY PointerTop DEF Inv, Shape
<1>2. PICK new \in Frame : new = [marker |-> Null, big |-> {}, small |-> {}, sp |-> Pointer(t)]
  <2>1. [marker |-> Null, big |-> {}, small |-> {}, sp |-> Pointer(t)] \in Frame
    BY <1>1, MemoryAssumption DEF Frame, Null
  <2> QED BY <2>1
<1>3. /\ Len(frames'[t]) = last + 1 /\ frames'[t][last + 1] = new
      /\ \A f \in 1..last : frames'[t][f] = frames[t][f]
      /\ \A u \in Thread : u # t => frames'[u] = frames[u]
  <2>1. frames' = [frames EXCEPT ![t] = Append(@, new)]
    BY <1>2 DEF TmpMark
  <2> QED BY <1>1, <1>2, <2>1 DEF Inv, Shape
<1>4. PICK s : s = Append(Granted[t], {})
  OBVIOUS
<1>5. /\ s \in Seq(SUBSET Regions) /\ Len(s) = last + 1 /\ s[last + 1] = {}
      /\ \A f \in 1..last : s[f] = Granted[t][f]
  BY <1>1, <1>4 DEF GrantedSound
<1>6. \A u \in Thread : u # t => Granted'[u] = Granted[u]
  BY <1>3 DEF Granted, RegionsOf
<1>7. \A f \in 1..(last + 1) : Granted'[t][f] = s[f]
  <2> SUFFICES ASSUME NEW f \in 1..(last + 1) PROVE Granted'[t][f] = s[f]
    OBVIOUS
  <2>1. Granted'[t][f] = RegionsOf(t, f)'
    BY <1>3 DEF GrantedSound
  <2>2. CASE f = last + 1
    <3>1. new.big = {} /\ new.small = {}
      BY <1>2
    <3>2. RegionsOf(t, f)' = {}
      BY <1>3, <2>2, <3>1 DEF RegionsOf
    <3> QED BY <1>5, <2>1, <2>2, <3>2
  <2>3. CASE f # last + 1
    <3>1. f \in 1..last
      BY <1>1, <2>3
    <3>2. RegionsOf(t, f)' = RegionsOf(t, f)
      BY <1>3, <3>1, SameRegions
    <3> QED BY <1>5, <2>1, <3>1, <3>2 DEF GrantedSound
  <2> QED BY <2>2, <2>3
<1>8. Granted' = [Granted EXCEPT ![t] = s]
  BY <1>3, <1>5, <1>6, <1>7, GrantedBecomes DEF GrantedSound
<1> QED BY <1>4, <1>8 DEF Tmp!Mark

\* TMP_FREE is the step Free of the promise.
LEMMA StepFree ==
  ASSUME Inv, GrantedSound, GrantedSound', NEW t \in Thread, TmpFree(t)
  PROVE  Tmp!Free(t)
<1>1. /\ frames \in [Thread -> Seq(Frame)] /\ frames[t] \in Seq(Frame) /\ frames[t] # <<>>
      /\ Len(frames[t]) \in Nat /\ Len(frames[t]) # 0
  BY DEF Inv, Shape, TmpFree, Running
<1>2. PICK n \in Nat : n = Len(frames[t]) - 1
  BY <1>1
<1>3. /\ Len(frames'[t]) = n /\ \A f \in 1..n : frames'[t][f] = frames[t][f]
      /\ \A u \in Thread : u # t => frames'[u] = frames[u]
  <2>1. PICK rest : rest = Front(frames[t])
    OBVIOUS
  <2>2. frames' = [frames EXCEPT ![t] = rest]
    BY <2>1 DEF TmpFree
  <2>3. Len(rest) = n /\ \A f \in 1..n : rest[f] = frames[t][f]
    BY <1>1, <1>2, <2>1, FrontOf
  <2> QED BY <1>1, <2>2, <2>3
<1>4. PICK g : g = Granted[t]
  OBVIOUS
<1>5. g \in Seq(SUBSET Regions) /\ Len(g) = n + 1 /\ g # <<>>
  BY <1>1, <1>2, <1>4 DEF GrantedSound
<1>6. PICK s : s = SubSeq(g, 1, n)
  OBVIOUS
<1>7. s \in Seq(SUBSET Regions) /\ Len(s) = n /\ \A f \in 1..n : s[f] = g[f]
  <2>1. \A f \in 1..n : g[f] \in SUBSET Regions
    BY <1>5
  <2>2. /\ s \in Seq(SUBSET Regions) /\ Len(s) = IF 1 <= n THEN n - 1 + 1 ELSE 0
        /\ \A f \in 1..(n - 1 + 1) : s[f] = g[1 + f - 1]
    BY <1>6, <2>1, SubSeqProperties
  <2>3. n - 1 + 1 = n /\ \A f \in 1..n : 1 + f - 1 = f
    OBVIOUS
  <2> QED BY <2>2, <2>3
<1>8. \A u \in Thread : u # t => Granted'[u] = Granted[u]
  BY <1>3 DEF Granted, RegionsOf
<1>9. ASSUME NEW f \in 1..n PROVE Granted'[t][f] = s[f]
  <2>1. Granted'[t][f] = RegionsOf(t, f)'
    BY <1>3 DEF GrantedSound
  <2>2. RegionsOf(t, f)' = RegionsOf(t, f)
    BY <1>3, SameRegions
  <2>3. f \in 1..Len(frames[t])
    BY <1>1, <1>2
  <2> QED BY <1>4, <1>7, <2>1, <2>2, <2>3 DEF GrantedSound
<1>10. Granted' = [Granted EXCEPT ![t] = s]
  BY <1>3, <1>7, <1>8, <1>9, GrantedBecomes
<1>11. Granted[t] # <<>> /\ s = SubSeq(Granted[t], 1, Len(Granted[t]) - 1)
  <2>1. Len(g) - 1 = n
    BY <1>5
  <2> QED BY <1>4, <1>5, <1>6, <2>1
<1> QED BY <1>10, <1>11 DEF Tmp!Free

\* A function has one region more.
LEMMA StepMore ==
  ASSUME Inv, GrantedSound, GrantedSound', NEW t \in Thread, NEW r \in Regions,
         frames[t] # <<>>,
         \A u \in Thread : Len(frames'[u]) = Len(frames[u]),
         \A u \in Thread : \A f \in 1..Len(frames[u]) :
           u # t \/ f # Len(frames[t]) => frames'[u][f] = frames[u][f],
         RegionsOf(t, Len(frames[t]))' = RegionsOf(t, Len(frames[t])) \cup {r},
         \A q \in Tmp!Held : q \cap r = {}
  PROVE  Tmp!Alloc(t, r)
<1>1. PICK last \in Nat : last = Len(frames[t]) /\ last \in 1..Len(frames[t])
  <2>1. frames[t] \in Seq(Frame)
    BY DEF Inv, Shape
  <2> QED BY <2>1
<1>2. PICK g : g = Granted[t]
  OBVIOUS
<1>3. /\ g \in Seq(SUBSET Regions) /\ Len(g) = last /\ g # <<>>
      /\ \A f \in 1..last : g[f] = RegionsOf(t, f)
  BY <1>1, <1>2 DEF GrantedSound
<1>4. PICK s : s = [g EXCEPT ![last] = g[last] \cup {r}]
  OBVIOUS
<1>5. /\ s \in Seq(SUBSET Regions) /\ Len(s) = last /\ s[last] = g[last] \cup {r}
      /\ \A f \in 1..last : f # last => s[f] = g[f]
  BY <1>1, <1>3, <1>4
<1>6. \A u \in Thread : u # t => Granted'[u] = Granted[u]
  <2> SUFFICES ASSUME NEW u \in Thread, u # t PROVE Granted'[u] = Granted[u]
    OBVIOUS
  <2>1. \A f \in 1..Len(frames[u]) : RegionsOf(u, f)' = RegionsOf(u, f)
    BY SameRegions
  <2>2. Granted'[u] = [f \in 1..Len(frames'[u]) |-> RegionsOf(u, f)']
    BY DEF Granted
  <2>3. Granted[u] = [f \in 1..Len(frames[u]) |-> RegionsOf(u, f)]
    BY DEF Granted
  <2> QED BY <2>1, <2>2, <2>3
<1>7. ASSUME NEW f \in 1..last PROVE Granted'[t][f] = s[f]
  <2>1. Granted'[t][f] = RegionsOf(t, f)'
    BY <1>1 DEF GrantedSound
  <2>2. CASE f = last
    BY <1>1, <1>3, <1>5, <2>1, <2>2
  <2>3. CASE f # last
    <3>1. RegionsOf(t, f)' = RegionsOf(t, f)
      BY <1>1, <2>3, SameRegions
    <3> QED BY <1>1, <1>3, <1>5, <2>1, <2>3, <3>1
  <2> QED BY <2>2, <2>3
<1>8. Granted' = [Granted EXCEPT ![t] = s]
  BY <1>1, <1>5, <1>6, <1>7, GrantedBecomes
<1>9. s = [Granted[t] EXCEPT ![Len(Granted[t])] = Granted[t][Len(Granted[t])] \cup {r}]
  BY <1>2, <1>3, <1>4
<1>10. Granted[t] # <<>>
  BY <1>2, <1>3
<1> QED BY <1>8, <1>9, <1>10 DEF Tmp!Alloc

\* alloca grants a region that nobody holds: every function of the thread is below the
\* stack pointer, and another thread's stack is another space.
LEMMA StepSalloc ==
  ASSUME Inv, GrantedSound, GrantedSound', NEW t \in Thread, NEW n \in Sizes, Salloc(t, n)
  PROVE  \E r \in Regions : Tmp!Alloc(t, r)
<1> USE MemoryAssumption, SizesAssumption, BoundAssumption
<1> DEFINE last == Len(frames[t])
           top == Top(t)
           new == MoreSmall(top, n)
           r == Bytes(StackSpace(t), top.sp, n)
<1>1. /\ frames \in [Thread -> Seq(Frame)] /\ frames[t] # <<>> /\ frames[t] \in Seq(Frame)
      /\ last \in Nat /\ last \in 1..last /\ top \in Frame /\ top = frames[t][last]
      /\ Pointer(t) = top.sp /\ Pointer(t) + n <= StackRoom
  BY DEF Inv, Shape, Salloc, Running, Pointer, Top
<1>2. /\ top.sp \in Nat /\ n \in Nat /\ n >= 1
      /\ \A u \in Thread : \A f \in 1..Len(frames[u]) :
           u = t => frames[u][f].sp \in Nat /\ frames[u][f].sp <= top.sp
  <2>1. \A f \in 1..last : frames[t][f] \in Frame
    BY <1>1
  <2> QED BY <1>1, <2>1, PointerTop DEF Frame
<1>3. new \in Frame
  BY <1>1, <1>2, FrameMoreSmall
<1>4. new.big = top.big /\ new.small = top.small \cup {[at |-> top.sp, n |-> n]}
  BY DEF MoreSmall
<1> HIDE DEF top, new
<1>5. frames' = [frames EXCEPT ![t] = [@ EXCEPT ![last] = new]]
  BY DEF Salloc, top, new
<1>6. /\ frames'[t][last] = new
      /\ \A u \in Thread : Len(frames'[u]) = Len(frames[u])
      /\ \A u \in Thread : \A f \in 1..Len(frames[u]) :
           u # t \/ f # last => frames'[u][f] = frames[u][f]
  BY <1>1, <1>3, <1>5, TopChanged
<1>7. r \in Regions
  <2>1. PICK a \in 0..(StackRoom - 1) : a = top.sp
    BY <1>1, <1>2
  <2> QED BY <2>1 DEF Regions
<1>8. RegionsOf(t, last)' = RegionsOf(t, last) \cup {r}
  <2>1. RegionsOf(t, last)' = {Bytes(HeapSpace, b.at, b.n) : b \in new.big}
                                \cup {Bytes(StackSpace(t), b.at, b.n) : b \in new.small}
    BY <1>6 DEF RegionsOf
  <2>2. RegionsOf(t, last) = {Bytes(HeapSpace, b.at, b.n) : b \in top.big}
                               \cup {Bytes(StackSpace(t), b.at, b.n) : b \in top.small}
    BY <1>1 DEF RegionsOf
  <2>3. PICK b : b = [at |-> top.sp, n |-> n]
    OBVIOUS
  <2>4. r = Bytes(StackSpace(t), b.at, b.n) /\ new.small = top.small \cup {b}
    BY <1>4, <2>3
  <2> HIDE DEF r
  <2> QED BY <1>4, <2>1, <2>2, <2>4
<1>9. ASSUME NEW q \in Tmp!Held PROVE q \cap r = {}
  <2>1. PICK u \in Thread : \E f \in 1..Len(frames[u]) :
           \/ \E b \in frames[u][f].big : q = Bytes(HeapSpace, b.at, b.n)
           \/ \E b \in frames[u][f].small : q = Bytes(StackSpace(u), b.at, b.n)
    BY HeldRegion
  <2>2. PICK f \in 1..Len(frames[u]) :
           \/ \E b \in frames[u][f].big : q = Bytes(HeapSpace, b.at, b.n)
           \/ \E b \in frames[u][f].small : q = Bytes(StackSpace(u), b.at, b.n)
    BY <2>1
  <2>9. frames[u][f] \in Frame
    BY <1>1
  <2>3. frames[u][f].big \in SUBSET TmpBlock /\ frames[u][f].small \in SUBSET TmpBlock
    BY <2>9 DEF Frame
  <2>4. ASSUME NEW b \in frames[u][f].big, q = Bytes(HeapSpace, b.at, b.n) PROVE q \cap r = {}
    <3>1. b.at \in Int /\ b.n \in Int /\ top.sp \in Int /\ n \in Int
      BY <1>2, <2>3 DEF TmpBlock
    <3>2. HeapSpace # StackSpace(t)
      BY DEF HeapSpace, StackSpace
    <3> QED BY <2>4, <3>1, <3>2, BytesApart
  <2>5. ASSUME NEW b \in frames[u][f].small, q = Bytes(StackSpace(u), b.at, b.n)
        PROVE  q \cap r = {}
    <3>1. b.at \in Int /\ b.n \in Int /\ top.sp \in Int /\ n \in Int
      BY <1>2, <2>3 DEF TmpBlock
    <3>2. StackSpace(u) # StackSpace(t) \/ b.at + b.n <= top.sp
      <4>1. CASE u = t
        <5>1. b.at + b.n <= frames[u][f].sp
          BY DEF Inv, SmallSound
        <5> QED BY <1>2, <3>1, <4>1, <5>1
      <4>2. CASE u # t
        BY <4>2 DEF StackSpace
      <4> QED BY <4>1, <4>2
    <3> QED BY <2>5, <3>1, <3>2, BytesApart
  <2> QED BY <2>2, <2>4, <2>5
<1>10. Tmp!Alloc(t, r)
  BY <1>1, <1>6, <1>7, <1>8, <1>9, StepMore
<1> QED BY <1>7, <1>10

\* A block of the heap is a region that nobody holds: the blocks of every function have
\* their place in the heap, which the allocation function does not give twice.
LEMMA StepBalloc ==
  ASSUME Inv, GrantedSound, GrantedSound', NEW t \in Thread, NEW n \in Sizes, Balloc(t, n)
  PROVE  \E r \in Regions : Tmp!Alloc(t, r)
<1> USE MemoryAssumption, SizesAssumption, BoundAssumption
<1> DEFINE last == Len(frames[t])
           top == Top(t)
<1>p. PICK p \in Places(n + Hsiz) :
        frames' = [frames EXCEPT ![t] = [@ EXCEPT ![last] = MoreBig(top, p, n)]]
  BY DEF Balloc
<1> DEFINE block == [at |-> p + Hsiz, n |-> n]
           new == MoreBig(top, p, n)
           r == Bytes(HeapSpace, p + Hsiz, n)
<1>1. /\ n \in Nat /\ n >= 1 /\ p \in Nat /\ p \in 0..Memory /\ p + (n + Hsiz) <= Memory
      /\ \A a \in DOMAIN heap : p + (n + Hsiz) <= a \/ a + heap[a] <= p
  BY <1>p DEF Places
<1>2. /\ frames \in [Thread -> Seq(Frame)] /\ frames[t] # <<>> /\ frames[t] \in Seq(Frame)
      /\ last \in Nat /\ last \in 1..last /\ top \in Frame /\ top = frames[t][last]
  BY DEF Inv, Shape, Balloc, Running, Top
<1>3. /\ new \in Frame /\ new.big = top.big \cup {block} /\ new.small = top.small
  BY <1>1, <1>2, FrameMoreBig DEF MoreBig, Given
<1> HIDE DEF top, new
<1>4. /\ frames'[t][last] = new
      /\ \A u \in Thread : Len(frames'[u]) = Len(frames[u])
      /\ \A u \in Thread : \A f \in 1..Len(frames[u]) :
           u # t \/ f # last => frames'[u][f] = frames[u][f]
  BY <1>2, <1>3, <1>p, TopChanged DEF new
<1>5. r \in Regions
  <2>1. PICK a \in Address : a = p + Hsiz
    BY <1>1 DEF Address
  <2> QED BY <2>1 DEF Regions
<1>6. RegionsOf(t, last)' = RegionsOf(t, last) \cup {r}
  <2>1. RegionsOf(t, last)' = {Bytes(HeapSpace, b.at, b.n) : b \in new.big}
                                \cup {Bytes(StackSpace(t), b.at, b.n) : b \in new.small}
    BY <1>4 DEF RegionsOf
  <2>2. RegionsOf(t, last) = {Bytes(HeapSpace, b.at, b.n) : b \in top.big}
                               \cup {Bytes(StackSpace(t), b.at, b.n) : b \in top.small}
    BY <1>2 DEF RegionsOf
  <2>3. PICK b : b = block
    OBVIOUS
  <2>4. r = Bytes(HeapSpace, b.at, b.n) /\ new.big = top.big \cup {b}
    BY <1>3, <2>3
  <2> HIDE DEF r
  <2> QED BY <1>3, <2>1, <2>2, <2>4
<1>7. ASSUME NEW q \in Tmp!Held PROVE q \cap r = {}
  <2>1. PICK u \in Thread : \E f \in 1..Len(frames[u]) :
           \/ \E b \in frames[u][f].big : q = Bytes(HeapSpace, b.at, b.n)
           \/ \E b \in frames[u][f].small : q = Bytes(StackSpace(u), b.at, b.n)
    BY HeldRegion
  <2>2. PICK f \in 1..Len(frames[u]) :
           \/ \E b \in frames[u][f].big : q = Bytes(HeapSpace, b.at, b.n)
           \/ \E b \in frames[u][f].small : q = Bytes(StackSpace(u), b.at, b.n)
    BY <2>1
  <2>3. ASSUME NEW b \in frames[u][f].small, q = Bytes(StackSpace(u), b.at, b.n)
        PROVE  q \cap r = {}
    <3>4. frames[u][f] \in Frame
      BY <1>2
    <3>1. frames[u][f].small \in SUBSET TmpBlock
      BY <3>4 DEF Frame
    <3>2. b.at \in Int /\ b.n \in Int /\ p + Hsiz \in Int /\ n \in Int
      BY <1>1, <3>1 DEF TmpBlock
    <3>3. StackSpace(u) # HeapSpace
      BY DEF HeapSpace, StackSpace
    <3> QED BY <2>3, <3>2, <3>3, BytesApart
  <2>4. ASSUME NEW b \in frames[u][f].big, q = Bytes(HeapSpace, b.at, b.n) PROVE q \cap r = {}
    <3>1. PICK owner, depth : Owned(owner, depth)
      BY DEF Inv
    <3>2. /\ b.at - Hsiz \in DOMAIN heap /\ b.at \in Nat /\ b.n \in Nat
          /\ heap[b.at - Hsiz] = b.n + Hsiz
      BY <3>1, BlockOf
    <3>3. PICK a, m : a = b.at /\ m = b.n
      OBVIOUS
    <3>4. p + (n + Hsiz) <= a - Hsiz \/ a - Hsiz + (m + Hsiz) <= p
      BY <1>1, <3>2, <3>3
    <3>5. a \in Int /\ m \in Int /\ p + Hsiz \in Int /\ n \in Int
      BY <1>1, <3>2, <3>3
    <3>6. a + m <= p + Hsiz \/ p + Hsiz + n <= a
      BY <1>1, <3>4, <3>5
    <3> QED BY <2>4, <3>3, <3>5, <3>6, BytesApart
  <2> QED BY <2>2, <2>3, <2>4
<1>8. Tmp!Alloc(t, r)
  BY <1>2, <1>4, <1>5, <1>6, <1>7, StepMore
<1> QED BY <1>5, <1>8

\* No block overlaps one that is held by any thread, and a function that returns gives up
\* its own blocks only: each step of the lists is one of the promise or leaves what
\* functions hold as it is.
THEOREM KeepsPromise == Spec => Promise
<1>1. Init => Tmp!Init
  <2> SUFFICES ASSUME Init PROVE Granted = [t \in Thread |-> <<>>]
    BY DEF Tmp!Init
  <2>1. ASSUME NEW t \in Thread PROVE Granted[t] = <<>>
    <3>1. GrantedSound
      BY InvInit, InvGranted
    <3>2. Granted[t] \in Seq(SUBSET Regions) /\ Len(Granted[t]) = 0
      BY <3>1 DEF Init, GrantedSound
    <3> QED BY <3>2
  <2> QED BY <2>1 DEF Granted
<1>2. Inv /\ GrantedSound /\ GrantedSound' /\ [Next]_vars => [Tmp!Next]_Granted
  <2> SUFFICES ASSUME Inv, GrantedSound, GrantedSound', [Next]_vars
               PROVE  Tmp!Next \/ Granted' = Granted
    OBVIOUS
  <2>1. ASSUME NEW t \in Thread, TmpMark(t) PROVE Tmp!Next
    BY <2>1, StepMark DEF Tmp!Next
  <2>2. ASSUME NEW t \in Thread, NEW n \in Sizes, Salloc(t, n) PROVE Tmp!Next
    BY <2>2, StepSalloc DEF Tmp!Next
  <2>3. ASSUME NEW t \in Thread, NEW n \in Sizes, Balloc(t, n) PROVE Tmp!Next
    BY <2>3, StepBalloc DEF Tmp!Next
  <2>4. ASSUME NEW t \in Thread, TmpFree(t) PROVE Tmp!Next
    BY <2>4, StepFree DEF Tmp!Next
  <2>5. CASE frames' = frames
    BY <2>5 DEF Granted, RegionsOf
  <2>6. ASSUME NEW t \in Thread, FreeStep(t) PROVE frames' = frames
    BY <2>6 DEF FreeStep, FreeTest, FreeGive, FreeAdvance
  <2>7. CASE UNCHANGED vars
    BY <2>5, <2>7 DEF vars
  <2> QED BY <2>1, <2>2, <2>3, <2>4, <2>5, <2>6, <2>7 DEF Next
<1> QED BY <1>1, <1>2, InvAlways, InvGranted, PTL DEF Spec, Promise, Tmp!Spec
-----------------------------------------------------------------------------
(* The stack of chunks. MCTal instantiates it without its proofs, and      *)
(* StackProofs is the stack with them. They have the same definitions, so  *)
(* that a behaviour of EitherSpec is one of the stack that StackProofs is  *)
(* about.                                                                  *)

StackProofs == INSTANCE TalNotreentProofs WITH
                 Memory <- StackMemory, Align <- StackAlign, Sizes <- StackSizes

\* The actions of the stack of MCTal are those of StackProofs.
LEMMA SameNext == Stack!Next <=> StackProofs!Next
<1>1. Stack!TmpMark <=> StackProofs!TmpMark
  BY DEF Stack!TmpMark, Stack!NoMarker, Stack!Running, Stack!current, Stack!Last,
         StackProofs!TmpMark, StackProofs!NoMarker, StackProofs!Running,
         StackProofs!current, StackProofs!Last
<1>2. Stack!TmpFree <=> StackProofs!TmpFree
  BY DEF Stack!TmpFree, Stack!NoMarker, Stack!Running, Stack!Last, Stack!Front,
         StackProofs!TmpFree, StackProofs!NoMarker, StackProofs!Running,
         StackProofs!Last, StackProofs!Front
<1>3. Stack!FreeChunk <=> StackProofs!FreeChunk
  BY DEF Stack!FreeChunk, Stack!NoMarker, Stack!Running, Stack!current, Stack!Above,
         Stack!Released, Stack!Payload, Stack!HeaderSize, Stack!RoundUp, Stack!Last,
         Stack!Front,
         StackProofs!FreeChunk, StackProofs!NoMarker, StackProofs!Running,
         StackProofs!current, StackProofs!Above, StackProofs!Released,
         StackProofs!Payload, StackProofs!HeaderSize, StackProofs!RoundUp,
         StackProofs!Last, StackProofs!Front
<1>4. Stack!FreeEnd <=> StackProofs!FreeEnd
  BY DEF Stack!FreeEnd, Stack!NoMarker, Stack!Running, Stack!current, Stack!Above,
         Stack!Last,
         StackProofs!FreeEnd, StackProofs!NoMarker, StackProofs!Running,
         StackProofs!current, StackProofs!Above, StackProofs!Last
<1>5. Stack!TmpReturn <=> StackProofs!TmpReturn
  BY DEF Stack!TmpReturn, Stack!NoMarker, Stack!Running, Stack!Last, Stack!Front,
         StackProofs!TmpReturn, StackProofs!NoMarker, StackProofs!Running,
         StackProofs!Last, StackProofs!Front
<1>6. ASSUME NEW n PROVE Stack!TmpAllocate(n) <=> StackProofs!TmpAllocate(n)
  BY DEF Stack!TmpAllocate, Stack!NoMarker, Stack!Running, Stack!current,
         Stack!RoundUp, Stack!HeaderSize, Stack!Fits, Stack!FromCurrent,
         Stack!FromNew, Stack!GivenTo, Stack!Take, Stack!Grown, Stack!Places,
         Stack!Last,
         StackProofs!TmpAllocate, StackProofs!NoMarker, StackProofs!Running,
         StackProofs!current, StackProofs!RoundUp, StackProofs!HeaderSize,
         StackProofs!Fits, StackProofs!FromCurrent, StackProofs!FromNew,
         StackProofs!GivenTo, StackProofs!Take, StackProofs!Grown,
         StackProofs!Places, StackProofs!Last
<1> QED BY <1>1, <1>2, <1>3, <1>4, <1>5, <1>6 DEF Stack!Next, StackProofs!Next

\* A behaviour of either build is one of the stack, which does nothing in the build that
\* has the lists.
LEMMA EitherIsStack == EitherSpec => StackProofs!Spec
<1>1. EitherInit => StackProofs!Init
  BY DEF EitherInit, Stack!Init, StackProofs!Init, Stack!Xxx, StackProofs!Xxx,
         Stack!NoMarker, StackProofs!NoMarker
<1>2. [EitherNext]_<<build, vars, stackVars>> => [StackProofs!Next]_(StackProofs!vars)
  BY SameNext DEF EitherNext, stackVars, StackProofs!vars
<1> QED BY <1>1, <1>2, PTL DEF EitherSpec, StackProofs!Spec

LEMMA StackBounded == StackProofs!Bounded
BY StackAssumption DEF Stack!Bounded, StackProofs!Bounded

\* Whatever the memory, the alignment and the sizes, every block that a function holds is
\* aligned and lies in a chunk that is allocated, after its header and before the point
\* from which more is handed out.
THEOREM InsideInEither == EitherSpec => []Inside
<1>1. StackProofs!Spec => []StackProofs!Inside
  BY StackBounded, StackProofs!InsideAlways
<1>2. Inside <=> StackProofs!Inside
  BY DEF Inside, Stack!Inside, Stack!HeaderSize, Stack!RoundUp,
         StackProofs!Inside, StackProofs!HeaderSize, StackProofs!RoundUp
<1> QED BY <1>1, <1>2, EitherIsStack, PTL

\* current_total_allocation is the sum of what the chunks have for blocks, also while
\* TMP_FREE frees chunks, and all of them are freed when the outermost function is done.
THEOREM AccountingInEither == EitherSpec => []Accounting
<1>1. StackProofs!Spec => []StackProofs!Accounting
  BY StackBounded, StackProofs!AccountingAlways
<1>2. Accounting <=> StackProofs!Accounting
  BY DEF Accounting, Stack!Accounting, Stack!Allotted, Stack!Payload, Stack!HeaderSize,
         Stack!RoundUp, Stack!Running, Stack!NoMarker, Stack!Xxx,
         StackProofs!Accounting, StackProofs!Allotted, StackProofs!Payload,
         StackProofs!HeaderSize, StackProofs!RoundUp, StackProofs!Running,
         StackProofs!NoMarker, StackProofs!Xxx
<1> QED BY <1>1, <1>2, EitherIsStack, PTL

\* The stack of chunks implements what TMP_ALLOC promises: a block overlaps none that is
\* held, and going back to a mark takes the blocks of one function only.
THEOREM StackKeepsPromise == EitherSpec => StackPromise
<1>1. StackProofs!Spec => StackProofs!StackPromise
  BY StackBounded, StackProofs!KeepsPromise
<1>2. Stack!Granted = StackProofs!Granted
  BY DEF Stack!Granted, Stack!Cells, StackProofs!Granted, StackProofs!Cells
<1>3. Stack!Granted' = StackProofs!Granted'
  BY DEF Stack!Granted, Stack!Cells, StackProofs!Granted, StackProofs!Cells
<1>4. Stack!Regions = StackProofs!Regions
  BY DEF Stack!Regions, StackProofs!Regions
<1>5. Stack!Tmp!Init <=> StackProofs!Tmp!Init
  BY <1>2 DEF Stack!Tmp!Init, StackProofs!Tmp!Init
<1>6. Stack!Tmp!Held = StackProofs!Tmp!Held
  BY <1>2 DEF Stack!Tmp!Held, Stack!Tmp!Holding, StackProofs!Tmp!Held, StackProofs!Tmp!Holding
<1>7. ASSUME NEW t \in {"main"}, NEW r
      PROVE  /\ StackProofs!Tmp!Mark(t) => Stack!Tmp!Mark(t)
             /\ StackProofs!Tmp!Free(t) => Stack!Tmp!Free(t)
             /\ StackProofs!Tmp!Alloc(t, r) => Stack!Tmp!Alloc(t, r)
  BY <1>2, <1>3, <1>6
     DEF Stack!Tmp!Mark, Stack!Tmp!Free, Stack!Tmp!Alloc,
         StackProofs!Tmp!Mark, StackProofs!Tmp!Free, StackProofs!Tmp!Alloc
<1>8. StackProofs!Tmp!Next => Stack!Tmp!Next
  BY <1>4, <1>7 DEF Stack!Tmp!Next, StackProofs!Tmp!Next
<1>9. [StackProofs!Tmp!Next]_(StackProofs!Granted) => [Stack!Tmp!Next]_(Stack!Granted)
  BY <1>2, <1>3, <1>8
<1> QED BY <1>1, <1>5, <1>9, EitherIsStack, PTL
        DEF StackPromise, Stack!StackPromise, StackProofs!StackPromise,
            Stack!Tmp!Spec, StackProofs!Tmp!Spec

\* The lists are what they are in TalReent in a build that has them, and do nothing in the
\* other: they give back what was allocated only, leak nothing and keep the promise.
THEOREM ListsInEither == EitherSpec => []FreedRight /\ []NoLeak /\ Promise
<1>1. EitherInit => Init
  BY DEF EitherInit
<1>2. [EitherNext]_<<build, vars, stackVars>> => [Next]_vars
  BY DEF EitherNext
<1>3. EitherSpec => Spec
  BY <1>1, <1>2, PTL DEF EitherSpec, Spec
<1> QED BY <1>3, FreedRightAlways, NoLeakAlways, KeepsPromise
=============================================================================
