------------------------------ MODULE TalReent ------------------------------
(***************************************************************************)
(* tal-reent.c as the default build uses it: TMP_ALLOC takes a small block *)
(* from the stack of the thread with alloca and a big one from the heap,   *)
(* behind a header that links it into the list of the function's marker.   *)
(* TMP_FREE walks that list while other threads allocate and free.         *)
(*                                                                         *)
(* An address is a number. The header of a block is written when it is     *)
(* allocated and stays as it is when the block is freed, until a block     *)
(* that takes its place overwrites it.                                     *)
(***************************************************************************)
EXTENDS Integers, Sequences, FiniteSets, SequencesExt

CONSTANTS
  Thread,
  Memory,     \* the heap is the addresses 0..Memory-1
  Align,      \* the alignment of the blocks of the allocation function
  Hsiz,       \* HSIZ
  Sizes,      \* the sizes a function asks for
  SmallMax,   \* 0x7f00: up to this size TMP_ALLOC uses alloca
  MaxActive,  \* the most functions that are active, of all threads, those in TMP_FREE apart
  StackRoom   \* the alloca bytes a thread's stack has room for

ASSUME MemoryAssumption == Memory \in Nat /\ Align \in Nat \ {0} /\ Hsiz \in Nat \ {0}
ASSUME SizesAssumption == Sizes \subseteq Nat \ {0} /\ SmallMax \in Nat
ASSUME BoundAssumption == MaxActive \in Nat /\ StackRoom \in Nat

Address == 0..(Memory - 1)
Null == Memory
Idle == [pc |-> "out", mark |-> Null, next |-> Null]

VARIABLES
  heap,     \* the blocks that are allocated: the size of each, by its address
  header,   \* struct tmp_reentrant_t at an address
  frames,   \* the functions a thread is in, outermost first: __tmp_marker, the blocks
            \* from the heap, those from alloca and the stack pointer after them
  loop      \* __gmp_tmp_reentrant_free: mark, next and where the thread is

vars == <<heap, header, frames, loop>>

Init ==
  /\ heap = <<>>
  /\ header = [a \in Address |-> [next |-> Null, size |-> 0]]
  /\ frames = [t \in Thread |-> <<>>]
  /\ loop = [t \in Thread |-> Idle]

Active == UNION {{t} \X (1..Len(frames[t])) : t \in Thread}
Top(t) == frames[t][Len(frames[t])]
Pointer(t) == IF frames[t] = <<>> THEN 0 ELSE Top(t).sp
Running(t) == frames[t] # <<>> /\ loop[t].pc = "out"

\* The places where the allocation function can put n bytes.
Places(n) ==
  {p \in 0..(Memory - n) :
     p % Align = 0 /\ \A a \in DOMAIN heap : p + n <= a \/ a + heap[a] <= p}

\* TMP_MARK, at the start of a function.
TmpMark(t) ==
  /\ loop[t].pc = "out"
  /\ Cardinality(Active) < MaxActive
  /\ frames' = [frames EXCEPT ![t] =
                  Append(@, [marker |-> Null, big |-> {}, small |-> {}, sp |-> Pointer(t)])]
  /\ UNCHANGED <<heap, header, loop>>

MoreSmall(f, n) ==
  [marker |-> f.marker, big |-> f.big,
   small |-> f.small \cup {[at |-> f.sp, n |-> n]}, sp |-> f.sp + n]

\* TMP_SALLOC (n): alloca.
Salloc(t, n) ==
  /\ Running(t)
  /\ n <= SmallMax
  /\ Pointer(t) + n <= StackRoom
  /\ frames' = [frames EXCEPT ![t][Len(frames[t])] = MoreSmall(Top(t), n)]
  /\ UNCHANGED <<heap, header, loop>>

\* Slips: the block is not moved past its header; its size is what was asked for; the
\* list is read after the block was put at its head.
AtHeader(p) == p
Given(p) == p + Hsiz
SizeAsked(n) == n
TotalSize(n) == n + Hsiz
LinkLate(t, p) == p
Link(t, p) == Top(t).marker

MoreBig(f, p, n) ==
  [marker |-> p, big |-> f.big \cup {[at |-> Given(p), n |-> n]},
   small |-> f.small, sp |-> f.sp]

\* TMP_BALLOC (n): __gmp_tmp_reentrant_alloc (&__tmp_marker, n).
Balloc(t, n) ==
  /\ Running(t)
  /\ n > SmallMax
  /\ \E p \in Places(n + Hsiz) :
       /\ heap' = [a \in DOMAIN heap \cup {p} |-> IF a = p THEN n + Hsiz ELSE heap[a]]
       /\ header' = [header EXCEPT ![p] = [next |-> Link(t, p), size |-> TotalSize(n)]]
       /\ frames' = [frames EXCEPT ![t][Len(frames[t])] = MoreBig(Top(t), p, n)]
  /\ UNCHANGED loop

\* TMP_FREE, the last thing a function does, or its return when it has no block: the
\* alloca blocks go with the function, the others one by one.
TmpFree(t) ==
  /\ Running(t)
  /\ frames' = [frames EXCEPT ![t] = Front(@)]
  /\ loop' = IF Top(t).marker = Null THEN loop
             ELSE [loop EXCEPT ![t] = [pc |-> "test", mark |-> Top(t).marker, next |-> Null]]
  /\ UNCHANGED <<heap, header>>

\* while (mark != NULL) next = mark->next;
FreeTest(t) ==
  /\ loop[t].pc = "test"
  /\ loop' = [loop EXCEPT ![t] =
                IF @.mark = Null THEN Idle
                ELSE [pc |-> "give", mark |-> @.mark, next |-> header[@.mark].next]]
  /\ UNCHANGED <<heap, header, frames>>

\* (*__gmp_free_func) ((char *) mark, mark->size);
FreeGive(t) ==
  /\ loop[t].pc = "give"
  /\ heap' = [a \in DOMAIN heap \ {loop[t].mark} |-> heap[a]]
  /\ loop' = [loop EXCEPT ![t].pc = "advance"]
  /\ UNCHANGED <<header, frames>>

\* Slips: next is read from the block that was freed; only one block is freed.
FollowFreed(t) == header[loop[t].mark].next
FollowNothing(t) == Null
Follow(t) == loop[t].next

\* mark = next;
FreeAdvance(t) ==
  /\ loop[t].pc = "advance"
  /\ loop' = [loop EXCEPT ![t] = [pc |-> "test", mark |-> Follow(t), next |-> @.next]]
  /\ UNCHANGED <<heap, header, frames>>

FreeStep(t) == FreeTest(t) \/ FreeGive(t) \/ FreeAdvance(t)

Next ==
  \E t \in Thread :
    \/ TmpMark(t)
    \/ \E n \in Sizes : Salloc(t, n) \/ Balloc(t, n)
    \/ TmpFree(t)
    \/ FreeStep(t)

\* A thread that is in TMP_FREE goes on; nothing makes one call or return.
Spec == Init /\ [][Next]_vars /\ \A t \in Thread : WF_vars(FreeStep(t))

-----------------------------------------------------------------------------
(* Properties. *)

\* The n bytes from an address on, of the heap or of the stack of a thread.
Bytes(space, a, n) == {<<space, i>> : i \in a..(a + n - 1)}
HeapSpace == <<"heap">>
StackSpace(t) == <<"stack", t>>

RegionsOf(t, f) ==
  {Bytes(HeapSpace, b.at, b.n) : b \in frames[t][f].big}
    \cup {Bytes(StackSpace(t), b.at, b.n) : b \in frames[t][f].small}

Regions ==
  {Bytes(HeapSpace, a, n) : a \in Address, n \in Sizes}
    \cup {Bytes(StackSpace(t), a, n) : t \in Thread, a \in 0..(StackRoom - 1), n \in Sizes}

Granted == [t \in Thread |-> [f \in 1..Len(frames[t]) |-> RegionsOf(t, f)]]

Tmp == INSTANCE TmpAlloc WITH Region <- Regions, frames <- Granted

\* Lists of blocks and alloca implement what TMP_ALLOC promises: no block overlaps one
\* that is held by any thread, and TMP_FREE ends the blocks of its own function only,
\* though it follows the list while other threads take the blocks it has given back.
Promise == Tmp!Spec

\* The free function is given a block that is allocated, one no function holds, with the
\* size it was allocated with, as custom allocation functions rely on. What a function
\* writes to its blocks reaches no header: the lists of all threads and the sizes in
\* them are as the allocation wrote them.
FreedRight ==
  LET held == UNION {UNION {frames[t][f].big : f \in 1..Len(frames[t])} : t \in Thread}
  IN  /\ \A t \in Thread : loop[t].pc = "give" =>
           LET mark == loop[t].mark
           IN  /\ mark \in DOMAIN heap
               /\ header[mark].size = heap[mark]
               /\ \A b \in held : b.at # mark + Hsiz
      /\ \A b \in held, a \in DOMAIN heap : b.at + b.n <= a \/ a + Hsiz <= b.at

\* When no thread is in a function every block has been freed.
NoLeak == (\A t \in Thread : frames[t] = <<>> /\ loop[t] = Idle) => heap = <<>>

\* Every TMP_FREE ends: the list has no cycle, whatever happens to the blocks meanwhile.
FreeEnds == \A t \in Thread : loop[t].pc # "out" ~> loop[t].pc = "out"
=============================================================================
