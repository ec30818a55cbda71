---------------------------- MODULE TalNotreent ----------------------------
(***************************************************************************)
(* tal-notreent.c: temporary space in a stack of chunks that all functions *)
(* of the one thread share. TMP_MARK notes the current chunk and how much  *)
(* of it is used; TMP_FREE frees the chunks above it, one by one, and goes *)
(* back to that point. A new chunk makes the total somewhat larger than it *)
(* ever was.                                                               *)
(*                                                                         *)
(* An address is a number of bytes; a chunk is [at, end, point] with its   *)
(* header in the first HeaderSize bytes. Where the allocation function     *)
(* puts a chunk is free.                                                   *)
(***************************************************************************)
EXTENDS Integers, Sequences, SequencesExt

CONSTANTS
  Memory,     \* the heap is the addresses 0..Memory-1
  Align,      \* __TMP_ALIGN
  Header,     \* sizeof (tmp_stack)
  Sizes,      \* the sizes a function asks for
  MaxDepth,   \* the most functions that are active
  MaxTotal    \* the client asks for no more than takes the total allocation here

\* What an instance of this module assumes of its constants.
Bounded ==
  /\ {Align, Header} \cup Sizes \subseteq Nat \ {0}
  /\ {Memory, MaxDepth, MaxTotal} \subseteq Nat

\* ROUND_UP_MULTIPLE (n, Align). The slip adds nothing to round with.
RoundDown(n) == n - (n % Align)
RoundUp(n) == n + ((-n) % Align)
HeaderSize == RoundUp(Header)

\* The chunk that is there from the start, outside the heap: it has no room.
Xxx == [at |-> Memory, end |-> Memory, point |-> Memory]

Marker == [which_chunk : 0..Memory, alloc_point : 0..Memory]
NoMarker == [which_chunk |-> -1, alloc_point |-> -1]

VARIABLES
  chunks,   \* the chunks from xxx to the current one
  total,    \* current_total_allocation
  max,      \* max_total_allocation
  marks,    \* the tmp_marker of every function that is active, outermost first
  blocks,   \* the blocks it has been given: where they are and the size it asked for
  back      \* __gmp_tmp_free: the mark that it goes back to, NoMarker outside it

vars == <<chunks, total, max, marks, blocks, back>>

Init ==
  /\ chunks = <<Xxx>>
  /\ total = 0
  /\ max = 0
  /\ marks = <<>>
  /\ blocks = <<>>
  /\ back = NoMarker

Running == back = NoMarker
current == Last(chunks)
Payload(c) == (c.end - c.at) - HeaderSize

\* The places where an allocation function can put n bytes.
Places(n) ==
  {b \in 0..(Memory - n) :
     b % Align = 0 /\ \A i \in 2..Len(chunks) : b + n <= chunks[i].at \/ chunks[i].end <= b}

\* TMP_MARK.
TmpMark ==
  /\ Running
  /\ Len(marks) < MaxDepth
  /\ marks' = Append(marks, [which_chunk |-> current.at, alloc_point |-> current.point])
  /\ blocks' = Append(blocks, {})
  /\ UNCHANGED <<chunks, total, max, back>>

\* A slip: the whole chunk is taken to be free.
FitsChunk(c, size) == size <= c.end - c.at
Fits(c, size) == size <= c.end - c.point

\* The total after a new chunk that has room for size: what it was at most, or half
\* as much again as is needed when that is more than ever.
Grown(size) == IF total + size > max THEN RoundUp(((total + size) * 3) \div 2) ELSE max

Take(c, size) == [at |-> c.at, end |-> c.end, point |-> c.point + size]

\* The innermost function has n bytes more, from an address on.
GivenTo(last, that, n) ==
  blocks' = [blocks EXCEPT ![last] = blocks[last] \cup {[at |-> that, n |-> n]}]

\* TMP_ALLOC (n) from what is left of the current chunk.
FromCurrent(n, size) ==
  /\ GivenTo(Len(blocks), current.point, n)
  /\ chunks' = [chunks EXCEPT ![Len(chunks)] = Take(current, size)]
  /\ UNCHANGED <<total, max>>

\* TMP_ALLOC (n) from a new chunk.
FromNew(n, size) ==
  LET now == Grown(size)
      length == now - total + HeaderSize
  IN  /\ now <= MaxTotal
      /\ \E b \in Places(length) :
           /\ GivenTo(Len(blocks), b + HeaderSize, n)
           /\ chunks' = Append(chunks, Take([at |-> b, end |-> b + length,
                                             point |-> b + HeaderSize], size))
      /\ total' = now
      /\ max' = now

\* TMP_ALLOC (n).
TmpAllocate(n) ==
  /\ Running /\ marks # <<>>
  /\ IF Fits(current, RoundUp(n)) THEN FromCurrent(n, RoundUp(n)) ELSE FromNew(n, RoundUp(n))
  /\ UNCHANGED <<marks, back>>

\* TMP_FREE, the last thing a function does.
TmpFree ==
  /\ Running /\ marks # <<>>
  /\ back' = Last(marks)
  /\ marks' = Front(marks)
  /\ blocks' = Front(blocks)
  /\ UNCHANGED <<chunks, total, max>>

\* while (mark->which_chunk != current). The slip takes the chunks to be in order.
Higher(mark) == current.at > mark.which_chunk
Above(mark) == current.at # mark.which_chunk

\* A slip: what is taken off the total counts the header.
WithHeader(c) == c.end - c.at
Released(c) == Payload(c)

\* The chunk is freed.
FreeChunk ==
  /\ ~Running /\ Above(back)
  /\ chunks' = Front(chunks)
  /\ total' = total - Released(current)
  /\ UNCHANGED <<max, marks, blocks, back>>

\* current->alloc_point = mark->alloc_point;
FreeEnd ==
  /\ ~Running /\ ~Above(back)
  /\ chunks' = [chunks EXCEPT ![Len(chunks)] =
                  [at |-> current.at, end |-> current.end, point |-> back.alloc_point]]
  /\ back' = NoMarker
  /\ UNCHANGED <<total, max, marks, blocks>>

\* A function that made no allocation may return without TMP_FREE.
TmpReturn ==
  /\ Running /\ marks # <<>>
  /\ Last(blocks) = {}
  /\ marks' = Front(marks)
  /\ blocks' = Front(blocks)
  /\ UNCHANGED <<chunks, total, max, back>>

Next ==
  \/ TmpMark \/ TmpFree \/ FreeChunk \/ FreeEnd \/ TmpReturn
  \/ \E n \in Sizes : TmpAllocate(n)

Spec == Init /\ [][Next]_vars

-----------------------------------------------------------------------------
(* Properties. *)

Cells(b) == b.at..(b.at + b.n - 1)
Regions == {a..(a + n - 1) : a \in 0..(Memory - 1), n \in Sizes}

\* The temporary regions as a function sees them: the bytes it asked for.
Granted ==
  [t \in {"main"} |-> [i \in 1..Len(blocks) |-> {Cells(b) : b \in blocks[i]}]]

Tmp == INSTANCE TmpAlloc WITH Thread <- {"main"}, Region <- Regions, frames <- Granted

\* The chunks implement what TMP_ALLOC promises: no block overlaps one that is held,
\* however the marks cut the chunks, and TMP_FREE takes back the blocks of the
\* function that calls it and no others.
StackPromise == Tmp!Spec

\* Every block that is held lies in a chunk that is allocated, after its header and
\* before the point from which it hands out more, and at an aligned address.
Inside ==
  \A f \in 1..Len(blocks) : \A b \in blocks[f] :
    /\ b.at % Align = 0
    /\ \E i \in 2..Len(chunks) :
         chunks[i].at + HeaderSize <= b.at /\ b.at + b.n <= chunks[i].point
                                     /\ chunks[i].point <= chunks[i].end

\* What the chunks after the first have for blocks.
Allotted(cs) ==
  LET sum[k \in 1..Len(cs)] == IF k = 1 THEN 0 ELSE sum[k - 1] + Payload(cs[k])
  IN  sum[Len(cs)]

\* current_total_allocation is what the chunks have for blocks, never more than
\* max_total_allocation: the difference of the two sizes the next chunk. When the
\* last function is done every chunk is free again.
Accounting ==
  /\ total = Allotted(chunks) /\ total <= max
  /\ marks = <<>> /\ Running => chunks = <<Xxx>>
=============================================================================
