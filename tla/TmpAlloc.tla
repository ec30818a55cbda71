------------------------------ MODULE TmpAlloc ------------------------------
(***************************************************************************)
(* What TMP_MARK, TMP_ALLOC and TMP_FREE promise the functions of the      *)
(* library, whichever way they are implemented. A thread is in a stack of  *)
(* functions; each has temporary regions of its own, and only the one on   *)
(* top asks for more. A region overlaps no other one that is held, of      *)
(* whatever function and thread, until the function that asked for it      *)
(* gives it back with everything else it has.                              *)
(***************************************************************************)
EXTENDS Naturals, Sequences

CONSTANTS
  Thread,
  Region    \* the sets of memory cells an allocation can return

VARIABLE frames     \* the regions of every function a thread is in, outermost first

Holding(t) == UNION {frames[t][i] : i \in 1..Len(frames[t])}
Held == UNION {Holding(t) : t \in Thread}

Init == frames = [t \in Thread |-> <<>>]

Mark(t) == frames' = [frames EXCEPT ![t] = Append(@, {})]

Alloc(t, r) ==
  /\ frames[t] # <<>>
  /\ frames' = [frames EXCEPT ![t][Len(frames[t])] = @ \cup {r}]
  /\ \A q \in Held : q \cap r = {}

\* TMP_FREE, or a return without it from a function that allocated nothing.
Free(t) ==
  /\ frames[t] # <<>>
  /\ frames' = [frames EXCEPT ![t] = SubSeq(@, 1, Len(@) - 1)]

Next == \E t \in Thread : Mark(t) \/ Free(t) \/ \E r \in Region : Alloc(t, r)

Spec == Init /\ [][Next]_frames

-----------------------------------------------------------------------------
(* Properties. *)

FramesType == frames \in [Thread -> Seq(SUBSET Region)]

\* No two regions that are held share a cell, and none is held by two functions: what a
\* function writes to its temporary space never shows in that of another one.
Apart ==
  \A t, u \in Thread : \A i \in 1..Len(frames[t]), j \in 1..Len(frames[u]) :
    \A q \in frames[t][i], r \in frames[u][j] :
      q \cap r # {} => t = u /\ i = j /\ q = r
=============================================================================
