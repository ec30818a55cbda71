------------------------------- MODULE MCTal -------------------------------
(***************************************************************************)
(* A build of the library has one of the two ways to allocate temporary    *)
(* space, as configure was told: the lists of TalReent or the stack of     *)
(* TalNotreent, which has constants of its own.                            *)
(***************************************************************************)
EXTENDS TalReent

CONSTANTS StackMemory, StackAlign, Header, StackSizes, MaxDepth, MaxTotal

VARIABLES build, chunks, total, max, marks, blocks, back

stackVars == <<chunks, total, max, marks, blocks, back>>

Stack == INSTANCE TalNotreent WITH
           Memory <- StackMemory, Align <- StackAlign, Sizes <- StackSizes

ASSUME StackAssumption == Stack!Bounded

EitherInit == build \in {"reentrant", "notreentrant"} /\ Init /\ Stack!Init

EitherNext ==
  /\ \/ build = "reentrant" /\ Next /\ UNCHANGED stackVars
     \/ build = "notreentrant" /\ Stack!Next /\ UNCHANGED vars
  /\ UNCHANGED build

EitherSpec ==
  /\ EitherInit /\ [][EitherNext]_<<build, vars, stackVars>>
  /\ \A t \in Thread : WF_vars(FreeStep(t))

\* See the properties of TalNotreent: its blocks lie within chunks, its counts are right
\* and it implements the promise of TMP_ALLOC, to which TalReent's Promise is the other
\* implementation.
Inside == Stack!Inside
Accounting == Stack!Accounting
StackPromise == Stack!StackPromise
=============================================================================
