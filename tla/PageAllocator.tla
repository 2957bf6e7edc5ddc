--------------------------- MODULE PageAllocator ---------------------------
(***************************************************************************)
(* What a user of the physical memory manager (kernel/memory/pmm.c) may    *)
(* rely on, with no bitmap, no counter and no search order: a set of       *)
(* frames, a set of frames that are owned, and the frame the last request  *)
(* returned.  Pmm.tla implements it.                                       *)
(***************************************************************************)

CONSTANTS
    Frames,     \* the frames that may ever be handed out
    NoFrame     \* the answer to a request that cannot be met

VARIABLES
    owned,      \* the frames handed out and not yet given back
    answer      \* what the last request returned

allocatorVars == <<owned, answer>>

AllocatorInit == owned = {} /\ answer = NoFrame

\* A request returns a frame nobody owns ...
Grant == \E frame \in Frames \ owned :
    /\ owned' = owned \union {frame}
    /\ answer' = frame

\* ... and fails only when there is none.
Refuse ==
    /\ Frames \subseteq owned
    /\ answer' = NoFrame
    /\ UNCHANGED owned

Release == \E frame \in owned :
    /\ owned' = owned \ {frame}
    /\ UNCHANGED answer

AllocatorNext == Grant \/ Refuse \/ Release

AllocatorSpec == AllocatorInit /\ [][AllocatorNext]_allocatorVars
=============================================================================
