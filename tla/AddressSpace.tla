---------------------------- MODULE AddressSpace ----------------------------
(***************************************************************************)
(* What a caller of vmm_map_page and vmm_unmap_page (kernel/memory/vmm.c)  *)
(* may rely on, with no tables and no walk: a partial function from        *)
(* virtual pages to frames with rights, changed only at the page of the    *)
(* call under way and only if that call does not report failure.  Vmm.tla  *)
(* implements it.                                                          *)
(***************************************************************************)

CONSTANTS
    VirtualPages,
    NoTranslation,  \* where a page that is not mapped goes
    NoRequest       \* nothing is under way

VARIABLES
    mapping,        \* page -> frame and rights, or NoTranslation
    request,        \* the call under way: [op, virt, target], or NoRequest
    done,           \* it has taken effect
    answer          \* what the last call reported

spaceVars == <<mapping, request, done, answer>>

SpaceInit ==
    /\ mapping \in [VirtualPages -> {NoTranslation}]
    /\ request = NoRequest
    /\ done = FALSE
    /\ answer = TRUE

Ask ==
    /\ request = NoRequest
    /\ request' # NoRequest
    /\ request'.virt \in VirtualPages
    /\ UNCHANGED <<mapping, done, answer>>

TakeEffect ==
    /\ request # NoRequest /\ ~ done
    /\ mapping' = [mapping EXCEPT ![request.virt] = request.target]
    /\ done' = TRUE
    /\ UNCHANGED <<request, answer>>

\* A call that reports failure has changed nothing, and only mapping can
\* fail; unmapping a page that is not mapped reports no failure.
Answer ==
    /\ request # NoRequest
    /\ answer' = (done \/ request.op = "unmap")
    /\ answer' => mapping[request.virt] = request.target
    /\ request' = NoRequest /\ done' = FALSE
    /\ UNCHANGED mapping

SpaceNext == Ask \/ TakeEffect \/ Answer

SpaceSpec == SpaceInit /\ [][SpaceNext]_spaceVars
=============================================================================
