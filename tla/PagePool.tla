------------------------------ MODULE PagePool ------------------------------
(***************************************************************************)
(* What the page allocator promises to its callers (slab.c, percpu.c): a   *)
(* block it grants shares no page frame with the frames the kernel keeps   *)
(* for itself or with a block still out, and a block is taken back whole.  *)
(***************************************************************************)
EXTENDS Integers

CONSTANTS Frame,      \* page frames, a set of integers
          Kept,       \* frames that are never granted
          Size        \* Size[o] is the number of frames of a block of order o

VARIABLE granted      \* the blocks that are out, pairs <<first frame, order>>

Order == DOMAIN Size

Frames(b) == b[1] .. b[1] + Size[b[2]] - 1

Init == granted = {}

Grant(b) == /\ b \notin granted
            /\ Frames(b) \subseteq Frame \ Kept
            /\ \A c \in granted : Frames(b) \cap Frames(c) = {}
            /\ granted' = granted \cup {b}

Release(b) == /\ b \in granted
              /\ granted' = granted \ {b}

Next == \E b \in Frame \X Order : Grant(b) \/ Release(b)

Spec == Init /\ [][Next]_granted
=============================================================================
