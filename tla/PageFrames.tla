----------------------------- MODULE PageFrames -----------------------------
(***************************************************************************)
(* What BuddyAllocator (kernel/src/mm/buddy.rs) promises to alloc_pages and   *)
(* Page::drop: an allocation of order o hands out 2^o pages that nobody       *)
(* holds, consecutive and aligned to their number, and is refused only when   *)
(* there are none; a freed block can be handed out again in any shape.        *)
(***************************************************************************)
EXTENDS Integers

CONSTANTS PG_CNT,       \* pages managed
          MAX_ORDER,    \* orders are 0..MAX_ORDER-1
          order2pages   \* the number of pages of a block of each order

VARIABLES free_pages,  \* pages nobody holds
          held,        \* blocks handed out: [vaddr, order]
          ret          \* what the last call returned: a page, or -1 for Err

frameVars == <<free_pages, held, ret>>

Order == 0..(MAX_ORDER - 1)

Span(v, o) == v..(v + order2pages[o] - 1)

FramesInit == free_pages = 0..(PG_CNT - 1) /\ held = {} /\ ret = -1

\* The blocks of order o that could be handed out.
Candidates(o) == {v \in free_pages : v % order2pages[o] = 0 /\ Span(v, o) \subseteq free_pages}

FramesAlloc(o) ==
  \/ \E v \in Candidates(o) :
       /\ ret' = v
       /\ free_pages' = free_pages \ Span(v, o)
       /\ held' = held \cup {[vaddr |-> v, order |-> o]}
  \/ /\ Candidates(o) = {}
     /\ ret' = -1
     /\ UNCHANGED <<free_pages, held>>

FramesFree(b) ==
  /\ held' = held \ {b}
  /\ free_pages' = free_pages \cup Span(b.vaddr, b.order)
  /\ UNCHANGED ret

FramesNext == \/ \E o \in Order : FramesAlloc(o)
              \/ \E b \in held : FramesFree(b)

FramesSpec == FramesInit /\ [][FramesNext]_frameVars
=============================================================================
