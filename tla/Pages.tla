------------------------------- MODULE Pages --------------------------------
(***************************************************************************)
(* The page descriptors of kernel/src/mm/page.rs on top of the buddy          *)
(* allocator: alloc_pages turns a block of frames into one Page per frame,    *)
(* the leader owning the others (its friends); the block is shared by cloning *)
(* the leader's Arc, and goes back to the allocator when the last clone is    *)
(* dropped.  Kernel stacks (task/stack.rs) and the DMA buffers of the disk    *)
(* driver (io/virtio.rs) are the two users of blocks of several pages.        *)
(*                                                                          *)
(* PagesManager.pages holds weak references: page[v] is what upgrading the    *)
(* one of frame v gives, NoPage when the slot is empty or its Page is gone.   *)
(***************************************************************************)
EXTENDS Buddy

CONSTANTS DMA_PAGES,   \* numbers of pages the disk driver asks for
          MAX_ARCS,    \* bound: clones of the Arc of one leader
          MAX_DMA      \* bound: DMA buffers alive

VARIABLES page,    \* the Page of each frame, or NoPage
          arcs,    \* strong references to the Page of each frame
          unclean, \* frames that hold data of an earlier owner
          dma,     \* DMA_FMS, front first: [pg, pages]; the driver knows pages
          halted   \* why the kernel panicked in this module, with the pages asked for

descVars == <<page, arcs, unclean, dma, halted>>
pagesVars == <<buddyVars, descVars>>

\* A panic for the reason why, about a request of that many pages.
crash(why, pages) == [why |-> why, pages |-> pages]

NoPage == [is_leader |-> FALSE, leader |-> -1, order |-> 0, friends |-> <<>>]

\* PagesManager::init: one empty slot for each frame; memory holds anything.
PagesInit == /\ _init_areas
             /\ page = [v \in Pg |-> NoPage]
             /\ arcs = [v \in Pg |-> 0]
             /\ unclean = Pg
             /\ dma = <<>>
             /\ halted = crash("none", 0)

-----------------------------------------------------------------------------
\* Faulty variant: an exact fit is taken for too small.
pages2order_strict(pages) ==
  IF \E o \in Order : order2pages[o] > pages
  THEN CHOOSE o \in Order : /\ order2pages[o] > pages
                            /\ \A j \in 0..(o - 1) : order2pages[j] <= pages
  ELSE MAX_ORDER

\* utils.rs pages2order: the smallest order with that many pages, or MAX_ORDER.
pages2order(pages) ==
  IF \E o \in Order : order2pages[o] >= pages
  THEN CHOOSE o \in Order : /\ order2pages[o] >= pages
                            /\ \A j \in 0..(o - 1) : order2pages[j] < pages
  ELSE MAX_ORDER

\* The frames of the block new_pages_block_in_memory(v, order) walks.
frames(v, order) == v..(v + order2pages[order] - 1)

\* Faulty variant: set_order is forgotten, and the order stays what Page::new gave it.
new_page_without_order(v, order, p) ==
  IF p = v
  THEN [is_leader |-> TRUE, leader |-> v, order |-> 0,
        friends |-> [k \in 1..(order2pages[order] - 1) |-> v + k]]
  ELSE [is_leader |-> FALSE, leader |-> v, order |-> 0, friends |-> <<>>]

\* The Page of frame p in that block: Page::new, set_order, add_friend.
new_page(v, order, p) ==
  IF p = v
  THEN [is_leader |-> TRUE, leader |-> v, order |-> order,
        friends |-> [k \in 1..(order2pages[order] - 1) |-> v + k]]
  ELSE [is_leader |-> FALSE, leader |-> v, order |-> 0, friends |-> <<>>]

\* The frames clear_pages_block writes zeros to.
clear_pages_block(v, order) == frames(v, order)

\* new_pages_block_in_memory and clear_pages_block for a fresh block; the caller
\* gets the only strong reference to the leader, and the leader those to the friends.
new_pages_block_in_memory(v, order) ==
  IF \E p \in frames(v, order) : page[p] # NoPage
  THEN /\ halted' = crash("page already in memory", order2pages[order])
       /\ UNCHANGED <<page, arcs, unclean>>
  ELSE /\ page' = [p \in Pg |-> IF p \in frames(v, order) THEN new_page(v, order, p)
                                ELSE page[p]]
       /\ arcs' = [p \in Pg |-> IF p \in frames(v, order) THEN 1 ELSE arcs[p]]
       /\ unclean' = unclean \ clear_pages_block(v, order)
       /\ UNCHANGED halted

\* alloc_pages(order).unwrap(), the way every caller uses it.
alloc_pages(order) ==
  IF order >= MAX_ORDER
  THEN halted' = crash("out of memory", 0) /\ UNCHANGED <<buddyVars, page, arcs, unclean>>
  ELSE /\ alloc_area(order)
       /\ IF stopped' # "none" \/ ret' = -1
          THEN /\ halted' = crash(IF ret' = -1 THEN "out of memory" ELSE stopped', 0)
               /\ UNCHANGED <<page, arcs, unclean>>
          ELSE new_pages_block_in_memory(ret', order)

\* Drop for Page of the leader v, then of its friends, which it owned: only the
\* drop of the leader frees frames.  What the owner wrote stays in them.
drop_page(v) ==
  LET order == page[v].order
      gone == {v} \cup {page[v].friends[k] : k \in 1..Len(page[v].friends)}
  IN  /\ IF order >= MAX_ORDER \/ v % order2pages[order] # 0
         THEN halted' = crash("page drop fail", 0) /\ UNCHANGED buddyVars
         ELSE free_area([vaddr |-> v, order |-> order]) /\ UNCHANGED halted
      /\ page' = [p \in Pg |-> IF p \in gone THEN NoPage ELSE page[p]]
      /\ arcs' = [p \in Pg |-> IF p \in gone THEN 0 ELSE arcs[p]]
      /\ unclean' = unclean \cup gone

\* A reference to the leader v goes away; the last one takes the Page with it.
drop_arc(v) ==
  IF arcs[v] > 1
  THEN /\ arcs' = [arcs EXCEPT ![v] = @ - 1]
       /\ UNCHANGED <<buddyVars, page, unclean, halted>>
  ELSE drop_page(v)

\* get_block_page_cnt, and back() as Stack::get_end uses it.  back() of a block
\* of one page would lock the same Page twice.
get_block_page_cnt(v) == Len(page[v].friends) + 1

back(v) == page[v].friends[Len(page[v].friends)]

get_end(v) == back(v) + 1

-----------------------------------------------------------------------------
\* Any part of the kernel allocates a block and keeps the Arc.
allocate(order) == alloc_pages(order) /\ UNCHANGED dma

\* References to leader v that are not the one in DMA_FMS.
in_dma(v) == \E k \in 1..Len(dma) : dma[k].pg = v

outside_dma(v) == IF in_dma(v) THEN arcs[v] - 1 ELSE arcs[v]

\* A holder clones its Arc, or lets go of it.
clone_arc(v) ==
  /\ outside_dma(v) \in 1..(MAX_ARCS - 1)
  /\ arcs' = [arcs EXCEPT ![v] = @ + 1]
  /\ UNCHANGED <<buddyVars, page, unclean, dma, halted>>

release(v) == outside_dma(v) > 0 /\ drop_arc(v) /\ UNCHANGED dma

\* virtio_dma_alloc(pages): the Arc in DMA_FMS is the only one that stays.
virtio_dma_alloc(pages) ==
  /\ Len(dma) < MAX_DMA
  /\ alloc_pages(pages2order(pages))
  /\ dma' = IF halted'.why = "none" THEN Append(dma, [pg |-> ret', pages |-> pages]) ELSE dma

\* dma_fms_remove takes the first entry with the address.
first_at(v) == CHOOSE k \in 1..Len(dma) : dma[k].pg = v /\ \A j \in 1..(k - 1) : dma[j].pg # v

without_entry(k) == SubSeq(dma, 1, k - 1) \o SubSeq(dma, k + 1, Len(dma))

\* virtio_dma_dealloc(paddr, pages) with the address and the number of pages of
\* an earlier virtio_dma_alloc, which is what the driver passes (so that
\* dma_fms_remove finds the entry and does not panic).
virtio_dma_dealloc(v, pages) ==
  IF get_block_page_cnt(v) # pages
  THEN /\ halted' = crash("assert_eq get_block_page_cnt", pages)
       /\ dma' = without_entry(first_at(v))
       /\ UNCHANGED <<buddyVars, page, arcs, unclean>>
  ELSE drop_arc(v) /\ dma' = without_entry(first_at(v))

\* After a panic the machine is shut down.
shut_down == (stopped # "none" \/ halted.why # "none") /\ UNCHANGED pagesVars

PagesNext ==
  \/ /\ stopped = "none" /\ halted.why = "none"
     /\ \/ \E order \in Order : allocate(order)
        \/ \E v \in Pg : page[v].is_leader /\ (clone_arc(v) \/ release(v))
        \/ \E pages \in DMA_PAGES : virtio_dma_alloc(pages)
        \/ \E k \in 1..Len(dma) : virtio_dma_dealloc(dma[k].pg, dma[k].pages)
  \/ shut_down

PagesSpec == PagesInit /\ [][PagesNext]_pagesVars

-----------------------------------------------------------------------------
handed_out == UNION {Span(b.vaddr, b.order) : b \in held}

\* The types of the descriptors, of the reference counts and of DMA_FMS.
PagesTypeOK ==
  /\ \A v \in Pg : /\ page[v].order \in Order
                   /\ page[v].leader \in Pg \cup {-1}
                   /\ page[v].friends \in Seq(Pg)
  /\ arcs \in [Pg -> 0..(MAX_ARCS + 1)]
  /\ unclean \subseteq Pg
  /\ \A k \in 1..Len(dma) : dma[k] \in [pg : Pg, pages : DMA_PAGES]
  /\ halted.why \in STRING /\ halted.pages \in Nat

\* The descriptors alive are those of the blocks the buddy allocator handed out:
\* the leader at the block's address, with the block's order (which its drop
\* gives back) and the other frames as friends in address order (so that
\* Stack::get_end is the end of the block); nothing is kept for free frames.
DescriptorsMatchBlocks ==
  /\ \A b \in held :
       /\ page[b.vaddr].is_leader /\ arcs[b.vaddr] > 0
       /\ page[b.vaddr].order = b.order
       /\ get_block_page_cnt(b.vaddr) = order2pages[b.order]
       /\ b.order > 0 => get_end(b.vaddr) = b.vaddr + order2pages[b.order]
       /\ \A k \in 1..Len(page[b.vaddr].friends) :
            LET p == page[b.vaddr].friends[k]
            IN  /\ p = b.vaddr + k
                /\ ~page[p].is_leader /\ page[p].leader = b.vaddr /\ arcs[p] = 1
  /\ \A v \in Pg \ handed_out : page[v] = NoPage /\ arcs[v] = 0

\* No holder of a block can read what an earlier owner of its frames left there:
\* alloc_pages clears the friends as well as the leader.
BlocksAreClean == unclean \cap handed_out = {}

\* Every DMA buffer the driver has is alive, once, and large enough.
DmaBuffersAreAlive ==
  \A k \in 1..Len(dma) : /\ page[dma[k].pg].is_leader
                         /\ get_block_page_cnt(dma[k].pg) >= dma[k].pages
                         /\ \A j \in 1..Len(dma) : dma[j].pg = dma[k].pg => j = k

\* The panics "page already in memory" and "page drop fail" are unreachable, and
\* the assertion of virtio_dma_dealloc fails only when the request it releases was
\* not of a power of two of pages, which the orders are.
OnlyMemoryOrOddRequestHalts ==
  \/ halted.why \in {"none", "out of memory"}
  \/ /\ halted.why = "assert_eq get_block_page_cnt"
     /\ \A o \in Order : order2pages[o] # halted.pages

\* Frames, descriptors, reference counts, contents and the DMA list agree after
\* every sequence of allocations, clones and drops.
PagesInv == /\ PagesTypeOK /\ DescriptorsMatchBlocks /\ BlocksAreClean
            /\ DmaBuffersAreAlive /\ OnlyMemoryOrOddRequestHalts

\* What the descriptors do to the allocator are steps of Buddy: a drop gives
\* back a block that is handed out, whole and once, and never a part of one.
PagesUseBuddy == BuddySpec
=============================================================================
