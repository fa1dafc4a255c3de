------------------------------- MODULE Buddy --------------------------------
(***************************************************************************)
(* The page-frame allocator of kernel/src/mm/buddy.rs: a free list, a bitmap  *)
(* and a counter for each order.  The bit of a pair of buddies is turned over *)
(* whenever one of them enters or leaves the list, so that insert_area can    *)
(* tell from one bit that the other half is free and must be combined.        *)
(*                                                                          *)
(* Addresses are page numbers counted from start_vaddr.  The recursion of     *)
(* alloc_area and the loop of free_area touch each order once, so their       *)
(* effect is given order by order.                                            *)
(***************************************************************************)
EXTENDS Integers, Sequences

CONSTANTS PG_CNT,       \* pages managed
          MAX_ORDER,    \* 11 in the code
          order2pages   \* utils.rs order2pages: a block of order o has 1 << o pages

ASSUME PgCntAssumption == PG_CNT \in Nat
ASSUME MaxOrderAssumption == MAX_ORDER \in Nat \ {0}
ASSUME Order2PagesAssumption ==
  /\ order2pages \in [0..(MAX_ORDER - 1) -> Nat \ {0}]
  /\ order2pages[0] = 1
  /\ \A o \in 1..(MAX_ORDER - 1) : order2pages[o] = 2 * order2pages[o - 1]

Order == 0..(MAX_ORDER - 1)
Top == MAX_ORDER - 1
Pg == 0..(PG_CNT - 1)

VARIABLES areas,    \* FreeArea.list of each order, front first
          bitmap,   \* FreeArea.bitmap of each order
          free_cnt, \* FreeArea.free_cnt of each order
          held,     \* the blocks the callers hold: [vaddr, order]
          ret,      \* what the last alloc_area returned: a page, or -1 for Err
          stopped   \* which panic or assertion was hit, or "none"

buddyVars == <<areas, bitmap, free_cnt, held, ret, stopped>>

\* _get_bitmap_index and _get_buddy_vaddr for a block of order o at v.
_get_bitmap_index(v, o) == (v \div order2pages[o]) \div 2

_get_buddy_vaddr(v, o) ==
  IF (v \div order2pages[o]) % 2 = 0 THEN v + order2pages[o] ELSE v - order2pages[o]

\* Faulty variant: the bit is set whatever it was.
turn_over_sets(bits, index) == [bits EXCEPT ![index] = TRUE]

turn_over(bits, index) == [bits EXCEPT ![index] = ~@]

\* _init_areas: the largest blocks first, then one block for each bit of the rest.
initial_blocks(o) ==
  LET n == order2pages[o]
  IN  IF o = Top THEN [k \in 1..(PG_CNT \div n) |-> (k - 1) * n]
      ELSE IF PG_CNT % (2 * n) >= n THEN <<PG_CNT - (PG_CNT % (2 * n))>>
      ELSE <<>>

\* A bit is set when an odd number of the blocks of its pair were inserted.
_init_areas ==
  /\ areas = [o \in Order |-> initial_blocks(o)]
  /\ bitmap = [o \in Order |-> [index \in Pg |->
        LET in_pair(k) == _get_bitmap_index(initial_blocks(o)[k], o) = index
        IN  \E k \in 1..Len(initial_blocks(o)) :
              in_pair(k) /\ \A j \in 1..Len(initial_blocks(o)) : in_pair(j) => j = k]]
  /\ free_cnt = [o \in Order |-> Len(initial_blocks(o))]
  /\ held = {}
  /\ ret = -1
  /\ stopped = "none"

-----------------------------------------------------------------------------
\* Faulty variant: blocks are never combined.
combines_never(v, o) == FALSE

\* insert_area combines the block with its buddy (and does not list it).
combines(v, o) == bitmap[o][_get_bitmap_index(v, o)] /\ o # Top

\* The order alloc_area takes a block from: the smallest one not below order
\* that has any.
source_orders(order) ==
  {o \in Order : o >= order /\ free_cnt[o] # 0 /\ \A j \in order..(o - 1) : free_cnt[j] = 0}

\* alloc_area(order) with a block found in order o: it leaves the back of that
\* list, and on the way down its upper half is inserted in each order below.
alloc_from(order, o) ==
  LET v == areas[o][Len(areas[o])]
      upper(j) == v + order2pages[j]
  IN  IF \E j \in order..(o - 1) : combines(upper(j), j)
      THEN /\ stopped' = "assert insert_ret.is_none"
           /\ UNCHANGED <<areas, bitmap, free_cnt, held, ret>>
      ELSE /\ areas' = [j \in Order |->
                 IF j = o THEN SubSeq(areas[j], 1, Len(areas[j]) - 1)
                 ELSE IF j \in order..(o - 1) THEN Append(areas[j], upper(j))
                 ELSE areas[j]]
           /\ bitmap' = [j \in Order |->
                 IF j = o THEN turn_over(bitmap[j], _get_bitmap_index(v, j))
                 ELSE IF j \in order..(o - 1)
                      THEN turn_over(bitmap[j], _get_bitmap_index(upper(j), j))
                 ELSE bitmap[j]]
           /\ free_cnt' = [j \in Order |->
                 IF j = o THEN free_cnt[j] - 1
                 ELSE IF j \in order..(o - 1) THEN free_cnt[j] + 1
                 ELSE free_cnt[j]]
           /\ held' = held \cup {[vaddr |-> v, order |-> order]}
           /\ ret' = v
           /\ UNCHANGED stopped

alloc_area(order) ==
  \/ \E o \in source_orders(order) : alloc_from(order, o)
  \/ /\ source_orders(order) = {}
     /\ ret' = -1
     /\ UNCHANGED <<areas, bitmap, free_cnt, held, stopped>>

\* The block free_area has in hand at order j after combining below: combining
\* keeps the lower address, which is the one aligned to the next order.
in_hand(v, j) == v - (v % order2pages[j])

\* The order at which free_area stops combining and lists the block.
final_order(v, order) ==
  CHOOSE o \in order..Top : /\ ~combines(in_hand(v, o), o)
                            /\ \A j \in order..(o - 1) : combines(in_hand(v, j), j)

without(s, x) == SelectSeq(s, LAMBDA y : y # x)

listed(s, x) == \E k \in 1..Len(s) : s[k] = x

\* free_area(b): below the final order the buddy leaves its list and the bit is
\* cleared; at the final order the block is pushed and the bit turned over.
free_area(b) ==
  LET o == final_order(b.vaddr, b.order)
      item(j) == in_hand(b.vaddr, j)
      buddy(j) == _get_buddy_vaddr(item(j), j)
      index(j) == _get_bitmap_index(item(j), j)
  IN  IF \E j \in b.order..(o - 1) : ~listed(areas[j], buddy(j))
      THEN /\ stopped' = "panic in list.remove"
           /\ UNCHANGED <<areas, bitmap, free_cnt, held, ret>>
      ELSE /\ areas' = [j \in Order |->
                 IF j = o THEN Append(areas[j], item(j))
                 ELSE IF j \in b.order..(o - 1) THEN without(areas[j], buddy(j))
                 ELSE areas[j]]
           /\ bitmap' = [j \in Order |->
                 IF j = o THEN turn_over(bitmap[j], index(j))
                 ELSE IF j \in b.order..(o - 1) THEN [bitmap[j] EXCEPT ![index(j)] = FALSE]
                 ELSE bitmap[j]]
           /\ free_cnt' = [j \in Order |->
                 IF j = o THEN free_cnt[j] + 1
                 ELSE IF j \in b.order..(o - 1) THEN free_cnt[j] - 1
                 ELSE free_cnt[j]]
           /\ held' = held \ {b}
           /\ UNCHANGED <<ret, stopped>>

BuddyNext == /\ stopped = "none"
             /\ \/ \E order \in Order : alloc_area(order)
                \/ \E b \in held : free_area(b)

BuddySpec == _init_areas /\ [][BuddyNext]_buddyVars

-----------------------------------------------------------------------------
Span(v, o) == v..(v + order2pages[o] - 1)

\* The pages of the blocks on the free lists.
listed_pages == UNION {UNION {Span(areas[o][k], o) : k \in 1..Len(areas[o])} : o \in Order}

\* The types of the fields of FreeArea.
BuddyTypeOK ==
  /\ areas \in [Order -> Seq(Pg)]
  /\ bitmap \in [Order -> [Pg -> BOOLEAN]]
  /\ free_cnt \in [Order -> 0..PG_CNT]
  /\ held \in SUBSET [vaddr : Pg, order : Order]
  /\ ret \in Pg \cup {-1}
  /\ stopped \in STRING

\* FreeArea.free_cnt, which alloc_area trusts before it pops, is the length of
\* the list after any sequence of splits and combinations.
FreeCntIsLength == \A o \in Order : free_cnt[o] = Len(areas[o])

\* The bit of a pair says that exactly one of the two buddies is listed, in
\* every order but the top one, where insert_area never combines.
BitTellsLoneBuddy ==
  \A o \in Order \ {Top} : \A v \in Pg :
    v % order2pages[o] = 0 =>
      (bitmap[o][_get_bitmap_index(v, o)]
         <=> (listed(areas[o], v) /\ ~listed(areas[o], _get_buddy_vaddr(v, o)))
             \/ (~listed(areas[o], v) /\ listed(areas[o], _get_buddy_vaddr(v, o))))

\* Every page belongs to exactly one block, on a free list or in a caller's
\* hands: nothing is handed out twice, and nothing leaks.
BlocksPartitionPages ==
  /\ \A o1, o2 \in Order : \A i \in 1..Len(areas[o1]), j \in 1..Len(areas[o2]) :
       Span(areas[o1][i], o1) \cap Span(areas[o2][j], o2) # {} => o1 = o2 /\ i = j
  /\ \A b, c \in held :
       Span(b.vaddr, b.order) \cap Span(c.vaddr, c.order) # {} => b = c
  /\ \A b \in held : Span(b.vaddr, b.order) \cap listed_pages = {}
  /\ listed_pages \cup UNION {Span(b.vaddr, b.order) : b \in held} = Pg

\* The assertion that a split never combines, the panic of list.remove when
\* the buddy is not in the list, and the underflow of free_cnt are not reached.
NoBuddyPanic == stopped = "none"

\* The books of the allocator agree after any sequence of splits and
\* combinations: bits and counters say what is listed, every page is in one
\* block, and no panic is reached.
BuddyInv == /\ BuddyTypeOK /\ FreeCntIsLength /\ BitTellsLoneBuddy
            /\ BlocksPartitionPages /\ NoBuddyPanic

Frames == INSTANCE PageFrames WITH free_pages <- listed_pages

\* The free lists, bitmaps and counters implement the set of free pages: an
\* allocation returns free, aligned pages, it is refused only when no aligned
\* run of that size is free (so everything that can be combined is combined),
\* and freeing gives back exactly the block's pages.
ImplementsPageFrames == Frames!FramesSpec
=============================================================================
