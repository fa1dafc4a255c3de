--------------------------------- MODULE Mm ---------------------------------
(***************************************************************************)
(* User address spaces: MmStruct and VMA (kernel/src/mm/mm.rs, vma.rs),    *)
(* the mmap and brk system calls (syscall/sys_proc.rs), the page-fault     *)
(* handler of the default build (trap/mod.rs) and the copy made by fork.   *)
(*                                                                         *)
(* A page frame is named by the mapping whose pages_tree holds it: a PTE   *)
(* of pagetable[p] is the start of that mapping, and vmas[p][s].tree[v] is *)
(* what the frame behind page v contains.  A user frame starts as zeros    *)
(* (alloc_pages clears it) or, in a file mapping, as the file's data.      *)
(* Every mapping is readable; those of a file may be read-only or private  *)
(* data, which the program writes to.  The panics of the debug build are   *)
(* part of the model, the failed debug_assert!s of an mmap that is called  *)
(* with an address or a length that is not a multiple of a page included.  *)
(***************************************************************************)
EXTENDS VmaSearch

CONSTANTS
  Proc,             \* address spaces; the one of First exists at the start
  First,
  Load,             \* the loadable segments of the program: <<start, end, kind>>
  USER_HEAP,        \* bytes of heap a new program has
  MMAP_TOP,         \* end of the addresses handed out by mmap and brk
  USER_STACK,       \* start of the user stack
  USER_SPACE_END,
  Requests,         \* mappings the programs ask for: <<length, kind>>
  Hints, Brks,      \* addresses they pass to mmap and brk
  Touched           \* pages the programs read and write

Page == {a \in 0..(USER_SPACE_END - 1) : is_align(a)}
load_end == Max({seg[2] : seg \in Load})

\* Anonymous memory, the read-only pages of a file, the writable ones.
Kind == {"anon", "file", "data"}
writeable(kind) == kind # "file"
fresh(kind) == IF kind = "anon" THEN "zero" ELSE "file"

ASSUME MmAssumption ==
  /\ First \in Proc
  /\ \A seg \in Load : seg[1] \in Page /\ is_align(seg[2]) /\ seg[1] < seg[2] /\ seg[3] \in Kind
  /\ \A s1, s2 \in Load : s1[1] < s2[1] => s1[2] <= s2[1]
  /\ \A a \in {USER_HEAP, MMAP_TOP, USER_STACK, USER_SPACE_END} : is_align(a)
  /\ load_end + PAGE_SIZE + USER_HEAP <= MMAP_TOP
  /\ MMAP_TOP <= USER_STACK /\ USER_STACK < USER_SPACE_END
  /\ Requests \subseteq Nat \X Kind /\ Hints \subseteq Nat \ {0} /\ Brks \subseteq Nat
  /\ Touched \subseteq Page

Data == {"zero", "file", "stored"}

VARIABLES
  vmas,       \* [Proc -> start -> [end, kind, tree]]
  pagetable,  \* [Proc -> page -> start of the mapping that holds the frame]
  start_brk,
  brk,
  stopped,    \* why the kernel panicked, or "no"
  clobbered   \* history: the spaces with a mapping placed inside another one

vars == <<vmas, pagetable, start_brk, brk, stopped, clobbered>>

\* A process whose address space has not been made yet has no mapping at all.
exists(p) == vmas[p] # <<>>
running(p) == stopped = "no" /\ exists(p)

pages_of(start, end) == {v \in Page : start <= v /\ v < end}
extend(f, x, y) == [z \in DOMAIN f \cup {x} |-> IF z = x THEN y ELSE f[z]]
erase(f, S) == [z \in DOMAIN f \ S |-> f[z]]

vma(end, kind) == [end |-> end, kind |-> kind, tree |-> <<>>]
stack_tree == [v \in pages_of(USER_STACK, USER_SPACE_END) |-> "zero"]

new_from_elf ==
  LET heap == load_end + PAGE_SIZE
  IN [s \in {seg[1] : seg \in Load} \cup {heap, USER_STACK} |->
        CASE s = heap -> vma(heap + USER_HEAP, "anon")
          [] s = USER_STACK -> [vma(USER_SPACE_END, "anon") EXCEPT !.tree = stack_tree]
          [] OTHER -> LET seg == CHOOSE l \in Load : l[1] = s IN vma(seg[2], seg[3])]

MmInit ==
  /\ vmas = [p \in Proc |-> IF p = First THEN new_from_elf ELSE <<>>]
  /\ pagetable = [p \in Proc |-> IF p = First
                                   THEN [v \in DOMAIN stack_tree |-> USER_STACK] ELSE <<>>]
  /\ start_brk = [p \in Proc |-> IF p = First THEN load_end + PAGE_SIZE ELSE 0]
  /\ brk = [p \in Proc |-> IF p = First THEN load_end + PAGE_SIZE + USER_HEAP ELSE 0]
  /\ stopped = "no"
  /\ clobbered = {}

panic(why) ==
  /\ stopped' = why
  /\ UNCHANGED <<vmas, pagetable, start_brk, brk, clobbered>>

\* BTreeMap::insert: a mapping with the same start is replaced and dropped,
\* and VMA::drop unmaps the pages of its tree.
_insert_no_check(p, start, v) ==
  LET dropped == IF start \in DOMAIN vmas[p] THEN DOMAIN vmas[p][start].tree ELSE {}
  IN /\ vmas' = [vmas EXCEPT ![p] = extend(@, start, v)]
     /\ pagetable' = [pagetable EXCEPT ![p] = erase(@, dropped)]

\* mmap of anonymous memory or of a file the process has open, at the address
\* the program asks for or, with None, anywhere.  __alloc_unmapped_fixed does not
\* notice a mapping that begins below the address and reaches over it, nor, for
\* an empty mapping, one that begins there.
sys_mmap(p, hint, len, kind) ==
  LET r == __alloc_unmapped_core(vmas[p], hint, len, FALSE, 0, MMAP_TOP)
  IN /\ running(p)
     /\ IF r \in Panics
          THEN panic(IF r = AssertPanic THEN "debug_assert" ELSE "overflow")
          ELSE /\ IF r = None
                    THEN UNCHANGED <<vmas, pagetable, clobbered>>
                    ELSE /\ _insert_no_check(p, r, vma(r + len, kind))
                         /\ clobbered' = IF hint # None /\ find_vma(vmas[p], hint) # None
                                            THEN clobbered \cup {p} ELSE clobbered
               /\ UNCHANGED <<start_brk, brk, stopped>>

mmap_anywhere(p, len, kind) == sys_mmap(p, None, len, kind)

mmap_at(p, hint, len, kind) == sys_mmap(p, hint, len, kind)

\* Faulty variant: what lies above the heap is not looked at.
_expand_brk_no_limit(p, b) == b

\* The mapping after the heap is the second one that starts in
\* start_brk..MMAP_TOP, the first one being the heap itself.
_expand_brk(p, b) ==
  LET here == in_range(vmas[p], start_brk[p], MMAP_TOP)
      next == {s \in here : \E t \in here : t < s}
      limit == IF next = {} THEN MMAP_TOP ELSE Min(next)
  IN IF b > limit THEN -1 ELSE b

\* The end of the heap after VMA::split, which refuses every address inside the
\* mapping, and brk asks for no other one.
_shrink_brk(p, heap, b) == IF in_vma(vmas[p], heap, b) THEN vmas[p][heap].end ELSE b

\* Both look for the heap by its start and unwrap what they find.
sys_brk(p, b) ==
  LET heap == find_vma(vmas[p], start_brk[p])
      shrinks == start_brk[p] <= b /\ b < brk[p]
      grows == b > brk[p] /\ _expand_brk(p, b) = b
  IN /\ running(p)
     /\ shrinks \/ grows
     /\ IF heap = None
          THEN panic("no heap")
          ELSE /\ vmas' = [vmas EXCEPT ![p][heap].end =
                             IF grows THEN b ELSE _shrink_brk(p, heap, b)]
               /\ brk' = [brk EXCEPT ![p] = IF grows THEN b ELSE @]
               /\ UNCHANGED <<pagetable, start_brk, stopped, clobbered>>

_do_alloc_one_page(p, s, v) ==
  /\ vmas' = [vmas EXCEPT ![p][s].tree =
                extend(@, v, fresh(vmas[p][s].kind))]
  /\ pagetable' = [pagetable EXCEPT ![p] = extend(@, v, s)]
  /\ UNCHANGED <<start_brk, brk, stopped, clobbered>>

\* map_one_page refuses a page that has a valid PTE, and the caller panics.
trap_page_fault_handler(p, v) ==
  LET s == find_vma(vmas[p], v)
  IN IF s = None THEN panic("error address access")
     ELSE IF v \in DOMAIN vmas[p][s].tree THEN panic("prot fault")
     ELSE IF v \in DOMAIN pagetable[p] THEN panic("todo")
     ELSE _do_alloc_one_page(p, s, v)

\* The user program reads or writes page v; the hardware walks the page table.
user_access(p, v, write) ==
  LET mapped == v \in DOMAIN pagetable[p]
      s == pagetable[p][v]
  IN /\ running(p)
     /\ IF mapped /\ (~write \/ writeable(vmas[p][s].kind))
          THEN /\ write
               /\ vmas' = [vmas EXCEPT ![p][s].tree[v] = "stored"]
               /\ UNCHANGED <<pagetable, start_brk, brk, stopped, clobbered>>
          ELSE trap_page_fault_handler(p, v)

\* A system call of p reads or writes page v of a buffer of the program.  A
\* fault taken in the kernel is looked up in the kernel's own mappings, where
\* no address of a program is, whether or not the program has mapped it.  (A
\* page that is present it may use: Task::init sets sstatus.SUM.)
kernel_access(p, v, write) ==
  LET s == pagetable[p][v]
  IN /\ running(p)
     /\ IF v \in DOMAIN pagetable[p] /\ (~write \/ writeable(vmas[p][s].kind))
          THEN /\ write
               /\ vmas' = [vmas EXCEPT ![p][s].tree[v] = "stored"]
               /\ UNCHANGED <<pagetable, start_brk, brk, stopped, clobbered>>
          ELSE panic("error address access")

\* Faulty variants: fork copies what fork_as says of the mappings, the page
\* table and brk.
fork_as(p, c, mappings, table, end) ==
  /\ running(p) /\ ~exists(c)
  /\ vmas' = [vmas EXCEPT ![c] = mappings]
  /\ pagetable' = [pagetable EXCEPT ![c] = table]
  /\ start_brk' = [start_brk EXCEPT ![c] = start_brk[p]]
  /\ brk' = [brk EXCEPT ![c] = end]
  /\ UNCHANGED <<stopped, clobbered>>

fork_maps_nothing(p, c) == fork_as(p, c, vmas[p], <<>>, brk[p])

fork_clears_pages(p, c) ==
  fork_as(p, c, [s \in DOMAIN vmas[p] |->
                   [vmas[p][s] EXCEPT !.tree = [v \in DOMAIN @ |-> "zero"]]],
          pagetable[p], brk[p])

\* Every mapping is copied with a frame of its own for each page of its tree;
\* a page that two trees hold is mapped twice in the new page table.
new_mm_by_old(p, c) ==
  LET owners(v) == {s \in DOMAIN vmas[p] : v \in DOMAIN vmas[p][s].tree}
      present == {v \in Page : owners(v) # {}}
  IN /\ running(p) /\ ~exists(c)
     /\ IF \E v \in present : Cardinality(owners(v)) > 1
          THEN panic("todo")
          ELSE /\ vmas' = [vmas EXCEPT ![c] = vmas[p]]
               /\ pagetable' = [pagetable EXCEPT ![c] =
                                  [v \in present |-> CHOOSE s \in owners(v) : TRUE]]
               /\ start_brk' = [start_brk EXCEPT ![c] = start_brk[p]]
               /\ brk' = [brk EXCEPT ![c] = brk[p]]
               /\ clobbered' = IF p \in clobbered THEN clobbered \cup {c} ELSE clobbered
               /\ UNCHANGED stopped

shut_down == stopped # "no" /\ UNCHANGED vars

MmNext ==
  \/ \E p \in Proc, r \in Requests :
       \/ mmap_anywhere(p, r[1], r[2])
       \/ \E hint \in Hints : mmap_at(p, hint, r[1], r[2])
  \/ \E p \in Proc, b \in Brks : sys_brk(p, b)
  \/ \E p \in Proc, v \in Touched, write \in BOOLEAN :
       user_access(p, v, write) \/ kernel_access(p, v, write)
  \/ \E p, c \in Proc : new_mm_by_old(p, c)
  \/ shut_down

MmSpec == MmInit /\ [][MmNext]_vars

-----------------------------------------------------------------------------
\* The types of the variables.
MmTypeOK ==
  /\ \A p \in Proc :
       /\ \A s \in DOMAIN vmas[p] :
            /\ vmas[p][s].end \in Nat /\ vmas[p][s].kind \in Kind
            /\ \A v \in DOMAIN vmas[p][s].tree : v \in Page /\ vmas[p][s].tree[v] \in Data
       /\ DOMAIN pagetable[p] \subseteq Page
       /\ start_brk[p] \in Nat /\ brk[p] \in Nat
  /\ stopped \in {"no", "debug_assert", "overflow", "error address access",
                  "prot fault", "todo", "no heap"}
  /\ clobbered \subseteq Proc

\* The address spaces in which mmap has not been made to place a mapping inside
\* another one, by an address the program asked for.
intact == Proc \ clobbered

\* No page belongs to two mappings of one address space: what mmap hands out
\* is free, and the heap never grows into a mapping, whatever the order of the
\* mmap, brk and fork calls (also when brk leaves the heap's end unaligned).
NoOverlap ==
  \A p \in intact : \A s, t \in DOMAIN vmas[p] :
    s # t => pages_of(s, vmas[p][s].end) \cap pages_of(t, vmas[p][t].end) = {}

\* The page table maps exactly the pages held in the trees of the mappings,
\* each one to the frame in the tree of the mapping that a page fault on that
\* page would pick: a user program never reaches a frame that was given back.
\* An mmap at an address inside another mapping is what puts an end to it.
PageTableMatchesTrees ==
  \A p \in intact :
    /\ \A v \in DOMAIN pagetable[p] :
         pagetable[p][v] = find_vma(vmas[p], v) /\ v \in DOMAIN vmas[p][pagetable[p][v]].tree
    /\ \A s \in DOMAIN vmas[p] : \A v \in DOMAIN vmas[p][s].tree :
         v \in DOMAIN pagetable[p] /\ pagetable[p][v] = s

\* The heap's mapping starts at start_brk and ends at brk: brk calls, mmap
\* calls and forks keep the two records of the heap's end equal.
HeapEndsAtBrk ==
  \A p \in intact : exists(p) =>
    /\ find_vma(vmas[p], start_brk[p]) = start_brk[p]
    /\ vmas[p][start_brk[p]].end = brk[p]
    /\ brk[p] <= MMAP_TOP

\* The search for free space never subtracts below zero, fork never finds a page
\* mapped already and brk always finds the heap, unless a mapping was placed
\* inside another one.  (mmap does fail a debug_assert! when it is called with an
\* address or a length that is not a multiple of a page, and a system call given a
\* buffer that is not present panics in kernel_access: neither is denied here.)
BookkeepingNeverPanics ==
  stopped \in {"overflow", "todo", "no heap"} => clobbered # {}

\* Unless a program asks for an address inside one of its mappings, its mappings
\* do not overlap and the two records of the heap's end agree, so that mmap, brk
\* and fork never come upon something that cannot be.
MmInv == MmTypeOK /\ NoOverlap /\ HeapEndsAtBrk /\ BookkeepingNeverPanics

\* What a program reads at page v, given its mappings and its page table: the
\* frame the PTE names, or what the page-fault handler would put there.
view(vs, pt, v) ==
  LET s == find_vma(vs, v)
  IN CASE v \in DOMAIN pt -> vs[pt[v]].tree[v]
       [] v \notin DOMAIN pt /\ s # None ->
            fresh(vs[s].kind)
       [] OTHER -> "fault"

\* Fork gives the child an address space in which every page reads as it does
\* in the parent, lazily mapped pages included; no system call or page fault
\* ever changes what a program reads at a page it could already read; and a page
\* that is present stays present, in the child too, so that a buffer which the
\* program has touched can be handed to any later system call.  (Until a mapping
\* is placed inside another one.)
ReadsSurvive ==
  [][\A p \in intact' : vmas'[p] # vmas[p] =>
       IF exists(p)
         THEN /\ DOMAIN pagetable[p] \subseteq DOMAIN pagetable'[p]
              /\ \A v \in Page :
                   LET before == view(vmas[p], pagetable[p], v)
                   IN before # "fault" =>
                        view(vmas'[p], pagetable'[p], v) \in {before, "stored"}
         ELSE \E q \in Proc :
                /\ exists(q) /\ DOMAIN pagetable[q] \subseteq DOMAIN pagetable'[p]
                /\ \A v \in Page :
                     view(vmas'[p], pagetable'[p], v) = view(vmas[q], pagetable[q], v)]_vars
=============================================================================
