----------------------------- MODULE PageTable ------------------------------
(***************************************************************************)
(* The three-level page tables of kernel/src/mm/pagetable.rs.  Addresses    *)
(* count pages; a root table has ROOT entries and the others FANOUT (512    *)
(* both, in the code).  The tables live in page frames taken from, and given *)
(* back to, one pool.  A user table copies the root entries of the kernel's  *)
(* when it is made, so its kernel half shares the tables below them.         *)
(*                                                                          *)
(* Every operation runs with the interrupts off (page faults, kmap) on the   *)
(* only hart: it is one step.  Running out of memory (alloc_pages(0).unwrap) *)
(* and the explicit panics stop the system.                                  *)
(***************************************************************************)
EXTENDS Naturals, Sequences, FiniteSets, FiniteSetsExt

CONSTANTS User,       \* the user page tables there can be
          Kernel,     \* the kernel's page table
          ROOT,       \* entries of a root table
          FANOUT,     \* entries of the tables below it
          UserRoot,   \* root entries that new_user clears: 0 and 1 on qemu
          BootBig,    \* root entries that boot_pagetable fills with big pages
          DevPage,    \* the pages hardware_remapping maps
          UserProbe,  \* the user pages that are operated on
          KernProbe,  \* the kmap pages that are operated on
          Table,      \* page frames for tables
          Frame,      \* page frames for data
          Perm,       \* permission sets: subsets of {"R", "W", "X"}
          Order       \* the orders of the blocks that are mapped

ASSUME TablesAssumption == 0 \notin Table /\ 0 \notin Frame /\ Kernel \notin User
ASSUME FanoutAssumption == FANOUT \in Nat \ {0} /\ ROOT >= FANOUT
                            /\ UserRoot \cup BootBig \subseteq 0..ROOT-1

VARIABLES mem,          \* the entries of each table page (and of boot_pagetable, page 0)
          private_pgs,  \* PageTable.private_pgs, the root first; <<>> when there is no table
          free,         \* the free page frames among Table
          remapped,     \* hardware_remapping has run
          stopped,      \* why the kernel panicked, or "no"
          view          \* what each user table translates: computed from the tables

ptVars == <<mem, private_pgs, free, remapped, stopped, view>>

Index == 0..ROOT-1
AnyTable == User \cup {Kernel}
boot_pagetable == 0

UserPage == {v \in 0..ROOT * FANOUT * FANOUT - 1 : (v \div (FANOUT * FANOUT)) \in UserRoot}

-----------------------------------------------------------------------------
\* PTE::default, and the entries that point to a table or map a frame.
NoPTE == [v |-> FALSE, perm |-> {}, ppn |-> 0]
points_to(pg) == [v |-> TRUE, perm |-> {}, ppn |-> pg]
maps(f, perm) == [v |-> TRUE, perm |-> perm, ppn |-> f]

\* PTE::is_leaf: some of R, W, X, whether or not the entry is valid.
is_leaf(e) == e.perm # {}

\* A free page holds whatever its last user wrote into it: an entry of it may
\* look like any other.
Junk == maps(0, {"W"})

BigPage(i) == maps(0, {"R", "W", "X"})

\* addr_get_ppn2, addr_get_ppn1, addr_get_ppn0.
addr_get_ppn(va, level) ==
  CASE level = 0 -> va \div (FANOUT * FANOUT)
    [] level = 1 -> (va \div FANOUT) % FANOUT
    [] level = 2 -> va % FANOUT

PtInit ==
  /\ mem = [p \in Table \cup {boot_pagetable} |->
              [i \in Index |-> IF p # boot_pagetable THEN Junk
                               ELSE IF i \in BootBig THEN BigPage(i) ELSE NoPTE]]
  /\ private_pgs = [t \in AnyTable |-> IF t = Kernel THEN <<boot_pagetable>> ELSE <<>>]
  /\ free = Table
  /\ remapped = FALSE
  /\ stopped = "no"
  /\ view = [t \in User |-> <<>>]

owned(t) == {private_pgs[t][k] : k \in 1..Len(private_pgs[t])}

\* The operations work on the state s and the panic they met: "no", or why.
now == [mem |-> mem, pgs |-> private_pgs, free |-> free, panic |-> "no"]

put(s, pg, i, e) == [s EXCEPT !.mem = [@ EXCEPT ![pg] = [@ EXCEPT ![i] = e]]]

\* Faulty variant: the page stays in the pool.
alloc_pages_kept(s, t) ==
  LET new == Min(s.free)
  IN  [s EXCEPT !.pgs = [@ EXCEPT ![t] = Append(@, new)],
                !.mem = [@ EXCEPT ![new] = [i \in Index |-> NoPTE]]]

\* alloc_pages(0), which clears the page; the page joins t's private_pgs.
alloc_pages(s, t) ==
  LET new == Min(s.free)
  IN  [s EXCEPT !.pgs = [@ EXCEPT ![t] = Append(@, new)],
                !.free = @ \ {new},
                !.mem = [@ EXCEPT ![new] = [i \in Index |-> NoPTE]]]

\* alloc_pages(0).unwrap() with nothing left.
out_of_memory(s) == [s EXCEPT !.panic = "alloc_pages"]

last_page(s, t) == s.pgs[t][Len(s.pgs[t])]

\* The alloc branch of the walk: a new table below entry i of pg.
alloc_below(s, t, pg, i) ==
  IF s.free = {} THEN out_of_memory(s)
  ELSE LET a == alloc_pages(s, t) IN put(a, pg, i, points_to(last_page(a, t)))

\* One iteration of the loop of _walk_common, at entry w.i of the table w.pg.
\* A walk that is over stays where it is.
walk_step(w, t, va, alloc) ==
  LET e == w.s.mem[w.pg][w.i]
      below(s, pg) == [w EXCEPT !.s = s, !.level = @ + 1, !.pg = pg,
                                !.i = addr_get_ppn(va, w.level + 1)]
  IN  CASE w.over -> w
        [] ~w.over /\ (is_leaf(e) \/ w.level = 2) -> [w EXCEPT !.over = TRUE]
        [] ~w.over /\ ~is_leaf(e) /\ w.level < 2 /\ e.v -> below(w.s, e.ppn)
        [] ~w.over /\ ~is_leaf(e) /\ w.level < 2 /\ ~e.v /\ ~alloc ->
             [w EXCEPT !.over = TRUE, !.none = TRUE]
        [] OTHER ->
             LET s == alloc_below(w.s, t, w.pg, w.i)
             IN  IF s.panic # "no" THEN [w EXCEPT !.s = s, !.over = TRUE]
                 ELSE below(s, last_page(s, t))

_walk_common(s, t, va, alloc) ==
  LET start == [s |-> s, level |-> 0, pg |-> s.pgs[t][1], i |-> addr_get_ppn(va, 0),
                over |-> FALSE, none |-> FALSE]
  IN  walk_step(walk_step(walk_step(start, t, va, alloc), t, va, alloc), t, va, alloc)

walk(s, t, va) == _walk_common(s, t, va, FALSE)
walk_alloc(s, t, va) == _walk_common(s, t, va, TRUE)

unmapped == [ppn |-> 0, perm |-> {}]

\* What the hardware finds at va (a page of the user half or of the kmap range).
translate(s, t, va) ==
  LET w == walk(s, t, va)
      e == w.s.mem[w.pg][w.i]
  IN  IF w.none \/ ~e.v THEN unmapped ELSE [ppn |-> e.ppn, perm |-> e.perm]

views(s) == [t \in User |-> IF s.pgs[t] = <<>> THEN <<>>
                            ELSE [va \in UserPage |-> translate(s, t, va)]]

becomes(s) == /\ mem' = s.mem
              /\ private_pgs' = s.pgs
              /\ free' = s.free
              /\ stopped' = s.panic
              /\ view' = views(s)

-----------------------------------------------------------------------------
entry(w) == w.s.mem[w.pg][w.i]

\* The panics of an operation that needs a last-level entry.
on_big_page(s) == [s EXCEPT !.panic = "big page"]

\* The operations return a state and whether the code returns Ok (or true).
result(s, ok) == [s |-> s, ok |-> ok]

is_not_mapped(s, t, va) ==
  LET w == walk_alloc(s, t, va)
  IN  CASE w.s.panic # "no" -> result(w.s, FALSE)
        [] w.s.panic = "no" /\ w.level # 2 -> result(on_big_page(w.s), FALSE)
        [] OTHER -> result(w.s, ~entry(w).v)

map_one_page(s, t, va, f, perm) ==
  LET w == walk_alloc(s, t, va)
  IN  CASE w.s.panic # "no" -> result(w.s, FALSE)
        [] w.s.panic = "no" /\ w.level # 2 -> result(on_big_page(w.s), FALSE)
        [] w.s.panic = "no" /\ w.level = 2 /\ entry(w).v -> result(w.s, FALSE)
        [] OTHER -> result(put(w.s, w.pg, w.i, maps(f, perm)), TRUE)

order2pages(order) == 2 ^ order

\* First all pages are looked at, then all are mapped; each map_one_page is
\* unwrapped.
map_pages(s, t, va, f, order, perm) ==
  LET n == order2pages(order)
      check[k \in 0..n] ==
        IF k = 0 THEN result(s, TRUE)
        ELSE IF ~check[k - 1].ok THEN check[k - 1]
        ELSE is_not_mapped(check[k - 1].s, t, va + (k - 1))
      unwrapped(r) == IF r.ok \/ r.s.panic # "no" THEN r
                      ELSE result([r.s EXCEPT !.panic = "unwrap"], FALSE)
      each[k \in 0..n] ==
        IF k = 0 THEN check[n]
        ELSE IF ~each[k - 1].ok THEN each[k - 1]
        ELSE unwrapped(map_one_page(each[k - 1].s, t, va + (k - 1), f + (k - 1), perm))
  IN  each[n]

\* Faulty variant: the entry stays valid.
_unmap_one_page_valid(s, t, va) ==
  LET w == walk_alloc(s, t, va)
  IN  IF w.s.panic # "no" THEN w.s
      ELSE put(w.s, w.pg, w.i, [v |-> TRUE, perm |-> entry(w).perm, ppn |-> 0])

\* Only V and the frame number are cleared; the entry stays a leaf.
_unmap_one_page(s, t, va) ==
  LET w == walk_alloc(s, t, va)
  IN  CASE w.s.panic # "no" -> w.s
        [] w.s.panic = "no" /\ w.level # 2 -> on_big_page(w.s)
        [] OTHER -> put(w.s, w.pg, w.i, [v |-> FALSE, perm |-> entry(w).perm, ppn |-> 0])

unmap_pages(s, t, va, order) ==
  LET n == order2pages(order)
      each[k \in 0..n] == IF k = 0 THEN s
                          ELSE IF each[k - 1].panic # "no" THEN each[k - 1]
                          ELSE _unmap_one_page(each[k - 1], t, va + (k - 1))
  IN  each[n]

change_map_flags(s, t, va, perm) ==
  LET w == walk(s, t, va)
  IN  IF w.none \/ w.level # 2 \/ ~entry(w).v THEN s
      ELSE put(s, w.pg, w.i, maps(entry(w).ppn, perm))

\* The table made for va, page by page; a big page met on the way is broken up.
_force_map_one(s, t, va, f) ==
  LET root == s.pgs[t][1]
      present(x, pg, i) == IF is_leaf(x.mem[pg][i]) \/ ~x.mem[pg][i].v
                           THEN alloc_below(x, t, pg, i) ELSE x
      s1 == present(s, root, addr_get_ppn(va, 0))
      pg1 == s1.mem[root][addr_get_ppn(va, 0)].ppn
      s2 == present(s1, pg1, addr_get_ppn(va, 1))
      pg2 == s2.mem[pg1][addr_get_ppn(va, 1)].ppn
  IN  IF s1.panic # "no" THEN s1 ELSE IF s2.panic # "no" THEN s2
      ELSE put(s2, pg2, addr_get_ppn(va, 2), maps(f, {"R", "W", "X"}))

-----------------------------------------------------------------------------
running == remapped /\ stopped = "no"

\* hardware_remapping, at boot: the K210's big page at 1 goes, the devices come.
hardware_remapping ==
  LET cleared == put(now, boot_pagetable, 1, NoPTE)
      F[D \in SUBSET DevPage] ==
        IF D = {} THEN cleared
        ELSE _force_map_one(F[D \ {Max(D)}], Kernel, Max(D), Max(D))
  IN  /\ ~remapped /\ stopped = "no"
      /\ becomes(F[DevPage])
      /\ remapped' = TRUE

\* Faulty variant: the copy is one entry off.
new_user_shifted(t) ==
  /\ running
  /\ private_pgs[t] = <<>>
  /\ IF free = {} THEN becomes(out_of_memory(now))
     ELSE LET a == alloc_pages(now, t)
          IN  becomes([a EXCEPT !.mem = [@ EXCEPT ![last_page(a, t)] =
                         [i \in Index |-> IF i \in UserRoot THEN NoPTE
                                          ELSE mem[boot_pagetable][i - 1]]]])
  /\ UNCHANGED remapped

\* PageTable::new_user: a new root with the kernel half of the kernel's root.
new_user(t) ==
  /\ running
  /\ private_pgs[t] = <<>>
  /\ IF free = {} THEN becomes(out_of_memory(now))
     ELSE LET a == alloc_pages(now, t)
          IN  becomes([a EXCEPT !.mem = [@ EXCEPT ![last_page(a, t)] =
                         [i \in Index |-> IF i \in UserRoot THEN NoPTE
                                          ELSE mem[boot_pagetable][i]]]])
  /\ UNCHANGED remapped

\* The last Arc goes: the VMAs, which hold one each, unmapped their pages first.
drop_table(t) ==
  /\ running
  /\ private_pgs[t] # <<>>
  /\ \A va \in UserPage : translate(now, t, va) = unmapped
  /\ becomes([now EXCEPT !.pgs = [@ EXCEPT ![t] = <<>>],
                         !.free = @ \cup owned(t),
                         !.mem = [p \in DOMAIN mem |-> IF p \in owned(t) THEN [i \in Index |-> Junk]
                                                       ELSE mem[p]]])
  /\ UNCHANGED remapped

\* The operations of a user table on page va of its half ...
user_operate(t, va) ==
  /\ running
  /\ private_pgs[t] # <<>>
  /\ \/ becomes(_unmap_one_page(now, t, va))
     \/ \E order \in Order : becomes(unmap_pages(now, t, va, order))
     \/ \E perm \in Perm :
          \/ becomes(change_map_flags(now, t, va, perm))
          \/ \E f \in Frame :
               \/ becomes(map_one_page(now, t, va, f, perm).s)
               \/ \E order \in Order : becomes(map_pages(now, t, va, f, order, perm).s)
  /\ UNCHANGED remapped

\* ... and of the kernel's on page va of the kmap range.
kmap_operate(va) ==
  /\ running
  /\ \/ becomes(_unmap_one_page(now, Kernel, va))
     \/ \E f \in Frame : becomes(map_one_page(now, Kernel, va, f, {"R", "W", "X"}).s)
  /\ UNCHANGED remapped

shut_down == stopped # "no" /\ UNCHANGED ptVars

PtNext ==
  \/ hardware_remapping
  \/ \E t \in User : new_user(t) \/ drop_table(t)
  \/ \E t \in User, va \in UserProbe : user_operate(t, va)
  \/ \E va \in KernProbe : kmap_operate(va)
  \/ shut_down

PtSpec == PtInit /\ [][PtNext]_ptVars

-----------------------------------------------------------------------------
MaxPages == Max({order2pages(o) : o \in Order})
Mapped == DevPage \cup {f + k : f \in Frame, k \in 0..MaxPages-1}
PTE == [v : BOOLEAN, perm : SUBSET {"R", "W", "X"}, ppn : {0} \cup Table \cup Mapped]

\* The types of the tables; an entry points to a table or into a block that
\* was mapped.
PtTypeOK ==
  /\ mem \in [Table \cup {boot_pagetable} -> [Index -> PTE]]
  /\ \A t \in AnyTable : private_pgs[t] \in Seq(Table \cup {boot_pagetable})
  /\ free \subseteq Table
  /\ remapped \in BOOLEAN
  /\ stopped \in {"no", "alloc_pages", "big page", "unwrap"}

\* "private pages for pagetable.. this pages can`t share with other address
\* space": no page belongs to two tables or is free, and the tables that the
\* user half of t reaches are all t's own.
TablesArePrivate ==
  /\ \A t, u \in AnyTable : t # u => owned(t) \cap owned(u) = {}
  /\ \A t \in AnyTable : owned(t) \cap free = {}
  /\ \A t \in User : private_pgs[t] # <<>> =>
       \A i \in UserRoot :
         LET e0 == mem[private_pgs[t][1]][i]
         IN  e0.v => /\ e0.ppn \in owned(t)
                     /\ \A j \in Index : mem[e0.ppn][j].v => mem[e0.ppn][j].ppn \in owned(t)

\* A user table was given the kernel's root entries once and is never told of
\* later ones: it may miss a kernel mapping, but never has a wrong one, however
\* often tables are dropped and their pages used again.
StaleNeverWrong ==
  \A t \in User : private_pgs[t] # <<>> =>
    /\ \A i \in Index \ UserRoot : mem[private_pgs[t][1]][i] \in {NoPTE, mem[boot_pagetable][i]}
    /\ \A va \in KernProbe \cup DevPage :
         translate(now, t, va) \in {unmapped, translate(now, Kernel, va)}

\* map_pages looks at all pages before it maps any, so the unwrap() in it and
\* the big-page panics are not reached: only memory can run out.
OnlyMemoryRunsOut == stopped \in {"no", "alloc_pages"}

\* The tables have their types, no two address spaces share one, and no
\* assumption of map_pages fails.
PtInv == PtTypeOK /\ TablesArePrivate /\ OnlyMemoryRunsOut

Spaces == INSTANCE AddressSpaces WITH space <- view

\* The radix trees implement flat address spaces: whatever tables are made,
\* shared, dropped or reused below, a step changes only the pages it names, in
\* the space it names; a failed map changes nothing; kernel mappings and running
\* out of memory leave every user space alone.
ImplementsSpaces == Spaces!SpacesSpec
=============================================================================
