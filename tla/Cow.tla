--------------------------------- MODULE Cow ---------------------------------
(***************************************************************************)
(* Fork with the feature "copy_on_write": new_mm_by_old and                *)
(* new_cow_pagetable (kernel/src/mm/mm.rs), the page-fault handler of that *)
(* build (trap/mod.rs) and VMA::_cow_remap_one_page (vma.rs).  One         *)
(* writable anonymous mapping of the parent, and the children forked from  *)
(* it.  A page v has the parent's frame pg[v], a reserved copy of it once  *)
(* the parent has written it after a fork, and a frame of its own in every *)
(* child that has written it.                                              *)
(***************************************************************************)
EXTENDS Naturals

CONSTANTS Page, Child, Value, Absent

ASSUME CowAssumption == /\ Absent \notin Value /\ 0 \in Value
                        /\ Absent \notin [Page -> Value \cup {Absent}]

NoPte == [to |-> "none", w |-> FALSE]
Pte == {NoPte} \cup [to : {"pg", "own"}, w : BOOLEAN]

VARIABLES
  pg,        \* pages_tree of the parent: [Page -> content or Absent]
  pte,       \* the parent's page table
  reserve,   \* cow_write_reserve_pgs: Absent for None, else [Page -> content or Absent]
  forked,    \* the children that exist
  own,       \* pages_tree of the children: [Child -> [Page -> content or Absent]]
  cpte,      \* the children's page tables
  snap,      \* the pages the parent had when its youngest child was forked;
             \* Absent for older children, whose reserved copies a fork drops
  cow_stopped \* why the kernel panicked, or "no"

vars == <<pg, pte, reserve, forked, own, cpte, snap, cow_stopped>>
childVars == <<forked, own, cpte, snap>>

nothing == [v \in Page |-> Absent]
content(v) == IF pg[v] = Absent THEN 0 ELSE pg[v]

CowInit ==
  /\ pg = nothing /\ pte = [v \in Page |-> NoPte] /\ reserve = Absent
  /\ forked = {} /\ own = [c \in Child |-> nothing]
  /\ cpte = [c \in Child |-> [v \in Page |-> NoPte]]
  /\ snap = [c \in Child |-> nothing]
  /\ cow_stopped = "no"

panic(why) == cow_stopped' = why /\ UNCHANGED <<pg, pte, reserve, forked, own, cpte, snap>>

\* Faulty variant: the child keeps the write permission.
fork_keeps_write(c) ==
  /\ cow_stopped = "no" /\ c \notin forked
  /\ forked' = forked \cup {c}
  /\ cpte' = [cpte EXCEPT ![c] = [v \in Page |->
                IF pg[v] # Absent THEN [to |-> "pg", w |-> TRUE] ELSE NoPte]]
  /\ pte' = [v \in Page |-> IF pg[v] # Absent THEN [to |-> pte[v].to, w |-> FALSE] ELSE pte[v]]
  /\ reserve' = nothing
  /\ snap' = [d \in Child |-> IF d = c THEN pg ELSE nothing]
  /\ UNCHANGED <<pg, own, cow_stopped>>

\* Every page of the parent is mapped into the child without the write
\* permission, and loses it in the parent; the reserved copies start afresh.
new_mm_by_old(c) ==
  /\ cow_stopped = "no" /\ c \notin forked
  /\ forked' = forked \cup {c}
  /\ cpte' = [cpte EXCEPT ![c] = [v \in Page |->
                IF pg[v] # Absent THEN [to |-> "pg", w |-> FALSE] ELSE NoPte]]
  /\ pte' = [v \in Page |-> IF pg[v] # Absent THEN [to |-> pte[v].to, w |-> FALSE] ELSE pte[v]]
  /\ reserve' = nothing
  /\ snap' = [d \in Child |-> IF d = c THEN pg ELSE nothing]
  /\ UNCHANGED <<pg, own, cow_stopped>>

\* A child that forks runs into the todo!() for an address space that is
\* itself a copy.
fork_by_child(c) == cow_stopped = "no" /\ c \in forked /\ panic("todo")

_do_alloc_one_page(v) ==
  /\ pg' = [pg EXCEPT ![v] = 0]
  /\ pte' = [pte EXCEPT ![v] = [to |-> "pg", w |-> TRUE]]

\* Page fault of the parent: a page that is there was written for the first
\* time since the last fork; its content is reserved and it is made writable.
parent_fault(v, write) ==
  /\ cow_stopped = "no"
  /\ pte[v].to = "none" \/ (write /\ ~pte[v].w)
  /\ IF pg[v] = Absent
       THEN _do_alloc_one_page(v) /\ UNCHANGED <<reserve, cow_stopped>>
       ELSE IF write /\ reserve # Absent
         THEN /\ pte' = [pte EXCEPT ![v] = [to |-> "pg", w |-> TRUE]]
              /\ reserve' = [reserve EXCEPT ![v] = pg[v]]
              /\ UNCHANGED <<pg, cow_stopped>>
         ELSE cow_stopped' = "error address prot" /\ UNCHANGED <<pg, pte, reserve>>
  /\ UNCHANGED childVars

parent_store(v, val) ==
  /\ cow_stopped = "no" /\ pte[v].w
  /\ pg' = [pg EXCEPT ![v] = val]
  /\ UNCHANGED <<pte, reserve, cow_stopped, childVars>>

\* A private, writable copy of the data.
_cow_remap_one_page(c, v, data) ==
  /\ cpte' = [cpte EXCEPT ![c][v] = [to |-> "own", w |-> TRUE]]
  /\ own' = [own EXCEPT ![c][v] = data]

\* Faulty variant: the reserved copy is not looked for.
child_fault_no_reserve(c, v, write) ==
  /\ cow_stopped = "no" /\ c \in forked
  /\ cpte[c][v].to = "none" \/ (write /\ ~cpte[c][v].w)
  /\ IF pg[v] = Absent THEN _do_alloc_one_page(v) ELSE UNCHANGED <<pg, pte>>
  /\ IF write
       THEN _cow_remap_one_page(c, v, content(v))
       ELSE cpte' = [cpte EXCEPT ![c][v] = [to |-> "pg", w |-> FALSE]] /\ UNCHANGED own
  /\ UNCHANGED <<reserve, forked, snap, cow_stopped>>

\* Page fault of a child.  A page the parent lacks is first given to the
\* PARENT, writable.  A read maps the parent's frame (map_one_page does
\* nothing when a PTE is there); a write copies the reserved content if
\* there is one, and the parent's frame if not.
child_fault(c, v, write) ==
  LET data == IF reserve # Absent /\ reserve[v] # Absent THEN reserve[v] ELSE content(v)
  IN /\ cow_stopped = "no" /\ c \in forked
     /\ cpte[c][v].to = "none" \/ (write /\ ~cpte[c][v].w)
     /\ IF own[c][v] # Absent
          THEN panic("prot fault")
          ELSE /\ IF pg[v] = Absent THEN _do_alloc_one_page(v) ELSE UNCHANGED <<pg, pte>>
               /\ IF write
                    THEN _cow_remap_one_page(c, v, data)
                    ELSE /\ cpte' = [cpte EXCEPT ![c][v] = [to |-> "pg", w |-> FALSE]]
                         /\ UNCHANGED own
               /\ UNCHANGED <<reserve, forked, snap, cow_stopped>>

child_store(c, v, val) ==
  /\ cow_stopped = "no" /\ c \in forked /\ cpte[c][v].w
  /\ IF cpte[c][v].to = "own"
       THEN own' = [own EXCEPT ![c][v] = val] /\ UNCHANGED pg
       ELSE pg' = [pg EXCEPT ![v] = val] /\ UNCHANGED own
  /\ UNCHANGED <<pte, reserve, forked, cpte, snap, cow_stopped>>

cow_shut_down == cow_stopped # "no" /\ UNCHANGED vars

CowNext ==
  \/ \E c \in Child : new_mm_by_old(c) \/ fork_by_child(c)
  \/ \E v \in Page, write \in BOOLEAN :
       parent_fault(v, write) \/ \E c \in Child : child_fault(c, v, write)
  \/ \E v \in Page, val \in Value :
       parent_store(v, val) \/ \E c \in Child : child_store(c, v, val)
  \/ cow_shut_down

CowSpec == CowInit /\ [][CowNext]_vars

-----------------------------------------------------------------------------
\* The types of the variables.
CowTypeOK ==
  /\ pg \in [Page -> Value \cup {Absent}] /\ pte \in [Page -> Pte]
  /\ reserve = Absent \/ reserve \in [Page -> Value \cup {Absent}]
  /\ forked \subseteq Child /\ own \in [Child -> [Page -> Value \cup {Absent}]]
  /\ cpte \in [Child -> [Page -> Pte]] /\ snap \in [Child -> [Page -> Value \cup {Absent}]]
  /\ cow_stopped \in {"no", "todo", "error address prot", "prot fault"}

\* Nothing a child does changes what its parent, or another child, holds: a
\* child never has a writable PTE on a frame that is not its own.
ChildWritesArePrivate ==
  \A c \in Child, v \in Page : cpte[c][v].w => cpte[c][v].to = "own"

\* Page faults are always resolved: a legal access to the shared mapping never
\* ends in one of the protection panics.
LegalAccessNeverPanics == cow_stopped \notin {"error address prot", "prot fault"}

\* The parent's entries stand for frames it has, and a frame it has lost the
\* write permission for has a place to be reserved in.
ParentEntriesMatch ==
  \A v \in Page :
    /\ pg[v] # Absent => pte[v].to = "pg" /\ (pte[v].w \/ reserve # Absent)
    /\ pte[v].w => pg[v] # Absent

\* A child's entry is its own frame exactly when it has one, and writable then.
ChildEntriesMatch ==
  \A c \in Child, v \in Page :
    /\ own[c][v] # Absent <=> cpte[c][v].to = "own"
    /\ cpte[c][v].to = "own" => cpte[c][v].w /\ c \in forked

\* What the youngest child was forked with is in the reserved copy, or still in
\* the parent's frame, which nobody can write without reserving it first.
SnapshotIsKept ==
  \A v \in Page :
    /\ reserve # Absent /\ reserve[v] # Absent => pg[v] # Absent /\ pte[v].w
    /\ \A c \in Child :
         snap[c][v] # Absent =>
           /\ c \in forked /\ reserve # Absent
           /\ reserve[v] = snap[c][v] \/ (reserve[v] = Absent /\ pg[v] = snap[c][v] /\ ~pte[v].w)

\* Children write their own frames only and no legal access panics; entries,
\* frames and reserved copies agree.
CowInv == /\ CowTypeOK /\ ChildWritesArePrivate /\ LegalAccessNeverPanics
          /\ ParentEntriesMatch /\ ChildEntriesMatch /\ SnapshotIsKept

\* The first write of the youngest child to a page the parent had at the fork
\* starts from the content of that moment, also when the parent has written the
\* page since ("the page may have been written already, check the write tree").
FirstWriteCopiesSnapshot ==
  [][\A c \in Child, v \in Page :
       (snap[c][v] # Absent /\ own[c][v] = Absent /\ own'[c][v] # Absent)
         => own'[c][v] = snap[c][v]]_vars
=============================================================================
