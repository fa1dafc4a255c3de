------------------------------ MODULE CowProofs ------------------------------
(***************************************************************************)
(* Proofs about copy-on-write fork, for any pages, children and contents:  *)
(* the invariant that ties entries, frames and reserved copies together is *)
(* inductive, and with it the first write of the youngest child starts     *)
(* from what the parent held at the fork.                                  *)
(***************************************************************************)
EXTENDS Cow, TLAPS

Content == Value \cup {Absent}

\* The entries the code installs are entries.
LEMMA Entries ==
  /\ NoPte \in Pte /\ NoPte.to = "none" /\ NoPte.w = FALSE
  /\ \A to \in {"pg", "own"}, w \in BOOLEAN :
       [to |-> to, w |-> w] \in Pte /\ [to |-> to, w |-> w].to = to /\ [to |-> to, w |-> w].w = w
  BY DEF Pte, NoPte

\* One page of one child changes.
LEMMA OneChanged ==
  ASSUME NEW S, NEW f \in [Child -> [Page -> S]], NEW c \in Child, NEW v \in Page, NEW x \in S
  PROVE  /\ [f EXCEPT ![c][v] = x] \in [Child -> [Page -> S]]
         /\ \A d \in Child, p \in Page :
              [f EXCEPT ![c][v] = x][d][p] = IF d = c /\ p = v THEN x ELSE f[d][p]
<1>. DEFINE g == [f[c] EXCEPT ![v] = x]
<1>1. g \in [Page -> S] /\ \A p \in Page : g[p] = IF p = v THEN x ELSE f[c][p]
  OBVIOUS
<1>2. [f EXCEPT ![c][v] = x] = [f EXCEPT ![c] = g]
  OBVIOUS
<1>. HIDE DEF g
<1>3. [f EXCEPT ![c] = g] \in [Child -> [Page -> S]]
  BY <1>1
<1>4. ASSUME NEW d \in Child, NEW p \in Page
      PROVE  [f EXCEPT ![c] = g][d][p] = IF d = c /\ p = v THEN x ELSE f[d][p]
  BY <1>1
<1>. QED BY <1>2, <1>3, <1>4

\* The parts of the invariant, each by the variables it reads.
LEMMA Parts ==
  ASSUME CowInv
  PROVE  /\ UNCHANGED <<cpte, own, forked>> => ChildWritesArePrivate' /\ ChildEntriesMatch'
         /\ UNCHANGED <<pg, pte, reserve>> => ParentEntriesMatch'
         /\ UNCHANGED <<pg, pte, reserve, snap, forked>> => SnapshotIsKept'
         /\ cow_stopped' = cow_stopped \/ cow_stopped' = "todo" => LegalAccessNeverPanics'
<1>1. UNCHANGED <<cpte, own, forked>> => ChildWritesArePrivate' /\ ChildEntriesMatch'
  BY DEF CowInv, ChildWritesArePrivate, ChildEntriesMatch
<1>2. UNCHANGED <<pg, pte, reserve>> => ParentEntriesMatch'
  BY DEF CowInv, ParentEntriesMatch
<1>3. UNCHANGED <<pg, pte, reserve, snap, forked>> => SnapshotIsKept'
  BY DEF CowInv, SnapshotIsKept
<1>4. cow_stopped' = cow_stopped \/ cow_stopped' = "todo" => LegalAccessNeverPanics'
  BY DEF CowInv, LegalAccessNeverPanics
<1>. QED BY <1>1, <1>2, <1>3, <1>4

LEMMA CowInitInv ==
  ASSUME CowInit
  PROVE  CowInv
  BY CowAssumption, Entries
     DEF CowInit, CowInv, CowTypeOK, ChildWritesArePrivate, LegalAccessNeverPanics,
         ParentEntriesMatch, ChildEntriesMatch, SnapshotIsKept, nothing

LEMMA ForkInv ==
  ASSUME CowInv, NEW c \in Child, new_mm_by_old(c)
  PROVE  CowInv'
<1>1. /\ pg \in [Page -> Content] /\ pte \in [Page -> Pte] /\ own \in [Child -> [Page -> Content]]
      /\ cpte \in [Child -> [Page -> Pte]] /\ forked \subseteq Child
      /\ snap \in [Child -> [Page -> Content]] /\ c \notin forked /\ pg' = pg /\ own' = own
      /\ cow_stopped' = cow_stopped
  BY DEF CowInv, CowTypeOK, new_mm_by_old, Content
<1>2. ASSUME NEW v \in Page
      PROVE  /\ pte'[v] \in Pte
             /\ pg[v] # Absent => pte'[v].to = "pg" /\ ~pte'[v].w
             /\ pg[v] = Absent => pte'[v] = pte[v] /\ ~pte[v].w
  <2>1. pte'[v] = IF pg[v] # Absent THEN [to |-> pte[v].to, w |-> FALSE] ELSE pte[v]
    BY DEF new_mm_by_old
  <2>2. pte[v] \in Pte /\ (pg[v] # Absent => pte[v].to = "pg") /\ (pte[v].w => pg[v] # Absent)
    BY <1>1 DEF CowInv, ParentEntriesMatch
  <2>. QED BY <2>1, <2>2, Entries
<1>3. pte' \in [Page -> Pte]
  BY <1>2 DEF new_mm_by_old
<1>4. reserve' = nothing /\ nothing \in [Page -> Content] /\ \A v \in Page : reserve'[v] = Absent
  BY DEF new_mm_by_old, nothing, Content
<1>5. reserve' # Absent
  BY <1>4, CowAssumption DEF Content
<1>6. ASSUME NEW d \in Child, NEW v \in Page
      PROVE  /\ cpte'[d][v] \in Pte
             /\ d # c => cpte'[d] = cpte[d] /\ snap'[d][v] = Absent
             /\ d = c => /\ cpte'[d][v].to # "own" /\ ~cpte'[d][v].w /\ snap'[d][v] = pg[v]
                        /\ own[d][v] = Absent
  <2>1. CASE d = c
    <3>1. cpte'[d][v] = IF pg[v] # Absent THEN [to |-> "pg", w |-> FALSE] ELSE NoPte
      BY <1>1, <2>1 DEF new_mm_by_old
    <3>2. own[d][v] = Absent
      BY <1>1, <2>1 DEF CowInv, ChildEntriesMatch
    <3>. QED BY <2>1, <3>1, <3>2, Entries DEF new_mm_by_old
  <2>2. CASE d # c
    BY <1>1, <2>2 DEF new_mm_by_old, nothing
  <2>. QED BY <2>1, <2>2
<1>7. CowTypeOK'
  <2>1. cpte' \in [Child -> [Page -> Pte]]
    <3>1. ASSUME NEW d \in Child PROVE cpte'[d] \in [Page -> Pte]
      <4>1. CASE d = c
        <5>1. cpte'[d] = [v \in Page |-> IF pg[v] # Absent THEN [to |-> "pg", w |-> FALSE] ELSE NoPte]
          BY <1>1, <4>1 DEF new_mm_by_old
        <5>. QED BY <5>1, Entries
      <4>. QED BY <1>1, <1>6, <4>1 DEF new_mm_by_old
    <3>2. cpte' = [d \in Child |-> cpte'[d]]
      BY <1>1 DEF new_mm_by_old
    <3>. QED BY <3>1, <3>2
  <2>2. snap' \in [Child -> [Page -> Content]]
    BY <1>1, <1>4 DEF new_mm_by_old
  <2>3. forked' \subseteq Child
    BY <1>1 DEF new_mm_by_old
  <2>. QED BY <1>1, <1>3, <1>4, <2>1, <2>2, <2>3 DEF CowTypeOK, CowInv, Content
<1>8. ChildWritesArePrivate' /\ ChildEntriesMatch'
  BY <1>1, <1>6 DEF CowInv, ChildWritesArePrivate, ChildEntriesMatch, new_mm_by_old
<1>9. ParentEntriesMatch'
  BY <1>1, <1>2, <1>5 DEF ParentEntriesMatch
<1>10. SnapshotIsKept'
  BY <1>1, <1>2, <1>4, <1>5, <1>6 DEF SnapshotIsKept, new_mm_by_old
<1>11. LegalAccessNeverPanics'
  BY <1>1 DEF CowInv, LegalAccessNeverPanics
<1>. QED BY <1>7, <1>8, <1>9, <1>10, <1>11 DEF CowInv

\* The parent's first page, its first write since a fork: in either case the
\* handler finds what it needs.
LEMMA ParentFaultInv ==
  ASSUME CowInv, NEW v \in Page, NEW write \in BOOLEAN, parent_fault(v, write)
  PROVE  CowInv'
<1>. DEFINE new == [to |-> "pg", w |-> TRUE]
<1>1. /\ pg \in [Page -> Content] /\ pte \in [Page -> Pte] /\ pte[v] \in Pte
      /\ reserve = Absent \/ reserve \in [Page -> Content]
      /\ UNCHANGED <<forked, own, cpte, snap>>
  BY DEF CowInv, CowTypeOK, parent_fault, childVars, Content
<1>2. new \in Pte /\ new.to = "pg" /\ new.w /\ 0 \in Content /\ 0 # Absent
  BY Entries, CowAssumption DEF Content
<1>3. CASE pg[v] = Absent
  <2>1. /\ pg' = [pg EXCEPT ![v] = 0] /\ pte' = [pte EXCEPT ![v] = new]
        /\ UNCHANGED <<reserve, cow_stopped>>
    BY <1>3 DEF parent_fault, _do_alloc_one_page
  <2>. HIDE DEF new
  <2>2. pg' \in [Page -> Content] /\ pte' \in [Page -> Pte]
    BY <1>1, <1>2, <2>1
  <2>3. CowTypeOK'
    BY <1>1, <2>1, <2>2 DEF CowInv, CowTypeOK, Content
  <2>4. ParentEntriesMatch'
    BY <1>1, <1>2, <2>1 DEF CowInv, ParentEntriesMatch
  <2>5. SnapshotIsKept'
    BY <1>1, <1>2, <1>3, <2>1 DEF CowInv, SnapshotIsKept
  <2>. QED BY <1>1, <2>1, <2>3, <2>4, <2>5, Parts DEF CowInv
<1>4. CASE pg[v] # Absent
  <2>1. pte[v].to = "pg" /\ write /\ ~pte[v].w /\ reserve # Absent
    BY <1>4 DEF CowInv, ParentEntriesMatch, parent_fault
  <2>2. /\ pte' = [pte EXCEPT ![v] = new] /\ reserve' = [reserve EXCEPT ![v] = pg[v]]
        /\ UNCHANGED <<pg, cow_stopped>>
    BY <1>4, <2>1 DEF parent_fault
  <2>. HIDE DEF new
  <2>3. reserve \in [Page -> Content] /\ reserve' \in [Page -> Content] /\ reserve' # Absent
        /\ pte' \in [Page -> Pte]
    BY <1>1, <1>2, <2>1, <2>2, CowAssumption DEF Content
  <2>4. reserve[v] = Absent
    BY <2>1 DEF CowInv, SnapshotIsKept
  <2>5. CowTypeOK'
    BY <1>1, <2>2, <2>3 DEF CowInv, CowTypeOK, Content
  <2>6. ParentEntriesMatch'
    BY <1>1, <1>2, <1>4, <2>2, <2>3 DEF CowInv, ParentEntriesMatch
  <2>7. SnapshotIsKept'
    BY <1>1, <1>2, <1>4, <2>1, <2>2, <2>3, <2>4 DEF CowInv, SnapshotIsKept
  <2>. QED BY <1>1, <2>2, <2>5, <2>6, <2>7, Parts DEF CowInv
<1>. QED BY <1>3, <1>4

\* The parent writes: its page is writable, so nobody's snapshot is in it.
LEMMA ParentStoreInv ==
  ASSUME CowInv, NEW v \in Page, NEW val \in Value, parent_store(v, val)
  PROVE  CowInv'
<1>1. /\ pg \in [Page -> Content] /\ pte[v].w /\ pg' = [pg EXCEPT ![v] = val]
      /\ UNCHANGED <<pte, reserve, cow_stopped, forked, own, cpte, snap>>
      /\ val \in Content /\ val # Absent
  BY CowAssumption DEF CowInv, CowTypeOK, parent_store, childVars, Content
<1>2. CowTypeOK'
  BY <1>1 DEF CowInv, CowTypeOK, Content
<1>3. ParentEntriesMatch'
  BY <1>1 DEF CowInv, ParentEntriesMatch
<1>4. SnapshotIsKept'
  BY <1>1 DEF CowInv, SnapshotIsKept
<1>. QED BY <1>1, <1>2, <1>3, <1>4, Parts DEF CowInv

\* What a child's write fault copies: a value, and the snapshot where there is one.
LEMMA CopiedData ==
  ASSUME CowInv, NEW c \in Child, NEW v \in Page, NEW data,
         data = IF reserve # Absent /\ reserve[v] # Absent THEN reserve[v] ELSE content(v)
  PROVE  data \in Value /\ (snap[c][v] # Absent => data = snap[c][v])
<1>1. pg[v] \in Content /\ (reserve # Absent => reserve[v] \in Content)
  BY DEF CowInv, CowTypeOK, Content
<1>2. snap[c][v] # Absent => /\ reserve # Absent
                             /\ reserve[v] = snap[c][v] \/ (reserve[v] = Absent /\ pg[v] = snap[c][v])
  BY DEF CowInv, SnapshotIsKept
<1>. QED BY <1>1, <1>2, CowAssumption DEF content, Content

LEMMA ChildFaultInv ==
  ASSUME CowInv, NEW c \in Child, NEW v \in Page, NEW write \in BOOLEAN, child_fault(c, v, write)
  PROVE  CowInv'
<1>. DEFINE data == IF reserve # Absent /\ reserve[v] # Absent THEN reserve[v] ELSE content(v)
            new == [to |-> "pg", w |-> TRUE]
            shared == [to |-> "pg", w |-> FALSE]
            mine == [to |-> "own", w |-> TRUE]
<1>1. /\ pg \in [Page -> Content] /\ pte \in [Page -> Pte] /\ c \in forked
      /\ own \in [Child -> [Page -> Content]] /\ cpte \in [Child -> [Page -> Pte]]
  BY DEF CowInv, CowTypeOK, child_fault, Content
<1>2. /\ {new, shared, mine} \subseteq Pte /\ new.to = "pg" /\ new.w
      /\ shared.to = "pg" /\ ~shared.w /\ mine.to = "own" /\ mine.w
      /\ 0 \in Content /\ 0 # Absent
  BY Entries, CowAssumption DEF Content
<1>3. own[c][v] = Absent /\ cpte[c][v].to # "own"
  <2>1. cpte[c][v].to # "own" \/ ~cpte[c][v].w
    BY DEF child_fault
  <2>. QED BY <2>1 DEF CowInv, ChildEntriesMatch
<1>4. /\ IF pg[v] = Absent THEN pg' = [pg EXCEPT ![v] = 0] /\ pte' = [pte EXCEPT ![v] = new]
                          ELSE UNCHANGED <<pg, pte>>
      /\ IF write THEN cpte' = [cpte EXCEPT ![c][v] = mine] /\ own' = [own EXCEPT ![c][v] = data]
                  ELSE cpte' = [cpte EXCEPT ![c][v] = shared] /\ own' = own
      /\ UNCHANGED <<reserve, forked, snap, cow_stopped>>
  BY <1>3 DEF child_fault, _do_alloc_one_page, _cow_remap_one_page
<1>5. data \in Value /\ data # Absent /\ data \in Content
  BY CopiedData, CowAssumption DEF Content
<1>. HIDE DEF data, new, shared, mine
<1>6. pg' \in [Page -> Content] /\ pte' \in [Page -> Pte]
  BY <1>1, <1>2, <1>4
<1>7. own' \in [Child -> [Page -> Content]] /\ cpte' \in [Child -> [Page -> Pte]]
  <2>1. ASSUME NEW x \in Content PROVE [own EXCEPT ![c][v] = x] \in [Child -> [Page -> Content]]
    BY <1>1, OneChanged
  <2>2. ASSUME NEW x \in Pte PROVE [cpte EXCEPT ![c][v] = x] \in [Child -> [Page -> Pte]]
    BY <1>1, OneChanged
  <2>3. mine \in Pte /\ shared \in Pte
    BY <1>2
  <2>. QED BY <1>1, <1>4, <1>5, <2>1, <2>2, <2>3
<1>8. CowTypeOK'
  BY <1>4, <1>6, <1>7 DEF CowInv, CowTypeOK, Content
<1>9. ParentEntriesMatch'
  BY <1>1, <1>2, <1>4 DEF CowInv, ParentEntriesMatch
<1>10. SnapshotIsKept'
  <2>1. CASE pg[v] = Absent
    <3>1. pg' = [pg EXCEPT ![v] = 0] /\ pte' = [pte EXCEPT ![v] = new] /\ UNCHANGED <<reserve, forked, snap>>
      BY <1>4, <2>1
    <3>2. ASSUME NEW d \in Child PROVE snap[d][v] = Absent
      BY <2>1 DEF CowInv, SnapshotIsKept, CowTypeOK
    <3>. QED BY <1>1, <1>2, <2>1, <3>1, <3>2 DEF CowInv, SnapshotIsKept
  <2>2. CASE pg[v] # Absent
    BY <1>4, <2>2, Parts
  <2>. QED BY <2>1, <2>2
<1>11. ASSUME NEW d \in Child, NEW p \in Page
       PROVE  /\ ~(d = c /\ p = v) => own'[d][p] = own[d][p] /\ cpte'[d][p] = cpte[d][p]
              /\ d = c /\ p = v /\ write => own'[d][p] # Absent /\ cpte'[d][p] = mine
              /\ d = c /\ p = v /\ ~write => own'[d][p] = Absent /\ cpte'[d][p] = shared
  <2>1. CASE write
    BY <1>1, <1>2, <1>4, <1>5, <2>1, OneChanged
  <2>2. CASE ~write
    BY <1>1, <1>2, <1>3, <1>4, <2>2, OneChanged
  <2>. QED BY <2>1, <2>2
<1>12. ASSUME NEW d \in Child, NEW p \in Page
       PROVE  /\ cpte'[d][p].w => cpte'[d][p].to = "own"
              /\ own'[d][p] # Absent <=> cpte'[d][p].to = "own"
              /\ cpte'[d][p].to = "own" => cpte'[d][p].w /\ d \in forked
  <2>1. CASE ~(d = c /\ p = v)
    BY <1>11, <2>1 DEF CowInv, ChildWritesArePrivate, ChildEntriesMatch
  <2>2. CASE d = c /\ p = v /\ write
    BY <1>1, <1>2, <1>11, <2>2
  <2>3. CASE d = c /\ p = v /\ ~write
    BY <1>1, <1>2, <1>11, <2>3
  <2>. QED BY <2>1, <2>2, <2>3
<1>13. ChildWritesArePrivate' /\ ChildEntriesMatch'
  BY <1>4, <1>12 DEF ChildWritesArePrivate, ChildEntriesMatch
<1>. QED BY <1>4, <1>8, <1>9, <1>10, <1>13, Parts DEF CowInv

\* A child writes: into its own frame.
LEMMA ChildStoreInv ==
  ASSUME CowInv, NEW c \in Child, NEW v \in Page, NEW val \in Value, child_store(c, v, val)
  PROVE  CowInv'
<1>1. cpte[c][v].to = "own" /\ own[c][v] # Absent /\ val # Absent
  BY CowAssumption DEF CowInv, ChildWritesArePrivate, ChildEntriesMatch, child_store
<1>2. /\ own' = [own EXCEPT ![c][v] = val] /\ UNCHANGED <<pg, pte, reserve, forked, cpte, snap, cow_stopped>>
      /\ own \in [Child -> [Page -> Content]] /\ val \in Content
  BY <1>1 DEF child_store, CowInv, CowTypeOK, Content
<1>3. own' \in [Child -> [Page -> Content]]
  BY <1>2, OneChanged
<1>4. ASSUME NEW d \in Child, NEW p \in Page PROVE own'[d][p] # Absent <=> own[d][p] # Absent
  BY <1>1, <1>2, OneChanged
<1>5. ChildWritesArePrivate' /\ ChildEntriesMatch'
  BY <1>2, <1>4 DEF CowInv, ChildWritesArePrivate, ChildEntriesMatch
<1>6. CowTypeOK'
  BY <1>2, <1>3 DEF CowInv, CowTypeOK, Content
<1>. QED BY <1>2, <1>5, <1>6, Parts DEF CowInv

LEMMA CowStepInv ==
  ASSUME CowInv, [CowNext]_vars
  PROVE  CowInv'
<1>1. ASSUME UNCHANGED <<pg, pte, reserve, forked, own, cpte, snap>>,
             cow_stopped' = cow_stopped \/ cow_stopped' = "todo"
      PROVE  CowInv'
  <2>1. CowTypeOK'
    BY <1>1 DEF CowInv, CowTypeOK
  <2>. QED BY <1>1, <2>1, Parts DEF CowInv
<1>2. ASSUME NEW c \in Child, fork_by_child(c) PROVE CowInv'
  BY <1>1, <1>2 DEF fork_by_child, panic
<1>3. CASE UNCHANGED vars \/ cow_shut_down
  BY <1>1, <1>3 DEF vars, cow_shut_down
<1>. QED BY <1>2, <1>3, ForkInv, ParentFaultInv, ParentStoreInv, ChildFaultInv, ChildStoreInv
     DEF CowNext

\* For any number of pages and children: a child never has write access to a frame
\* that is not its own, no legal access ends in a protection panic, and reserved
\* copies and frames keep what the youngest child was forked with.
THEOREM CowInvariant == CowSpec => []CowInv
<1>1. CowInit => CowInv
  BY CowInitInv
<1>2. CowInv /\ [CowNext]_vars => CowInv'
  BY CowStepInv
<1>. QED BY <1>1, <1>2, PTL DEF CowSpec

\* The first write of the youngest child to a page that the parent had at the fork
\* copies the content of that moment, whatever the parent wrote in between.
THEOREM CowCopiesTheSnapshot == CowSpec => FirstWriteCopiesSnapshot
<1>. DEFINE Copies == \A c \in Child, v \in Page :
                        (snap[c][v] # Absent /\ own[c][v] = Absent /\ own'[c][v] # Absent)
                          => own'[c][v] = snap[c][v]
<1>1. ASSUME CowInv, CowNext PROVE Copies
  <2>1. ASSUME own' = own PROVE Copies
    BY <2>1
  <2>2. ASSUME NEW c \in Child, NEW v \in Page, NEW write \in BOOLEAN, child_fault(c, v, write)
        PROVE  Copies
    <3>. DEFINE data == IF reserve # Absent /\ reserve[v] # Absent THEN reserve[v] ELSE content(v)
    <3>1. own' = own \/ own' = [own EXCEPT ![c][v] = data]
      BY <2>2 DEF child_fault, panic, _cow_remap_one_page
    <3>2. snap[c][v] # Absent => data = snap[c][v]
      BY <1>1, CopiedData
    <3>3. own \in [Child -> [Page -> Content]]
      BY <1>1 DEF CowInv, CowTypeOK, Content
    <3>. HIDE DEF data
    <3>. QED BY <3>1, <3>2, <3>3
  <2>3. ASSUME NEW c \in Child, NEW v \in Page, NEW val \in Value, child_store(c, v, val)
        PROVE  Copies
    <3>1. own[c][v] # Absent
      BY <1>1, <2>3 DEF CowInv, ChildWritesArePrivate, ChildEntriesMatch, child_store
    <3>2. own' = own \/ own' = [own EXCEPT ![c][v] = val]
      BY <2>3 DEF child_store
    <3>3. own \in [Child -> [Page -> Content]]
      BY <1>1 DEF CowInv, CowTypeOK, Content
    <3>. QED BY <3>1, <3>2, <3>3
  <2>. HIDE DEF Copies
  <2>4. CASE \E c \in Child : new_mm_by_old(c) \/ fork_by_child(c)
    BY <2>1, <2>4 DEF new_mm_by_old, fork_by_child, panic
  <2>5. CASE \E v \in Page, write \in BOOLEAN : parent_fault(v, write)
    BY <2>1, <2>5 DEF parent_fault, childVars
  <2>6. CASE \E v \in Page, val \in Value : parent_store(v, val)
    BY <2>1, <2>6 DEF parent_store, childVars
  <2>7. CASE cow_shut_down
    BY <2>1, <2>7 DEF cow_shut_down, vars
  <2>. QED BY <1>1, <2>2, <2>3, <2>4, <2>5, <2>6, <2>7 DEF CowNext
<1>2. CowInv /\ [CowNext]_vars => [Copies]_vars
  BY <1>1
<1>. QED BY <1>2, CowInvariant, PTL DEF CowSpec, FirstWriteCopiesSnapshot
=============================================================================
