----------------------------- MODULE InodeCache -----------------------------
(***************************************************************************)
(* The tree of inodes of kernel/src/fs/inode.rs over a FAT volume that does  *)
(* not change.  An Inode holds an Arc of its parent and Weaks of its         *)
(* children; descriptors and mappings hold Arcs of the inodes they use.      *)
(* An inode owns the fatfs File, with its own cursor and cached length, so   *)
(* a file that has two inodes has two of each.                               *)
(*                                                                          *)
(* A path is taken name by name; "." and empty names are left out before,   *)
(* but ".." is looked up like any name, and finds the entry that every        *)
(* directory but the root has on the volume.                                  *)
(*                                                                          *)
(* A lookup is one step: the lock of an inode is taken anew for every name,   *)
(* but system calls run with interrupts off, and the boot task looks up the   *)
(* first program before there is any other user of inodes.                    *)
(***************************************************************************)
EXTENDS Naturals, Sequences, SequencesExt

CONSTANTS Entry,     \* the directory entries of the volume
          Root,      \* the root directory
          DirOf,     \* the directory of each entry but Root
          IsDir,     \* the entries that are directories
          Missing,   \* a name no directory has
          Up,        \* the name ".."
          Holder,    \* the descriptors and mappings that can hold an inode
          Inode,     \* the inodes there can be at once
          MAX_LISTED,\* bound on the children, live and dead, of an inode
          MAX_DEPTH  \* bound on the names from the root to an inode

ASSUME TreeAssumption ==
  /\ Root \in IsDir /\ IsDir \subseteq Entry
  /\ DirOf \in [Entry \ {Root} -> IsDir]
  /\ Missing \notin Entry /\ Up \notin Entry \cup {Missing}

VARIABLES node,     \* name, entry, parent, children of each inode; <<>> when there is none
          held,     \* the inode each holder has an Arc of, or 0
          asked     \* the names from the root it asked for; <<>> when it has let go, and
                    \* when it got nothing for names that lead nowhere

inodeVars == <<node, held, asked>>

root_inode == 1
Dead == 0

\* What a name stands for on the volume: get_sub_dentry looks through all entries
\* of a directory, ".." included; Missing when there is none.
get_sub_dentry(dir, name) ==
  CASE name = Up /\ dir \in IsDir \ {Root} -> DirOf[dir]
    [] name \in Entry \ {Root} /\ DirOf[name] = dir -> name
    [] OTHER -> Missing

InodeInit ==
  /\ node = [i \in Inode |-> IF i = root_inode
                             THEN [name |-> Root, entry |-> Root, parent |-> 0,
                                   children |-> <<>>]
                             ELSE <<>>]
  /\ held = [h \in Holder |-> 0]
  /\ asked = [h \in Holder |-> <<>>]

\* An inode, its parent, its parent's parent ...
lineage(ns, i) ==
  LET up[j \in Inode \cup {0}] == IF j = 0 THEN {} ELSE {j} \cup up[ns[j].parent]
  IN  up[i]

\* The inodes with a strong reference: held, an ancestor of one, or the root.
live_in(ns, hs) ==
  {root_inode} \cup UNION {lineage(ns, hs[h]) : h \in {g \in Holder : hs[g] # 0}}

\* The inodes without one are gone, and the Weaks of them do not upgrade.
settled(ns, hs) ==
  LET live == live_in(ns, hs)
      weak(i) == IF i \in live THEN i ELSE Dead
      weaks(l) == [k \in DOMAIN l |-> weak(l[k])]
  IN  [i \in Inode |-> IF i \in live THEN [ns[i] EXCEPT !.children = weaks(@)] ELSE <<>>]

-----------------------------------------------------------------------------
\* CursorMut: positions are 1..Len(l), and 0 is the "ghost" after the last.
at_or_ghost(l, pos) == IF pos > Len(l) THEN 0 ELSE pos
move_next(l, pos) == at_or_ghost(l, pos + 1)

\* Faulty variant: the first live child is taken.
look_at_first(c, ns, name) ==
  IF c.pos = 0 \/ c.found # 0 THEN c
  ELSE IF c.list[c.pos] # Dead THEN [c EXCEPT !.found = c.list[c.pos]]
  ELSE [c EXCEPT !.pos = move_next(c.list, c.pos)]

\* One iteration of the loop of get_sub_node: a dead child is removed, which
\* moves the cursor to the next one, and then the cursor is moved again.
look_at(c, ns, name) ==
  LET child == c.list[c.pos]
      removed == RemoveAt(c.list, c.pos)
  IN  CASE c.pos = 0 \/ c.found # 0 -> c
        [] c.pos # 0 /\ c.found = 0 /\ child = Dead ->
             [c EXCEPT !.list = removed,
                       !.pos = move_next(removed, at_or_ghost(removed, c.pos))]
        [] c.pos # 0 /\ c.found = 0 /\ child # Dead /\ ns[child].name = name ->
             [c EXCEPT !.found = child]
        [] OTHER -> [c EXCEPT !.pos = move_next(c.list, c.pos)]

\* The loop: it starts again from the front each time a dead child was the
\* last one, so it ends within (Len + 1)^2 iterations.
look_through(ns, i, name) ==
  LET l == ns[i].children
      after[k \in Nat] ==
        IF k = 0 THEN [list |-> l, pos |-> at_or_ghost(l, 1), found |-> 0]
        ELSE look_at(after[k - 1], ns, name)
  IN  after[(Len(l) + 1) * (Len(l) + 1)]

\* The inode made for the entry of that name in the directory of inode i.
the_inode(ns, i, name) ==
  [name |-> name, entry |-> get_sub_dentry(ns[i].entry, name), parent |-> i, children |-> <<>>]

\* Faulty variant: the new inode is not listed.
new_inode_unlisted(ns, i, name, new) ==
  [ns EXCEPT ![new] = the_inode(ns, i, name)]

\* _new_dir_inode, _new_file_inode, pushed to the back of the children.
new_inode(ns, i, name, new) ==
  [ns EXCEPT ![new] = the_inode(ns, i, name),
             ![i] = [@ EXCEPT !.children = Append(@, new)]]

\* get_sub_node on inode i: the inodes afterwards, and the inode found or 0.
get_sub_node(ns, i, name) ==
  LET c == look_through(ns, i, name)
      looked == [ns EXCEPT ![i] = [@ EXCEPT !.children = c.list]]
      unused == {j \in Inode : looked[j] = <<>>}
      new == CHOOSE j \in unused : \A k \in unused : j <= k
  IN  CASE ns[i].entry \notin IsDir -> [ns |-> ns, found |-> 0]
        [] ns[i].entry \in IsDir /\ c.found # 0 -> [ns |-> looked, found |-> c.found]
        [] /\ ns[i].entry \in IsDir /\ c.found = 0
           /\ get_sub_dentry(ns[i].entry, name) = Missing ->
             [ns |-> looked, found |-> 0]
        [] OTHER -> [ns |-> new_inode(looked, i, name, new), found |-> new]

\* get_node_by_path from inode i, name by name.
get_node_by_path(i, p) ==
  LET at[k \in 0..Len(p)] ==
        IF k = 0 THEN [ns |-> node, found |-> i]
        ELSE LET probe == at[k - 1]
             IN  IF probe.found = 0 THEN probe
                 ELSE get_sub_node(probe.ns, probe.found, p[k])
  IN  at[Len(p)]

-----------------------------------------------------------------------------
\* The names from the root to an inode.
names(i) ==
  LET from[j \in Inode \cup {0}] ==
        IF j \in {0, root_inode} THEN <<>> ELSE Append(from[node[j].parent], node[j].name)
  IN  from[i]

\* The entry that a sequence of names leads to from the root on the volume itself.
entry_of(p) ==
  LET at[k \in 0..Len(p)] == IF k = 0 THEN Root ELSE get_sub_dentry(at[k - 1], p[k])
  IN  at[Len(p)]

\* The paths that are opened: those that lead to an entry, those with a name that
\* is missing, and those through a file; what is left of them below an inode.
Paths == {p \in SeqOf((Entry \ {Root}) \cup {Missing, Up}, MAX_DEPTH) :
            p # <<>> => entry_of(Front(p)) # Missing}

paths_from(i) == {SubSeq(p, Len(names(i)) + 1, Len(p)) : p \in {q \in Paths : IsPrefix(names(i), q)}}

\* The bound on the lists.
room == \A i \in Inode : node[i] # <<>> => Len(node[i].children) < MAX_LISTED

\* open_path, create_user_task: a holder gets the inode of a path from inode i,
\* which is the root or what another holder, the directory given to openat, has.
open_path(h, i, p) ==
  /\ room
  /\ held[h] = 0
  /\ LET r == get_node_by_path(i, p)
         hs == [held EXCEPT ![h] = r.found]
         q == names(i) \o p
     IN  /\ held' = hs
         /\ node' = settled(r.ns, hs)
         /\ asked' = [asked EXCEPT ![h] =
                        IF r.found = 0 /\ entry_of(q) = Missing THEN <<>> ELSE q]

\* The last use of a descriptor or mapping goes.
release(h) ==
  /\ held[h] # 0
  /\ held' = [held EXCEPT ![h] = 0]
  /\ asked' = [asked EXCEPT ![h] = <<>>]
  /\ node' = settled(node, held')

InodeNext ==
  \E h \in Holder :
    \/ release(h)
    \/ \E i \in {root_inode} \cup ({held[g] : g \in Holder} \ {0}) :
         \E p \in paths_from(i) : open_path(h, i, p)

InodeSpec == InodeInit /\ [][InodeNext]_inodeVars

-----------------------------------------------------------------------------
live_now == live_in(node, held)

\* The types of the tree; the inodes that exist are the live ones, below directories.
InodeTypeOK ==
  /\ held \in [Holder -> Inode \cup {0}]
  /\ live_now = {i \in Inode : node[i] # <<>>}
  /\ \A i \in live_now : node[i].children \in Seq(live_now \cup {Dead})
  /\ \A i \in live_now \ {root_inode} :
       node[i].parent \in live_now /\ node[node[i].parent].entry \in IsDir

\* Whatever was cached, removed and created before, a lookup ends at the entry
\* that the volume has for the path, and fails exactly when there is none; the
\* inode it ends at was reached by these names, so that its parents are the
\* directories of the path.
LookupFindsThePath ==
  \A h \in Holder :
    IF held[h] = 0 THEN asked[h] = <<>>
    ELSE /\ names(held[h]) = asked[h]
         /\ node[held[h]].entry = entry_of(asked[h]) /\ entry_of(asked[h]) # Missing

\* The tree is well formed, and every holder has the inode it asked for.
InodeInv == InodeTypeOK /\ LookupFindsThePath

\* get_sub_node is to share the inode of a file among all its users ("does not
\* check whether inodes coincide: the caller has to see to it", of the functions
\* that it calls): no directory inode has two children of one name, and so those
\* who reach a file by the same names from the root have the same inode.  (A path
\* through ".." has other names, and a second inode.)
OneInodePerName ==
  \A i, j \in live_now \ {root_inode} :
    node[i].parent = node[j].parent /\ node[i].name = node[j].name => i = j

\* As long as no child in the lists has died, no lookup makes a second inode for
\* names that have one.
NoneDiedNoneDoubled ==
  [][OneInodePerName /\ (\A i \in live_now : Dead \notin ToSet(node[i].children))
       => OneInodePerName']_inodeVars
=============================================================================
