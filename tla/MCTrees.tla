------------------------------ MODULE MCTrees -------------------------------
(***************************************************************************)
(* The two trees of the kernel whose nodes refer to nodes that others hold:  *)
(* the inodes of the volume and the page tables.  They share no state; a     *)
(* behaviour is one of the first or of the second.                           *)
(*                                                                          *)
(* A volume with a file and a directory in the root and a file in the       *)
(* directory, and two holders of inodes.  Root page tables of five entries:  *)
(* 0 and 1 user, 2 direct mapping, 3 kmap, 4 devices.                        *)
(***************************************************************************)
EXTENDS InodeCache, PageTable, TLC

CONSTANTS top, dir, fa, fc

mc_DirOf == dir :> top @@ fa :> top @@ fc :> dir

\* 1 and 2 are the last page of one table and the first of the next, so a
\* block of two pages at 1 needs three tables.
mc_UserProbe == {1}
mc_KernProbe == {12}
mc_DevPage == {16}
mc_Perm == {{}, {"R"}}

TreeSymmetry == Permutations(Holder) \cup Permutations(User)

VARIABLE part   \* the one of the two that this behaviour is of

TreeInit == part \in {"inodes", "tables"} /\ InodeInit /\ PtInit

TreeNext ==
  \/ part = "inodes" /\ InodeNext /\ UNCHANGED <<ptVars, part>>
  \/ part = "tables" /\ PtNext /\ UNCHANGED <<inodeVars, part>>

TreeSpec == TreeInit /\ [][TreeNext]_<<inodeVars, ptVars, part>>
=============================================================================
