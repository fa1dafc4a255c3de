------------------------------ MODULE MCMemory ------------------------------
(***************************************************************************)
(* Three users of physical memory, which share no state: the allocators of   *)
(* page frames, the frames a copy-on-write fork shares, and the page table    *)
(* the hart runs on while programs are loaded.  A behaviour is one of one of  *)
(* them.                                                                     *)
(*                                                                          *)
(* Seven page frames in blocks of up to four.  Two pages of a parent with    *)
(* two children, and two values (0 is what a fresh frame holds).  Three user *)
(* tasks, five address spaces, a program of one page, one of two, and a file *)
(* that is not a program.                                                    *)
(***************************************************************************)
EXTENDS Pages, Cow, Kmap, TLC

CONSTANTS f1, f2, text

\* order2pages for the orders of the instance, as utils.rs computes it.
mc_order2pages == [o \in 0..(MAX_ORDER - 1) |-> 2^o]

mc_FilePages == f1 :> 1 @@ f2 :> 2 @@ text :> 1

UserSymmetry == Permutations(User)

VARIABLE part   \* the one of the three that this behaviour is of

MemoryInit == part \in {"frames", "fork", "tables"} /\ PagesInit /\ CowInit /\ KmapInit

MemoryNext ==
  \/ part = "frames" /\ PagesNext /\ UNCHANGED <<vars, kmapVars, part>>
  \/ part = "fork" /\ CowNext /\ UNCHANGED <<pagesVars, kmapVars, part>>
  \/ part = "tables" /\ KmapNext /\ UNCHANGED <<pagesVars, vars, part>>

MemorySpec == MemoryInit /\ [][MemoryNext]_<<pagesVars, vars, kmapVars, part>>
=============================================================================
