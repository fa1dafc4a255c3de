------------------------------ MODULE MCBytes -------------------------------
(***************************************************************************)
(* The three places where the kernel copies bytes piece by piece: the buffer *)
(* of a pipe, a page of a mapped file, and a file on the disk.  They share   *)
(* no state; a behaviour is one of the first, of the second or of the third. *)
(*                                                                          *)
(* A ring of three bytes.  Pages of three bytes and a mapped file of seven. *)
(* A volume of three clusters of two sectors of two bytes, with a file that *)
(* fills the first of its two clusters, as a power loss can leave it, and an*)
(* empty one; d1 reads or does both, d2 writes.  The lower half of a cluster *)
(* number is one bit: the number 3 of the free cluster has something in both *)
(* halves, and an entry torn between them names cluster 2, the other file's. *)
(***************************************************************************)
EXTENDS PipeRingBuffer, FilePage, FatFile, TLC

CONSTANTS fa, fb, d1, d2

MCInitialSize == fa :> 4 @@ fb :> 0
MCInitialChain == fa :> <<4, 2>> @@ fb :> <<>>
MCFlags == d1 :> {"O_RDONLY", "O_RDWR"} @@ d2 :> {"O_WRONLY"}

VARIABLE part   \* the one of the three that this behaviour is of

BytesInit ==
  /\ part \in {"pipe", "mapping", "file"}
  /\ new
  /\ FatFileInit
  /\ IF part = "mapping" THEN FilePageInit
     ELSE vma = (CHOOSE v \in mmap_vma : TRUE) /\ pages = <<>> /\ stopped = "no"

BytesNext ==
  \/ part = "pipe" /\ RingNext /\ UNCHANGED <<filePageVars, fatVars, part>>
  \/ part = "mapping" /\ FilePageNext /\ UNCHANGED <<ringVars, fatVars, part>>
  \/ part = "file" /\ FatFileNext /\ UNCHANGED <<ringVars, filePageVars, part>>

BytesSpec == BytesInit /\ [][BytesNext]_<<ringVars, filePageVars, fatVars, part>>
=============================================================================
