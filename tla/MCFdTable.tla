----------------------------- MODULE MCFdTable ------------------------------
(* Two tasks, three descriptors each, one pipe.                              *)
EXTENDS FdTable
=============================================================================
