-------------------------------- MODULE MCMm --------------------------------
(* Pages of two bytes: one loaded page of data, a guard page, and a heap.    *)
(* Mappings of one and of two pages, an empty one and half a page.           *)
EXTENDS Mm
mc_Load == {<<2, 4, "data">>}
mc_Requests == {<<0, "data">>, <<2, "file">>, <<3, "data">>, <<4, "data">>}
=============================================================================
