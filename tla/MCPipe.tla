------------------------------- MODULE MCPipe -------------------------------
(* Model-checking instances of Pipe.  In MCPipe.cfg a reader and two writers   *)
(* with other lengths than the reader's; in MCPipeReadAssert.cfg the reader    *)
(* needs two writes; in MCPipeLostWakeup.cfg reader and writer are those of    *)
(* test.rs: the reader counts the writer, and asks for one byte more than the  *)
(* writer writes.                                                              *)
EXTENDS Pipe
=============================================================================
