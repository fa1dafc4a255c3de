----------------------------- MODULE MCProcess ------------------------------
(* Model-checking instance of Process. *)
EXTENDS Process
=============================================================================
