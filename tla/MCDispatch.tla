----------------------------- MODULE MCDispatch -----------------------------
(* Model-checking instance of Dispatch. *)
EXTENDS Dispatch
=============================================================================
