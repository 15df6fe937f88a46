------------------------------ MODULE MCHooks ------------------------------
(* An instance of Hooks.                                                   *)
EXTENDS Hooks
=============================================================================
