-------------------------- MODULE MCLoginThrottle ---------------------------
(* A small instance of LoginThrottle for TLC. *)
EXTENDS LoginThrottle, TLC

MCSymmetry == Permutations(Keys) \cup Permutations(Requests)
=============================================================================
