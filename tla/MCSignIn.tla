------------------------------ MODULE MCSignIn ------------------------------
(* An instance of SignIn.                                                  *)
EXTENDS SignIn, TLC

Symmetry == Permutations(Tabs) \cup Permutations(Browsers) \cup Permutations(Logins)
=============================================================================
