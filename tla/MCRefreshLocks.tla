--------------------------- MODULE MCRefreshLocks ---------------------------
(* Small instances of RefreshLocks for TLC: the constants are model values, *)
(* given in the configurations.                                             *)
EXTENDS RefreshLocks
=============================================================================
