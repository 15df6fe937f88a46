---------------------------- MODULE MCJwksCache -----------------------------
(* A small instance of JwksCache for TLC: the constants are model values, *)
(* given in the configuration.                                            *)
EXTENDS JwksCache
=============================================================================
