---------------------------- MODULE MCJWKSCache ----------------------------
(* Instances of JWKSCache for TLC. *)
EXTENDS JWKSCache
=============================================================================
