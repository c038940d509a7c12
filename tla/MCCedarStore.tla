---------------------------- MODULE MCCedarStore ----------------------------
(* Instances of CedarStore for TLC. *)
EXTENDS CedarStore, TLC

\* Requests, projects and users are not told apart.
Symmetry ==
  Permutations(Requests) \cup Permutations(Projects) \cup Permutations(Users)
=============================================================================
