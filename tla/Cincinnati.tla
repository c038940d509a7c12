------------------------------ MODULE Cincinnati ------------------------------
(***************************************************************************)
(* How the Cincinnati client (internal/cincinnati) picks a release from an *)
(* update graph.  A version is the sequence of its parts, a part is what   *)
(* strconv.Atoi makes of it: a number, or 0 if it is none.                 *)
(***************************************************************************)
EXTENDS Integers, SequencesExt

\* A version that is shorter goes on with zeros.
Part(v, i) == IF i \in DOMAIN v THEN v[i] ELSE 0

\* The first part in which they differ decides.
compareVersions(v, w) ==
  LET Differ == {i \in DOMAIN v \cup DOMAIN w : Part(v, i) # Part(w, i)}
  IN IF Differ = {} THEN 0
     ELSE Part(v, Min(Differ)) - Part(w, Min(Differ))

\* Of the versions of a graph those of the target: with "4.16." before them.
Matching(graph, target) == {v \in graph : IsStrictPrefix(target, v)}

\* The best of them, or of several that compare equal the one the graph has
\* first, which may be any.
Best(graph, target) ==
  LET matching == Matching(graph, target)
  IN {v \in matching : \A w \in matching \ {v} : compareVersions(v, w) >= 0}
=============================================================================
