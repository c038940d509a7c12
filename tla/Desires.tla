------------------------------- MODULE Desires -------------------------------
(***************************************************************************)
(* The specs databases, one per management cluster, through which the API  *)
(* server tells the kube-applier agent of that cluster what to do: the     *)
(* CRUD calls of internal/desires/crud.go on the documents the handlers    *)
(* keep there.  Each call is one atomic Firestore operation.               *)
(*                                                                         *)
(* An ApplyDesire is abstracted to its version, the request that wrote it  *)
(* last: a request writes an ApplyDesire at most once, so the version      *)
(* stands both for the update time that Replace compares and for the       *)
(* content the request sent.  The other desires hold nothing that a        *)
(* property tells apart and are present or absent.                         *)
(***************************************************************************)
EXTENDS Fleet

CONSTANTS Requests,         \* the requests of clients, as writers of versions
          NoDoc             \* the version of an ApplyDesire that is absent

ASSUME DesiresAssumption ==
  /\ IsFiniteSet(Requests)
  /\ NoDoc \notin Requests

VARIABLES applyDesires,     \* per specs database: version of each ApplyDesire
          nsDesires,        \* ... namespaces with an ApplyDesire
          readDesires,      \* ... hosted clusters with a ReadDesire
          deleteDesires     \* ... hosted clusters with a DeleteDesire

desireVars == <<applyDesires, nsDesires, readDesires, deleteDesires>>

DesiresTypeOK ==
  /\ applyDesires \in [MgmtClusters -> [Clusters -> Requests \cup {NoDoc}]]
  /\ nsDesires \in [MgmtClusters -> SUBSET Namespaces]
  /\ readDesires \in [MgmtClusters -> SUBSET Clusters]
  /\ deleteDesires \in [MgmtClusters -> SUBSET Clusters]

DesiresInit ==
  /\ applyDesires = [m \in MgmtClusters |-> [k \in Clusters |-> NoDoc]]
  /\ nsDesires = [m \in MgmtClusters |-> {}]
  /\ readDesires = [m \in MgmtClusters |-> {}]
  /\ deleteDesires = [m \in MgmtClusters |-> {}]

-----------------------------------------------------------------------------

ApplyExists(m, k) == applyDesires[m][k] # NoDoc

\* Create of an ApplyDesire by request r; the caller checks AlreadyExists.
CreateApply(r, m, k) ==
  /\ ~ApplyExists(m, k)
  /\ applyDesires' = [applyDesires EXCEPT ![m][k] = r]

\* Replace without the LastUpdateTime precondition.
ReplaceApplyFault(r, m, k, v) ==
  /\ ApplyExists(m, k)
  /\ applyDesires' = [applyDesires EXCEPT ![m][k] = r]

\* Replace by request r under the precondition that the document still has
\* the version v.
ReplaceApply(r, m, k, v) ==
  /\ applyDesires[m][k] = v
  /\ applyDesires' = [applyDesires EXCEPT ![m][k] = r]

\* Delete has no precondition: deleting an absent document succeeds.
DeleteApply(m, k) == applyDesires' = [applyDesires EXCEPT ![m][k] = NoDoc]

\* Every error is ignored, not only AlreadyExists.
EnsureNamespaceFault(m, n) ==
  \/ nsDesires' = [nsDesires EXCEPT ![m] = @ \cup {n}]
  \/ UNCHANGED nsDesires

\* The handlers ignore AlreadyExists for the desire of a namespace.
EnsureNamespace(m, n) == nsDesires' = [nsDesires EXCEPT ![m] = @ \cup {n}]

CreateRead(m, k) ==
  /\ k \notin readDesires[m]
  /\ readDesires' = [readDesires EXCEPT ![m] = @ \cup {k}]

DeleteRead(m, k) == readDesires' = [readDesires EXCEPT ![m] = @ \ {k}]

\* Set instead of Create: an existing document is no conflict.
CreateDeleteFault(m, k) ==
  deleteDesires' = [deleteDesires EXCEPT ![m] = @ \cup {k}]

CreateDelete(m, k) ==
  /\ k \notin deleteDesires[m]
  /\ deleteDesires' = [deleteDesires EXCEPT ![m] = @ \cup {k}]
=============================================================================
