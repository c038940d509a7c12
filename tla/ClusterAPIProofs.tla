-------------------------- MODULE ClusterAPIProofs --------------------------
(***************************************************************************)
(* Proofs about ClusterAPI, for every fleet, capacity, set of requests and *)
(* number of requests served at a time.                                    *)
(***************************************************************************)
EXTENDS ClusterAPI, FiniteSetTheorems, TLAPS

USE FleetAssumption, PlacementAssumption, DesiresAssumption
USE DEF CreateSteps, UpdateSteps, DeleteSteps, PlacedSteps, Codes,
        placementVars, desireVars

\* Before the first request every variable has its type.
LEMMA TypeInit == Init => TypeOK
BY DEF Init, PlacementInit, DesiresInit, TypeOK, PlacementTypeOK, DesiresTypeOK,
       RequestsTypeOK

\* The next step of a request, as a step that changes its own entries only.
Moves(r, step) ==
  /\ pc' = [pc EXCEPT ![r] = step]
  /\ code' \in [Requests -> Codes]
  /\ UNCHANGED <<op, key>>

\* The entries of the request table keep their types when request r moves on
\* without choosing a management cluster.
LEMMA MoveType ==
  ASSUME RequestsTypeOK, NEW r \in Requests,
         NEW step \in {"start", "done"} \cup CreateSteps \cup UpdateSteps
                      \cup DeleteSteps,
         Moves(r, step), UNCHANGED mc,
         step \in PlacedSteps => mc[r] \in MgmtClusters,
         base' \in [Requests -> Requests \cup {NoDoc}]
  PROVE  RequestsTypeOK'
<1>1. pc' \in [Requests -> {"start", "done"} \cup CreateSteps \cup UpdateSteps
                           \cup DeleteSteps]
  BY DEF RequestsTypeOK, Moves
<1>2. \A s \in Requests : pc'[s] \in PlacedSteps => mc'[s] \in MgmtClusters
  BY DEF RequestsTypeOK, Moves
<1> QED
  BY <1>1, <1>2 DEF RequestsTypeOK, Moves

\* The same when r settles on a management cluster as it moves.
LEMMA TargetType ==
  ASSUME RequestsTypeOK, NEW r \in Requests, NEW m \in MgmtClusters,
         NEW step \in PlacedSteps,
         Moves(r, step), Target(r, m), UNCHANGED base
  PROVE  RequestsTypeOK'
BY DEF RequestsTypeOK, Moves, Target

\* The handlers' moves are such moves.
LEMMA GotoMoves ==
  ASSUME RequestsTypeOK, NEW r \in Requests, NEW step,
         Goto(r, step), UNCHANGED <<op, key>>
  PROVE  Moves(r, step)
BY DEF RequestsTypeOK, Goto, Moves

\* An answer is a move to "done".
LEMMA AnswerMoves ==
  ASSUME RequestsTypeOK, NEW r \in Requests, NEW status \in Codes,
         Answer(r, status), UNCHANGED <<op, key>>
  PROVE  Moves(r, "done")
BY DEF RequestsTypeOK, Answer, Moves

-----------------------------------------------------------------------------
(* TypeOK is preserved by every step of every handler. *)

\* Steps that answer a request and touch neither database.
LEMMA AnswerType ==
  ASSUME TypeOK, NEW r \in Requests, NEW status \in Codes, Answer(r, status),
         UNCHANGED <<placementVars, desireVars, op, key, mc, base>>
  PROVE  TypeOK'
<1>1. Moves(r, "done")
  BY AnswerMoves DEF TypeOK
<1>2. RequestsTypeOK'
  BY <1>1, MoveType DEF TypeOK, RequestsTypeOK
<1> QED
  BY <1>2 DEF TypeOK, PlacementTypeOK, DesiresTypeOK

\* Steps that only move a request on, with what they may do to the databases
\* given by its types.
LEMMA GotoType ==
  ASSUME TypeOK, NEW r \in Requests, NEW step \in CreateSteps \cup UpdateSteps
                                                \cup DeleteSteps,
         Goto(r, step), UNCHANGED <<op, key, mc>>,
         base' \in [Requests -> Requests \cup {NoDoc}],
         step \in PlacedSteps => mc[r] \in MgmtClusters
  PROVE  RequestsTypeOK'
<1>1. Moves(r, step)
  BY GotoMoves DEF TypeOK
<1> QED
  BY <1>1, MoveType DEF TypeOK

\* Steps that choose the management cluster of a request.
LEMMA TargetGotoType ==
  ASSUME TypeOK, NEW r \in Requests, NEW step \in PlacedSteps,
         NEW m \in MgmtClusters, Target(r, m), Goto(r, step),
         UNCHANGED <<op, key, base>>
  PROVE  RequestsTypeOK'
<1>1. Moves(r, step)
  BY GotoMoves DEF TypeOK
<1> QED
  BY <1>1, TargetType DEF TypeOK

\* The steps of the Create handler preserve the types.
LEMMA CreateType ==
  ASSUME TypeOK, NEW r \in Requests, CreateStep(r) PROVE TypeOK'
<1>1. CASE CreateLookup(r)
  <2>1. CASE Answer(r, 409)
    BY <1>1, <2>1, AnswerType DEF CreateLookup, Codes
  <2>2. CASE Goto(r, "allocate")
    BY <1>1, <2>2, GotoType
       DEF CreateLookup, TypeOK, RequestsTypeOK, PlacementTypeOK, DesiresTypeOK
  <2> QED
    BY <1>1, <2>1, <2>2 DEF CreateLookup
<1>2. CASE CreateAllocate(r)
  <2>1. PICK m \in MgmtClusters : Allocate(m) /\ Target(r, m)
    BY <1>2 DEF CreateAllocate
  <2>2. RequestsTypeOK'
    BY <1>2, <2>1, TargetGotoType DEF CreateAllocate
  <2>3. PlacementTypeOK'
    BY <1>2, <2>1 DEF CreateAllocate, Allocate, TypeOK, PlacementTypeOK
  <2> QED
    BY <1>2, <2>2, <2>3 DEF CreateAllocate, TypeOK, DesiresTypeOK
<1>3. CASE CreateNoCapacity(r)
  BY <1>3, AnswerType DEF CreateNoCapacity
<1>4. CASE CreateNamespace(r)
  <2>1. mc[r] \in MgmtClusters
    BY <1>4 DEF CreateNamespace, TypeOK, RequestsTypeOK
  <2>2. RequestsTypeOK'
    BY <1>4, <2>1, GotoType DEF CreateNamespace, TypeOK, RequestsTypeOK
  <2>3. NamespaceOf[key[r]] \in Namespaces
    BY DEF TypeOK, RequestsTypeOK
  <2>4. nsDesires' \in [MgmtClusters -> SUBSET Namespaces]
    BY <1>4, <2>1, <2>3
       DEF CreateNamespace, EnsureNamespace, TypeOK, DesiresTypeOK
  <2> QED
    BY <1>4, <2>2, <2>4
       DEF CreateNamespace, TypeOK, DesiresTypeOK, PlacementTypeOK
<1>5. CASE CreateApplyDesire(r)
  <2>1. mc[r] \in MgmtClusters /\ key[r] \in Clusters
    BY <1>5 DEF CreateApplyDesire, TypeOK, RequestsTypeOK
  <2>2. RequestsTypeOK'
    BY <1>5, <2>1, GotoType DEF CreateApplyDesire, TypeOK, RequestsTypeOK
  <2>3. applyDesires' \in [MgmtClusters -> [Clusters -> Requests \cup {NoDoc}]]
    BY <1>5, <2>1 DEF CreateApplyDesire, CreateApply, TypeOK, DesiresTypeOK
  <2> QED
    BY <1>5, <2>2, <2>3
       DEF CreateApplyDesire, TypeOK, DesiresTypeOK, PlacementTypeOK
<1>6. CASE CreateApplyConflict(r)
  BY <1>6, AnswerType DEF CreateApplyConflict
<1>7. CASE CreateReadDesire(r)
  <2>1. mc[r] \in MgmtClusters /\ key[r] \in Clusters
    BY <1>7 DEF CreateReadDesire, TypeOK, RequestsTypeOK
  <2>2. RequestsTypeOK'
    BY <1>7, <2>1, GotoType DEF CreateReadDesire, TypeOK, RequestsTypeOK
  <2>3. readDesires' \in [MgmtClusters -> SUBSET Clusters]
    BY <1>7, <2>1 DEF CreateReadDesire, CreateRead, TypeOK, DesiresTypeOK
  <2> QED
    BY <1>7, <2>2, <2>3
       DEF CreateReadDesire, TypeOK, DesiresTypeOK, PlacementTypeOK
<1>8. CASE CreateReadConflict(r)
  BY <1>8, AnswerType DEF CreateReadConflict
<1>9. CASE CreateMapping(r)
  <2>1. mc[r] \in MgmtClusters /\ key[r] \in Clusters
    BY <1>9 DEF CreateMapping, TypeOK, RequestsTypeOK
  <2>2. RequestsTypeOK'
    BY <1>9, AnswerMoves, MoveType DEF CreateMapping, TypeOK, RequestsTypeOK
  <2>3. PlacementTypeOK'
    BY <1>9, <2>1 DEF CreateMapping, SetClusterMapping, TypeOK, PlacementTypeOK
  <2> QED
    BY <1>9, <2>2, <2>3 DEF CreateMapping, TypeOK, DesiresTypeOK
<1> QED
  BY <1>1, <1>2, <1>3, <1>4, <1>5, <1>6, <1>7, <1>8, <1>9 DEF CreateStep

\* The version of an ApplyDesire of the fleet is a request or NoDoc.
LEMMA VersionType ==
  ASSUME DesiresTypeOK, NEW m \in MgmtClusters, NEW k \in Clusters
  PROVE  applyDesires[m][k] \in Requests \cup {NoDoc}
<1>1. applyDesires[m] \in [Clusters -> Requests \cup {NoDoc}]
  BY DEF DesiresTypeOK
<1> QED
  BY <1>1

\* The steps of the Update handler preserve the types.
LEMMA UpdateType ==
  ASSUME TypeOK, NEW r \in Requests, UpdateStep(r) PROVE TypeOK'
<1>1. CASE UpdateLookup(r)
  <2>1. PICK m \in MgmtClusters : Target(r, m)
    BY <1>1 DEF UpdateLookup
  <2>2. RequestsTypeOK'
    BY <1>1, <2>1, TargetGotoType DEF UpdateLookup
  <2> QED
    BY <1>1, <2>2 DEF UpdateLookup, TypeOK, PlacementTypeOK, DesiresTypeOK
<1>2. CASE UpdateGet(r)
  <2>1. mc[r] \in MgmtClusters /\ key[r] \in Clusters
    BY <1>2 DEF UpdateGet, TypeOK, RequestsTypeOK
  <2>2. applyDesires[mc[r]][key[r]] \in Requests \cup {NoDoc}
    BY <2>1, VersionType DEF TypeOK
  <2>3. base' \in [Requests -> Requests \cup {NoDoc}]
    BY <1>2, <2>2 DEF UpdateGet, TypeOK, RequestsTypeOK
  <2>4. RequestsTypeOK'
    BY <1>2, <2>1, <2>3, GotoType DEF UpdateGet
  <2> QED
    BY <1>2, <2>4 DEF UpdateGet, TypeOK, PlacementTypeOK, DesiresTypeOK
<1>3. CASE UpdateReplace(r)
  <2>1. mc[r] \in MgmtClusters /\ key[r] \in Clusters
    BY <1>3 DEF UpdateReplace, TypeOK, RequestsTypeOK
  <2>2. RequestsTypeOK'
    BY <1>3, AnswerMoves, MoveType DEF UpdateReplace, TypeOK, RequestsTypeOK
  <2>3. applyDesires' \in [MgmtClusters -> [Clusters -> Requests \cup {NoDoc}]]
    BY <1>3, <2>1 DEF UpdateReplace, ReplaceApply, TypeOK, DesiresTypeOK
  <2> QED
    BY <1>3, <2>2, <2>3
       DEF UpdateReplace, TypeOK, DesiresTypeOK, PlacementTypeOK
<1>4. CASE UpdateConflict(r)
  BY <1>4, AnswerType DEF UpdateConflict
<1> QED
  BY <1>1, <1>2, <1>3, <1>4 DEF UpdateStep

\* Release never takes a counter below zero: it leaves a zero alone.
LEMMA ReleaseType ==
  ASSUME PlacementTypeOK, NEW m \in MgmtClusters, Release(m)
  PROVE  allocated' \in [MgmtClusters -> Nat]
<1>1. allocated[m] \in Nat
  BY DEF PlacementTypeOK
<1>2. allocated[m] # 0 => allocated[m] - 1 \in Nat
  BY <1>1
<1> QED
  BY <1>1, <1>2 DEF Release, PlacementTypeOK

\* The steps of the Delete handler preserve the types.
LEMMA DeleteType ==
  ASSUME TypeOK, NEW r \in Requests, DeleteStep(r) PROVE TypeOK'
<1>1. CASE DeleteLookup(r)
  <2>1. PICK m \in MgmtClusters : Target(r, m)
    BY <1>1 DEF DeleteLookup
  <2>2. RequestsTypeOK'
    BY <1>1, <2>1, TargetGotoType DEF DeleteLookup
  <2> QED
    BY <1>1, <2>2 DEF DeleteLookup, TypeOK, PlacementTypeOK, DesiresTypeOK
<1>2. ASSUME pc[r] \in DeleteSteps
      PROVE  mc[r] \in MgmtClusters /\ key[r] \in Clusters
  BY <1>2 DEF TypeOK, RequestsTypeOK
<1>3. ASSUME NEW step \in DeleteSteps, pc[r] \in DeleteSteps, Goto(r, step),
             UNCHANGED <<op, key, mc, base>>
      PROVE  RequestsTypeOK'
  BY <1>2, <1>3, GotoType DEF TypeOK, RequestsTypeOK
<1>4. CASE DeleteGet(r)
  BY <1>3, <1>4 DEF DeleteGet, TypeOK, PlacementTypeOK, DesiresTypeOK
<1>5. CASE DeleteApplyDesire(r)
  <2>1. applyDesires' \in [MgmtClusters -> [Clusters -> Requests \cup {NoDoc}]]
    BY <1>2, <1>5 DEF DeleteApplyDesire, DeleteApply, TypeOK, DesiresTypeOK
  <2> QED
    BY <1>3, <1>5, <2>1
       DEF DeleteApplyDesire, TypeOK, DesiresTypeOK, PlacementTypeOK
<1>6. CASE DeleteReadDesire(r)
  <2>1. readDesires' \in [MgmtClusters -> SUBSET Clusters]
    BY <1>2, <1>6 DEF DeleteReadDesire, DeleteRead, TypeOK, DesiresTypeOK
  <2> QED
    BY <1>3, <1>6, <2>1
       DEF DeleteReadDesire, TypeOK, DesiresTypeOK, PlacementTypeOK
<1>7. CASE CreateDeleteDesire(r)
  <2>1. deleteDesires' \in [MgmtClusters -> SUBSET Clusters]
    BY <1>2, <1>7 DEF CreateDeleteDesire, CreateDelete, TypeOK, DesiresTypeOK
  <2> QED
    BY <1>3, <1>7, <2>1
       DEF CreateDeleteDesire, TypeOK, DesiresTypeOK, PlacementTypeOK
<1>8. CASE CreateDeleteConflict(r)
  BY <1>8, AnswerType DEF CreateDeleteConflict
<1>9. CASE DeleteRelease(r)
  <2>1. mc[r] \in MgmtClusters
    BY <1>2, <1>9 DEF DeleteRelease
  <2>2. allocated' \in [MgmtClusters -> Nat]
    BY <1>9, <2>1, ReleaseType DEF DeleteRelease, TypeOK
  <2>3. PlacementTypeOK'
    BY <1>9, <2>2 DEF DeleteRelease, TypeOK, PlacementTypeOK
  <2> QED
    BY <1>3, <1>9, <2>3 DEF DeleteRelease, TypeOK, DesiresTypeOK
<1>10. CASE DeleteMapping(r)
  <2>1. RequestsTypeOK'
    BY <1>10, AnswerMoves, MoveType DEF DeleteMapping, TypeOK, RequestsTypeOK
  <2>2. PlacementTypeOK'
    BY <1>2, <1>10
       DEF DeleteMapping, DeleteClusterMapping, TypeOK, PlacementTypeOK
  <2> QED
    BY <1>10, <2>1, <2>2 DEF DeleteMapping, TypeOK, DesiresTypeOK
<1> QED
  BY <1>1, <1>4, <1>5, <1>6, <1>7, <1>8, <1>9, <1>10 DEF DeleteStep

\* Every step of the server preserves the types.
LEMMA TypeStep == TypeOK /\ [Next]_vars => TypeOK'
<1> SUFFICES ASSUME TypeOK, [Next]_vars PROVE TypeOK'
  OBVIOUS
<1>1. ASSUME NEW r \in Requests, Step(r) PROVE TypeOK'
  <2>1. CASE LookupNotFound(r)
    BY <2>1, AnswerType DEF LookupNotFound
  <2>2. CASE GetNotFound(r)
    BY <2>2, AnswerType DEF GetNotFound
  <2> QED
    BY <1>1, <2>1, <2>2, CreateType, UpdateType, DeleteType DEF Step
<1>2. ASSUME NEW r \in Requests, Fail(r) PROVE TypeOK'
  BY <1>2, AnswerType DEF Fail
<1>3. CASE UNCHANGED vars
  BY <1>3 DEF vars, requestVars, TypeOK, PlacementTypeOK, DesiresTypeOK,
              RequestsTypeOK
<1> QED
  BY <1>1, <1>2, <1>3 DEF Next

\* Every variable keeps its type, and from its lookup on a request works on a
\* management cluster of the fleet.
THEOREM TypeCorrect == Spec => []TypeOK
BY TypeInit, TypeStep, PTL DEF Spec
=============================================================================
