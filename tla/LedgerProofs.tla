---------------------------- MODULE LedgerProofs ----------------------------
(***************************************************************************)
(* Proofs that the handlers of ClusterAPI implement SlotLedger, and that   *)
(* they never tell a management cluster to run more hosted clusters than   *)
(* its capacity, for every fleet, capacity, set of requests, interleaving  *)
(* and failure.                                                            *)
(*                                                                         *)
(* The argument has two halves.  One relates each step of a handler to the *)
(* claims it makes, moves or drops (the lemmas on Claims, then LedgerStep),*)
(* for which two facts about the requests are needed: an Update only       *)
(* replaces a document it found, and the requests that have written a      *)
(* DeleteDesire are the only ones for their cluster (HandlerInv).  The     *)
(* other is about SlotLedger alone: no step makes more claims than slots   *)
(* (LedgerSafe).                                                           *)
(***************************************************************************)
EXTENDS ClusterAPIProofs

USE FleetAssumption, PlacementAssumption, DesiresAssumption
USE DEF CreateSteps, UpdateSteps, DeleteSteps, PlacedSteps, Codes,
        placementVars, desireVars

\* The Deletes that have written the DeleteDesire of their cluster.
Winner(r) == pc[r] \in {"release", "delete_mapping"}

HandlerInv ==
  /\ \A r \in Requests : pc[r] = "replace" => base[r] # NoDoc
  /\ \A r \in Requests : Winner(r) => key[r] \in deleteDesires[mc[r]]
  /\ \A r, s \in Requests :
       Winner(r) /\ Winner(s) /\ mc[r] = mc[s] /\ key[r] = key[s] => r = s

\* No request has replaced or deleted anything at the beginning.
LEMMA HandlerInit == Init => HandlerInv
BY DEF Init, HandlerInv, Winner

\* A request that moves without coming to "replace" or "release", while the
\* DeleteDesires stay, disturbs nothing.
LEMMA HandlerMove ==
  ASSUME TypeOK, HandlerInv, NEW r \in Requests, NEW step, Moves(r, step),
         step \notin {"replace", "release"},
         step = "delete_mapping" => pc[r] = "release",
         \A s \in Requests \ {r} : mc'[s] = mc[s] /\ base'[s] = base[s],
         Winner(r) => mc'[r] = mc[r],
         UNCHANGED deleteDesires
  PROVE  HandlerInv'
<1>1. \A s \in Requests : pc'[s] = IF s = r THEN step ELSE pc[s]
  BY DEF Moves, TypeOK, RequestsTypeOK
<1>2. \A s \in Requests : Winner(s)' => Winner(s) /\ mc'[s] = mc[s]
  BY <1>1 DEF Winner
<1>3. key' = key
  BY DEF Moves
<1> QED
  BY <1>1, <1>2, <1>3 DEF HandlerInv

\* Of all the steps only UpdateGet and CreateDeleteDesire come near HandlerInv:
\* one finds a document first, the other is refused when there is one already.
LEMMA HandlerStep == TypeOK /\ HandlerInv /\ [Next]_vars => HandlerInv'
<1> SUFFICES ASSUME TypeOK, HandlerInv, [Next]_vars PROVE HandlerInv'
  OBVIOUS
<1>1. ASSUME NEW r \in Requests, NEW status \in Codes, Answer(r, status),
             UNCHANGED <<op, key, mc, base, deleteDesires>>
      PROVE  HandlerInv'
  <2>1. Moves(r, "done")
    BY <1>1, AnswerMoves DEF TypeOK
  <2> QED
    BY <1>1, <2>1, HandlerMove
<1>2. ASSUME NEW r \in Requests, NEW step, Goto(r, step),
             UNCHANGED <<op, key, mc, base, deleteDesires>>,
             step \notin {"replace", "release"},
             step = "delete_mapping" => pc[r] = "release"
      PROVE  HandlerInv'
  <2>1. Moves(r, step)
    BY <1>2, GotoMoves DEF TypeOK
  <2> QED
    BY <1>2, <2>1, HandlerMove
<1>3. ASSUME NEW r \in Requests, NEW m, NEW step, Goto(r, step), Target(r, m),
             UNCHANGED <<op, key, base, deleteDesires>>,
             pc[r] \in {"start", "allocate"},
             step \notin {"replace", "release", "delete_mapping"}
      PROVE  HandlerInv'
  <2>1. Moves(r, step)
    BY <1>3, GotoMoves DEF TypeOK
  <2>2. \A s \in Requests \ {r} : mc'[s] = mc[s]
    BY <1>3 DEF Target, TypeOK, RequestsTypeOK
  <2>3. ~Winner(r)
    BY <1>3 DEF Winner
  <2> QED
    BY <1>3, <2>1, <2>2, <2>3, HandlerMove
<1>4. ASSUME NEW r \in Requests, CreateStep(r) PROVE HandlerInv'
  BY <1>1, <1>2, <1>3, <1>4
     DEF CreateStep, CreateLookup, Admitted, CreateAllocate, CreateNoCapacity,
         CreateNamespace, CreateApplyDesire, CreateApplyConflict,
         CreateReadDesire, CreateReadConflict, CreateMapping
<1>5. ASSUME NEW r \in Requests, UpdateStep(r) PROVE HandlerInv'
  <2>1. CASE UpdateLookup(r)
    BY <1>3, <2>1 DEF UpdateLookup, Admitted
  <2>2. CASE UpdateGet(r)
    <3>1. \A s \in Requests \ {r} : pc'[s] = pc[s] /\ base'[s] = base[s]
      BY <2>2 DEF UpdateGet, Goto, TypeOK, RequestsTypeOK
    <3>2. pc'[r] = "replace" /\ base'[r] # NoDoc
      BY <2>2 DEF UpdateGet, Goto, ApplyExists, TypeOK, RequestsTypeOK
    <3>3. \A s \in Requests : Winner(s)' => Winner(s)
      BY <3>1, <3>2 DEF Winner
    <3> QED
      BY <2>2, <3>1, <3>2, <3>3 DEF UpdateGet, HandlerInv
  <2>3. CASE UpdateReplace(r)
    BY <1>1, <2>3 DEF UpdateReplace
  <2>4. CASE UpdateConflict(r)
    BY <1>1, <2>4 DEF UpdateConflict
  <2> QED
    BY <1>5, <2>1, <2>2, <2>3, <2>4 DEF UpdateStep
<1>6. ASSUME NEW r \in Requests, DeleteStep(r) PROVE HandlerInv'
  <2>1. CASE CreateDeleteDesire(r)
    <3>1. \A s \in Requests \ {r} : pc'[s] = pc[s]
      BY <2>1 DEF CreateDeleteDesire, Goto, TypeOK, RequestsTypeOK
    <3>2. pc'[r] = "release"
      BY <2>1 DEF CreateDeleteDesire, Goto, TypeOK, RequestsTypeOK
    <3>3. mc[r] \in MgmtClusters /\ key[r] \in Clusters
      BY <2>1 DEF CreateDeleteDesire, TypeOK, RequestsTypeOK
    <3>4. key[r] \notin deleteDesires[mc[r]]
      BY <2>1 DEF CreateDeleteDesire, CreateDelete
    <3>5. key[r] \in deleteDesires'[mc[r]]
      BY <2>1, <3>3 DEF CreateDeleteDesire, CreateDelete, TypeOK, DesiresTypeOK
    <3>6. \A s \in Requests :
            Winner(s) =>
              mc[s] \in MgmtClusters /\
                deleteDesires[mc[s]] \subseteq deleteDesires'[mc[s]]
      BY <2>1, <3>3
         DEF CreateDeleteDesire, CreateDelete, Winner, TypeOK, DesiresTypeOK,
             RequestsTypeOK
    <3>7. \A s \in Requests : Winner(s)' <=> s = r \/ Winner(s)
      BY <3>1, <3>2 DEF Winner
    <3>8. \A s \in Requests :
            Winner(s) /\ mc[s] = mc[r] /\ key[s] = key[r] => FALSE
      BY <3>4 DEF HandlerInv
    <3> QED
      BY <2>1, <3>1, <3>2, <3>5, <3>6, <3>7, <3>8
         DEF CreateDeleteDesire, HandlerInv
  <2> QED
    BY <1>1, <1>2, <1>3, <1>6, <2>1
       DEF DeleteStep, DeleteLookup, Admitted, DeleteGet, DeleteApplyDesire,
           DeleteReadDesire, CreateDeleteConflict, DeleteRelease, DeleteMapping
<1>7. ASSUME NEW r \in Requests, LookupNotFound(r) \/ GetNotFound(r) \/ Fail(r)
      PROVE  HandlerInv'
  BY <1>1, <1>7 DEF LookupNotFound, GetNotFound, Fail
<1>8. CASE UNCHANGED vars
  BY <1>8 DEF vars, requestVars, HandlerInv, Winner
<1> QED
  BY <1>4, <1>5, <1>6, <1>7, <1>8 DEF Next, Step

-----------------------------------------------------------------------------
(* Claims, step by step. *)

\* Where a request holds a claim, or lets its cluster count as releasable.
Claiming == {"create_ns", "create_apply", "delete_apply", "delete_read",
             "create_delete", "release"}

\* Only request r moves.
OnlyMoves(r) ==
  /\ \A s \in Requests \ {r} : pc'[s] = pc[s] /\ mc'[s] = mc[s]
  /\ key' = key

\* The desires of m that claims are made of stay.
SameDesires(m) ==
  /\ \A k \in Clusters : ApplyExists(m, k)' <=> ApplyExists(m, k)
  /\ deleteDesires'[m] = deleteDesires[m]

\* A request that has nothing to do with m before and after its step leaves
\* the claims on m alone.
LEMMA Elsewhere ==
  ASSUME NEW r \in Requests, NEW m \in MgmtClusters, OnlyMoves(r),
         SameDesires(m),
         mc[r] = m => pc[r] \notin Claiming,
         mc'[r] = m => pc'[r] \notin Claiming
  PROVE  Claims(m)' = Claims(m)
<1>1. Live(m)' = Live(m)
  BY DEF SameDesires, Live
<1>2. Holding(m)' = Holding(m)
  BY DEF OnlyMoves, Holding, Claiming
<1>3. Releasable(m)' = Releasable(m)
  <2>1. ASSUME NEW k \in Clusters, NEW s \in Requests
        PROVE  /\ s = r => (Deleter(s, m, k) => pc[s] \notin Claiming)
               /\ s = r => (Deleter(s, m, k)' => pc'[s] \notin Claiming)
               /\ s # r => (Deleter(s, m, k)' <=> Deleter(s, m, k)) /\
                    pc'[s] = pc[s]
    BY DEF OnlyMoves, Deleter
  <2> QED
    BY <2>1 DEF SameDesires, Releasable, Claiming
<1> QED
  BY <1>1, <1>2, <1>3 DEF Claims

\* A request that stops claiming on m takes no claim of others with it and
\* makes none.
LEMMA Leaving ==
  ASSUME NEW r \in Requests, NEW m \in MgmtClusters, OnlyMoves(r),
         SameDesires(m), pc'[r] \notin Claiming
  PROVE  Claims(m)' \subseteq Claims(m)
<1>1. Live(m)' = Live(m)
  BY DEF SameDesires, Live
<1>2. Holding(m)' \subseteq Holding(m)
  BY DEF OnlyMoves, Holding, Claiming
<1>3. Releasable(m)' \subseteq Releasable(m)
  <2>1. ASSUME NEW k \in Clusters, NEW s \in Requests
        PROVE  /\ s = r => pc'[s] \notin Claiming
               /\ s # r => (Deleter(s, m, k)' <=> Deleter(s, m, k)) /\
                    pc'[s] = pc[s]
    BY DEF OnlyMoves, Deleter
  <2> QED
    BY <2>1 DEF SameDesires, Releasable, Claiming
<1> QED
  BY <1>1, <1>2, <1>3 DEF Claims

\* A request that keeps what it claims on its management cluster changes no
\* claim.
LEMMA Keeping ==
  ASSUME NEW r \in Requests, NEW m \in MgmtClusters, OnlyMoves(r),
         SameDesires(m), mc'[r] = mc[r],
         \/ pc[r] = "create_ns" /\ pc'[r] = "create_apply"
         \/ pc[r] = "delete_read" /\ pc'[r] = "create_delete"
         \/ pc[r] = "get_delete" /\ pc'[r] = "delete_apply" /\
              ApplyExists(mc[r], key[r])
  PROVE  Claims(m)' = Claims(m)
<1>1. Live(m)' = Live(m)
  BY DEF SameDesires, Live
<1>2. Holding(m)' = Holding(m)
  BY DEF OnlyMoves, Holding
<1>3. Releasable(m)' = Releasable(m)
  <2>1. ASSUME NEW k \in Clusters, NEW s \in Requests
        PROVE  /\ Deleter(s, m, k)' <=> Deleter(s, m, k)
               /\ s # r => pc'[s] = pc[s]
               /\ s = r /\ Deleter(s, m, k) => mc[r] = m /\ key[r] = k
    BY DEF OnlyMoves, Deleter
  <2> QED
    BY <2>1 DEF SameDesires, Releasable
<1> QED
  BY <1>1, <1>2, <1>3 DEF Claims

\* Writing the DeleteDesire: of the Deletes of a cluster the writer alone
\* keeps it releasable, which it was before.
LEMMA Winning ==
  ASSUME TypeOK, NEW r \in Requests, NEW m \in MgmtClusters, OnlyMoves(r),
         mc'[r] = mc[r], pc[r] = "create_delete", pc'[r] = "release",
         mc[r] = m, key[r] \notin deleteDesires[m],
         deleteDesires'[m] = deleteDesires[m] \cup {key[r]},
         \A k \in Clusters : ApplyExists(m, k)' <=> ApplyExists(m, k)
  PROVE  Claims(m)' = Claims(m)
<1>1. Live(m)' = Live(m)
  BY DEF Live
<1>2. Holding(m)' = Holding(m)
  BY DEF OnlyMoves, Holding
<1>3. Releasable(m)' = Releasable(m)
  <2>1. ASSUME NEW k \in Clusters, NEW s \in Requests
        PROVE  /\ Deleter(s, m, k)' <=> Deleter(s, m, k)
               /\ s # r => pc'[s] = pc[s]
               /\ s = r /\ Deleter(s, m, k) => key[r] = k
    BY DEF OnlyMoves, Deleter
  <2>2. key[r] \in Clusters /\ Deleter(r, m, key[r])
    BY DEF Deleter, TypeOK, RequestsTypeOK
  <2>3. key[r] \in Releasable(m) /\ key[r] \in Releasable(m)'
    BY <2>1, <2>2 DEF Releasable
  <2>4. \A k \in Clusters \ {key[r]} : k \in Releasable(m)' <=>
          k \in Releasable(m)
    BY <2>1 DEF Releasable
  <2>5. Releasable(m) \subseteq Clusters /\ Releasable(m)' \subseteq Clusters
    BY DEF Releasable
  <2> QED
    BY <2>3, <2>4, <2>5
<1> QED
  BY <1>1, <1>2, <1>3 DEF Claims

\* Allocate: the request makes one claim, on the management cluster chosen.
LEMMA Reserving ==
  ASSUME NEW r \in Requests, NEW m \in MgmtClusters, OnlyMoves(r),
         SameDesires(m), pc[r] = "allocate", pc'[r] = "create_ns", mc'[r] = m
  PROVE  Claims(m)' = Claims(m) \cup {<<"held", r>>}
<1>1. Live(m)' = Live(m)
  BY DEF SameDesires, Live
<1>2. Holding(m)' = Holding(m) \cup {r}
  BY DEF OnlyMoves, Holding
<1>3. Releasable(m)' = Releasable(m)
  <2>1. ASSUME NEW k \in Clusters, NEW s \in Requests
        PROVE  s # r => (Deleter(s, m, k)' <=> Deleter(s, m, k)) /\
                 pc'[s] = pc[s]
    BY DEF OnlyMoves, Deleter
  <2> QED
    BY <2>1 DEF SameDesires, Releasable
<1> QED
  BY <1>1, <1>2, <1>3 DEF Claims

\* Creation of the ApplyDesire: the claim of the request becomes that of its
\* cluster; a Delete that was about to remove the desire no longer counts.
LEMMA Placing ==
  ASSUME TypeOK, NEW r \in Requests, NEW m \in MgmtClusters, OnlyMoves(r),
         mc'[r] = mc[r], mc[r] = m, pc[r] = "create_apply",
         pc'[r] = "create_read",
         \A k \in Clusters :
           ApplyExists(m, k)' <=> ApplyExists(m, k) \/ k = key[r],
         deleteDesires'[m] = deleteDesires[m]
  PROVE  /\ <<"held", r>> \in Claims(m)
         /\ Claims(m)' \subseteq (Claims(m) \ {<<"held", r>>})
                                    \cup {<<"live", key[r]>>}
<1>1. Live(m)' \subseteq Live(m) \cup {key[r]}
  BY DEF Live
<1>2. r \in Holding(m) /\ Holding(m)' \subseteq Holding(m) \ {r}
  BY DEF OnlyMoves, Holding
<1>3. Releasable(m)' \subseteq Releasable(m)
  <2>1. ASSUME NEW k \in Clusters, NEW s \in Requests
        PROVE  /\ Deleter(s, m, k)' <=> Deleter(s, m, k)
               /\ s # r => pc'[s] = pc[s]
    BY DEF OnlyMoves, Deleter
  <2> QED
    BY <2>1 DEF Releasable
<1> QED
  BY <1>1, <1>2, <1>3 DEF Claims

\* Removal of an ApplyDesire that is there: the claim of the cluster becomes
\* a slot to release.
LEMMA Removing ==
  ASSUME TypeOK, NEW r \in Requests, NEW m \in MgmtClusters, OnlyMoves(r),
         mc'[r] = mc[r], mc[r] = m, pc[r] = "delete_apply",
         pc'[r] = "delete_read",
         \A k \in Clusters :
           ApplyExists(m, k)' <=> ApplyExists(m, k) /\ k # key[r],
         deleteDesires'[m] = deleteDesires[m]
  PROVE  /\ ApplyExists(m, key[r]) =>
              /\ <<"live", key[r]>> \in Claims(m)
              /\ Claims(m)' \subseteq (Claims(m) \ {<<"live", key[r]>>})
                                         \cup {<<"releasable", key[r]>>}
         /\ ~ApplyExists(m, key[r]) => Claims(m)' \subseteq Claims(m)
<1>1. Live(m)' = Live(m) \ {key[r]}
  BY DEF Live
<1>2. Holding(m)' = Holding(m)
  BY DEF OnlyMoves, Holding
<1>3. key[r] \in Clusters
  BY DEF TypeOK, RequestsTypeOK
<1>4. ASSUME NEW k \in Clusters, NEW s \in Requests
      PROVE  /\ Deleter(s, m, k)' <=> Deleter(s, m, k)
             /\ s # r => pc'[s] = pc[s]
             /\ s = r /\ Deleter(s, m, k) => key[r] = k
  BY DEF OnlyMoves, Deleter
<1>5. Releasable(m)' \subseteq Releasable(m) \cup {key[r]}
  BY <1>4 DEF Releasable
<1>6. ~ApplyExists(m, key[r]) => Releasable(m)' \subseteq Releasable(m)
  BY <1>3, <1>4 DEF Releasable, Deleter
<1>7. CASE ApplyExists(m, key[r])
  <2>1. key[r] \in Live(m)
    BY <1>3, <1>7 DEF Live
  <2> QED
    BY <1>1, <1>2, <1>5, <1>7, <2>1 DEF Claims
<1>8. CASE ~ApplyExists(m, key[r])
  BY <1>1, <1>2, <1>6, <1>8 DEF Claims
<1> QED
  BY <1>7, <1>8

\* Release: the slot given back is the one the cluster counted as releasable.
LEMMA Releasing ==
  ASSUME TypeOK, HandlerInv, NEW r \in Requests, NEW m \in MgmtClusters,
         OnlyMoves(r), SameDesires(m), mc'[r] = mc[r], mc[r] = m,
         pc[r] = "release", pc'[r] = "delete_mapping"
  PROVE  /\ <<"releasable", key[r]>> \in Claims(m)
         /\ Claims(m)' = Claims(m) \ {<<"releasable", key[r]>>}
<1>1. Live(m)' = Live(m)
  BY DEF SameDesires, Live
<1>2. Holding(m)' = Holding(m)
  BY DEF OnlyMoves, Holding
<1>3. key[r] \in Clusters /\ Deleter(r, m, key[r])
  BY DEF Deleter, TypeOK, RequestsTypeOK
<1>4. key[r] \in deleteDesires[m]
  BY DEF HandlerInv, Winner
<1>5. \A s \in Requests \ {r} : Deleter(s, m, key[r]) => pc[s] # "release"
  BY DEF HandlerInv, Winner, Deleter
<1>6. ASSUME NEW k \in Clusters, NEW s \in Requests
      PROVE  /\ Deleter(s, m, k)' <=> Deleter(s, m, k)
             /\ s # r => pc'[s] = pc[s]
             /\ s = r /\ Deleter(s, m, k) => key[r] = k
  BY DEF OnlyMoves, Deleter
<1>7. key[r] \in Releasable(m)
  BY <1>3 DEF Releasable
<1>8. key[r] \notin Releasable(m)'
  BY <1>3, <1>4, <1>5, <1>6 DEF SameDesires, Releasable
<1>9. \A k \in Clusters \ {key[r]} : k \in Releasable(m)' <=>
        k \in Releasable(m)
  BY <1>6 DEF SameDesires, Releasable
<1>10. Releasable(m) \subseteq Clusters /\ Releasable(m)' \subseteq Clusters
  BY DEF Releasable
<1>11. Releasable(m)' = Releasable(m) \ {key[r]}
  BY <1>7, <1>8, <1>9, <1>10
<1> QED
  BY <1>1, <1>2, <1>7, <1>11 DEF Claims

-----------------------------------------------------------------------------
(* Every step of a handler is a step of the ledger, or changes nothing of it. *)

\* The ledger's claims are what its type says.
LEMMA ClaimsType ==
  ASSUME NEW m \in MgmtClusters
  PROVE  Claims(m) \in SUBSET Claimants /\ Claims(m)' \in SUBSET Claimants
BY DEF Claims, Live, Holding, Releasable, Claimants

\* The claims of m alone change when those of the others stay.
LEMMA ChangesOn ==
  ASSUME NEW m \in MgmtClusters,
         \A n \in MgmtClusters \ {m} : Claims(n)' = Claims(n)
  PROVE  Ledger!ClaimsOn(m)
BY ClaimsType DEF Ledger!ClaimsOn

\* A step that moves no claim and no counter is a stutter of the ledger.
LEMMA Unchanged ==
  ASSUME UNCHANGED allocated, \A n \in MgmtClusters : Claims(n)' = Claims(n)
  PROVE  UNCHANGED Ledger!ledgerVars
BY DEF Ledger!ledgerVars

\* A request that comes to a step where it claims nothing, from wherever it
\* was, and leaves the counters and the desires that claims are made of.
LEMMA LeavingStep ==
  ASSUME NEW r \in Requests, OnlyMoves(r), pc'[r] \notin Claiming,
         \A m \in MgmtClusters : SameDesires(m), UNCHANGED allocated,
         mc'[r] = mc[r] \/ pc[r] \notin Claiming
  PROVE  [Ledger!Next]_(Ledger!ledgerVars)
<1>1. CASE mc[r] \in MgmtClusters /\ pc[r] \in Claiming
  <2>1. Claims(mc[r])' \subseteq Claims(mc[r])
    BY <1>1, Leaving
  <2>2. \A n \in MgmtClusters \ {mc[r]} : Claims(n)' = Claims(n)
    BY <1>1, Elsewhere
  <2>3. Ledger!ClaimsOn(mc[r])
    BY <1>1, <2>2, ChangesOn
  <2>4. Ledger!Forfeit(mc[r])
    BY <1>1, <2>1, <2>3 DEF Ledger!Forfeit
  <2> QED
    BY <1>1, <2>4 DEF Ledger!Next
<1>2. CASE ~(mc[r] \in MgmtClusters /\ pc[r] \in Claiming)
  <2>1. \A n \in MgmtClusters : Claims(n)' = Claims(n)
    BY <1>2, Elsewhere
  <2> QED
    BY <2>1, Unchanged
<1> QED
  BY <1>1, <1>2

\* How the handlers' moves look from the outside.
LEMMA GotoOnly ==
  ASSUME TypeOK, NEW r \in Requests, NEW step, Goto(r, step),
         UNCHANGED <<key, mc>>
  PROVE  OnlyMoves(r) /\ pc'[r] = step /\ mc'[r] = mc[r]
BY DEF TypeOK, RequestsTypeOK, Goto, OnlyMoves

\* ... when the request settles on a management cluster,
LEMMA TargetOnly ==
  ASSUME TypeOK, NEW r \in Requests, NEW m, NEW step, Goto(r, step),
         Target(r, m), UNCHANGED key
  PROVE  OnlyMoves(r) /\ pc'[r] = step /\ mc'[r] = m
BY DEF TypeOK, RequestsTypeOK, Goto, Target, OnlyMoves

\* ... and when it answers, after which it claims nothing.
LEMMA AnswerOnly ==
  ASSUME TypeOK, NEW r \in Requests, NEW status, Answer(r, status),
         UNCHANGED <<key, mc>>
  PROVE  OnlyMoves(r) /\ pc'[r] \notin Claiming /\ mc'[r] = mc[r]
BY DEF TypeOK, RequestsTypeOK, Answer, OnlyMoves, Claiming

\* Steps that leave these two collections alone change no desire of any cluster.
LEMMA SameStores ==
  ASSUME UNCHANGED <<applyDesires, deleteDesires>>
  PROVE  \A m \in MgmtClusters : SameDesires(m)
BY DEF SameDesires, ApplyExists

\* An answer that leaves the counters, the ApplyDesires and the DeleteDesires.
LEMMA AnswerStep ==
  ASSUME TypeOK, NEW r \in Requests, NEW status, Answer(r, status),
         UNCHANGED <<key, mc, allocated, applyDesires, deleteDesires>>
  PROVE  [Ledger!Next]_(Ledger!ledgerVars)
BY AnswerOnly, SameStores, LeavingStep

\* A move to a step without a claim, likewise.
LEMMA GotoStep ==
  ASSUME TypeOK, NEW r \in Requests, NEW step, Goto(r, step),
         UNCHANGED <<key, mc, allocated, applyDesires, deleteDesires>>,
         step \notin Claiming
  PROVE  [Ledger!Next]_(Ledger!ledgerVars)
BY GotoOnly, SameStores, LeavingStep

\* The lookup of the mapping, which chooses the management cluster.
LEMMA TargetStep ==
  ASSUME TypeOK, NEW r \in Requests, NEW step, NEW m, Goto(r, step),
         Target(r, m), pc[r] = "start",
         UNCHANGED <<key, allocated, applyDesires, deleteDesires>>,
         step \notin Claiming
  PROVE  [Ledger!Next]_(Ledger!ledgerVars)
<1>1. pc[r] \notin Claiming
  BY DEF Claiming
<1> QED
  BY <1>1, TargetOnly, SameStores, LeavingStep

\* What SlotLedger guarantees, said of the handlers' state.
Backed ==
  \A m \in MgmtClusters :
    /\ IsFiniteSet(Claims(m))
    /\ Cardinality(Claims(m)) <= allocated[m]
    /\ allocated[m] <= Capacity[m]

\* The steps of Create: Allocate reserves, the ApplyDesire takes the slot over,
\* a conflict forfeits it, the rest is not seen.
LEMMA CreateLedger ==
  ASSUME TypeOK, NEW r \in Requests, CreateStep(r)
  PROVE  [Ledger!Next]_(Ledger!ledgerVars)
<1>1. CASE CreateLookup(r)
  BY <1>1, AnswerStep, GotoStep DEF CreateLookup, Claiming
<1>2. CASE CreateAllocate(r)
  <2>1. PICK m \in MgmtClusters : Allocate(m) /\ Target(r, m)
    BY <1>2 DEF CreateAllocate
  <2>2. OnlyMoves(r) /\ pc'[r] = "create_ns" /\ mc'[r] = m
    BY <1>2, <2>1, TargetOnly DEF CreateAllocate
  <2>3. \A n \in MgmtClusters : SameDesires(n)
    BY <1>2, SameStores DEF CreateAllocate
  <2>4. pc[r] = "allocate" /\ pc[r] \notin Claiming
    BY <1>2 DEF CreateAllocate, Claiming
  <2>5. Claims(m)' = Claims(m) \cup {<<"held", r>>}
    BY <2>2, <2>3, <2>4, Reserving
  <2>6. \A n \in MgmtClusters \ {m} : Claims(n)' = Claims(n)
    BY <2>2, <2>3, <2>4, Elsewhere
  <2>7. <<"held", r>> \in Claimants
    BY DEF Claimants
  <2>8. allocated[m] < Capacity[m]
    BY <2>1 DEF Allocate, LeastLoaded, HasRoom
  <2>9. Ledger!Reserve(m)
    BY <2>1, <2>5, <2>6, <2>7, <2>8, ChangesOn DEF Ledger!Reserve, Allocate
  <2> QED
    BY <2>9 DEF Ledger!Next
<1>3. CASE CreateNoCapacity(r)
  BY <1>3, AnswerStep DEF CreateNoCapacity
<1>4. CASE CreateNamespace(r)
  <2>1. OnlyMoves(r) /\ pc'[r] = "create_apply" /\ mc'[r] = mc[r]
    BY <1>4, GotoOnly DEF CreateNamespace
  <2>2. \A n \in MgmtClusters : SameDesires(n)
    BY <1>4, SameStores DEF CreateNamespace
  <2>3. \A n \in MgmtClusters : Claims(n)' = Claims(n)
    BY <1>4, <2>1, <2>2, Keeping DEF CreateNamespace
  <2> QED
    BY <1>4, <2>3, Unchanged DEF CreateNamespace
<1>5. CASE CreateApplyDesire(r)
  <2>1. PICK m \in MgmtClusters, k \in Clusters : m = mc[r] /\ k = key[r]
    <3>1. mc[r] \in MgmtClusters /\ key[r] \in Clusters
      BY <1>5 DEF CreateApplyDesire, TypeOK, RequestsTypeOK
    <3> QED
      BY <3>1
  <2>2. OnlyMoves(r) /\ pc[r] = "create_apply" /\ pc'[r] = "create_read"
          /\ mc'[r] = m
    BY <1>5, <2>1, GotoOnly DEF CreateApplyDesire
  <2>3. applyDesires' = [applyDesires EXCEPT ![m][k] = r]
    BY <1>5, <2>1 DEF CreateApplyDesire, CreateApply
  <2>4. UNCHANGED <<allocated, deleteDesires>>
    BY <1>5 DEF CreateApplyDesire
  <2>5. \A j \in Clusters : ApplyExists(m, j)' <=> ApplyExists(m, j) \/ j = k
    BY <2>1, <2>3 DEF ApplyExists, TypeOK, DesiresTypeOK
  <2>6. \A n \in MgmtClusters \ {m} : SameDesires(n)
    BY <2>1, <2>3, <2>4 DEF SameDesires, ApplyExists, TypeOK, DesiresTypeOK
  <2>7. \A n \in MgmtClusters \ {m} : Claims(n)' = Claims(n)
    BY <2>1, <2>2, <2>6, Elsewhere
  <2>8. /\ <<"held", r>> \in Claims(m)
        /\ Claims(m)' \subseteq (Claims(m) \ {<<"held", r>>}) \cup {<<"live",
             k>>}
    BY <2>1, <2>2, <2>4, <2>5, Placing
  <2>9. <<"live", k>> \in Claimants
    BY <2>1 DEF Claimants
  <2>10. Ledger!HandOver(m)
    BY <2>1, <2>4, <2>7, <2>8, <2>9, ChangesOn DEF Ledger!HandOver
  <2> QED
    BY <2>1, <2>10 DEF Ledger!Next
<1>6. CASE CreateApplyConflict(r)
  BY <1>6, AnswerStep DEF CreateApplyConflict
<1>7. CASE CreateReadDesire(r)
  BY <1>7, GotoStep DEF CreateReadDesire, Claiming
<1>8. CASE CreateReadConflict(r)
  BY <1>8, AnswerStep DEF CreateReadConflict
<1>9. CASE CreateMapping(r)
  BY <1>9, AnswerStep DEF CreateMapping
<1> QED
  BY <1>1, <1>2, <1>3, <1>4, <1>5, <1>6, <1>7, <1>8, <1>9 DEF CreateStep

\* The steps of Update: a replaced ApplyDesire is the same claim.
LEMMA UpdateLedger ==
  ASSUME TypeOK, HandlerInv, NEW r \in Requests, UpdateStep(r)
  PROVE  [Ledger!Next]_(Ledger!ledgerVars)
<1>1. CASE UpdateLookup(r)
  <2>1. PICK m \in MgmtClusters : Target(r, m)
    BY <1>1 DEF UpdateLookup
  <2> QED
    BY <1>1, <2>1, TargetStep DEF UpdateLookup, Admitted, Claiming
<1>2. CASE UpdateGet(r)
  BY <1>2, GotoStep DEF UpdateGet, Claiming
<1>3. CASE UpdateReplace(r)
  <2>1. mc[r] \in MgmtClusters /\ key[r] \in Clusters
    BY <1>3 DEF UpdateReplace, TypeOK, RequestsTypeOK
  <2>2. ApplyExists(mc[r], key[r])
    BY <1>3 DEF UpdateReplace, ReplaceApply, ApplyExists, HandlerInv
  <2>3. \A m \in MgmtClusters : SameDesires(m)
    BY <1>3, <2>1, <2>2
       DEF UpdateReplace, ReplaceApply, SameDesires, ApplyExists, TypeOK,
           DesiresTypeOK
  <2>4. OnlyMoves(r) /\ pc'[r] \notin Claiming /\ mc'[r] = mc[r]
    BY <1>3, AnswerOnly DEF UpdateReplace
  <2> QED
    BY <1>3, <2>3, <2>4, LeavingStep DEF UpdateReplace
<1>4. CASE UpdateConflict(r)
  BY <1>4, AnswerStep DEF UpdateConflict
<1> QED
  BY <1>1, <1>2, <1>3, <1>4 DEF UpdateStep

\* The steps of Delete: the removed ApplyDesire hands its slot to the Deletes
\* that may release it, the DeleteDesire settles which one does, Release gives
\* the slot back.
LEMMA DeleteLedger ==
  ASSUME TypeOK, HandlerInv, Backed, NEW r \in Requests, DeleteStep(r)
  PROVE  [Ledger!Next]_(Ledger!ledgerVars)
<1>1. CASE DeleteLookup(r)
  <2>1. PICK m \in MgmtClusters : Target(r, m)
    BY <1>1 DEF DeleteLookup
  <2> QED
    BY <1>1, <2>1, TargetStep DEF DeleteLookup, Admitted, Claiming
<1>2. ASSUME pc[r] \in DeleteSteps
      PROVE  \E m \in MgmtClusters, k \in Clusters : m = mc[r] /\ k = key[r]
  BY <1>2 DEF TypeOK, RequestsTypeOK
<1>3. CASE DeleteGet(r)
  <2>1. OnlyMoves(r) /\ pc'[r] = "delete_apply" /\ mc'[r] = mc[r]
    BY <1>3, GotoOnly DEF DeleteGet
  <2>2. \A n \in MgmtClusters : SameDesires(n)
    BY <1>3, SameStores DEF DeleteGet
  <2>3. \A n \in MgmtClusters : Claims(n)' = Claims(n)
    BY <1>3, <2>1, <2>2, Keeping DEF DeleteGet
  <2> QED
    BY <1>3, <2>3, Unchanged DEF DeleteGet
<1>4. CASE DeleteApplyDesire(r)
  <2>1. PICK m \in MgmtClusters, k \in Clusters : m = mc[r] /\ k = key[r]
    BY <1>2, <1>4 DEF DeleteApplyDesire
  <2>2. OnlyMoves(r) /\ pc[r] = "delete_apply" /\ pc'[r] = "delete_read"
          /\ mc'[r] = m
    BY <1>4, <2>1, GotoOnly DEF DeleteApplyDesire
  <2>3. applyDesires' = [applyDesires EXCEPT ![m][k] = NoDoc]
    BY <1>4, <2>1 DEF DeleteApplyDesire, DeleteApply
  <2>4. UNCHANGED <<allocated, deleteDesires>>
    BY <1>4 DEF DeleteApplyDesire
  <2>5. \A j \in Clusters : ApplyExists(m, j)' <=> ApplyExists(m, j) /\ j # k
    BY <2>1, <2>3 DEF ApplyExists, TypeOK, DesiresTypeOK
  <2>6. \A n \in MgmtClusters \ {m} : SameDesires(n)
    BY <2>1, <2>3, <2>4 DEF SameDesires, ApplyExists, TypeOK, DesiresTypeOK
  <2>7. Ledger!ClaimsOn(m)
    BY <2>1, <2>2, <2>6, Elsewhere, ChangesOn
  <2>8. CASE ApplyExists(m, k)
    <3>1. /\ <<"live", k>> \in Claims(m)
          /\ Claims(m)' \subseteq (Claims(m) \ {<<"live", k>>})
                                     \cup {<<"releasable", k>>}
      BY <2>1, <2>2, <2>4, <2>5, <2>8, Removing
    <3>2. <<"releasable", k>> \in Claimants
      BY <2>1 DEF Claimants
    <3>3. Ledger!HandOver(m)
      BY <2>1, <2>4, <2>7, <3>1, <3>2 DEF Ledger!HandOver
    <3> QED
      BY <2>1, <3>3 DEF Ledger!Next
  <2>9. CASE ~ApplyExists(m, k)
    <3>1. Claims(m)' \subseteq Claims(m)
      BY <2>1, <2>2, <2>4, <2>5, <2>9, Removing
    <3>2. Ledger!Forfeit(m)
      BY <2>1, <2>4, <2>7, <3>1 DEF Ledger!Forfeit
    <3> QED
      BY <2>1, <3>2 DEF Ledger!Next
  <2> QED
    BY <2>8, <2>9
<1>5. CASE DeleteReadDesire(r)
  <2>1. OnlyMoves(r) /\ pc'[r] = "create_delete" /\ mc'[r] = mc[r]
    BY <1>5, GotoOnly DEF DeleteReadDesire
  <2>2. \A n \in MgmtClusters : SameDesires(n)
    BY <1>5, SameStores DEF DeleteReadDesire
  <2>3. \A n \in MgmtClusters : Claims(n)' = Claims(n)
    BY <1>5, <2>1, <2>2, Keeping DEF DeleteReadDesire
  <2> QED
    BY <1>5, <2>3, Unchanged DEF DeleteReadDesire
<1>6. CASE CreateDeleteDesire(r)
  <2>1. PICK m \in MgmtClusters, k \in Clusters : m = mc[r] /\ k = key[r]
    BY <1>2, <1>6 DEF CreateDeleteDesire
  <2>2. OnlyMoves(r) /\ pc[r] = "create_delete" /\ pc'[r] = "release"
          /\ mc'[r] = m
    BY <1>6, <2>1, GotoOnly DEF CreateDeleteDesire
  <2>3. k \notin deleteDesires[m] /\
          deleteDesires'[m] = deleteDesires[m] \cup {k}
    BY <1>6, <2>1 DEF CreateDeleteDesire, CreateDelete, TypeOK, DesiresTypeOK
  <2>4. UNCHANGED <<allocated, applyDesires>>
    BY <1>6 DEF CreateDeleteDesire
  <2>5. \A n \in MgmtClusters \ {m} : SameDesires(n)
    BY <1>6, <2>1
       DEF CreateDeleteDesire, CreateDelete, SameDesires, ApplyExists, TypeOK,
           DesiresTypeOK
  <2>6. \A n \in MgmtClusters \ {m} : Claims(n)' = Claims(n)
    BY <2>1, <2>2, <2>5, Elsewhere
  <2>7. \A j \in Clusters : ApplyExists(m, j)' <=> ApplyExists(m, j)
    BY <2>4 DEF ApplyExists
  <2>8. Claims(m)' = Claims(m)
    BY <2>1, <2>2, <2>3, <2>7, Winning
  <2> QED
    BY <2>4, <2>6, <2>8, Unchanged
<1>7. CASE CreateDeleteConflict(r)
  BY <1>7, AnswerStep DEF CreateDeleteConflict
<1>8. CASE DeleteRelease(r)
  <2>1. PICK m \in MgmtClusters, k \in Clusters : m = mc[r] /\ k = key[r]
    BY <1>2, <1>8 DEF DeleteRelease
  <2>2. OnlyMoves(r) /\ pc[r] = "release" /\ pc'[r] = "delete_mapping"
          /\ mc'[r] = m
    BY <1>8, <2>1, GotoOnly DEF DeleteRelease
  <2>3. \A n \in MgmtClusters : SameDesires(n)
    BY <1>8, SameStores DEF DeleteRelease
  <2>4. \A n \in MgmtClusters \ {m} : Claims(n)' = Claims(n)
    BY <2>1, <2>2, <2>3, Elsewhere
  <2>5. /\ <<"releasable", k>> \in Claims(m)
        /\ Claims(m)' = Claims(m) \ {<<"releasable", k>>}
    BY <2>1, <2>2, <2>3, Releasing
  <2>6. allocated[m] # 0
    <3>1. Cardinality(Claims(m)) # 0
      BY <2>5, FS_EmptySet DEF Backed
    <3>2. Cardinality(Claims(m)) \in Nat
      BY FS_CardinalityType DEF Backed
    <3> QED
      BY <3>1, <3>2 DEF Backed, TypeOK, PlacementTypeOK
  <2>7. allocated' = [allocated EXCEPT ![m] = @ - 1]
    BY <1>8, <2>1, <2>6 DEF DeleteRelease, Release
  <2>8. Ledger!GiveBack(m)
    BY <2>1, <2>4, <2>5, <2>7, ChangesOn DEF Ledger!GiveBack
  <2> QED
    BY <2>1, <2>8 DEF Ledger!Next
<1>9. CASE DeleteMapping(r)
  BY <1>9, AnswerStep DEF DeleteMapping
<1> QED
  BY <1>1, <1>3, <1>4, <1>5, <1>6, <1>7, <1>8, <1>9 DEF DeleteStep

\* One step of the server, seen on the ledger.
LEMMA LedgerStep ==
  TypeOK /\ HandlerInv /\ Backed /\ [Next]_vars
    => [Ledger!Next]_(Ledger!ledgerVars)
<1> SUFFICES ASSUME TypeOK, HandlerInv, Backed, [Next]_vars
             PROVE  [Ledger!Next]_(Ledger!ledgerVars)
  OBVIOUS
<1>1. ASSUME NEW r \in Requests, LookupNotFound(r) \/ GetNotFound(r) \/ Fail(r)
      PROVE  [Ledger!Next]_(Ledger!ledgerVars)
  BY <1>1, AnswerStep DEF LookupNotFound, GetNotFound, Fail
<1>2. CASE UNCHANGED vars
  BY <1>2
     DEF vars, requestVars, Ledger!ledgerVars, Claims, Live, Holding,
         Releasable, Deleter, ApplyExists
<1> QED
  BY <1>1, <1>2, CreateLedger, UpdateLedger, DeleteLedger DEF Next, Step

\* Without documents there are no claims.
LEMMA LedgerInit == Init => Ledger!Init
<1> SUFFICES ASSUME Init PROVE Ledger!Init
  OBVIOUS
<1>1. \A m \in MgmtClusters : Live(m) = {} /\ Holding(m) = {} /\
        Releasable(m) = {}
  BY DEF Init, DesiresInit, Live, Holding, Releasable, ApplyExists
<1>2. \A m \in MgmtClusters : Claims(m) = {}
  BY <1>1 DEF Claims
<1> QED
  BY <1>2 DEF Ledger!Init, Init, PlacementInit

-----------------------------------------------------------------------------
(* The ledger never has more claims than slots, nor more slots than capacity.*)

\* A set grows by at most one with one more element.
LEMMA AddOne ==
  ASSUME NEW C, IsFiniteSet(C), NEW c
  PROVE  /\ IsFiniteSet(C \cup {c})
         /\ Cardinality(C \cup {c}) <= Cardinality(C) + 1
<1>1. Cardinality(C) \in Nat
  BY FS_CardinalityType
<1>2. /\ IsFiniteSet(C \cup {c})
      /\ \/ Cardinality(C \cup {c}) = Cardinality(C)
         \/ Cardinality(C \cup {c}) = Cardinality(C) + 1
  BY FS_AddElement
<1> QED
  BY <1>1, <1>2

\* Backed for one management cluster, of the ledger's own state.
LEMMA CardinalityStep ==
  ASSUME NEW C, NEW D, NEW n \in Nat, NEW n2 \in Nat,
         IsFiniteSet(C), Cardinality(C) <= n,
         \/ D \subseteq C /\ n2 = n
         \/ n2 = n + 1 /\ \E c : D = C \cup {c}
         \/ n2 = n /\ \E c \in C : \E d : D \subseteq (C \ {c}) \cup {d}
         \/ n2 = n - 1 /\ \E c \in C : D = C \ {c}
  PROVE  IsFiniteSet(D) /\ Cardinality(D) <= n2
<1>1. Cardinality(C) \in Nat
  BY FS_CardinalityType
<1>2. CASE D \subseteq C /\ n2 = n
  BY <1>1, <1>2, FS_Subset, FS_CardinalityType
<1>3. CASE n2 = n + 1 /\ \E c : D = C \cup {c}
  <2>1. PICK c : D = C \cup {c}
    BY <1>3
  <2>2. IsFiniteSet(D) /\ Cardinality(D) <= Cardinality(C) + 1
    BY <2>1, AddOne
  <2>3. Cardinality(D) \in Nat
    BY <2>2, FS_CardinalityType
  <2> QED
    BY <1>1, <1>3, <2>2, <2>3
<1>4. CASE n2 = n /\ \E c \in C : \E d : D \subseteq (C \ {c}) \cup {d}
  <2>0. PICK c \in C : \E d : D \subseteq (C \ {c}) \cup {d}
    BY <1>4
  <2>1. PICK d : D \subseteq (C \ {c}) \cup {d}
    BY <2>0
  <2>2. IsFiniteSet(C \ {c}) /\ Cardinality(C \ {c}) = Cardinality(C) - 1
    BY FS_RemoveElement
  <2>3. /\ IsFiniteSet((C \ {c}) \cup {d})
        /\ Cardinality((C \ {c}) \cup {d}) <= Cardinality(C)
    <3>1. Cardinality((C \ {c}) \cup {d}) <= Cardinality(C \ {c}) + 1
      BY <2>2, AddOne
    <3>2. IsFiniteSet((C \ {c}) \cup {d})
      BY <2>2, AddOne
    <3>3. Cardinality((C \ {c}) \cup {d}) \in Nat
      BY <3>2, FS_CardinalityType
    <3> QED
      BY <1>1, <2>2, <3>1, <3>2, <3>3
  <2>4. /\ IsFiniteSet(D)
        /\ Cardinality(D) <= Cardinality((C \ {c}) \cup {d})
    BY <2>1, <2>3, FS_Subset
  <2>5. Cardinality(D) \in Nat /\ Cardinality((C \ {c}) \cup {d}) \in Nat
    BY <2>3, <2>4, FS_CardinalityType
  <2> QED
    BY <1>1, <1>4, <2>3, <2>4, <2>5
<1>5. CASE n2 = n - 1 /\ \E c \in C : D = C \ {c}
  <2>1. PICK c \in C : D = C \ {c}
    BY <1>5
  <2>2. IsFiniteSet(D) /\ Cardinality(D) = Cardinality(C) - 1
    BY <2>1, FS_RemoveElement
  <2> QED
    BY <1>1, <1>5, <2>2
<1> QED
  BY <1>2, <1>3, <1>4, <1>5

\* A step of the ledger keeps every claim backed by a slot.
LEMMA LedgerSafe ==
  ASSUME TypeOK, TypeOK', Backed, [Ledger!Next]_(Ledger!ledgerVars)
  PROVE  Backed'
<1>1. ASSUME NEW n \in MgmtClusters
      PROVE  allocated[n] \in Nat /\ allocated'[n] \in Nat /\
               Capacity[n] \in Nat
  BY DEF TypeOK, PlacementTypeOK
<1>2. CASE UNCHANGED Ledger!ledgerVars
  <2>1. \A n \in MgmtClusters : Claims(n)' = Claims(n) /\
          allocated'[n] = allocated[n]
    BY <1>2 DEF Ledger!ledgerVars
  <2> QED
    BY <2>1 DEF Backed
<1>3. ASSUME NEW m \in MgmtClusters,
             Ledger!Reserve(m) \/ Ledger!HandOver(m) \/ Ledger!Forfeit(m)
               \/ Ledger!GiveBack(m)
      PROVE  Backed'
  <2>1. \A n \in MgmtClusters \ {m} :
          Claims(n)' = Claims(n) /\ allocated'[n] = allocated[n]
    BY <1>3
       DEF Ledger!Reserve, Ledger!HandOver, Ledger!Forfeit, Ledger!GiveBack,
           Ledger!ClaimsOn, TypeOK, PlacementTypeOK
  <2>2. \/ Claims(m)' \subseteq Claims(m) /\ allocated'[m] = allocated[m]
        \/ allocated'[m] = allocated[m] + 1 /\ allocated[m] < Capacity[m]
             /\ \E c : Claims(m)' = Claims(m) \cup {c}
        \/ allocated'[m] = allocated[m]
             /\ \E c \in Claims(m) : \E d :
                  Claims(m)' \subseteq (Claims(m) \ {c}) \cup {d}
        \/ allocated'[m] = allocated[m] - 1
             /\ \E c \in Claims(m) : Claims(m)' = Claims(m) \ {c}
    <3>1. CASE Ledger!Reserve(m)
      BY <3>1 DEF Ledger!Reserve, TypeOK, PlacementTypeOK
    <3>2. CASE Ledger!HandOver(m)
      BY <3>2 DEF Ledger!HandOver
    <3>3. CASE Ledger!Forfeit(m)
      BY <3>3 DEF Ledger!Forfeit
    <3>4. CASE Ledger!GiveBack(m)
      BY <3>4 DEF Ledger!GiveBack, TypeOK, PlacementTypeOK
    <3> QED
      BY <1>3, <3>1, <3>2, <3>3, <3>4
  <2>3. IsFiniteSet(Claims(m)') /\ Cardinality(Claims(m)') <= allocated'[m]
    BY <1>1, <2>2, CardinalityStep DEF Backed
  <2>4. allocated'[m] <= Capacity[m]
    BY <1>1, <2>2 DEF Backed
  <2> QED
    BY <2>1, <2>3, <2>4 DEF Backed
<1> QED
  BY <1>2, <1>3 DEF Ledger!Next

\* Without documents there is nothing to back.
LEMMA BackedInit == Init => Backed
<1> SUFFICES ASSUME Init, NEW m \in MgmtClusters
             PROVE  /\ IsFiniteSet(Claims(m))
                    /\ Cardinality(Claims(m)) <= allocated[m]
                    /\ allocated[m] <= Capacity[m]
  BY DEF Backed
<1>1. Claims(m) = {}
  BY LedgerInit DEF Ledger!Init
<1>2. allocated[m] = 0 /\ Capacity[m] \in Nat
  BY DEF Init, PlacementInit
<1> QED
  BY <1>1, <1>2, FS_EmptySet

-----------------------------------------------------------------------------
(* The theorems. *)

\* The inductive invariant.
IInv == TypeOK /\ HandlerInv /\ Backed

\* The inductive invariant, from the four parts above.
LEMMA Inductive == Init /\ [][Next]_vars => []IInv
<1>1. Init => IInv
  BY TypeInit, HandlerInit, BackedInit DEF IInv
<1>2. IInv /\ [Next]_vars => IInv'
  BY TypeStep, HandlerStep, LedgerStep, LedgerSafe DEF IInv
<1> QED
  BY <1>1, <1>2, PTL

\* Every behaviour of the handlers is a behaviour of the ledger of slots:
\* Allocate reserves, Release gives back, and whatever lies between them, in
\* however many requests and however they fail, moves or forfeits claims.
THEOREM Refinement == Spec => ImplementsLedger
<1>1. Init => Ledger!Init
  BY LedgerInit
<1>2. IInv /\ [Next]_vars => [Ledger!Next]_(Ledger!ledgerVars)
  BY LedgerStep DEF IInv
<1> QED
  BY <1>1, <1>2, Inductive, PTL DEF Spec, ImplementsLedger, Ledger!Spec

\* The placement counter never undercounts and never exceeds the capacity.
THEOREM SlotsAccounted == Spec => []SlotAccounting
<1>1. IInv => SlotAccounting
  BY DEF IInv, Backed, SlotAccounting
<1> QED
  BY <1>1, Inductive, PTL DEF Spec

\* No management cluster is told to run more hosted clusters than it has
\* capacity for.
THEOREM NeverOvercommitted == Spec => []NoOvercommit
<1>1. ASSUME IInv, NEW m \in MgmtClusters
      PROVE  Cardinality(Live(m)) <= Capacity[m]
  <2>1. Live(m) \subseteq Clusters
    BY DEF Live
  <2>2. IsFiniteSet(Live(m))
    BY <2>1, FS_Subset
  <2>3. IsFiniteSet(Claims(m)) /\ Cardinality(Claims(m)) <= allocated[m]
          /\ allocated[m] <= Capacity[m]
    BY <1>1 DEF IInv, Backed
  <2> DEFINE claim == [k \in Live(m) |-> <<"live", k>>]
  <2>4. claim \in Injection(Live(m), Claims(m))
    BY DEF Injection, IsInjective, Claims
  <2>5. Cardinality(Live(m)) <= Cardinality(Claims(m))
    BY <2>3, <2>4, FS_Injection
  <2>6. Capacity[m] \in Nat /\ allocated[m] \in Nat
    BY <1>1 DEF IInv, TypeOK, PlacementTypeOK
  <2>7. Cardinality(Live(m)) \in Nat /\ Cardinality(Claims(m)) \in Nat
    BY <2>2, <2>3, FS_CardinalityType
  <2> QED
    BY <2>3, <2>5, <2>6, <2>7
<1>2. IInv => NoOvercommit
  BY <1>1 DEF NoOvercommit
<1> QED
  BY <1>2, Inductive, PTL DEF Spec

\* Only the Delete that wrote the DeleteDesire releases, and finds the slot it
\* gives back counted.
THEOREM SlotsReleasedOnce == Spec => []ReleasedOnce
<1>1. ASSUME IInv, NEW r \in Requests, pc[r] = "release"
      PROVE  /\ key[r] \in deleteDesires[mc[r]]
             /\ allocated[mc[r]] > 0
             /\ \A s \in Requests \ {r} :
                  Deleter(s, mc[r], key[r]) => ~Winner(s)
  <2>1. PICK m \in MgmtClusters : m = mc[r]
    BY <1>1 DEF IInv, TypeOK, RequestsTypeOK
  <2>2. key[r] \in Clusters /\ Deleter(r, m, key[r])
    BY <1>1, <2>1 DEF IInv, TypeOK, RequestsTypeOK, Deleter
  <2>3. key[r] \in Releasable(m)
    BY <1>1, <2>2 DEF Releasable
  <2>4. <<"releasable", key[r]>> \in Claims(m)
    BY <2>3 DEF Claims
  <2>5. /\ Cardinality(Claims(m)) # 0
        /\ Cardinality(Claims(m)) \in Nat
    BY <1>1, <2>4, FS_EmptySet, FS_CardinalityType DEF IInv, Backed
  <2>6. allocated[m] > 0
    BY <1>1, <2>5 DEF IInv, Backed, TypeOK, PlacementTypeOK
  <2> QED
    BY <1>1, <2>1, <2>6 DEF IInv, HandlerInv, Winner, Deleter
<1>2. IInv => ReleasedOnce
  BY <1>1 DEF ReleasedOnce, Winner
<1> QED
  BY <1>2, Inductive, PTL DEF Spec
=============================================================================
