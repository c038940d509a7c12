----------------------------- MODULE SlotLedger -----------------------------
(***************************************************************************)
(* What the placement counters promise: a management cluster has a number  *)
(* of slots in use, never more than its capacity, and everything that      *)
(* counts on being placed there is a claim backed by a slot of its own.    *)
(* Slots are reserved before a claim is made and given back together with  *)
(* a claim; between the two a claim may change hands, and it may be        *)
(* forfeited, which leaves a slot in use that nothing claims.              *)
(*                                                                         *)
(* ClusterAPI implements this specification.                               *)
(***************************************************************************)
EXTENDS Naturals, FiniteSets

CONSTANTS MgmtClusters,     \* whose slots these are
          Capacity,         \* how many slots each has
          Claimants         \* what may claim a slot

VARIABLES slots,            \* the slots in use of each management cluster
          claims            \* the claims backed by them

ledgerVars == <<slots, claims>>

Init ==
  /\ slots = [m \in MgmtClusters |-> 0]
  /\ claims = [m \in MgmtClusters |-> {}]

\* Only the claims on m change.
ClaimsOn(m) ==
  /\ claims' \in [MgmtClusters -> SUBSET Claimants]
  /\ \A n \in MgmtClusters \ {m} : claims'[n] = claims[n]

Reserve(m) ==
  /\ slots[m] < Capacity[m]
  /\ slots' = [slots EXCEPT ![m] = @ + 1]
  /\ ClaimsOn(m)
  /\ \E c \in Claimants : claims'[m] = claims[m] \cup {c}

\* One claim takes the place of another; others may be forfeited with it.
HandOver(m) ==
  /\ UNCHANGED slots
  /\ ClaimsOn(m)
  /\ \E c \in claims[m], d \in Claimants :
       claims'[m] \subseteq (claims[m] \ {c}) \cup {d}

Forfeit(m) ==
  /\ UNCHANGED slots
  /\ ClaimsOn(m)
  /\ claims'[m] \subseteq claims[m]

GiveBack(m) ==
  /\ slots' = [slots EXCEPT ![m] = @ - 1]
  /\ ClaimsOn(m)
  /\ \E c \in claims[m] : claims'[m] = claims[m] \ {c}

Next ==
  \E m \in MgmtClusters : Reserve(m) \/ HandOver(m) \/ Forfeit(m) \/ GiveBack(m)

Spec == Init /\ [][Next]_ledgerVars
=============================================================================
