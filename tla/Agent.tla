-------------------------------- MODULE Agent --------------------------------
(***************************************************************************)
(* The kube-applier agents, one on each management cluster, and the status *)
(* databases they write.  The agent is not in this repository: this is     *)
(* what design-decisions/firestore-kube-applier-integration.md promises of *)
(* it and the handlers of the API rely on.                                 *)
(*                                                                         *)
(* An agent may be down, late, or do again what it has done: its actions   *)
(* are enabled by what is in the specs database and nothing makes it take  *)
(* one.  It acts on the documents as they are, and no object is refused.   *)
(***************************************************************************)
EXTENDS Desires

CONSTANT NoContent          \* a ReadDesire in the status database that has no
                            \* kubeContent: the object does not exist

ASSUME AgentAssumption == NoContent \notin Requests \cup {NoDoc}

VARIABLES object,           \* version of each hosted cluster in Kubernetes
          applyStatus,      \* status databases: version each ApplyDesire says
                            \* was applied
          readStatus        \* ... version each ReadDesire mirrors

statusVars == <<applyStatus, readStatus>>
agentVars == <<object, statusVars>>

Versions == Requests \cup {NoDoc}

AgentTypeOK ==
  /\ object \in [MgmtClusters -> [Clusters -> Versions]]
  /\ applyStatus \in [MgmtClusters -> [Clusters -> Versions]]
  /\ readStatus \in [MgmtClusters -> [Clusters -> Versions \cup {NoContent}]]

AgentInit ==
  LET nothing == [m \in MgmtClusters |-> [k \in Clusters |-> NoDoc]]
  IN object = nothing /\ applyStatus = nothing /\ readStatus = nothing

-----------------------------------------------------------------------------

\* The object is applied and the outcome reported.  Kubernetes takes no object
\* into a namespace that does not exist.
AgentApply(m, k) ==
  /\ ApplyExists(m, k)
  /\ NamespaceOf[k] \in nsDesires[m]
  /\ object' = [object EXCEPT ![m][k] = applyDesires[m][k]]
  /\ applyStatus' = [applyStatus EXCEPT ![m][k] = applyDesires[m][k]]
  /\ UNCHANGED readStatus

AgentMirror(m, k) ==
  /\ k \in readDesires[m]
  /\ readStatus' = [readStatus EXCEPT ![m][k] =
                      IF object[m][k] = NoDoc THEN NoContent ELSE object[m][k]]
  /\ UNCHANGED <<object, applyStatus>>

AgentDelete(m, k) ==
  /\ k \in deleteDesires[m]
  /\ object' = [object EXCEPT ![m][k] = NoDoc]
  /\ UNCHANGED statusVars

\* Only once the object is gone.
AgentCleanUp(m, k) ==
  /\ k \in deleteDesires[m]
  /\ object[m][k] = NoDoc
  /\ applyStatus' = [applyStatus EXCEPT ![m][k] = NoDoc]
  /\ readStatus' = [readStatus EXCEPT ![m][k] = NoDoc]
  /\ UNCHANGED object

AgentStep(m, k) ==
  \/ AgentApply(m, k) \/ AgentMirror(m, k)
  \/ AgentDelete(m, k) \/ AgentCleanUp(m, k)
=============================================================================
