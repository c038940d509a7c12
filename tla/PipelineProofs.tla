--------------------------- MODULE PipelineProofs ---------------------------
(***************************************************************************)
(* Proofs about Pipeline: the handlers that change state, the ones that    *)
(* read, and the agents, for every fleet, set of requests and readers and  *)
(* every interleaving and failure. Pipeline implements ClusterAPI, so all  *)
(* that is proved of ClusterAPI holds among agents and readers too;        *)
(* besides, nothing runs that no desire asks for, a List leaves out        *)
(* nothing it owes, and a 404 is true.                                     *)
(*                                                                         *)
(* What the agents and readers need to know of the handlers is Writers: a  *)
(* mapping is found by a Delete before its documents go, and the           *)
(* ApplyDesire goes before the DeleteDesire comes. PipelineInv is the      *)
(* inductive invariant: the one of ClusterAPI (DocumentInv), and what the  *)
(* agents hold and the readers may rely on (AroundInv), each kept by the   *)
(* steps of the handlers, of the agents and of the readers.                *)
(***************************************************************************)
EXTENDS Pipeline, DocumentProofs

USE FleetAssumption, PlacementAssumption, DesiresAssumption, APIAssumption,
    AgentAssumption, PipelineAssumption
USE DEF CreateSteps, UpdateSteps, DeleteSteps, PlacedSteps, Codes,
        placementVars, desireVars, statusVars, agentVars, readerVars

-----------------------------------------------------------------------------
(* The handlers among agents and readers *)

\* Agents and readers leave the variables of the handlers alone.
LEMMA WriterNext == [PipelineNext]_pipelineVars => [Next]_vars
BY DEF PipelineNext, pipelineVars, WriterStep, Next

\* For all constants: the handlers among agents and readers behave as
\* ClusterAPI says they do.
THEOREM PipelineIsClusterAPI == PipelineSpec => Spec
<1>1. PipelineInit => Init
  BY DEF PipelineInit
<1> QED
  BY <1>1, WriterNext, PTL DEF PipelineSpec, Spec

\* So the invariant of ClusterAPI holds.
LEMMA WritersInductive == PipelineSpec => []DocumentInv
<1>1. Spec => Init /\ [][Next]_vars
  BY DEF Spec
<1> QED
  BY <1>1, PipelineIsClusterAPI, DocumentInductive, PTL

-----------------------------------------------------------------------------
(* What the writers do to the agents and readers *)

\* A DeleteDesire comes from a Delete that has found a mapping.
DoomedInv == \A m \in MgmtClusters : \A k \in deleteDesires[m] : Deleting(k)

\* What a step of a handler may do to the documents of a hosted cluster.
Writers ==
  /\ \A k \in Clusters : Deleting(k) => Deleting(k)'
  /\ \A m \in MgmtClusters, k \in Clusters :
       /\ k \in deleteDesires[m] => k \in deleteDesires'[m]
       /\ k \in deleteDesires'[m] => k \in deleteDesires[m] \/ Deleting(k)
       /\ ApplyExists(m, k) =>
            ApplyExists(m, k)' \/ (Deleting(k) /\ HalfDeleted(m, k)')
       /\ HalfDeleted(m, k) => HalfDeleted(m, k)' \/ k \in deleteDesires'[m]

\* DeleteDesires are only added, by a Delete that has found a mapping.
LEMMA WritersDelete ==
  ASSUME TypeOK, RequestInv, [Next]_vars
  PROVE  \A m \in MgmtClusters, k \in Clusters :
           /\ k \in deleteDesires[m] => k \in deleteDesires'[m]
           /\ k \in deleteDesires'[m] => k \in deleteDesires[m] \/ Deleting(k)
<1>1. ASSUME NEW r \in Requests, CreateDeleteDesire(r),
             NEW m \in MgmtClusters, NEW k \in Clusters
      PROVE  /\ k \in deleteDesires[m] => k \in deleteDesires'[m]
             /\ k \in deleteDesires'[m] => k \in deleteDesires[m] \/ Deleting(k)
  <2>1. mc[r] \in MgmtClusters /\ op[r] = "Delete"
    BY <1>1, Placed DEF CreateDeleteDesire, RequestInv
  <2> QED
    BY <1>1, <2>1, CreateDeleteStep DEF Deleting
<1>2. ASSUME UNCHANGED deleteDesires
      PROVE  \A m \in MgmtClusters, k \in Clusters :
               /\ k \in deleteDesires[m] => k \in deleteDesires'[m]
               /\ k \in deleteDesires'[m] =>
                    k \in deleteDesires[m] \/ Deleting(k)
  BY <1>2
<1>3. ASSUME NEW r \in Requests, QuietAction(r) PROVE UNCHANGED deleteDesires
  BY <1>3, QuietStep
<1> QED
  BY <1>1, <1>2, <1>3, StepCases, AllocateStep, NamespaceStep, CreateApplyStep,
     CreateReadStep, MappingStep, ReplaceStep, DeleteApplyStep, DeleteReadStep,
     ReleaseStep, UnmapStep
     DEF vars

\* A Delete that has taken the ApplyDesire away writes the DeleteDesire,
\* finds it written, or fails and stays half done.
LEMMA WritersHalf ==
  ASSUME TypeOK, RequestInv, HandlerInv, [Next]_vars,
         NEW m \in MgmtClusters, NEW k \in Clusters, HalfDeleted(m, k)
  PROVE  HalfDeleted(m, k)' \/ k \in deleteDesires'[m]
<1>1. PICK d \in Requests : /\ op[d] = "Delete" /\ Deleter(d, m, k)
                            /\ pc[d] \in {"delete_read", "create_delete"} \/
                                 code[d] = 500
  BY DEF HalfDeleted
<1>2. op'[d] = "Delete" /\ Deleter(d, m, k)'
  BY <1>1, GoForward DEF Forward, Deleter
<1>3. CASE code[d] = 500
  <2>1. pc[d] = "done"
    BY <1>3 DEF RequestInv
  <2>2. code'[d] = 500
    BY <1>3, <2>1, GoForward DEF Forward
  <2> QED
    BY <1>2, <2>2 DEF HalfDeleted
<1>4. CASE pc[d] \in {"delete_read", "create_delete"}
  <2>1. \/ pc'[d] \in {"delete_read", "create_delete"} \/ code'[d] = 500
        \/ k \in deleteDesires'[m]
    <3>1. ASSUME NEW r \in Requests, OthersStay(r), r # d
          PROVE  pc'[d] \in {"delete_read", "create_delete"}
      BY <1>4, <3>1 DEF OthersStay
    <3>2. CASE QuietAction(d)
      <4>1. Fail(d) \/ CreateDeleteConflict(d)
        BY <1>4, <3>2
           DEF QuietAction, CreateLookup, CreateNoCapacity,
               CreateApplyConflict, CreateReadConflict, UpdateLookup,
               UpdateGet, UpdateConflict, DeleteLookup, DeleteGet,
               LookupNotFound, GetNotFound, Admitted
      <4>2. CASE Fail(d)
        BY <4>2 DEF Fail, Answer, TypeOK, RequestsTypeOK
      <4>3. CASE CreateDeleteConflict(d)
        BY <1>1, <4>3 DEF CreateDeleteConflict, Deleter
      <4> QED
        BY <4>1, <4>2, <4>3
    <3>3. ASSUME NEW r \in Requests, QuietAction(r), r # d
          PROVE  pc'[d] \in {"delete_read", "create_delete"}
      BY <3>1, <3>3, QuietStep
    <3>4. CASE UNCHANGED vars
      BY <1>4, <3>4 DEF vars, requestVars
    <3>5. CASE CreateDeleteDesire(d)
      <4>1. \A n \in MgmtClusters : deleteDesires'[n] =
              IF n = mc[d] THEN deleteDesires[n] \cup {key[d]}
                ELSE deleteDesires[n]
        BY <3>5, CreateDeleteStep
      <4> QED
        <5>1. mc[d] = m /\ key[d] = k
          BY <1>1 DEF Deleter
        <5>2. deleteDesires'[m] = deleteDesires[m] \cup {k}
          BY <4>1, <5>1
        <5> QED
          BY <5>2
    <3>6. CASE DeleteReadDesire(d)
      BY <3>6, DeleteReadStep DEF Row
    <3>7. ~(\/ CreateAllocate(d) \/ CreateNamespace(d) \/ CreateApplyDesire(d)
            \/ CreateReadDesire(d) \/ CreateMapping(d) \/ UpdateReplace(d)
            \/ DeleteApplyDesire(d) \/ DeleteRelease(d) \/ DeleteMapping(d))
      BY <1>4
         DEF CreateAllocate, CreateNamespace, CreateApplyDesire,
             CreateReadDesire, CreateMapping, UpdateReplace, DeleteApplyDesire,
             DeleteRelease, DeleteMapping
    <3>8. ASSUME NEW r \in Requests,
                 \/ CreateAllocate(r) \/ CreateNamespace(r) \/
                      CreateApplyDesire(r)
                 \/ CreateReadDesire(r) \/ CreateMapping(r) \/ UpdateReplace(r)
                 \/ DeleteApplyDesire(r) \/ DeleteReadDesire(r) \/
                      CreateDeleteDesire(r)
                 \/ DeleteRelease(r) \/ DeleteMapping(r)
          PROVE  OthersStay(r)
      BY <3>8, AllocateStep, NamespaceStep, CreateApplyStep, CreateReadStep,
         MappingStep, ReplaceStep, DeleteApplyStep, DeleteReadStep,
         CreateDeleteStep, ReleaseStep, UnmapStep
    <3> QED
      BY <3>1, <3>2, <3>3, <3>4, <3>5, <3>6, <3>7, <3>8, StepCases
  <2> QED
    BY <1>2, <2>1 DEF HalfDeleted
<1> QED
  BY <1>1, <1>3, <1>4
\* All of Writers, for every step.
LEMMA WritersStep ==
  ASSUME TypeOK, RequestInv, HandlerInv, [Next]_vars
  PROVE  Writers
<1>1. \A k \in Clusters : Deleting(k) => Deleting(k)'
  BY GoForward DEF Deleting, Forward
<1>2. ASSUME NEW m \in MgmtClusters, NEW k \in Clusters, ApplyExists(m, k),
             ~ApplyExists(m, k)'
      PROVE  Deleting(k) /\ HalfDeleted(m, k)'
  <2>1. PICK d \in Requests :
          Del(d, m, k) /\ pc[d] = "delete_apply" /\ pc'[d] = "delete_read"
    BY <1>2, OriginsStep DEF Origins
  <2>2. op'[d] = "Delete" /\ Deleter(d, m, k)'
    BY <2>1, GoForward DEF Forward, Del, Deleter
  <2>3. Deleting(k)
    BY <2>1 DEF Deleting, Del, Deleter
  <2> QED
    BY <2>1, <2>2, <2>3 DEF HalfDeleted
<1> QED
  BY <1>1, <1>2, WritersDelete, WritersHalf DEF Writers
-----------------------------------------------------------------------------
(* Types *)

\* The agent writes what the desires ask for into the cluster and the status
\* database.
LEMMA AgentTypeStep ==
  ASSUME TypeOK, AgentTypeOK, NEW m \in MgmtClusters, NEW k \in Clusters,
         AgentStep(m, k)
  PROVE  AgentTypeOK'
<1> USE DEF AgentTypeOK, Versions
<1>1. CASE AgentApply(m, k)
  BY <1>1 DEF AgentApply, TypeOK, DesiresTypeOK
<1>2. CASE AgentMirror(m, k)
  <2>1. object[m][k] \in Versions
    OBVIOUS
  <2> QED
    BY <1>2, <2>1 DEF AgentMirror
<1>3. CASE AgentDelete(m, k)
  BY <1>3 DEF AgentDelete
<1>4. CASE AgentCleanUp(m, k)
  BY <1>4 DEF AgentCleanUp
<1> QED
  BY <1>1, <1>2, <1>3, <1>4 DEF AgentStep

\* The steps of a Get past its lookup.
Readings == {"get_read", "get_apply", "get_spec"}

\* A Get past its lookup reads from a management cluster of the fleet.
ReaderLocation ==
  \A g \in Readers : rpc[g] \in Readings =>
    rmc[g] \in MgmtClusters /\ rkey[g] \in Clusters

\* The types of the readers, with that.
RTypeOK == ReadersTypeOK /\ ReaderLocation

\* A reader that goes on to a given step.
LEMMA ProceedType ==
  ASSUME ReadersTypeOK, NEW g \in Readers,
         NEW step \in
           {"idle", "get_read", "get_apply", "get_spec", "list", "answered"},
         Proceed(g, step)
  PROVE  /\ rpc' \in [Readers -> {"idle", "get_read", "get_apply", "get_spec",
                                  "list", "answered"}]
         /\ rpc'[g] = step
         /\ \A h \in Readers \ {g} : rpc'[h] = rpc[h]
         /\ UNCHANGED reply
BY DEF ReadersTypeOK, Proceed

\* A reader that answers.
LEMMA RespondType ==
  ASSUME ReadersTypeOK, NEW g \in Readers, NEW answer \in Reply,
         Respond(g, answer)
  PROVE  /\ rpc' \in [Readers -> {"idle", "get_read", "get_apply", "get_spec",
                                  "list", "answered"}]
         /\ reply' \in [Readers -> Reply]
         /\ rpc'[g] = "answered" /\ reply'[g] = answer
         /\ \A h \in Readers \ {g} : rpc'[h] = rpc[h] /\ reply'[h] = reply[h]
BY DEF ReadersTypeOK, Respond

\* What the handlers answer is a reply with the status they mean.
LEMMA Replies ==
  /\ \A c \in Codes : Status(c) \in Reply /\ Status(c).code = c
  /\ \A version, apply \in Versions : \A read :
       /\ Content(version, apply, read) \in Reply
       /\ Content(version, apply, read).code = 200
<1>1. NoReply \in Reply
  BY DEF NoReply, Reply, Versions
<1>2. ASSUME NEW c \in Codes PROVE Status(c) \in Reply /\ Status(c).code = c
  BY <1>1 DEF Status, Reply
<1>3. ASSUME NEW version \in Versions, NEW apply \in Versions, NEW read
      PROVE  /\ Content(version, apply, read) \in Reply
             /\ Content(version, apply, read).code = 200
  <2>1. (read # NoDoc) \in BOOLEAN
    OBVIOUS
  <2> QED
    BY <2>1 DEF Content, Reply
<1> QED
  BY <1>2, <1>3
\* Lookups, what they do not find, and the client that takes a reply.
LEMMA LookupSteps ==
  ASSUME TypeOK, AgentTypeOK, RTypeOK, NEW g \in Readers,
         \/ \E k \in Clusters : GetLookup(g, k) \/ ReadNotFound(g, k) \/
              GetKubeConfig(g, k)
         \/ Receive(g)
  PROVE  RTypeOK'
<1> USE DEF RTypeOK, ReadersTypeOK, ReaderLocation, Readings
<1>1. CASE Receive(g)
  <2>1. NoReply \in Reply
    BY Replies DEF NoReply, Reply, Versions
  <2> QED
    BY <1>1, <2>1 DEF Receive, Versions
<1>2. ASSUME NEW k \in Clusters, GetLookup(g, k) PROVE RTypeOK'
  <2>1. PICK m \in MgmtClusters : rmc' = [rmc EXCEPT ![g] = m]
    BY <1>2 DEF GetLookup
  <2>2. Proceed(g, "get_read")
    BY <1>2 DEF GetLookup
  <2> QED
    BY <1>2, <2>1, <2>2, ProceedType DEF GetLookup
<1>3. ASSUME NEW k \in Clusters, ReadNotFound(g, k) PROVE RTypeOK'
  BY <1>3, Replies, RespondType DEF ReadNotFound
<1>4. ASSUME NEW k \in Clusters, GetKubeConfig(g, k) PROVE RTypeOK'
  BY <1>4, Replies, RespondType DEF GetKubeConfig
<1> QED
  BY <1>1, <1>2, <1>3, <1>4

\* The three reads of a Get.
LEMMA GetSteps ==
  ASSUME TypeOK, AgentTypeOK, RTypeOK, NEW g \in Readers,
         GetStatusRead(g) \/ GetStatusApply(g) \/ GetSpec(g)
  PROVE  RTypeOK'
<1> USE DEF RTypeOK, ReadersTypeOK, ReaderLocation, Readings
<1>1. rmc[g] \in MgmtClusters /\ rkey[g] \in Clusters
  BY DEF GetStatusRead, GetStatusApply, GetSpec
<1>2. /\ readStatus[rmc[g]][rkey[g]] \in Versions \cup {NoContent}
      /\ applyStatus[rmc[g]][rkey[g]] \in Versions
      /\ applyDesires[rmc[g]][rkey[g]] \in Versions
  <2>1. \A m \in MgmtClusters, k \in Clusters :
          /\ readStatus[m][k] \in Versions \cup {NoContent}
          /\ applyStatus[m][k] \in Versions
          /\ applyDesires[m][k] \in Versions
    BY DEF AgentTypeOK, TypeOK, DesiresTypeOK, Versions
  <2> QED
    BY <1>1, <2>1
<1>3. CASE GetStatusRead(g)
  BY <1>2, <1>3, ProceedType DEF GetStatusRead
<1>4. CASE GetStatusApply(g)
  <2>1. ad' \in [Readers -> Versions] /\ ad'[g] \in Versions
    BY <1>2, <1>4 DEF GetStatusApply
  <2>2. CASE rd[g] \in {NoDoc, NoContent} /\ Proceed(g, "get_spec")
    BY <1>4, <2>1, <2>2, ProceedType DEF GetStatusApply
  <2>3. CASE rd[g] \notin {NoDoc, NoContent} /\
               Respond(g, Content(rd[g], ad'[g], rd[g]))
    <3>1. rd[g] \in Versions
      BY <2>3
    <3>2. Content(rd[g], ad'[g], rd[g]) \in Reply
      BY <2>1, <3>1, Replies
    <3> QED
      BY <1>4, <2>1, <2>3, <3>2, RespondType DEF GetStatusApply
  <2> QED
    BY <1>4, <2>2, <2>3 DEF GetStatusApply
<1>5. CASE GetSpec(g)
  <2> DEFINE answer == IF ApplyExists(rmc[g], rkey[g])
                       THEN Content(applyDesires[rmc[g]][rkey[g]], ad[g], rd[g])
                       ELSE Status(404)
  <2>1. answer \in Reply
    BY <1>2, Replies
  <2>2. Respond(g, answer)
    BY <1>5 DEF GetSpec
  <2> HIDE DEF answer
  <2> QED
    BY <1>5, <2>1, <2>2, RespondType DEF GetSpec
<1> QED
  BY <1>3, <1>4, <1>5

\* The steps of a List.
LEMMA ListSteps ==
  ASSUME RTypeOK, NEW g \in Readers, ListStep(g) \/ ReadFailed(g)
  PROVE  RTypeOK'
<1> USE DEF RTypeOK, ReadersTypeOK, ReaderLocation, Readings
<1>1. ASSUME NEW n \in Namespaces, ListStart(g, n) PROVE RTypeOK'
  <2>1. rest' \in [Readers -> SUBSET (MgmtClusters \X Clusters)]
    BY <1>1 DEF ListStart, ListClusterMappings
  <2>2. owed' \in [Readers -> SUBSET Clusters]
    BY <1>1, <2>1 DEF ListStart
  <2>3. Proceed(g, "list")
    BY <1>1 DEF ListStart
  <2> QED
    BY <1>1, <2>1, <2>2, <2>3, ProceedType DEF ListStart
<1>2. ASSUME NEW m \in MgmtClusters, NEW k \in Clusters,
             ListItem(g, m, k) \/ ListItemFailed(g, m, k)
      PROVE  RTypeOK'
  <2>1. NextOf(g, m, k) /\ Proceed(g, "list")
    BY <1>2 DEF ListItem, ListItemFailed, NextOf
  <2>2. rmc' \in [Readers -> MgmtClusters \cup {NoMC}] /\
          UNCHANGED <<rkey, rd, ad>>
        /\ \A h \in Readers \ {g} : rmc'[h] = rmc[h]
    BY <2>1 DEF NextOf
  <2>3. rest' \in [Readers -> SUBSET (MgmtClusters \X Clusters)]
    BY <1>2 DEF ListItem, ListItemFailed
  <2>4. items' \in [Readers -> SUBSET Clusters] /\
          owed' \in [Readers -> SUBSET Clusters]
    BY <1>2 DEF ListItem, ListItemFailed
  <2> QED
    BY <2>1, <2>2, <2>3, <2>4, ProceedType
<1>3. CASE ListDone(g)
  BY <1>3, Replies, RespondType DEF ListDone
<1>4. CASE ReadFailed(g)
  BY <1>4, Replies, RespondType DEF ReadFailed
<1> QED
  BY <1>1, <1>2, <1>3, <1>4 DEF ListStep

\* Every step of a reader keeps its types.
LEMMA ReaderTypeStep ==
  ASSUME TypeOK, AgentTypeOK, RTypeOK, NEW g \in Readers, ReaderStep(g)
  PROVE  RTypeOK'
BY LookupSteps, GetSteps, ListSteps DEF ReaderStep, GetStep
-----------------------------------------------------------------------------
(* What the agents hold, and what readers may rely on *)

\* What is mirrored exists, unless it was to be deleted.
ContentInv ==
  \A m \in MgmtClusters, k \in Clusters :
    HasContent(m, k) => object[m][k] # NoDoc \/ k \in deleteDesires[m]

\* What a Get goes on to read is asked for, unless it is deleted.
GetInv ==
  \A g \in Readers : rpc[g] \in Readings =>
    ApplyExists(rmc[g], rkey[g]) \/ Deleting(rkey[g])

\* A List has found k, or still has a mirror of it to read.
Found(g, k) ==
  \/ k \in items[g]
  \/ \E m \in MgmtClusters : <<m, k>> \in rest[g]

\* A List still has to go through, or has found, what it owes.
Listed(g) ==
  /\ rpc[g] = "list" => \A k \in owed[g] :
       /\ Found(g, k) \/ Deleting(k)
       /\ \A m \in MgmtClusters :
            <<m, k>> \in rest[g] => HasContent(m, k) \/ Deleting(k)
  /\ rpc[g] = "answered" /\ reply[g].code = 200 =>
       \A k \in owed[g] \ items[g] : Deleting(k)
  /\ rpc[g] \notin {"list", "answered"} => owed[g] = {}

\* So it is of every reader.
ListInv == \A g \in Readers : Listed(g)

\* The inductive invariant.
PipelineInv ==
  /\ DocumentInv /\ AgentTypeOK /\ RTypeOK
  /\ NoOrphans /\ DoomedInv /\ ContentInv /\ GetInv /\ ListInv

\* A step of a handler keeps what the agents hold and the readers rely on.
LEMMA InvWriters ==
  ASSUME PipelineInv, [Next]_vars, UNCHANGED <<agentVars, readerVars>>
  PROVE  /\ AgentTypeOK' /\ RTypeOK' /\ NoOrphans' /\ DoomedInv'
         /\ ContentInv' /\ GetInv' /\ ListInv'
<1>1. Writers /\ TypeOK
  BY WritersStep DEF PipelineInv, DocumentInv
<1>2. AgentTypeOK' /\ RTypeOK'
  BY DEF PipelineInv, AgentTypeOK, RTypeOK, ReadersTypeOK, ReaderLocation
<1>3. NoOrphans'
  BY <1>1 DEF PipelineInv, NoOrphans, Writers
<1>4. DoomedInv'
  <2>1. deleteDesires' \in [MgmtClusters -> SUBSET Clusters]
    BY <1>1, TypeStep DEF TypeOK, DesiresTypeOK
  <2> QED
    BY <1>1, <2>1 DEF PipelineInv, DoomedInv, Writers
<1>5. ContentInv'
  BY <1>1 DEF PipelineInv, ContentInv, HasContent, Writers
<1>6. GetInv'
  <2>1. ASSUME NEW g \in Readers, rpc[g] \in Readings
        PROVE  (ApplyExists(rmc[g], rkey[g]) \/ Deleting(rkey[g]))'
    <3>1. PICK m \in MgmtClusters, k \in Clusters : rmc[g] = m /\ rkey[g] = k
      BY <2>1 DEF PipelineInv, RTypeOK, ReaderLocation
    <3>2. ApplyExists(m, k) \/ Deleting(k)
      BY <2>1, <3>1 DEF PipelineInv, GetInv
    <3>3. (ApplyExists(m, k) \/ Deleting(k))'
      BY <1>1, <3>2 DEF Writers
    <3> QED
      BY <3>1, <3>3
  <2> QED
    BY <2>1 DEF GetInv
<1>7. ListInv'
  <2>1. \A g \in Readers : owed[g] \subseteq Clusters
    BY DEF PipelineInv, RTypeOK, ReadersTypeOK
  <2>2. \A k \in Clusters : Deleting(k) => Deleting(k)'
    BY <1>1 DEF Writers
  <2> QED
    BY <2>1, <2>2 DEF PipelineInv, ListInv, Listed, Found, HasContent
<1> QED
  BY <1>2, <1>3, <1>4, <1>5, <1>6, <1>7

\* What a step of an agent may do: apply what is asked for, remove what is to
\* be deleted, and mirror it.
LEMMA ByAgents ==
  ASSUME PipelineInv, NEW m \in MgmtClusters, NEW k \in Clusters,
         AgentStep(m, k),
         UNCHANGED vars
  PROVE  \A n \in MgmtClusters, l \in Clusters :
           /\ object'[n][l] # NoDoc => object[n][l] # NoDoc \/ ApplyExists(n, l)
           /\ object'[n][l] = NoDoc =>
                object[n][l] = NoDoc \/ l \in deleteDesires[n]
           /\ HasContent(n, l)' => HasContent(n, l) \/ object'[n][l] # NoDoc
           /\ HasContent(n, l) => HasContent(n, l)' \/ l \in deleteDesires[n]
<1> USE DEF AgentTypeOK, HasContent, ApplyExists, Versions
<1>1. AgentTypeOK
  BY DEF PipelineInv
<1>2. CASE AgentApply(m, k)
  BY <1>1, <1>2 DEF AgentApply
<1>3. CASE AgentMirror(m, k)
  <2>1. \A n \in MgmtClusters, l \in Clusters : readStatus'[n][l] =
          IF n = m /\ l = k THEN IF object[m][k] = NoDoc THEN NoContent
            ELSE object[m][k]
          ELSE readStatus[n][l]
    BY <1>1, <1>3 DEF AgentMirror
  <2>2. UNCHANGED object
    BY <1>3 DEF AgentMirror
  <2>3. HasContent(m, k) => object[m][k] # NoDoc \/ k \in deleteDesires[m]
    BY DEF PipelineInv, ContentInv
  <2>4. object[m][k] # NoDoc => object[m][k] \notin {NoDoc, NoContent}
    BY <1>1
  <2> QED
    BY <2>1, <2>2, <2>3, <2>4
<1>4. CASE AgentDelete(m, k)
  BY <1>1, <1>4 DEF AgentDelete
<1>5. CASE AgentCleanUp(m, k)
  BY <1>1, <1>5 DEF AgentCleanUp
<1> QED
  BY <1>2, <1>3, <1>4, <1>5 DEF AgentStep

\* So a step of an agent keeps it too.
LEMMA InvAgents ==
  ASSUME PipelineInv, NEW m \in MgmtClusters, NEW k \in Clusters,
         AgentStep(m, k),
         UNCHANGED <<vars, readerVars>>
  PROVE  /\ AgentTypeOK' /\ RTypeOK' /\ NoOrphans' /\ DoomedInv'
         /\ ContentInv' /\ GetInv' /\ ListInv'
<1>1. AgentTypeOK' /\ RTypeOK'
  BY AgentTypeStep
     DEF PipelineInv, DocumentInv, RTypeOK, ReadersTypeOK, ReaderLocation
<1>2. \A n \in MgmtClusters, l \in Clusters :
        /\ ApplyExists(n, l)' = ApplyExists(n, l)
        /\ HalfDeleted(n, l)' = HalfDeleted(n, l)
        /\ Deleting(l)' = Deleting(l)
  BY DEF vars, requestVars, ApplyExists, HalfDeleted, Deleter, Deleting
<1>3. UNCHANGED <<deleteDesires, applyDesires, op, key, mc>>
  BY DEF vars, requestVars
<1>4. NoOrphans'
  BY <1>2, <1>3, ByAgents DEF PipelineInv, NoOrphans
<1>5. DoomedInv'
  BY <1>3 DEF PipelineInv, DoomedInv, Deleting
<1>6. ContentInv'
  BY <1>3, ByAgents DEF PipelineInv, ContentInv
<1>7. GetInv'
  BY <1>3 DEF PipelineInv, GetInv, ApplyExists, Deleting
<1>8. ListInv'
  <2>1. \A g \in Readers : owed[g] \subseteq Clusters
    BY DEF PipelineInv, RTypeOK, ReadersTypeOK
  <2>2. \A l \in Clusters : Deleting(l)' = Deleting(l)
    BY <1>3 DEF Deleting
  <2>3. \A n \in MgmtClusters, l \in Clusters :
          HasContent(n, l) => HasContent(n, l)' \/ Deleting(l)
    BY ByAgents DEF PipelineInv, DoomedInv
  <2> QED
    BY <2>1, <2>2, <2>3 DEF PipelineInv, ListInv, Listed, Found
<1> QED
  BY <1>1, <1>4, <1>5, <1>6, <1>7, <1>8
\* What the readers see of the others while one of them takes a step.
LEMMA ByReaders ==
  ASSUME UNCHANGED <<vars, agentVars>>
  PROVE  /\ \A m \in MgmtClusters, k \in Clusters :
              /\ ApplyExists(m, k)' = ApplyExists(m, k)
              /\ HasContent(m, k)' = HasContent(m, k)
         /\ \A k : Deleting(k)' = Deleting(k)
BY DEF vars, requestVars, ApplyExists, HasContent, Deleting

\* A Get goes on from a lookup that found a mapping, which leads to an
\* ApplyDesire unless a Delete interferes.
LEMMA GetInvReaders ==
  ASSUME PipelineInv, NEW g \in Readers, ReaderStep(g),
         UNCHANGED <<vars, agentVars>>
  PROVE  GetInv'
<1> DEFINE Asked(m, k) == ApplyExists(m, k) \/ Deleting(k)
<1>1. /\ ReadersTypeOK /\ GetInv /\ MappingLeadsToDesire /\ ReaderLocation
  BY LeadingMappings DEF PipelineInv, RTypeOK
<1>2. \A m \in MgmtClusters, k \in Clusters : Asked(m, k)' = Asked(m, k)
  BY ByReaders
<1>3. ASSUME NEW h \in Readers, rpc[h] \in Readings, rmc'[h] = rmc[h],
             rkey'[h] = rkey[h]
      PROVE  Asked(rmc[h], rkey[h])'
  <2>1. PICK m \in MgmtClusters, k \in Clusters : rmc[h] = m /\ rkey[h] = k
    BY <1>1, <1>3 DEF ReaderLocation
  <2>2. Asked(m, k)
    BY <1>1, <1>3, <2>1 DEF GetInv
  <2>3. Asked(m, k)'
    BY <1>2, <2>2
  <2> QED
    BY <1>3, <2>1, <2>3
<1>4. ASSUME \A h \in Readers : rpc'[h] \in Readings =>
               rpc[h] \in Readings /\ rmc'[h] = rmc[h] /\ rkey'[h] = rkey[h]
      PROVE  GetInv'
  BY <1>3, <1>4 DEF GetInv
<1>5. ASSUME NEW k \in Clusters, GetLookup(g, k) PROVE GetInv'
  <2>1. PICK m \in MgmtClusters : GetClusterMapping(k, m) /\
          rmc' = [rmc EXCEPT ![g] = m]
    BY <1>5 DEF GetLookup
  <2>2. rkey' = [rkey EXCEPT ![g] = k] /\ \A h \in Readers \ {g} :
          rpc'[h] = rpc[h]
    BY <1>1, <1>5, ProceedType DEF GetLookup
  <2>3. Asked(m, k)
    <3>1. m # NoMC
      OBVIOUS
    <3> QED
      BY <1>1, <2>1, <3>1 DEF MappingLeadsToDesire, Deleter, Deleting
  <2>4. Asked(m, k)'
    BY <1>2, <2>3
  <2>5. rmc'[g] = m /\ rkey'[g] = k
    BY <1>1, <2>1, <2>2 DEF ReadersTypeOK
  <2>6. Asked(rmc[g], rkey[g])'
    BY <2>4, <2>5
  <2>7. \A h \in Readers \ {g} : rmc'[h] = rmc[h] /\ rkey'[h] = rkey[h]
    BY <1>1, <2>1, <2>2 DEF ReadersTypeOK
  <2> QED
    BY <1>3, <2>2, <2>6, <2>7 DEF GetInv
<1>6. CASE GetStatusRead(g) \/ GetStatusApply(g) \/ GetSpec(g)
  BY <1>1, <1>4, <1>6
     DEF GetStatusRead, GetStatusApply, GetSpec, Proceed, Respond,
         ReadersTypeOK, Readings
<1>7. CASE ListStep(g)
  <2>1. rpc'[g] \notin Readings /\ UNCHANGED rkey
        /\ \A h \in Readers \ {g} : rpc'[h] = rpc[h] /\ rmc'[h] = rmc[h]
    BY <1>1, <1>7
       DEF ListStep, ListStart, ListItem, ListItemFailed, NextOf, ListDone,
           Proceed, Respond, ReadersTypeOK, Readings
  <2> QED
    BY <1>4, <2>1
<1>8. CASE ReadFailed(g) \/ Receive(g)
        \/ \E k \in Clusters : ReadNotFound(g, k) \/ GetKubeConfig(g, k)
  <2>1. rpc'[g] \notin Readings /\ \A h \in Readers \ {g} :
          rpc'[h] = rpc[h] /\ rmc'[h] = rmc[h] /\ rkey'[h] = rkey[h]
    BY <1>1, <1>8
       DEF ReadFailed, Receive, ReadNotFound, GetKubeConfig, Respond,
           ReadersTypeOK, Readings
  <2> QED
    BY <1>4, <2>1
<1> QED
  BY <1>5, <1>6, <1>7, <1>8 DEF ReaderStep, GetStep

\* A List begins by owing what is mapped and mirrored, which is what it will
\* go through; it takes in what it reads, and a mirror that it misses was one
\* of a hosted cluster that a Delete has found.
LEMMA ListInvReaders ==
  ASSUME PipelineInv, NEW g \in Readers, ReaderStep(g),
         UNCHANGED <<vars, agentVars>>
  PROVE  ListInv'
<1>1. ReadersTypeOK /\ \A h \in Readers : Listed(h)
  BY DEF PipelineInv, RTypeOK, ListInv
<1>2. ASSUME NEW h \in Readers, rpc'[h] = rpc[h], reply'[h] = reply[h],
             rest'[h] = rest[h],
             items'[h] = items[h], owed'[h] = owed[h]
      PROVE  Listed(h)'
  <2>1. owed[h] \subseteq Clusters
    BY <1>1 DEF ReadersTypeOK
  <2> QED
    BY <1>1, <1>2, <2>1, ByReaders DEF Listed, Found
<1>3. ASSUME NEW h \in Readers \ {g}
      PROVE  /\ rpc'[h] = rpc[h] /\ reply'[h] = reply[h] /\ rest'[h] = rest[h]
             /\ items'[h] = items[h] /\ owed'[h] = owed[h]
  <2> USE <1>1 DEF ReadersTypeOK, Proceed, Respond
  <2>1. CASE GetStep(g)
    BY <2>1 DEF GetStep, GetLookup, GetStatusRead, GetStatusApply, GetSpec
  <2>2. CASE ListStep(g)
    BY <2>2 DEF ListStep, ListStart, ListItem, ListItemFailed, NextOf, ListDone
  <2>3. CASE ~GetStep(g) /\ ~ListStep(g)
    BY <2>3 DEF ReaderStep, ReadFailed, Receive, ReadNotFound, GetKubeConfig
  <2> QED
    BY <2>1, <2>2, <2>3
<1>4. ASSUME owed'[g] = {}, rpc'[g] # "list" PROVE Listed(g)'
  BY <1>4 DEF Listed
<1>5. ASSUME GetStep(g) \/ \E k \in Clusters : ReadNotFound(g, k) \/
             GetKubeConfig(g, k)
      PROVE  Listed(g)'
  <2>1. rpc[g] \notin {"list", "answered"} /\ UNCHANGED owed /\ rpc'[g] # "list"
    BY <1>1, <1>5
       DEF GetStep, GetLookup, GetStatusRead, GetStatusApply, GetSpec,
           ReadNotFound, GetKubeConfig, Proceed, Respond, ReadersTypeOK
  <2> QED
    BY <1>1, <1>4, <2>1 DEF Listed
<1>6. ASSUME Receive(g) PROVE Listed(g)'
  BY <1>1, <1>4, <1>6 DEF Receive, ReadersTypeOK
<1>7. ASSUME ReadFailed(g) PROVE Listed(g)'
  <2>1. Status(500) \in Reply /\ Status(500).code = 500
    BY Replies
  <2>2. rpc'[g] = "answered" /\ reply'[g].code = 500
    BY <1>1, <1>7, <2>1, RespondType DEF ReadFailed
  <2> QED
    BY <2>2 DEF Listed
<1>8. ASSUME NEW n \in Namespaces, ListStart(g, n) PROVE Listed(g)'
  <2>1. /\ rpc'[g] = "list" /\ rest'[g] = ListClusterMappings(n)
        /\ owed'[g] = {mk[2] : mk \in {x \in rest'[g] : HasContent(x[1], x[2])}}
    BY <1>1, <1>8 DEF ListStart, Proceed, ReadersTypeOK
  <2>2. ASSUME NEW k \in owed'[g] PROVE \E m \in MgmtClusters :
                <<m, k>> \in rest'[g] /\ HasContent(m, k) /\
                  clustermap[k] = m /\ k \in Clusters
    <3>1. PICK x \in rest'[g] : x[2] = k /\ HasContent(x[1], x[2])
      BY <2>1
    <3>2. x[1] \in MgmtClusters /\ x[2] \in Clusters /\ x = <<x[1], x[2]>>
            /\ clustermap[x[2]] = x[1]
      BY <2>1 DEF ListClusterMappings, GetClusterMapping
    <3> QED
      BY <3>1, <3>2
  <2>3. ASSUME NEW k \in owed'[g], NEW m \in MgmtClusters, <<m, k>> \in rest'[g]
        PROVE  HasContent(m, k)' /\ k \in Clusters
    <3>1. clustermap[k] = m
      BY <2>1, <2>3 DEF ListClusterMappings, GetClusterMapping
    <3>2. HasContent(m, k) /\ k \in Clusters
      BY <2>2, <3>1
    <3> QED
      BY <3>2, ByReaders
  <2> QED
    BY <2>1, <2>2, <2>3 DEF Listed, Found
<1>9. ASSUME NEW m \in MgmtClusters, NEW k \in Clusters, ListItem(g, m, k)
      PROVE  Listed(g)'
  <2>1. /\ rpc[g] = "list" /\ rpc'[g] = "list" /\ owed'[g] = owed[g]
        /\ rest'[g] = rest[g] \ {<<m, k>>} /\ <<m, k>> \in rest[g]
        /\ items'[g] = IF HasContent(m, k) THEN items[g] \cup {k} ELSE items[g]
    BY <1>1, <1>9 DEF ListItem, NextOf, Proceed, ReadersTypeOK
  <2>2. owed[g] \subseteq Clusters
    BY <1>1 DEF ReadersTypeOK
  <2>3. ASSUME NEW l \in owed[g], l # k
        PROVE  \A n \in MgmtClusters : <<n, l>> \in rest'[g] <=>
                 <<n, l>> \in rest[g]
    BY <2>1, <2>3
  <2>4. \A l \in owed[g] : Found(g, l)' \/ Deleting(l)
    BY <1>1, <2>1, <2>3 DEF Listed, Found
  <2>5. \A l \in owed[g], n \in MgmtClusters :
          <<n, l>> \in rest'[g] => HasContent(n, l) \/ Deleting(l)
    BY <1>1, <2>1 DEF Listed
  <2> QED
    BY <2>1, <2>2, <2>4, <2>5, ByReaders DEF Listed
<1>10. ASSUME NEW m \in MgmtClusters, NEW k \in Clusters,
              ListItemFailed(g, m, k)
       PROVE  Listed(g)'
  <2>1. /\ rpc[g] = "list" /\ rpc'[g] = "list" /\ owed'[g] = owed[g] \ {k}
        /\ rest'[g] = rest[g] \ {<<m, k>>} /\ items'[g] = items[g]
    BY <1>1, <1>10 DEF ListItemFailed, NextOf, Proceed, ReadersTypeOK
  <2>2. owed[g] \subseteq Clusters
    BY <1>1 DEF ReadersTypeOK
  <2>3. ASSUME NEW l \in owed'[g]
        PROVE  \A n \in MgmtClusters : <<n, l>> \in rest'[g] <=>
                 <<n, l>> \in rest[g]
    BY <2>1, <2>3
  <2>4. \A l \in owed'[g] : Found(g, l)' \/ Deleting(l)
    BY <1>1, <2>1, <2>3 DEF Listed, Found
  <2>5. \A l \in owed'[g], n \in MgmtClusters :
          <<n, l>> \in rest'[g] => HasContent(n, l) \/ Deleting(l)
    BY <1>1, <2>1 DEF Listed
  <2> QED
    BY <2>1, <2>2, <2>4, <2>5, ByReaders DEF Listed
<1>11. ASSUME ListDone(g) PROVE Listed(g)'
  <2>1. /\ rpc[g] = "list" /\ rest[g] = {} /\ rpc'[g] = "answered"
        /\ owed'[g] = owed[g] /\ items'[g] = items[g]
    BY <1>1, <1>11 DEF ListDone, Respond, ReadersTypeOK
  <2>2. owed[g] \subseteq Clusters
    BY <1>1 DEF ReadersTypeOK
  <2> QED
    BY <1>1, <2>1, <2>2, ByReaders DEF Listed, Found
<1>12. Listed(g)'
  BY <1>5, <1>6, <1>7, <1>8, <1>9, <1>10, <1>11 DEF ReaderStep, ListStep
<1>13. \A h \in Readers : Listed(h)'
  BY <1>2, <1>3, <1>12
<1> QED
  BY <1>13 DEF ListInv
\* So a step of a reader keeps all of it.
LEMMA InvReaders ==
  ASSUME PipelineInv, NEW g \in Readers, ReaderStep(g),
         UNCHANGED <<vars, agentVars>>
  PROVE  /\ AgentTypeOK' /\ RTypeOK' /\ NoOrphans' /\ DoomedInv'
         /\ ContentInv' /\ GetInv' /\ ListInv'
<1>1. AgentTypeOK'
  BY DEF PipelineInv, AgentTypeOK
<1>2. RTypeOK'
  BY ReaderTypeStep DEF PipelineInv, DocumentInv
<1>3. NoOrphans' /\ DoomedInv' /\ ContentInv'
  BY DEF vars, requestVars, PipelineInv, NoOrphans, ApplyExists, HalfDeleted,
         Deleter, DoomedInv, Deleting, ContentInv, HasContent
<1> QED
  BY <1>1, <1>2, <1>3, GetInvReaders, ListInvReaders

\* Nothing is held, mirrored or read in the beginning.
LEMMA PipelineInitInv ==
  PipelineInit => /\ AgentTypeOK /\ RTypeOK /\ NoOrphans /\ DoomedInv
                  /\ ContentInv /\ GetInv /\ ListInv
<1> SUFFICES ASSUME PipelineInit
             PROVE  AgentTypeOK /\ RTypeOK /\ NoOrphans /\ DoomedInv
                      /\ ContentInv /\ GetInv /\ ListInv
  OBVIOUS
<1>1. NoReply \in Reply
  BY DEF NoReply, Reply, Versions
<1>2. AgentTypeOK
  BY DEF PipelineInit, AgentInit, AgentTypeOK, Versions
<1>3. RTypeOK
  BY <1>1
     DEF PipelineInit, RTypeOK, ReadersTypeOK, ReaderLocation, Readings,
         Versions
<1>4. NoOrphans /\ ContentInv
  BY DEF PipelineInit, AgentInit, NoOrphans, ContentInv, HasContent
<1>5. DoomedInv
  BY DEF PipelineInit, Init, DesiresInit, DoomedInv
<1>6. GetInv /\ ListInv
  BY DEF PipelineInit, GetInv, Readings, ListInv, Listed
<1> QED
  BY <1>2, <1>3, <1>4, <1>5, <1>6

\* All of PipelineInv but what ClusterAPI keeps by itself.
AroundInv ==
  /\ AgentTypeOK /\ RTypeOK
  /\ NoOrphans /\ DoomedInv /\ ContentInv /\ GetInv /\ ListInv

\* Every step is one of a handler, an agent or a reader.
LEMMA AroundStep ==
  DocumentInv /\ AroundInv /\ [PipelineNext]_pipelineVars => AroundInv'
<1> SUFFICES ASSUME DocumentInv, AroundInv, [PipelineNext]_pipelineVars
                    PROVE AroundInv'
  OBVIOUS
<1>1. PipelineInv
  BY DEF PipelineInv, AroundInv
<1>2. CASE WriterStep /\ UNCHANGED <<agentVars, readerVars>>
  <2>1. [Next]_vars
    BY WriterNext
  <2> QED
    BY <1>1, <1>2, <2>1, InvWriters DEF AroundInv
<1>3. ASSUME NEW m \in MgmtClusters, NEW k \in Clusters, AgentStep(m, k),
             UNCHANGED <<vars, readerVars>>
      PROVE  AroundInv'
  BY <1>1, <1>3, InvAgents DEF AroundInv
<1>4. ASSUME NEW g \in Readers, ReaderStep(g), UNCHANGED <<vars, agentVars>>
      PROVE  AroundInv'
  BY <1>1, <1>4, InvReaders DEF AroundInv
<1>5. CASE UNCHANGED pipelineVars
  <2>1. [Next]_vars /\ UNCHANGED <<agentVars, readerVars>>
    BY <1>5 DEF pipelineVars
  <2> QED
    BY <1>1, <2>1, InvWriters DEF AroundInv
<1> QED
  BY <1>2, <1>3, <1>4, <1>5 DEF PipelineNext

\* The invariant holds in every reachable state.
LEMMA PipelineInductive == PipelineSpec => []PipelineInv
<1>1. PipelineInit => AroundInv
  BY PipelineInitInv DEF AroundInv
<1>2. DocumentInv /\ AroundInv => PipelineInv
  BY DEF PipelineInv, AroundInv
<1> QED
  BY <1>1, <1>2, AroundStep, WritersInductive, PTL DEF PipelineSpec

\* For all constants: the variables have their types, and a Get past its
\* lookup reads from a management cluster of the fleet.
THEOREM PipelineTypeCorrect == PipelineSpec => []PipelineTypeOK
<1>1. PipelineInv => PipelineTypeOK
  BY DEF PipelineInv, DocumentInv, RTypeOK, ReaderLocation, Readings,
         PipelineTypeOK
<1> QED
  BY <1>1, PipelineInductive, PTL

\* For every fleet and interleaving: what runs in Kubernetes is asked for by
\* an ApplyDesire, or is to be deleted, unless DeleteManagedHostedCluster
\* ended between the two.
THEOREM NothingOrphaned == PipelineSpec => []NoOrphans
<1>1. PipelineInv => NoOrphans
  BY DEF PipelineInv
<1> QED
  BY <1>1, PipelineInductive, PTL

\* For every fleet and interleaving: a List answered 200 leaves out only what
\* it could not read and what a Delete has found meanwhile, of all that was
\* mapped and mirrored when it began.
THEOREM ListsComplete == PipelineSpec => []ListComplete
<1>1. PipelineInv => ListComplete
  BY DEF PipelineInv, ListInv, Listed, ListComplete
<1> QED
  BY <1>1, PipelineInductive, PTL

\* A step of a reader moves no other.
LEMMA OthersRead ==
  ASSUME ReadersTypeOK, NEW g \in Readers, ReaderStep(g),
         NEW h \in Readers \ {g}
  PROVE  rpc'[h] = rpc[h]
BY DEF ReadersTypeOK, ReaderStep, GetStep, ListStep, GetLookup, GetStatusRead,
       GetStatusApply, GetSpec, ListStart, ListItem, ListItemFailed, NextOf,
       ListDone, ReadFailed, Receive, ReadNotFound, GetKubeConfig, Proceed,
       Respond

\* A reader answers 404 when there is no mapping, which CreateDurable
\* excludes for a settled name, or when GetSpec finds no ApplyDesire, which
\* GetInv excludes.
LEMMA NotFoundStep ==
  ASSUME PipelineInv, NEW g \in Readers, ReaderStep(g),
         rpc[g] # "answered", rpc'[g] = "answered", reply'[g].code = 404
  PROVE  ~Settled(rkey'[g])
<1>1. ReadersTypeOK /\ ReaderLocation /\ CreateDurable /\ GetInv
  BY DurableCreates DEF PipelineInv, RTypeOK
<1> USE DEF ReadersTypeOK
<1>2. ASSUME NEW k \in Clusters, ReadNotFound(g, k) PROVE ~Settled(rkey'[g])
  <2>1. rkey'[g] = k /\ ClusterMappingNotFound(k)
    BY <1>1, <1>2 DEF ReadNotFound
  <2>2. ~Settled(k)
    BY <1>1, <2>1 DEF Settled, CreateDurable, Deleting
  <2> QED
    BY <2>1, <2>2
<1>3. ASSUME NEW k \in Clusters, GetKubeConfig(g, k) PROVE FALSE
  <2>1. Respond(g, Status(200)) /\ Status(200) \in Reply /\
          Status(200).code = 200
    BY <1>3, Replies DEF GetKubeConfig
  <2> QED
    BY <1>1, <2>1, RespondType
<1>4. CASE GetSpec(g)
  <2>1. rpc[g] = "get_spec"
    BY <1>4, Zenon DEF GetSpec
  <2>2. rmc[g] \in MgmtClusters /\ rkey[g] \in Clusters
    BY <1>1, <2>1, Zenon DEF ReaderLocation, Readings
  <2>3. PICK m \in MgmtClusters : rmc[g] = m
    BY <2>2
  <2>4. PICK k \in Clusters : rkey[g] = k
    BY <2>2
  <2>5. rkey'[g] = k
    BY <1>4, <2>3, <2>4 DEF GetSpec
  <2>6. ~ApplyExists(m, k)
    <3> SUFFICES ASSUME ApplyExists(m, k) PROVE FALSE
      OBVIOUS
    <3> DEFINE answer == Content(applyDesires[m][k], ad[g], rd[g])
    <3>1. applyDesires[m][k] \in Versions /\ ad[g] \in Versions
      BY <1>1 DEF PipelineInv, DocumentInv, TypeOK, DesiresTypeOK, Versions
    <3>2. answer \in Reply /\ answer.code = 200
      BY <3>1, Replies
    <3>3. Respond(g, answer)
      BY <1>4, <2>3, <2>4 DEF GetSpec
    <3> HIDE DEF answer
    <3> QED
      BY <1>1, <3>2, <3>3, RespondType
  <2>7. ~Settled(k)
    BY <1>1, <2>1, <2>3, <2>4, <2>6 DEF GetInv, Readings, Settled
  <2> QED
    BY <2>5, <2>7
<1>5. ASSUME GetStatusApply(g) PROVE FALSE
  <2>1. rd[g] \notin {NoDoc, NoContent} /\
          Respond(g, Content(rd[g], ad'[g], rd[g]))
    BY <1>1, <1>5 DEF GetStatusApply, Proceed
  <2>2. PICK m \in MgmtClusters, k \in Clusters : rmc[g] = m /\ rkey[g] = k
    BY <1>1, <1>5 DEF GetStatusApply, ReaderLocation, Readings
  <2>3. ad'[g] = applyStatus[m][k]
    BY <1>1, <1>5, <2>2 DEF GetStatusApply
  <2>4. applyStatus[m][k] \in Versions
    BY DEF PipelineInv, AgentTypeOK, Versions
  <2>5. rd[g] \in Versions
    BY <1>1, <2>1
  <2>6. Content(rd[g], ad'[g], rd[g]) \in Reply /\
          Content(rd[g], ad'[g], rd[g]).code = 200
    BY <2>3, <2>4, <2>5, Replies
  <2> QED
    BY <1>1, <2>1, <2>6, RespondType
<1>6. ASSUME ListDone(g) \/ ReadFailed(g) PROVE FALSE
  <2>1. PICK c \in {200, 500} : Respond(g, Status(c))
    BY <1>6 DEF ListDone, ReadFailed
  <2>2. Status(c) \in Reply /\ Status(c).code = c
    BY Replies
  <2> QED
    BY <1>1, <2>1, <2>2, RespondType
<1>7. ASSUME NEW step \in {"get_read", "get_apply", "get_spec", "list"},
             Proceed(g, step)
      PROVE  FALSE
  BY <1>1, <1>7 DEF Proceed
<1>8. ~GetStatusRead(g)
  BY <1>7 DEF GetStatusRead
<1>9. \A k \in Clusters : ~GetLookup(g, k)
  BY <1>7 DEF GetLookup
<1>10. \A n \in Namespaces : ~ListStart(g, n)
  BY <1>7 DEF ListStart
<1>11. \A m \in MgmtClusters, k \in Clusters : ~ListItem(g, m, k) /\
         ~ListItemFailed(g, m, k)
  BY <1>7 DEF ListItem, ListItemFailed, NextOf
<1>12. ~Receive(g)
  BY DEF Receive
<1> QED
  BY <1>2, <1>3, <1>4, <1>5, <1>6, <1>8, <1>9, <1>10, <1>11, <1>12
     DEF ReaderStep, GetStep, ListStep

\* For every fleet and interleaving: Get and GetKubeConfig answer 404 for no
\* name that was created and that no Delete has found, although Get tries
\* three documents of two databases, one after the other, while agents and
\* handlers write them.
THEOREM NotFoundTrue == PipelineSpec => NotFoundIsTrue
<1> DEFINE Answered ==
  \A g \in Readers :
    rpc[g] # "answered" /\ rpc'[g] = "answered" /\ reply'[g].code = 404
      => ~Settled(rkey'[g])
<1>1. ASSUME PipelineInv, [PipelineNext]_pipelineVars PROVE Answered
  <2>1. CASE UNCHANGED readerVars
    BY <2>1
  <2>2. ASSUME NEW h \in Readers, ReaderStep(h), NEW g \in Readers,
               rpc[g] # "answered", rpc'[g] = "answered", reply'[g].code = 404
        PROVE  ~Settled(rkey'[g])
    <3>1. CASE g = h
      BY <1>1, <2>2, <3>1, NotFoundStep
    <3>2. CASE g # h
      <4>1. \A f \in Readers \ {h} : rpc'[f] = rpc[f]
        BY <1>1, <2>2, OthersRead DEF PipelineInv, RTypeOK
      <4> QED
        BY <2>2, <3>2, <4>1
    <3> QED
      BY <3>1, <3>2
  <2> QED
    BY <1>1, <2>1, <2>2 DEF PipelineNext, pipelineVars
<1>2. PipelineInv /\ [PipelineNext]_pipelineVars => [Answered]_pipelineVars
  BY <1>1
<1> HIDE DEF Answered
<1>3. PipelineSpec => [][Answered]_pipelineVars
  BY <1>2, PipelineInductive, PTL DEF PipelineSpec
<1> QED
  BY <1>3 DEF NotFoundIsTrue, Answered
=============================================================================
