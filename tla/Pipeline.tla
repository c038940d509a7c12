------------------------------ MODULE Pipeline ------------------------------
(***************************************************************************)
(* The way of a hosted cluster through the system: the handlers that       *)
(* change state (ClusterAPI), the agents that carry out what these write   *)
(* (Agent), and the handlers of internal/apiserver/handlers.go that read   *)
(* what the agents report: Get, List and GetKubeConfig.                    *)
(*                                                                         *)
(* A reader is a client that sends one of these requests after the other.  *)
(* Its request makes its calls one by one, like those of ClusterAPI, and   *)
(* keeps what it has read; "answered", it has a reply, which the client    *)
(* takes before it sends the next.                                         *)
(*                                                                         *)
(* Not here: the wording of a reply and content that cannot be decoded,    *)
(* which no writer in the system stores.                                   *)
(***************************************************************************)
EXTENDS ClusterAPI, Agent

CONSTANTS Readers,
          ReadOps,          \* the operations they use
          NoCluster         \* no hosted cluster: the request names none

VARIABLES rpc,              \* the call each reader makes next
          rkey,             \* the hosted cluster it asks for, if it is one
          rmc,              \* the management cluster it reads from
          rd,               \* the ReadDesire it has read
          ad,               \* the ApplyDesire it has read
          rest,             \* the mappings a List has still to go through
          items,            \* the hosted clusters a List has found
          owed,             \* history: those it should find (ListComplete)
          reply

readerVars == <<rpc, rkey, rmc, rd, ad, rest, items, owed, reply>>
pipelineVars == <<vars, agentVars, readerVars>>

ASSUME PipelineAssumption ==
  /\ NoCluster \notin Clusters
  /\ ReadOps \subseteq {"Get", "List", "GetKubeConfig"}

\* The answer to a Get, with its desireStatus; to a List, the code alone.
Reply == [code : Codes, content : Versions, apply : Versions, read : BOOLEAN]

NoReply == [code |-> 0, content |-> NoDoc, apply |-> NoDoc, read |-> FALSE]

ReadersTypeOK ==
  /\ rpc \in [Readers -> {"idle", "get_read", "get_apply", "get_spec", "list",
                          "answered"}]
  /\ rkey \in [Readers -> Clusters \cup {NoCluster}]
  /\ rmc \in [Readers -> MgmtClusters \cup {NoMC}]
  /\ rd \in [Readers -> Versions \cup {NoContent}]
  /\ ad \in [Readers -> Versions]
  /\ rest \in [Readers -> SUBSET (MgmtClusters \X Clusters)]
  /\ items \in [Readers -> SUBSET Clusters]
  /\ owed \in [Readers -> SUBSET Clusters]
  /\ reply \in [Readers -> Reply]

\* Every variable has its type, and a Get past its lookup reads from a
\* management cluster of the fleet.
PipelineTypeOK ==
  /\ TypeOK /\ AgentTypeOK /\ ReadersTypeOK
  /\ \A g \in Readers :
       rpc[g] \in {"get_read", "get_apply", "get_spec"} =>
         rmc[g] \in MgmtClusters /\ rkey[g] \in Clusters

PipelineInit ==
  /\ Init
  /\ AgentInit
  /\ rpc = [g \in Readers |-> "idle"]
  /\ rkey = [g \in Readers |-> NoCluster]
  /\ rmc = [g \in Readers |-> NoMC]
  /\ rd = [g \in Readers |-> NoDoc]
  /\ ad = [g \in Readers |-> NoDoc]
  /\ rest = [g \in Readers |-> {}]
  /\ items = [g \in Readers |-> {}]
  /\ owed = [g \in Readers |-> {}]
  /\ reply = [g \in Readers |-> NoReply]

-----------------------------------------------------------------------------

Proceed(g, step) == rpc' = [rpc EXCEPT ![g] = step] /\ UNCHANGED reply

Respond(g, answer) ==
  /\ rpc' = [rpc EXCEPT ![g] = "answered"]
  /\ reply' = [reply EXCEPT ![g] = answer]

Status(c) == [NoReply EXCEPT !.code = c]

\* With the desireStatus of buildDesireStatus: the agent writes no status
\* without a condition, so every status document that was read is in it.
Content(version, apply, read) ==
  [code |-> 200, content |-> version, apply |-> apply, read |-> read # NoDoc]

\* The client takes the reply.
Receive(g) ==
  /\ rpc[g] = "answered"
  /\ rpc' = [rpc EXCEPT ![g] = "idle"]
  /\ rkey' = [rkey EXCEPT ![g] = NoCluster]
  /\ rmc' = [rmc EXCEPT ![g] = NoMC]
  /\ rd' = [rd EXCEPT ![g] = NoDoc]
  /\ ad' = [ad EXCEPT ![g] = NoDoc]
  /\ items' = [items EXCEPT ![g] = {}]
  /\ owed' = [owed EXCEPT ![g] = {}]
  /\ reply' = [reply EXCEPT ![g] = NoReply]
  /\ UNCHANGED rest

-----------------------------------------------------------------------------
(* Get *)

\* A missing mapping is taken for the empty name of a management cluster.
GetLookupFault(g, k) ==
  /\ rpc[g] = "idle" /\ "Get" \in ReadOps
  /\ rkey' = [rkey EXCEPT ![g] = k]
  /\ rmc' = [rmc EXCEPT ![g] = clustermap[k]]
  /\ Proceed(g, "get_read")
  /\ UNCHANGED <<rd, ad, rest, items, owed>>

GetLookup(g, k) ==
  /\ rpc[g] = "idle" /\ "Get" \in ReadOps
  /\ rkey' = [rkey EXCEPT ![g] = k]
  /\ \E m \in MgmtClusters :
       GetClusterMapping(k, m) /\ rmc' = [rmc EXCEPT ![g] = m]
  /\ Proceed(g, "get_read")
  /\ UNCHANGED <<rd, ad, rest, items, owed>>

\* A Get or a GetKubeConfig of a name without a mapping.
ReadNotFound(g, k) ==
  /\ rpc[g] = "idle" /\ ReadOps \cap {"Get", "GetKubeConfig"} # {}
  /\ ClusterMappingNotFound(k)
  /\ rkey' = [rkey EXCEPT ![g] = k]
  /\ Respond(g, Status(404))
  /\ UNCHANGED <<rmc, rd, ad, rest, items, owed>>

\* A document that is not there yet is an error like any other.
GetStatusReadFault(g) ==
  /\ rpc[g] = "get_read"
  /\ rd' = [rd EXCEPT ![g] = readStatus[rmc[g]][rkey[g]]]
  /\ IF rd'[g] = NoDoc THEN Respond(g, Status(404)) ELSE Proceed(g, "get_apply")
  /\ UNCHANGED <<rkey, rmc, ad, rest, items, owed>>

\* That there is no such document in the status database is no error.
GetStatusRead(g) ==
  /\ rpc[g] = "get_read"
  /\ rd' = [rd EXCEPT ![g] = readStatus[rmc[g]][rkey[g]]]
  /\ Proceed(g, "get_apply")
  /\ UNCHANGED <<rkey, rmc, ad, rest, items, owed>>

\* The ApplyDesire is taken from the specs database, where it has no status.
GetStatusApplyFault(g) ==
  /\ rpc[g] = "get_apply"
  /\ IF rd[g] \in {NoDoc, NoContent} THEN Proceed(g, "get_spec")
     ELSE Respond(g, Content(rd[g], NoDoc, rd[g]))
  /\ UNCHANGED <<rkey, rmc, rd, ad, rest, items, owed>>

\* A mirror that has content is the answer.
GetStatusApply(g) ==
  /\ rpc[g] = "get_apply"
  /\ ad' = [ad EXCEPT ![g] = applyStatus[rmc[g]][rkey[g]]]
  /\ IF rd[g] \in {NoDoc, NoContent} THEN Proceed(g, "get_spec")
     ELSE Respond(g, Content(rd[g], ad'[g], rd[g]))
  /\ UNCHANGED <<rkey, rmc, rd, rest, items, owed>>

\* Otherwise the answer is what the specs database asks for, if anything.
GetSpec(g) ==
  /\ rpc[g] = "get_spec"
  /\ Respond(g, IF ApplyExists(rmc[g], rkey[g])
                THEN Content(applyDesires[rmc[g]][rkey[g]], ad[g], rd[g])
                ELSE Status(404))
  /\ UNCHANGED <<rkey, rmc, rd, ad, rest, items, owed>>

-----------------------------------------------------------------------------
(* GetKubeConfig: a placeholder for every name that has a mapping. *)

GetKubeConfig(g, k) ==
  /\ rpc[g] = "idle" /\ "GetKubeConfig" \in ReadOps
  /\ ~ClusterMappingNotFound(k)
  /\ rkey' = [rkey EXCEPT ![g] = k]
  /\ Respond(g, Status(200))
  /\ UNCHANGED <<rmc, rd, ad, rest, items, owed>>

-----------------------------------------------------------------------------
(* List *)

HasContent(m, k) == readStatus[m][k] \notin {NoDoc, NoContent}

ListClusterMappings(n) ==
  {mk \in MgmtClusters \X Clusters :
     NamespaceOf[mk[2]] = n /\ GetClusterMapping(mk[2], mk[1])}

ListStart(g, n) ==
  /\ rpc[g] = "idle" /\ "List" \in ReadOps
  /\ rest' = [rest EXCEPT ![g] = ListClusterMappings(n)]
  /\ owed' = [owed EXCEPT ![g] =
                {mk[2] : mk \in {x \in rest'[g] : HasContent(x[1], x[2])}}]
  /\ Proceed(g, "list")
  /\ UNCHANGED <<rkey, rmc, rd, ad, items>>

\* The loop over management clusters, and in it the loop over the names on
\* one, both in the order of a Go map: any order.
NextOf(g, m, k) ==
  /\ rpc[g] = "list"
  /\ <<m, k>> \in rest[g]
  /\ (\E x \in rest[g] : x[1] = rmc[g]) => m = rmc[g]
  /\ rmc' = [rmc EXCEPT ![g] = m]
  /\ Proceed(g, "list")
  /\ UNCHANGED <<rkey, rd, ad>>

\* "break" instead of "continue": the others on m are not read.
ListItemFault(g, m, k) ==
  /\ NextOf(g, m, k)
  /\ IF HasContent(m, k)
     THEN /\ items' = [items EXCEPT ![g] = @ \cup {k}]
          /\ rest' = [rest EXCEPT ![g] = @ \ {<<m, k>>}]
     ELSE /\ rest' = [rest EXCEPT ![g] = {x \in @ : x[1] # m}]
          /\ UNCHANGED items
  /\ UNCHANGED owed

\* A name without a mirror, or whose mirror is empty, is left out.
ListItem(g, m, k) ==
  /\ NextOf(g, m, k)
  /\ rest' = [rest EXCEPT ![g] = @ \ {<<m, k>>}]
  /\ items' = [items EXCEPT ![g] = IF HasContent(m, k) THEN @ \cup {k} ELSE @]
  /\ UNCHANGED owed

\* ... and so is one whose mirror cannot be read.
ListItemFailed(g, m, k) ==
  /\ MayFail
  /\ NextOf(g, m, k)
  /\ rest' = [rest EXCEPT ![g] = @ \ {<<m, k>>}]
  /\ owed' = [owed EXCEPT ![g] = @ \ {k}]
  /\ UNCHANGED items

ListDone(g) ==
  /\ rpc[g] = "list"
  /\ rest[g] = {}
  /\ Respond(g, Status(200))
  /\ UNCHANGED <<rkey, rmc, rd, ad, rest, items, owed>>

-----------------------------------------------------------------------------

\* Every other call that fails: an error of Firestore, a client for a status
\* or specs database that cannot be made.
ReadFailed(g) ==
  /\ MayFail
  /\ rpc[g] # "answered"
  /\ Respond(g, Status(500))
  /\ rest' = [rest EXCEPT ![g] = {}]
  /\ UNCHANGED <<rkey, rmc, rd, ad, items, owed>>

GetStep(g) ==
  \/ \E k \in Clusters : GetLookup(g, k)
  \/ GetStatusRead(g) \/ GetStatusApply(g) \/ GetSpec(g)

ListStep(g) ==
  \/ \E n \in Namespaces : ListStart(g, n)
  \/ \E m \in MgmtClusters, k \in Clusters :
       ListItem(g, m, k) \/ ListItemFailed(g, m, k)
  \/ ListDone(g)

ReaderStep(g) ==
  \/ GetStep(g) \/ ListStep(g) \/ ReadFailed(g) \/ Receive(g)
  \/ \E k \in Clusters : ReadNotFound(g, k) \/ GetKubeConfig(g, k)

\* What the server does of a request that was taken up, and the client of its
\* reply.
Answers(g) == rpc[g] # "idle" /\ ReaderStep(g)

WriterStep == \E r \in Requests : Step(r) \/ Fail(r)

PipelineNext ==
  \/ WriterStep /\ UNCHANGED <<agentVars, readerVars>>
  \/ \E m \in MgmtClusters, k \in Clusters :
       AgentStep(m, k) /\ UNCHANGED <<vars, readerVars>>
  \/ \E g \in Readers : ReaderStep(g) /\ UNCHANGED <<vars, agentVars>>

PipelineSpec == PipelineInit /\ [][PipelineNext]_pipelineVars

\* Every handler goes on to its next call, every agent is up again and again
\* and takes up what its databases hold, and the clients poll: they take their
\* replies and ask for every hosted cluster again.
Fairness ==
  /\ \A r \in Requests :
       WF_pipelineVars(Step(r) /\ UNCHANGED <<agentVars, readerVars>>)
  /\ \A m \in MgmtClusters, k \in Clusters :
       /\ WF_pipelineVars(AgentApply(m, k) /\ UNCHANGED <<vars, readerVars>>)
       /\ WF_pipelineVars(AgentMirror(m, k) /\ UNCHANGED <<vars, readerVars>>)
       /\ WF_pipelineVars(AgentDelete(m, k) /\ UNCHANGED <<vars, readerVars>>)
       /\ WF_pipelineVars(AgentCleanUp(m, k) /\ UNCHANGED <<vars, readerVars>>)
  /\ \A g \in Readers :
       /\ WF_pipelineVars(Answers(g) /\ UNCHANGED <<vars, agentVars>>)
       /\ \A k \in Clusters :
            SF_pipelineVars(GetLookup(g, k) /\ UNCHANGED <<vars, agentVars>>)

FairSpec == PipelineSpec /\ Fairness

-----------------------------------------------------------------------------

\* A Delete of k has got as far as to find a mapping.
Deleting(k) == \E d \in Requests : op[d] = "Delete" /\ key[d] = k /\ mc[d] # NoMC

\* A Create of k was answered 200 and no Delete of k has found it.
Settled(k) ==
  /\ \E r \in Requests : op[r] = "Create" /\ key[r] = k /\ code[r] = 200
  /\ ~Deleting(k)

\* A 404 is true when it is given: Get and GetKubeConfig find a name that was
\* created and not deleted, although Get tries three documents of two
\* databases, one after the other, of which two may not be there yet, while
\* the agent writes them and requests replace the third.
NotFoundIsTrue ==
  [][\A g \in Readers :
       rpc[g] # "answered" /\ rpc'[g] = "answered" /\ reply'[g].code = 404
         => ~Settled(rkey'[g])]_pipelineVars

\* A List answered 200 leaves out none of the hosted clusters that were mapped
\* and mirrored when it began, but those it could not read and those a Delete
\* has found meanwhile.
ListComplete ==
  \A g \in Readers : rpc[g] = "answered" /\ reply[g].code = 200 =>
    \A k \in owed[g] \ items[g] : Deleting(k)

\* A Delete that took the ApplyDesire of k on m away and has not written, or
\* could not write, the DeleteDesire.
HalfDeleted(m, k) ==
  \E d \in Requests :
    /\ op[d] = "Delete" /\ Deleter(d, m, k)
    /\ pc[d] \in {"delete_read", "create_delete"} \/ code[d] = 500

\* Whatever runs in Kubernetes is asked for or on its way out: only a Delete
\* that fails half way leaves a hosted cluster that no desire speaks of.
NoOrphans ==
  \A m \in MgmtClusters, k \in Clusters : object[m][k] # NoDoc =>
    ApplyExists(m, k) \/ k \in deleteDesires[m] \/ HalfDeleted(m, k)

-----------------------------------------------------------------------------

Done(operation, m, k) ==
  \E r \in Requests : op[r] = operation /\ mc[r] = m /\ key[r] = k /\ code[r] = 200

\* A hosted cluster whose Create was answered 200 comes to run, and once the
\* requests come to an end runs in the version last asked for, unless a Delete
\* of its name has found it.
CreatedRuns ==
  \A m \in MgmtClusters, k \in Clusters :
    <>[](Done("Create", m, k) =>
           \/ Deleting(k)
           \/ ApplyExists(m, k) /\ object[m][k] = applyDesires[m][k])

Recreated(m, k) ==
  Cardinality({r \in Requests :
                 op[r] = "Create" /\ mc[r] = m /\ key[r] = k}) > 1

Gone(m, k) ==
  object[m][k] = NoDoc /\ applyStatus[m][k] = NoDoc /\ readStatus[m][k] = NoDoc

\* A Delete answered 200 takes the hosted cluster away for good, and every
\* trace of it from the status database, unless a second Create of its name
\* came to the same management cluster, where the DeleteDesire still is.
DeletedGone ==
  \A m \in MgmtClusters, k \in Clusters :
    Done("Delete", m, k) ~> [](Gone(m, k) \/ Recreated(m, k))

\* "Clients must poll GET requests to learn the actual status" (design
\* document, 2.3): a client that polls is shown, in one reply, that what was
\* asked for last is what runs: the content, and that it was applied.
PollingShows ==
  \A k \in Clusters :
    Settled(k) ~>
      \/ Deleting(k)
      \/ \E g \in Readers, m \in MgmtClusters :
           /\ rkey[g] = k /\ reply[g].read /\ GetClusterMapping(k, m)
           /\ reply[g].content = applyDesires[m][k]
           /\ reply[g].apply = applyDesires[m][k]
=============================================================================
