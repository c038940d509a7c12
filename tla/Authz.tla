------------------------------- MODULE Authz -------------------------------
(***************************************************************************)
(* The authorization middleware of internal/cedar/authz.go and             *)
(* ResolvePolicies of store.go: what a request is let through on.  For     *)
(* every request the global policies, the attachments of its project, the  *)
(* custom role of each attachment and the labels of its cluster are read   *)
(* afresh, document by document, while others edit them, and any of these  *)
(* reads may fail.                                                         *)
(*                                                                         *)
(* Attachments are edited through the API (CedarStore), custom roles and   *)
(* global policies by whoever runs the service, labels by the agent that   *)
(* mirrors the cluster: here any document may become any other of those it *)
(* may be.                                                                 *)
(*                                                                         *)
(* Not here: how a token is validated (JWKSCache); policies about anything *)
(* but user, action, project and labels; methods that neither the mapper   *)
(* names nor the server serves, and paths it has no pattern for.           *)
(***************************************************************************)
EXTENDS Policy, Naturals

CONSTANTS Callers,          \* the requests
          AttachmentDocs,   \* what the attachments of each project may be
          RoleDocs,         \* what each project's custom role may be
          GlobalDocs,       \* what the global policies may be
          Mirrors,          \* what the cluster of each project may be known by
          NoMirror,         \* ... if it has no mapping or was not mirrored
          NoRole,           \* the custom role does not exist
          MaxEdits          \* how often a document is edited

\* One name of a custom role is enough: roles are read one by one.
Custom == "custom"

Roles == Predefined \cup {Custom}

ASSUME AuthzAssumption ==
  /\ DOMAIN AttachmentDocs = Projects
  /\ \A p \in Projects : AttachmentDocs[p] \subseteq SUBSET (Users \X Roles)
  /\ DOMAIN RoleDocs = Projects /\ DOMAIN Mirrors = Projects
  /\ MaxEdits \in Nat
  /\ Users # {} /\ Projects # {}

VARIABLES attachments,      \* the document of each project: who has which role
          customRole,       \* the custom role of each project
          globals,          \* the global policies
          mirror,           \* the labels of each project's cluster
          edits,            \* how many edits there were
          request,          \* method, path, project and user of each request
          pc,               \* what it does next
          policies,         \* the policies resolved so far
          rest,             \* the attachments it has still to resolve
          failed,           \* history: the documents it could not read
          meanwhile,        \* history: the edits since it came
          seen              \* history: the documents as they were since then

stores == <<attachments, customRole, globals, mirror>>
progress == <<policies, rest, failed>>
history == <<meanwhile, seen>>
vars == <<stores, edits, request, pc, progress, history>>

Answers == {"bypass", "next", "401", "403", "500"}

Request == [method : Methods, path : Paths, project : Projects, user : Users]

NoRequest == CHOOSE req \in Request : TRUE

ActionOf(req) == MapRequest(req.method, req.path)

\* Documents d such that each project has one of its own.
Docs(of) == {d \in [Projects -> UNION {of[p] : p \in Projects}] :
               \A p \in Projects : d[p] \in of[p]}

\* The documents that a request about project p is decided on, as they may be.
AnyDocuments(p) == [attachments : AttachmentDocs[p], role : RoleDocs[p],
                    globals : GlobalDocs, mirror : Mirrors[p]]

\* Every variable has its type, and what is past the mapper has an action.
TypeOK ==
  /\ attachments \in Docs(AttachmentDocs)
  /\ customRole \in Docs(RoleDocs)
  /\ mirror \in Docs(Mirrors)
  /\ globals \in GlobalDocs
  /\ edits \in 0 .. MaxEdits
  /\ request \in [Callers -> Request]
  /\ pc \in [Callers -> {"idle", "ValidateRequest", "loadGlobalPolicies",
                         "getAttachments", "resolve", "labels"} \cup Answers]
  /\ DOMAIN policies = Callers
  /\ rest \in [Callers -> SUBSET (Users \X Roles)]
  /\ failed \in [Callers -> SUBSET {"globals", "attachments", "role", "labels"}]
  /\ meanwhile \in [Callers -> 0 .. edits]
  /\ DOMAIN seen = Callers
  /\ \A c \in Callers : seen[c] \subseteq AnyDocuments(request[c].project)
  /\ \A c \in Callers :
       pc[c] \notin {"idle", "bypass"} => ActionOf(request[c]) \in Actions

Init ==
  /\ attachments \in Docs(AttachmentDocs)
  /\ customRole \in Docs(RoleDocs)
  /\ globals \in GlobalDocs
  /\ mirror \in Docs(Mirrors)
  /\ edits = 0
  /\ request = [c \in Callers |-> NoRequest]
  /\ pc = [c \in Callers |-> "idle"]
  /\ policies = [c \in Callers |-> {}]
  /\ rest = [c \in Callers |-> {}]
  /\ failed = [c \in Callers |-> {}]
  /\ meanwhile = [c \in Callers |-> 0]
  /\ seen = [c \in Callers |-> {}]

-----------------------------------------------------------------------------
(* What the documents mean: the answer that is right for a request *)

\* ... and as they are.
Documents(project) ==
  [attachments |-> attachments[project], role |-> customRole[project],
   globals |-> globals, mirror |-> mirror[project]]

\* A cluster that is not known by any labels has none.
LabelsOf(known) == IF known = NoMirror THEN {} ELSE known

\* The role gives its holders the action, on the project's cluster if onCluster;
\* what is not a cluster satisfies no condition.
Grants(role, docs, action, onCluster) ==
  \/ role \in Predefined /\ action \in templates[role]
  \/ /\ role = Custom /\ docs.role # NoRole
     /\ \E perm \in docs.role.permissions \cap AllPermissions :
          /\ PermissionToAction[perm] = action
          /\ \/ perm \in collectionPermissions
             \/ \A c \in docs.role.conditions :
                  onCluster /\ LabelsOf(docs.mirror) \in TrueFor[c]

\* A condition that cannot be parsed makes all policies of the project fail, if
\* the role is given to anyone there and has a permission to put it to.
Unparseable(docs) ==
  \/ ~Parses(docs.globals)
  \/ /\ \E u \in Users : <<u, Custom>> \in docs.attachments
     /\ docs.role # NoRole
     /\ ~(docs.role.permissions \subseteq collectionPermissions)
     /\ ~(docs.role.conditions \subseteq DOMAIN TrueFor)

RightAnswer(docs, req) ==
  LET action == ActionOf(req)
      global(effect) ==
        \E g \in docs.globals :
          /\ g.effect = effect
          /\ Applies(g, req.user, action, req.project, OnCluster(req.path),
                     LabelsOf(docs.mirror))
      granted ==
        \E role \in Roles :
          /\ <<req.user, role>> \in docs.attachments
          /\ Grants(role, docs, action, OnCluster(req.path))
  IN IF action = NoAction THEN "bypass"
     ELSE IF Unparseable(docs) THEN "500"
     ELSE IF (granted \/ global("permit")) /\ ~global("forbid") THEN "next"
     ELSE "403"

\* What the documents are to a request that could not read all of them: global
\* policies that cannot be read are none, labels are those of no cluster.
Without(docs, lost) ==
  [docs EXCEPT !.globals = IF "globals" \in lost THEN {} ELSE @,
               !.mirror = IF "labels" \in lost THEN NoMirror ELSE @]

\* The answers that were right at some moment since a request came, to what
\* could be read.
Right(c) ==
  {RightAnswer(Without(docs, failed[c]), request[c]) : docs \in seen[c]}

-----------------------------------------------------------------------------
(* Others *)

Active(c) == pc[c] \notin {"idle"} \cup Answers

\* One document is edited.  Requests under way may have seen either version.
Edit ==
  /\ edits < MaxEdits
  /\ edits' = edits + 1
  /\ UNCHANGED <<request, pc, progress>>
  /\ \/ \E p \in Projects : \E d \in AttachmentDocs[p] :
          /\ attachments' = [attachments EXCEPT ![p] = d]
          /\ UNCHANGED <<customRole, globals, mirror>>
     \/ \E p \in Projects : \E d \in RoleDocs[p] :
          /\ customRole' = [customRole EXCEPT ![p] = d]
          /\ UNCHANGED <<attachments, globals, mirror>>
     \/ /\ globals' \in GlobalDocs
        /\ UNCHANGED <<attachments, customRole, mirror>>
     \/ \E p \in Projects : \E d \in Mirrors[p] :
          /\ mirror' = [mirror EXCEPT ![p] = d]
          /\ UNCHANGED <<attachments, customRole, globals>>
  /\ meanwhile' = [c \in Callers |-> meanwhile[c] + IF Active(c) THEN 1 ELSE 0]
  /\ seen' = [c \in Callers |->
                IF Active(c) THEN seen[c] \cup {Documents(request[c].project)'}
                ELSE seen[c]]

-----------------------------------------------------------------------------
(* The middleware *)

Goto(c, step) == pc' = [pc EXCEPT ![c] = step]

Missed(c, document) == failed' = [failed EXCEPT ![c] = @ \cup {document}]

\* The middleware goes on without a mapping.
WrapFault(c, req) ==
  /\ pc[c] = "idle"
  /\ request' = [request EXCEPT ![c] = req]
  /\ Goto(c, "ValidateRequest")
  /\ seen' = [seen EXCEPT ![c] = {Documents(req.project)}]
  /\ UNCHANGED <<stores, edits, progress, meanwhile>>

\* What no route of the mapper matches goes on to the server as it is.
Wrap(c, req) ==
  /\ pc[c] = "idle"
  /\ request' = [request EXCEPT ![c] = req]
  /\ Goto(c, IF ActionOf(req) = NoAction THEN "bypass" ELSE "ValidateRequest")
  /\ seen' = [seen EXCEPT ![c] = {Documents(req.project)}]
  /\ UNCHANGED <<stores, edits, progress, meanwhile>>

ValidateRequest(c) ==
  /\ pc[c] = "ValidateRequest"
  /\ Goto(c, "loadGlobalPolicies") \/ Goto(c, "401")
  /\ UNCHANGED <<stores, edits, request, progress, history>>

\* Global policies that cannot be read are taken for none.
loadGlobalPolicies(c) ==
  /\ pc[c] = "loadGlobalPolicies"
  /\ \/ policies' = [policies EXCEPT ![c] = globals] /\ UNCHANGED failed
     \/ Missed(c, "globals") /\ UNCHANGED policies
  /\ Goto(c, "getAttachments")
  /\ UNCHANGED <<stores, edits, request, rest, history>>

\* Without any policy nobody has access.
getAttachments(c) ==
  /\ pc[c] = "getAttachments"
  /\ rest' = [rest EXCEPT ![c] = attachments[request[c].project]]
  /\ Goto(c, IF policies[c] = {} /\ rest'[c] = {} THEN "403" ELSE "resolve")
  /\ UNCHANGED <<stores, edits, request, policies, failed, history>>

getAttachmentsFailed(c) ==
  /\ pc[c] = "getAttachments"
  /\ Missed(c, "attachments")
  /\ Goto(c, "500")
  /\ UNCHANGED <<stores, edits, request, policies, rest, history>>

\* The policies of an attachment of user u.
PoliciesOf(u, role, project) ==
  IF role \in Predefined THEN {TemplatePolicy(role, u, project)}
  ELSE IF customRole[project] = NoRole THEN {}
  ELSE GeneratePolicyFromPermissions(customRole[project], u, project)

\* A custom role that does not exist is passed over.
resolveAttachmentPolicy(c, u, role) ==
  /\ pc[c] = "resolve" /\ <<u, role>> \in rest[c]
  /\ rest' = [rest EXCEPT ![c] = @ \ {<<u, role>>}]
  /\ policies' = [policies EXCEPT ![c] =
                    @ \cup PoliciesOf(u, role, request[c].project)]
  /\ UNCHANGED <<stores, edits, request, pc, failed, history>>

\* What could be read of the role is used: its permissions, not its conditions.
resolveFailedFault(c, u) ==
  /\ pc[c] = "resolve" /\ <<u, Custom>> \in rest[c]
  /\ customRole[request[c].project] # NoRole
  /\ rest' = [rest EXCEPT ![c] = @ \ {<<u, Custom>>}]
  /\ policies' = [policies EXCEPT ![c] =
                    @ \cup GeneratePolicyFromPermissions(
                             [customRole[request[c].project] EXCEPT
                                !.conditions = {}], u, request[c].project)]
  /\ Missed(c, "role")
  /\ UNCHANGED <<stores, edits, request, pc, history>>

\* ... and so is one that cannot be read or decoded.
resolveFailed(c, u) ==
  /\ pc[c] = "resolve" /\ <<u, Custom>> \in rest[c]
  /\ rest' = [rest EXCEPT ![c] = @ \ {<<u, Custom>>}]
  /\ Missed(c, "role")
  /\ UNCHANGED <<stores, edits, request, pc, policies, history>>

Decide(c, labels) ==
  Goto(c, IF Authorize(policies[c], request[c].user, ActionOf(request[c]),
                       request[c].project, OnCluster(request[c].path), labels)
          THEN "next" ELSE "403")

\* All policies are resolved.  None at all is another message, the same answer.
Resolved(c) ==
  /\ pc[c] = "resolve" /\ rest[c] = {}
  /\ IF ~Parses(policies[c]) THEN Goto(c, "500")
     ELSE IF OnCluster(request[c].path) /\ policies[c] # {}
     THEN Goto(c, "labels")
     ELSE Decide(c, {})
  /\ UNCHANGED <<stores, edits, request, progress, history>>

fetchResourceLabels(c) ==
  /\ pc[c] = "labels"
  /\ \/ Decide(c, LabelsOf(mirror[request[c].project])) /\ UNCHANGED failed
     \/ Decide(c, {}) /\ Missed(c, "labels")
  /\ UNCHANGED <<stores, edits, request, policies, rest, history>>

\* The request is answered, here or by the server.
Leave(c) ==
  /\ pc[c] \in Answers
  /\ Goto(c, "idle")
  /\ request' = [request EXCEPT ![c] = NoRequest]
  /\ policies' = [policies EXCEPT ![c] = {}]
  /\ rest' = [rest EXCEPT ![c] = {}]
  /\ failed' = [failed EXCEPT ![c] = {}]
  /\ meanwhile' = [meanwhile EXCEPT ![c] = 0]
  /\ seen' = [seen EXCEPT ![c] = {}]
  /\ UNCHANGED <<stores, edits>>

Step(c) ==
  \/ \E req \in Request : Wrap(c, req)
  \/ ValidateRequest(c) \/ loadGlobalPolicies(c)
  \/ getAttachments(c) \/ getAttachmentsFailed(c)
  \/ \E u \in Users :
       \/ resolveFailed(c, u)
       \/ \E role \in Roles : resolveAttachmentPolicy(c, u, role)
  \/ Resolved(c) \/ fetchResourceLabels(c) \/ Leave(c)

Next == Edit \/ \E c \in Callers : Step(c)

Spec == Init /\ [][Next]_vars

-----------------------------------------------------------------------------

Judged(c) == pc[c] \in {"next", "403", "500"} /\ meanwhile[c] <= 1

\* If attachments and roles could be read, the answer is the one the documents
\* called for at some moment between the request and its answer, whatever one
\* edit came between its reads.  Global policies or labels that could not be
\* read count for none then, but for nothing else: a forbid policy is lost with
\* them, and a condition fails that asks for a label.  (Two edits may be mixed:
\* an attachment that was removed before its role was extended can be taken
\* with the extended role.)
DecisionRight ==
  \A c \in Callers :
    Judged(c) /\ failed[c] \cap {"attachments", "role"} = {} =>
      pc[c] \in Right(c)

\* A role that cannot be read never lets a request through that would not have
\* been, or would have failed on its conditions, with that role.  (It is passed
\* over, as are the global policies and the labels.)
LostRolesNarrow ==
  \A c \in Callers :
    Judged(c) /\ pc[c] = "next" => Right(c) \cap {"next", "500"} # {}

\* The mapper's routes and the server's are two tables: what goes past the
\* middleware undecided and has a handler all the same reaches one that tells
\* and changes nothing of a project, or is a HEAD, which net/http serves by the
\* patterns for GET and the mapper does not know.
UndecidedRoutes ==
  \A c \in Callers :
    pc[c] = "bypass" /\ <<request[c].method, request[c].path>> \in mux =>
      request[c].path \in Public \/ request[c].method = "HEAD"
=============================================================================
