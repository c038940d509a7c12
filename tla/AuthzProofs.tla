---------------------------- MODULE AuthzProofs ----------------------------
(***************************************************************************)
(* Proofs about Authz, for all users, projects, callers, attachments,      *)
(* custom roles, global policies and labels, and one edit of any document  *)
(* between the reads of a request: that the middleware answers what the    *)
(* documents called for at a moment the request was being served, and that *)
(* a role it could not read only narrows the answer.                       *)
(*                                                                         *)
(* The first half is about documents that do not change: all the policies  *)
(* that ResolvePolicies makes of them decide what the documents mean       *)
(* (CalledRight), where what they mean, RightAnswer, is said without       *)
(* policies. It is pure, about the operators of Policy.                    *)
(*                                                                         *)
(* The second half is about what is read while one document is edited and  *)
(* reads may fail. Global policies or labels that cannot be read are taken *)
(* for none, so what was read is of documents Without them. The policies   *)
(* read are then those of the documents before the edit or after it, the   *)
(* attachments of one of them with roles of either (Mixed), and nothing is *)
(* lost of them unless a role could not be read (Whole). Since only one    *)
(* document differs, some one version of all documents decides as they do  *)
(* (WholeRight), or, if a role was lost, allows what they allow            *)
(* (MixedNext). The inductive invariant says of each request that what it  *)
(* has read so far is such a mixture, of documents that are both recorded  *)
(* (ReadInv).                                                              *)
(***************************************************************************)
EXTENDS Authz, TLAPS

(* The documents of a project, and what they call for *)

\* At most one document is not the same.
OneEdited(old, new) ==
  \/ /\ old.role = new.role /\ old.globals = new.globals
     /\ old.mirror = new.mirror
  \/ /\ old.attachments = new.attachments
     /\ old.globals = new.globals /\ old.mirror = new.mirror
  \/ /\ old.attachments = new.attachments
     /\ old.role = new.role /\ old.mirror = new.mirror
  \/ /\ old.attachments = new.attachments
     /\ old.role = new.role /\ old.globals = new.globals

\* The policies of an attachment a, its role as in role.
Given(a, role, p) ==
  IF a[2] \in Predefined THEN {TemplatePolicy(a[2], a[1], p)}
  ELSE IF role = NoRole THEN {}
  ELSE GeneratePolicyFromPermissions(role, a[1], p)

\* All policies of the documents.
All(docs, p) ==
  docs.globals \cup UNION {Given(a, docs.role, p) : a \in docs.attachments}

\* What policies decide, the cluster of the project labelled so.
Decision(set, req, labels) ==
  IF ~Parses(set) THEN "500"
  ELSE IF Authorize(set, req.user, ActionOf(req), req.project,
                    OnCluster(req.path), labels)
  THEN "next" ELSE "403"

\* The answer documents call for.
Called(docs, req) ==
  Decision(All(docs, req.project), req, LabelsOf(docs.mirror))

-----------------------------------------------------------------------------
(* What a request has read *)

\* The policies are of the global ones g and of the attachments taken, the role
\* of each as in one of two documents.
Mixed(set, g, taken, x, y, p) ==
  /\ g \subseteq set
  /\ \A pol \in set \ g : \E a \in taken, role \in {x, y} :
       pol \in Given(a, role, p)

\* ... and nothing is lost of them.
Whole(set, g, taken, x, y, p) ==
  /\ \A pol \in set \ g :
       \E a \in taken, role \in {x, y} :
         pol \in Given(a, role, p) /\ Given(a, role, p) \subseteq set
  /\ \A a \in taken : \E role \in {x, y} : Given(a, role, p) \subseteq set

\* So far for each step: nothing first, then the global policies, and then
\* those of the attachments that were taken up.
Reading(old, new, p, step, set, left, lost) ==
  /\ step \in {"ValidateRequest", "loadGlobalPolicies"} => set = {} /\ lost = {}
  /\ step = "getAttachments" => set \in {old.globals, new.globals}
  /\ step \in {"resolve", "labels"} =>
       \E g \in {old.globals, new.globals},
         a \in {old.attachments, new.attachments} :
         /\ left \subseteq a
         /\ Mixed(set, g, a \ left, old.role, new.role, p)
         /\ "role" \notin lost =>
              Whole(set, g, a \ left, old.role, new.role, p)

\* Some documents, at most one edit ago, and those of now are all that the
\* request has read from, as far as it could, and both are recorded.
Consistent(req, new, step, set, left, lost, count, docs) ==
  \E old \in AnyDocuments(req.project) :
    /\ OneEdited(old, new)
    /\ count = 0 => old = new
    /\ {old, new} \subseteq docs
    /\ Reading(Without(old, lost), Without(new, lost), req.project, step, set,
               left, lost)

\* A request during which at most one document was edited.
ReadInv(c) ==
  (Active(c) /\ meanwhile[c] <= 1) =>
    Consistent(request[c], Documents(request[c].project), pc[c], policies[c],
               rest[c], failed[c], meanwhile[c], seen[c])

\* A request that has not come has read nothing, and labels are read last.
LostInv(c) ==
  /\ pc[c] = "idle" => policies[c] = {} /\ failed[c] = {}
  /\ Active(c) => "labels" \notin failed[c]

\* Labels are fetched only when every policy was resolved and parses, and the
\* request is about a cluster.
LabelsInv(c) ==
  pc[c] = "labels" =>
    rest[c] = {} /\ Parses(policies[c]) /\ OnCluster(request[c].path)

\* DecisionRight and LostRolesNarrow of one request.
AnswerInv(c) ==
  /\ Judged(c) /\ failed[c] \cap {"attachments", "role"} = {} =>
       pc[c] \in Right(c)
  /\ Judged(c) /\ pc[c] = "next" => Right(c) \cap {"next", "500"} # {}

\* All that is known of a request.
CallerInv(c) == AnswerInv(c) /\ ReadInv(c) /\ LabelsInv(c) /\ LostInv(c)

\* The inductive invariant.
IInv == TypeOK /\ \A c \in Callers : CallerInv(c)

-----------------------------------------------------------------------------
(* The policies of a role *)

USE AuthzAssumption, PolicyAssumption

\* The actions that some permission gives.
LEMMA ActionsOfPermissions ==
  Actions = {"CreateManagedHostedCluster", "ListManagedHostedClusters",
             "GetManagedHostedCluster", "UpdateManagedHostedCluster",
             "DeleteManagedHostedCluster", "GetKubeConfig", "ManagePolicies"}
BY DEF Actions, AllPermissions, PermissionToAction

\* MapRequest gives a request one of them, or none.
LEMMA MapRequestType ==
  ASSUME NEW req \in Request
  PROVE  ActionOf(req) = NoAction \/ ActionOf(req) \in Actions
<1>1. ActionOf(req) \in {NoAction, "GetKubeConfig", "GetManagedHostedCluster",
         "UpdateManagedHostedCluster", "DeleteManagedHostedCluster",
         "ListManagedHostedClusters", "CreateManagedHostedCluster",
           "ManagePolicies"}
  BY DEF ActionOf, MapRequest
<1> QED
  BY <1>1, ActionsOfPermissions

\* The two policies of a custom role: what it may do to a collection, without
\* conditions,
CollectionBlock(role, u, p) ==
  Permit(u, MapPermissionsToActions(role.permissions \cap
                                      collectionPermissions), {}, p)

\* and the rest, under its conditions.
OthersBlock(role, u, p) ==
  Permit(u, MapPermissionsToActions(role.permissions \ collectionPermissions),
         role.conditions, p)

\* GeneratePolicyFromPermissions makes each of them unless it would permit
\* nothing.
LEMMA CustomPolicies ==
  ASSUME NEW u, NEW role, NEW p
  PROVE  GeneratePolicyFromPermissions(role, u, p) =
           (IF role.permissions \cap collectionPermissions = {} THEN {}
            ELSE {CollectionBlock(role, u, p)})
           \cup
           (IF role.permissions \subseteq collectionPermissions THEN {}
            ELSE {OthersBlock(role, u, p)})
<1> DEFINE collection == role.permissions \cap collectionPermissions
           others == role.permissions \ collectionPermissions
           block(perms) == Permit(u, MapPermissionsToActions(perms),
                                  IF perms = others THEN role.conditions
                                    ELSE {}, p)
<1>1. collection # {} => collection # others
  OBVIOUS
<1>2. others = {} <=> role.permissions \subseteq collectionPermissions
  OBVIOUS
<1>3. GeneratePolicyFromPermissions(role, u, p)
        = {block(perms) : perms \in {collection, others} \ {{}}}
  BY Zenon DEF GeneratePolicyFromPermissions
<1> HIDE DEF collection, others
<1>4. collection # {} => block(collection) = CollectionBlock(role, u, p)
  BY <1>1 DEF CollectionBlock, collection
<1>5. block(others) = OthersBlock(role, u, p)
  BY DEF OthersBlock, others
<1> HIDE DEF block
<1>6. {block(perms) : perms \in {collection, others} \ {{}}}
        = (IF collection = {} THEN {} ELSE {block(collection)})
          \cup (IF others = {} THEN {} ELSE {block(others)})
  OBVIOUS
<1> QED
  BY <1>2, <1>3, <1>4, <1>5, <1>6 DEF collection

\* What Permit puts into a policy.
LEMMA PermitFields ==
  ASSUME NEW u, NEW actions, NEW conditions, NEW p
  PROVE  /\ Permit(u, actions, conditions, p).effect = "permit"
         /\ Permit(u, actions, conditions, p).user = u
         /\ Permit(u, actions, conditions, p).actions = actions
         /\ Permit(u, actions, conditions, p).conditions = conditions
         /\ Permit(u, actions, conditions, p).project = p
BY DEF Permit

\* The policies of an attachment permit, to its user, in its project.
LEMMA GivenFields ==
  ASSUME NEW a, NEW role, NEW p, NEW pol \in Given(a, role, p)
  PROVE  pol.effect = "permit" /\ pol.user = a[1] /\ pol.project = p
<1>1. ASSUME pol \in GeneratePolicyFromPermissions(role, a[1], p)
      PROVE  pol.effect = "permit" /\ pol.user = a[1] /\ pol.project = p
  <2>1. pol = CollectionBlock(role, a[1], p) \/ pol = OthersBlock(role, a[1], p)
    BY <1>1, CustomPolicies
  <2> QED
    BY <2>1 DEF Permit, CollectionBlock, OthersBlock
<1>2. CASE a[2] \in Predefined
  BY <1>2, PermitFields DEF Given, TemplatePolicy
<1>3. CASE a[2] \notin Predefined
  BY <1>1, <1>3 DEF Given
<1> QED
  BY <1>2, <1>3

\* A predefined role has the policy of its template.
LEMMA GivenPredefined ==
  ASSUME NEW a, a[2] \in Predefined, NEW role, NEW p
  PROVE  Given(a, role, p) = {Permit(a[1], templates[a[2]], {}, p)}
BY DEF Given, TemplatePolicy

\* A role without a policy that does not parse.
Parsing(role) ==
  \/ role = NoRole
  \/ role.permissions \subseteq collectionPermissions
  \/ role.conditions \subseteq DOMAIN TrueFor

\* A custom role parses unless a condition that does not is used.
LEMMA GivenParses ==
  ASSUME NEW u, NEW role, NEW p
  PROVE  Parses(Given(<<u, Custom>>, role, p)) <=> Parsing(role)
<1>1. Custom \notin Predefined
  BY DEF Custom, Predefined
<1>2. CASE role = NoRole
  BY <1>1, <1>2 DEF Given, Parses, Parsing
<1>3. CASE role # NoRole
  <2>1. Given(<<u, Custom>>, role, p) =
          GeneratePolicyFromPermissions(role, u, p)
    BY <1>1, <1>3 DEF Given
  <2> QED
    <3> DEFINE collection == role.permissions \cap collectionPermissions
               C == CollectionBlock(role, u, p)
               O == OthersBlock(role, u, p)
    <3>1. C.conditions = {} /\ O.conditions = role.conditions
      BY DEF Permit, CollectionBlock, OthersBlock
    <3>2. Given(<<u, Custom>>, role, p)
            = (IF collection = {} THEN {} ELSE {C})
              \cup (IF role.permissions \subseteq collectionPermissions
                THEN {} ELSE {O})
      BY <2>1, CustomPolicies
    <3> HIDE DEF C, O, collection
    <3> QED
      BY <1>3, <3>1, <3>2 DEF Parses, Parsing
<1> QED
  BY <1>2, <1>3

\* A role grants an action exactly if one of its policies applies.
LEMMA GivenApplies ==
  ASSUME NEW req \in Request, NEW role \in Roles, NEW docs, NEW action
  PROVE  Grants(role, docs, action, OnCluster(req.path)) <=>
           \E pol \in Given(<<req.user, role>>, docs.role, req.project) :
             Applies(pol, req.user, action, req.project, OnCluster(req.path),
                     LabelsOf(docs.mirror))
<1> DEFINE on == OnCluster(req.path)
           labels == LabelsOf(docs.mirror)
           x == docs.role
           applies(pol) == Applies(pol, req.user, action, req.project, on,
             labels)
<1> HIDE DEF on, labels
<1>1. CASE role \in Predefined
  <2>1. Given(<<req.user, role>>, x, req.project)
          = {Permit(req.user, templates[role], {}, req.project)}
    BY <1>1, GivenPredefined
  <2>2. role # Custom
    BY <1>1 DEF Custom, Predefined
  <2> QED
    BY <1>1, <2>1, <2>2, PermitFields DEF Grants, Applies, on, labels
<1>2. CASE role = Custom
  <2>1. role \notin Predefined
    BY <1>2 DEF Custom, Predefined
  <2>2. CASE x = NoRole
    BY <1>2, <2>1, <2>2 DEF Grants, Given
  <2>3. CASE x # NoRole
    <3>1. Given(<<req.user, role>>, x, req.project)
            = GeneratePolicyFromPermissions(x, req.user, req.project)
      BY <2>1, <2>3 DEF Given
    <3> DEFINE collection == x.permissions \cap collectionPermissions
               others == x.permissions \ collectionPermissions
    <3>2. (\E pol \in Given(<<req.user, role>>, x, req.project) :
            applies(pol)) <=>
            \/ collection # {} /\ action \in MapPermissionsToActions(collection)
            \/ /\ others # {} /\ action \in MapPermissionsToActions(others)
               /\ \A c \in x.conditions : on /\ labels \in TrueFor[c]
      <4> DEFINE C == CollectionBlock(x, req.user, req.project)
                 O == OthersBlock(x, req.user, req.project)
      <4>1. /\ C.actions = MapPermissionsToActions(collection) /\
                 C.conditions = {}
            /\ O.actions = MapPermissionsToActions(others)
            /\ O.conditions = x.conditions
            /\ C.user = req.user /\ C.project = req.project
            /\ O.user = req.user /\ O.project = req.project
        BY DEF Permit, CollectionBlock, OthersBlock
      <4>2. Given(<<req.user, role>>, x, req.project)
              = (IF collection = {} THEN {} ELSE {C})
                \cup (IF x.permissions \subseteq collectionPermissions
                  THEN {} ELSE {O})
        BY <3>1, CustomPolicies
      <4>3. others = {} <=> x.permissions \subseteq collectionPermissions
        OBVIOUS
      <4>4. collection = {} => MapPermissionsToActions(collection) = {}
        BY DEF MapPermissionsToActions
      <4> HIDE DEF C, O, collection, others
      <4> QED
        BY <4>1, <4>2, <4>3, <4>4 DEF Applies
    <3>3. Grants(role, docs, action, on) <=>
            \E perm \in x.permissions \cap AllPermissions :
              /\ PermissionToAction[perm] = action
              /\ \/ perm \in collectionPermissions
                 \/ \A c \in x.conditions : on /\ labels \in TrueFor[c]
      BY <1>2, <2>1, <2>3 DEF Grants, labels
    <3> QED
      BY <3>2, <3>3 DEF MapPermissionsToActions, on, labels
  <2> QED
    BY <2>2, <2>3
<1> QED
  BY <1>1, <1>2 DEF Roles

-----------------------------------------------------------------------------
(* What the documents mean is what all their policies decide *)

\* A policy has a say in a request, the cluster of its project labelled so.
Speaks(pol, req, labels) ==
  Applies(pol, req.user, ActionOf(req), req.project,
    OnCluster(req.path), labels)

\* The documents attach known roles to known users.
Sane(docs) == docs.attachments \subseteq Users \X Roles

\* A policy is a global one or one of an attachment.
LEMMA AllMembers ==
  ASSUME NEW docs, NEW p, NEW pol
  PROVE  pol \in All(docs, p) <=>
           pol \in docs.globals \/ \E a \in docs.attachments :
             pol \in Given(a, docs.role, p)
BY DEF All

\* Only a custom role may fail to parse.
LEMMA AttachmentParses ==
  ASSUME NEW a \in Users \X Roles, NEW role, NEW p
  PROVE  Parses(Given(a, role, p)) <=> a[2] # Custom \/ Parsing(role)
<1>1. CASE a[2] = Custom
  <2>1. a = <<a[1], Custom>>
    BY <1>1
  <2> QED
    BY <1>1, <2>1, GivenParses
<1>2. CASE a[2] # Custom
  <2>1. a[2] \in Predefined
    BY <1>2 DEF Roles
  <2>2. Given(a, role, p) = {Permit(a[1], templates[a[2]], {}, p)}
    BY <2>1, GivenPredefined
  <2>3. Permit(a[1], templates[a[2]], {}, p).conditions = {}
    BY DEF Permit
  <2> QED
    BY <1>2, <2>2, <2>3 DEF Parses
<1> QED
  BY <1>1, <1>2

\* The policies of the documents parse unless a global one does not, or the
\* custom role that somebody has does not.
LEMMA AllParse ==
  ASSUME NEW docs, Sane(docs), NEW p
  PROVE  Parses(All(docs, p)) <=> ~Unparseable(docs)
<1>1. Parses(All(docs, p)) <=>
        /\ Parses(docs.globals)
        /\ \A a \in docs.attachments : Parses(Given(a, docs.role, p))
  BY AllMembers DEF Parses
<1>2. (\A a \in docs.attachments : Parses(Given(a, docs.role, p))) <=>
        ((\E a \in docs.attachments : a[2] = Custom) => Parsing(docs.role))
  BY AttachmentParses DEF Sane
<1>3. (\E a \in docs.attachments : a[2] = Custom) <=>
        \E u \in Users : <<u, Custom>> \in docs.attachments
  <2>1. ASSUME NEW a \in docs.attachments, a[2] = Custom
        PROVE  a = <<a[1], Custom>> /\ a[1] \in Users
    BY <2>1 DEF Sane
  <2> QED
    BY <2>1
<1> QED
  BY <1>1, <1>2, <1>3 DEF Unparseable, Parsing

\* Only the policies of its user speak for a request, and all they say is yes.
LEMMA GivenSpeaks ==
  ASSUME NEW req \in Request, NEW a \in Users \X Roles, NEW role, NEW labels,
         NEW pol \in Given(a, role, req.project), Speaks(pol, req, labels)
  PROVE  a = <<req.user, a[2]>> /\ pol.effect = "permit"
<1>1. pol.effect = "permit" /\ pol.user = a[1]
  BY GivenFields
<1>2. req.user \in Users
  BY DEF Request
<1> QED
  BY <1>1, <1>2 DEF Speaks, Applies

\* Authorize allows what a role of the user grants or a global policy
\* permits, unless a global policy forbids it.
LEMMA AllAuthorize ==
  ASSUME NEW req \in Request, NEW docs, Sane(docs)
  PROVE  Authorize(All(docs, req.project), req.user, ActionOf(req), req.project,
                   OnCluster(req.path), LabelsOf(docs.mirror)) <=>
           /\ \/ \E role \in Roles : /\ <<req.user, role>> \in docs.attachments
                                     /\ Grants(role, docs, ActionOf(req),
                                          OnCluster(req.path))
              \/ \E g \in docs.globals :
                   g.effect = "permit" /\ Speaks(g, req, LabelsOf(docs.mirror))
           /\ ~\E g \in docs.globals :
                 g.effect = "forbid" /\ Speaks(g, req, LabelsOf(docs.mirror))
<1> DEFINE labels == LabelsOf(docs.mirror)
           all == All(docs, req.project)
<1>1. Authorize(all, req.user, ActionOf(req), req.project,
        OnCluster(req.path), labels) <=>
        /\ \E pol \in all : Speaks(pol, req, labels) /\ pol.effect = "permit"
        /\ \A pol \in all : Speaks(pol, req, labels) => pol.effect # "forbid"
  BY DEF Authorize, Speaks
<1>2. \A role \in Roles :
        Grants(role, docs, ActionOf(req), OnCluster(req.path)) <=>
          \E pol \in Given(<<req.user, role>>, docs.role, req.project) :
            Speaks(pol, req, labels)
  BY GivenApplies DEF Speaks
<1>3. ASSUME NEW pol, Speaks(pol, req, labels)
      PROVE  pol \in all <=>
               \/ pol \in docs.globals
               \/ \E role \in Roles :
                    /\ <<req.user, role>> \in docs.attachments
                    /\ pol \in Given(<<req.user, role>>, docs.role, req.project)
  <2>1. ASSUME NEW a \in docs.attachments,
               pol \in Given(a, docs.role, req.project)
        PROVE  a = <<req.user, a[2]>> /\ a[2] \in Roles
    <3>1. a \in Users \X Roles
      BY DEF Sane
    <3> QED
      BY <1>3, <2>1, <3>1, GivenSpeaks
  <2>2. pol \in all => \/ pol \in docs.globals
                     \/ \E a \in docs.attachments :
                          pol \in Given(a, docs.role, req.project)
    BY AllMembers
  <2>3. ASSUME NEW role \in Roles, <<req.user, role>> \in docs.attachments,
               pol \in Given(<<req.user, role>>, docs.role, req.project)
        PROVE  pol \in all
    BY <2>3, AllMembers
  <2>4. pol \in docs.globals => pol \in all
    BY AllMembers
  <2> HIDE DEF all
  <2> QED
    BY <2>1, <2>2, <2>3, <2>4
<1>4. ASSUME NEW role \in Roles,
             NEW pol \in Given(<<req.user, role>>, docs.role, req.project)
      PROVE  pol.effect = "permit"
  BY <1>4, GivenFields
<1> HIDE DEF all, labels
<1> QED
  BY <1>1, <1>2, <1>3, <1>4 DEF labels, all

\* On one version of the documents the middleware decides what they mean, for
\* every request that has an action: custom roles with and without
\* conditions, predefined ones, global policies that permit or forbid,
\* policies that do not parse, labels.
THEOREM CalledRight ==
  ASSUME NEW req \in Request, ActionOf(req) # NoAction, NEW docs, Sane(docs)
  PROVE  RightAnswer(docs, req) = Called(docs, req)
BY AllParse, AllAuthorize DEF RightAnswer, Called, Decision, Speaks

-----------------------------------------------------------------------------
(* What is read of documents one of which is edited meanwhile *)

\* Whichever version of the role was read, there was a moment at which all the
\* other documents were what was read of them.
LEMMA Snapshot ==
  ASSUME NEW old, NEW new, OneEdited(old, new),
         NEW g \in {old.globals, new.globals},
         NEW taken \in {old.attachments, new.attachments},
         NEW role \in {old.role, new.role}
  PROVE  \E docs \in {old, new} :
           /\ docs.globals = g /\ docs.attachments = taken
           /\ docs.role = role /\ docs.mirror = new.mirror
BY DEF OneEdited

\* Of what was read at one moment, the global policies are there and the others
\* only add to what is allowed.
LEMMA ForbidsKnown ==
  ASSUME NEW docs, NEW p, NEW pol \in All(docs, p), pol.effect # "permit"
  PROVE  pol \in docs.globals
BY AllMembers, GivenFields

\* If a policy of the documents permits a request which a set with all the
\* global policies allows, then so do the documents, or they do not parse.
LEMMA Permitted ==
  ASSUME NEW req \in Request, NEW docs, NEW set, docs.globals \subseteq set,
         NEW pol \in All(docs, req.project), pol.effect = "permit",
         Speaks(pol, req, LabelsOf(docs.mirror)),
         Authorize(set, req.user, ActionOf(req), req.project,
                   OnCluster(req.path), LabelsOf(docs.mirror))
  PROVE  Called(docs, req) = IF Parses(All(docs, req.project)) THEN "next"
           ELSE "500"
<1>1. \A f \in set : Speaks(f, req, LabelsOf(docs.mirror)) =>
        f.effect # "forbid"
  BY DEF Authorize, Speaks
<1>2. \A f \in All(docs, req.project) :
        Speaks(f, req, LabelsOf(docs.mirror)) => f.effect # "forbid"
  BY <1>1, ForbidsKnown
<1>3. Authorize(All(docs, req.project), req.user, ActionOf(req), req.project,
                OnCluster(req.path), LabelsOf(docs.mirror))
  BY <1>2 DEF Authorize, Speaks
<1> QED
  BY <1>3 DEF Called, Decision

\* What a mixture allows is allowed, or an error, in one of the two versions.
LEMMA MixedNext ==
  ASSUME NEW req \in Request, NEW old, NEW new, OneEdited(old, new),
         NEW g \in {old.globals, new.globals},
         NEW taken \in {old.attachments, new.attachments}, NEW set,
         Mixed(set, g, taken, old.role, new.role, req.project),
         Decision(set, req, LabelsOf(new.mirror)) = "next"
  PROVE  \E docs \in {old, new} : Called(docs, req) \in {"next", "500"}
<1> DEFINE labels == LabelsOf(new.mirror)
<1>1. Authorize(set, req.user, ActionOf(req), req.project,
        OnCluster(req.path), labels)
  BY DEF Decision
<1>2. PICK pol \in set : Speaks(pol, req, labels) /\ pol.effect = "permit"
  BY <1>1 DEF Authorize, Speaks
<1>3. PICK role \in {old.role, new.role} :
        pol \in g \/ \E a \in taken : pol \in Given(a, role, req.project)
  BY DEF Mixed
<1>4. PICK docs \in {old, new} : /\ docs.globals = g /\ docs.attachments = taken
                                 /\ docs.role = role /\ docs.mirror = new.mirror
  BY Snapshot
<1>5. pol \in All(docs, req.project)
  BY <1>3, <1>4, AllMembers
<1>6. docs.globals \subseteq set
  BY <1>4 DEF Mixed
<1>7. Called(docs, req) = IF Parses(All(docs, req.project)) THEN "next"
        ELSE "500"
  BY <1>1, <1>2, <1>4, <1>5, <1>6, Permitted
<1> QED
  BY <1>7

\* The role parses if anyone has it.
Fits(role, taken) == (\E a \in taken : a[2] = Custom) => Parsing(role)

\* A role that parses if anyone has it, and global policies that parse, are
\* all it takes to parse.
LEMMA FittingParse ==
  ASSUME NEW docs, Sane(docs), NEW p, Parses(docs.globals),
         Fits(docs.role, docs.attachments)
  PROVE  Parses(All(docs, p))
BY AllMembers, AttachmentParses DEF Parses, Fits, Sane

\* A role whose policies were taken, and parse, parses.
LEMMA TakenFits ==
  ASSUME NEW set, Parses(set), NEW taken, taken \subseteq Users \X Roles,
         NEW a \in taken, a[2] = Custom, NEW role, NEW p,
           Given(a, role, p) \subseteq set
  PROVE  Fits(role, taken)
<1>1. Parses(Given(a, role, p))
  BY DEF Parses
<1> QED
  BY <1>1, AttachmentParses DEF Fits

\* Of a whole mixture that parses, one version of the role was taken, for
\* each user.
LEMMA SomeFits ==
  ASSUME NEW set, Parses(set), NEW g, NEW taken, taken \subseteq Users \X Roles,
         NEW x, NEW y, NEW p, Whole(set, g, taken, x, y, p), NEW u
  PROVE  \E role \in {x, y} :
           /\ Fits(role, taken)
           /\ <<u, Custom>> \in taken =>
                Given(<<u, Custom>>, role, p) \subseteq set
<1>1. CASE \A a \in taken : a[2] # Custom
  BY <1>1 DEF Fits
<1>2. ASSUME NEW b \in taken, b[2] = Custom,
             <<u, Custom>> \in taken => b = <<u, Custom>>
      PROVE  \E role \in {x, y} :
               /\ Fits(role, taken)
               /\ <<u, Custom>> \in taken =>
                    Given(<<u, Custom>>, role, p) \subseteq set
  <2>1. PICK role \in {x, y} : Given(b, role, p) \subseteq set
    BY DEF Whole
  <2>2. Fits(role, taken)
    BY <1>2, <2>1, TakenFits
  <2> QED
    BY <1>2, <2>1, <2>2
<1>3. CASE <<u, Custom>> \in taken
  BY <1>2, <1>3
<1> QED
  BY <1>1, <1>2, <1>3

\* A whole mixture decides as one of the two versions does: if the role or
\* the attachments were edited, as a version that was taken up for the user;
\* if the global policies or the labels were, as the version that was read.
LEMMA WholeRight ==
  ASSUME NEW req \in Request, NEW old, NEW new, Sane(old), Sane(new),
         OneEdited(old, new),
         NEW g \in {old.globals, new.globals},
         NEW taken \in {old.attachments, new.attachments}, NEW set,
         Mixed(set, g, taken, old.role, new.role, req.project),
         Whole(set, g, taken, old.role, new.role, req.project)
  PROVE  \E docs \in {old, new} :
           Called(docs, req) = Decision(set, req, LabelsOf(new.mirror))
<1> DEFINE labels == LabelsOf(new.mirror)
           p == req.project
           At(docs, role) == /\ docs.globals = g /\ docs.attachments = taken
                             /\ docs.role = role /\ docs.mirror = new.mirror
           allowed(s) == Authorize(s, req.user, ActionOf(req), p,
             OnCluster(req.path), labels)
<1>1. \A role \in {old.role, new.role} : \E docs \in {old, new} : At(docs, role)
  BY Snapshot
<1>2. taken \subseteq Users \X Roles
  BY DEF Sane
<1>6. ASSUME Parses(set)
      PROVE  \E role \in {old.role, new.role} :
               /\ Fits(role, taken)
               /\ <<req.user, Custom>> \in taken =>
                    Given(<<req.user, Custom>>, role, p) \subseteq set
  <2> DEFINE x == old.role  y == new.role  q == req.project  u == req.user
  <2>1. Whole(set, g, taken, x, y, q)
    OBVIOUS
  <2> HIDE DEF x, y, q, u
  <2>2. \E role \in {x, y} :
          /\ Fits(role, taken)
          /\ <<u, Custom>> \in taken =>
               Given(<<u, Custom>>, role, q) \subseteq set
    BY <1>2, <1>6, <2>1, SomeFits
  <2> QED
    BY <2>2 DEF x, y, q, u
<1>3. CASE ~Parses(set)
  <2>1. PICK pol \in set : ~(pol.conditions \subseteq DOMAIN TrueFor)
    BY <1>3 DEF Parses
  <2>2. PICK role \in {old.role, new.role} :
          pol \in g \/ \E a \in taken : pol \in Given(a, role, p)
    BY DEF Mixed
  <2>3. PICK docs \in {old, new} : At(docs, role)
    BY <1>1
  <2>4. pol \in All(docs, p)
    BY <2>2, <2>3, AllMembers
  <2>5. ~Parses(All(docs, p))
    BY <2>1, <2>4 DEF Parses
  <2> QED
    BY <1>3, <2>5 DEF Called, Decision
<1>4. CASE Parses(set) /\ allowed(set)
  <2>1. PICK pol \in set : Speaks(pol, req, labels) /\ pol.effect = "permit"
    BY <1>4 DEF Authorize, Speaks
  <2>2. \E role \in {old.role, new.role} :
          /\ Fits(role, taken)
          /\ pol \in g \/ \E a \in taken : pol \in Given(a, role, p)
    <3>1. PICK role \in {old.role, new.role} : Fits(role, taken)
      BY <1>4, <1>6
    <3>2. CASE pol \in g
      BY <3>1, <3>2
    <3>3. CASE pol \notin g
      <4>1. PICK a \in taken, x \in {old.role, new.role} :
              pol \in Given(a, x, p) /\ Given(a, x, p) \subseteq set
        BY <3>3 DEF Whole
      <4>2. CASE a[2] = Custom
        BY <1>2, <1>4, <4>1, <4>2, TakenFits
      <4>3. CASE a[2] # Custom
        <5>1. a[2] \in Predefined
          BY <1>2, <4>3 DEF Roles
        <5>2. Given(a, role, p) = Given(a, x, p)
          BY <5>1, GivenPredefined
        <5> QED
          BY <3>1, <4>1, <5>2
      <4> QED
        BY <4>2, <4>3
    <3> QED
      BY <3>2, <3>3
  <2>3. PICK role \in {old.role, new.role} :
          /\ Fits(role, taken)
          /\ pol \in g \/ \E a \in taken : pol \in Given(a, role, p)
    BY <2>2
  <2>4. PICK docs \in {old, new} : At(docs, role)
    BY <1>1
  <2>5. pol \in All(docs, p)
    BY <2>3, <2>4, AllMembers
  <2>6. docs.globals \subseteq set /\ Parses(docs.globals)
    BY <1>4, <2>4 DEF Mixed, Parses
  <2>7. Parses(All(docs, p))
    BY <2>3, <2>4, <2>6, FittingParse
  <2>8. Called(docs, req) = "next"
    BY <1>4, <2>1, <2>4, <2>5, <2>6, <2>7, Permitted
  <2> QED
    BY <1>4, <2>8 DEF Decision
<1>5. CASE Parses(set) /\ ~allowed(set)
  <2>1. PICK role \in {old.role, new.role} :
          /\ Fits(role, taken)
          /\ <<req.user, Custom>> \in taken =>
               Given(<<req.user, Custom>>, role, p) \subseteq set
    BY <1>5, <1>6
  <2>2. PICK docs \in {old, new} : At(docs, role)
    BY <1>1
  <2>3. docs.globals \subseteq set /\ Parses(docs.globals)
    BY <1>5, <2>2 DEF Mixed, Parses
  <2>4. Parses(All(docs, p))
    BY <2>1, <2>2, <2>3, FittingParse
  <2>5. ASSUME NEW pol \in All(docs, p), Speaks(pol, req, labels)
        PROVE  pol \in set
    <3>1. CASE pol \in docs.globals
      BY <2>3, <3>1
    <3>2. ASSUME NEW a \in taken, pol \in Given(a, role, p) PROVE pol \in set
      <4>1. a = <<req.user, a[2]>> /\ a[2] \in Roles
        BY <1>2, <2>5, <3>2, GivenSpeaks
      <4>2. CASE a[2] = Custom
        BY <2>1, <3>2, <4>1, <4>2
      <4>3. CASE a[2] \in Predefined
        <5>1. PICK x \in {old.role, new.role} : Given(a, x, p) \subseteq set
          BY DEF Whole
        <5>2. Given(a, role, p) = Given(a, x, p)
          BY <4>3, GivenPredefined
        <5> QED
          BY <3>2, <5>1, <5>2
      <4> QED
        BY <4>1, <4>2, <4>3 DEF Roles
    <3> QED
      BY <2>2, <2>5, <3>1, <3>2, AllMembers
  <2>6. ASSUME NEW f \in set, Speaks(f, req, labels), f.effect = "forbid"
        PROVE  f \in All(docs, p)
    <3>1. f \in g
      BY <2>6, GivenFields DEF Mixed
    <3> QED
      BY <2>2, <3>1, AllMembers
  <2>7. ~allowed(All(docs, p))
    BY <1>5, <2>5, <2>6 DEF Authorize, Speaks
  <2> QED
    BY <1>5, <2>2, <2>4, <2>7 DEF Called, Decision
<1> QED
  BY <1>3, <1>4, <1>5

-----------------------------------------------------------------------------
(* Types *)

\* Editing one document of a kind leaves documents of that kind.
LEMMA EditDocs ==
  ASSUME NEW of, NEW docs \in Docs(of), NEW p \in Projects, NEW d \in of[p]
  PROVE  [docs EXCEPT ![p] = d] \in Docs(of)
BY DEF Docs

\* Each document is of its project.
LEMMA DocsOf ==
  ASSUME NEW of, NEW docs \in Docs(of), NEW p \in Projects
  PROVE  docs[p] \in of[p]
BY DEF Docs

\* So are those a request is decided on.
LEMMA DocumentsTyped ==
  ASSUME attachments \in Docs(AttachmentDocs), customRole \in Docs(RoleDocs),
         mirror \in Docs(Mirrors), globals \in GlobalDocs,
         NEW p \in Projects
  PROVE  Documents(p) \in AnyDocuments(p)
BY DocsOf DEF Documents, AnyDocuments

\* An edit keeps the types,
LEMMA EditType == TypeOK /\ Edit => TypeOK'
<1> SUFFICES ASSUME TypeOK, Edit PROVE TypeOK'
  OBVIOUS
<1>1. /\ attachments' \in Docs(AttachmentDocs) /\ customRole' \in Docs(RoleDocs)
      /\ mirror' \in Docs(Mirrors) /\ globals' \in GlobalDocs
  BY EditDocs DEF TypeOK, Edit
<1>2. edits' \in 0 .. MaxEdits /\
        UNCHANGED <<request, pc, policies, rest, failed>>
  BY DEF TypeOK, Edit, progress
<1>3. meanwhile' \in [Callers -> 0 .. edits']
  <2>1. meanwhile' = [c \in Callers |-> meanwhile[c] + IF Active(c) THEN 1
          ELSE 0]
        /\ edits' = edits + 1
    BY DEF Edit
  <2>2. \A c \in Callers : meanwhile[c] \in 0 .. edits
    BY DEF TypeOK
  <2>3. edits \in Nat
    BY DEF TypeOK
  <2> QED
    BY <2>1, <2>2, <2>3
<1>4. /\ DOMAIN seen' = Callers
      /\ \A c \in Callers : seen'[c] \subseteq AnyDocuments(request'[c].project)
  <2>1. ASSUME NEW c \in Callers
        PROVE  Documents(request[c].project)' \in
                 AnyDocuments(request[c].project)
    <3> DEFINE p == request[c].project
    <3>1. p \in Projects
      BY DEF TypeOK, Request
    <3>2. /\ attachments'[p] \in AttachmentDocs[p]
          /\ customRole'[p] \in RoleDocs[p] /\ mirror'[p] \in Mirrors[p]
      BY <1>1, <3>1, DocsOf
    <3> QED
      BY <1>1, <1>2, <3>2 DEF Documents, AnyDocuments
  <2>2. seen' = [c \in Callers |->
                   IF Active(c)
                   THEN seen[c] \cup {Documents(request[c].project)'}
                   ELSE seen[c]]
    BY DEF Edit
  <2> QED
    BY <1>2, <2>1, <2>2 DEF TypeOK
<1> QED
  BY <1>1, <1>2, <1>3, <1>4 DEF TypeOK, ActionOf

\* A step of a request touches nothing of the others, and no document.
LEMMA OthersStay ==
  ASSUME TypeOK, NEW c \in Callers, Step(c)
  PROVE  /\ UNCHANGED <<stores, edits>>
         /\ \A d \in Callers \ {c} :
              /\ request'[d] = request[d] /\ pc'[d] = pc[d]
              /\ policies'[d] = policies[d] /\ rest'[d] = rest[d]
              /\ failed'[d] = failed[d]
              /\ meanwhile'[d] = meanwhile[d] /\ seen'[d] = seen[d]
BY DEF TypeOK, Step, Wrap, ValidateRequest, loadGlobalPolicies, getAttachments,
       getAttachmentsFailed, resolveFailed, resolveAttachmentPolicy, Resolved,
       Decide, fetchResourceLabels, Leave, Goto, Missed, stores, progress,
       history

\* The stores stay, so do the types of what is in them.
StoresTyped ==
  /\ attachments \in Docs(AttachmentDocs) /\ customRole \in Docs(RoleDocs)
  /\ mirror \in Docs(Mirrors) /\ globals \in GlobalDocs /\
       edits \in 0 .. MaxEdits

\* a request that comes does,
LEMMA WrapType ==
  ASSUME TypeOK, NEW c \in Callers, NEW req \in Request, Wrap(c, req)
  PROVE  TypeOK'
<1>1. StoresTyped'
  BY DEF TypeOK, StoresTyped, Wrap, stores
<1>2. Documents(req.project) \in AnyDocuments(req.project)
  BY DocumentsTyped DEF TypeOK, Request
<1>3. ActionOf(req) # NoAction => ActionOf(req) \in Actions
  BY MapRequestType
<1>4. /\ request' \in [Callers -> Request] /\ request'[c] = req
      /\ \A d \in Callers \ {c} : request'[d] = request[d] /\ pc'[d] = pc[d]
      /\ pc'[c] = IF ActionOf(req) = NoAction THEN "bypass"
           ELSE "ValidateRequest"
  BY DEF TypeOK, Wrap, Goto
<1>5. \A d \in Callers : pc'[d] \notin {"idle", "bypass"} =>
        ActionOf(request'[d]) \in Actions
  BY <1>3, <1>4 DEF TypeOK
<1> QED
  BY <1>1, <1>2, <1>4, <1>5
     DEF TypeOK, StoresTyped, Wrap, Goto, progress, Answers, ActionOf

\* every read of a document,
LEMMA ReadType ==
  ASSUME TypeOK, NEW c \in Callers,
         \/ ValidateRequest(c) \/ loadGlobalPolicies(c) \/ getAttachments(c)
         \/ getAttachmentsFailed(c)
         \/ \E u \in Users :
              resolveFailed(c, u) \/ \E role \in Roles :
                resolveAttachmentPolicy(c, u, role)
         \/ Resolved(c) \/ fetchResourceLabels(c)
  PROVE  TypeOK'
<1>1. pc[c] \notin {"idle", "bypass"}
  BY DEF ValidateRequest, loadGlobalPolicies, getAttachments,
         getAttachmentsFailed, resolveFailed, resolveAttachmentPolicy,
         Resolved, fetchResourceLabels
<1>2. Step(c) /\ UNCHANGED <<request, meanwhile, seen>>
  BY DEF Step, ValidateRequest, loadGlobalPolicies, getAttachments,
         getAttachmentsFailed, resolveFailed, resolveAttachmentPolicy,
         Resolved, fetchResourceLabels, history
<1>3. /\ StoresTyped' /\ UNCHANGED edits
      /\ \A d \in Callers \ {c} : pc'[d] = pc[d]
  BY <1>2, OthersStay DEF TypeOK, StoresTyped, stores
<1>4. \A d \in Callers : pc'[d] \notin {"idle", "bypass"} =>
        ActionOf(request'[d]) \in Actions
  BY <1>1, <1>2, <1>3 DEF TypeOK
<1>5. attachments[request[c].project] \in SUBSET (Users \X Roles)
  <2>1. request[c].project \in Projects
    BY DEF TypeOK, Request
  <2> QED
    BY <2>1, DocsOf DEF TypeOK
<1>6. pc' \in [Callers -> {"idle", "ValidateRequest", "loadGlobalPolicies",
                           "getAttachments", "resolve", "labels"} \cup Answers]
  BY DEF TypeOK, Answers, ValidateRequest, loadGlobalPolicies, getAttachments,
         getAttachmentsFailed, resolveFailed, resolveAttachmentPolicy,
         Resolved, Decide, fetchResourceLabels, Goto
<1>7. /\ DOMAIN policies' = Callers
      /\ rest' \in [Callers -> SUBSET (Users \X Roles)]
      /\ failed' \in
           [Callers -> SUBSET {"globals", "attachments", "role", "labels"}]
  <2>1. DOMAIN policies' = Callers
    BY DEF TypeOK, ValidateRequest, loadGlobalPolicies, getAttachments,
           getAttachmentsFailed, resolveFailed, resolveAttachmentPolicy,
           Resolved, fetchResourceLabels, progress
  <2>2. rest' \in [Callers -> SUBSET (Users \X Roles)]
    <3>1. CASE getAttachments(c)
      BY <1>5, <3>1 DEF TypeOK, getAttachments
    <3>2. ASSUME NEW a, rest' = [rest EXCEPT ![c] = @ \ {a}]
          PROVE  rest' \in [Callers -> SUBSET (Users \X Roles)]
      BY <3>2 DEF TypeOK
    <3>3. CASE UNCHANGED rest
      BY <3>3 DEF TypeOK
    <3> QED
      BY <3>1, <3>2, <3>3
         DEF ValidateRequest, loadGlobalPolicies, getAttachmentsFailed,
             resolveFailed, resolveAttachmentPolicy, Resolved,
             fetchResourceLabels, progress
  <2>3. failed' \in
          [Callers -> SUBSET {"globals", "attachments", "role", "labels"}]
    <3>1. ASSUME NEW document \in {"globals", "attachments", "role", "labels"},
                 Missed(c, document)
          PROVE  failed' \in
                   [Callers -> SUBSET {"globals", "attachments", "role",
                     "labels"}]
      BY <3>1 DEF TypeOK, Missed
    <3>2. CASE UNCHANGED failed
      BY <3>2 DEF TypeOK
    <3> QED
      BY <3>1, <3>2
         DEF ValidateRequest, loadGlobalPolicies, getAttachments,
             getAttachmentsFailed, resolveFailed, resolveAttachmentPolicy,
             Resolved, fetchResourceLabels, progress
  <2> QED
    BY <2>1, <2>2, <2>3
<1> QED
  BY <1>2, <1>3, <1>4, <1>6, <1>7 DEF TypeOK, StoresTyped, ActionOf

\* the place of no request,
LEMMA NoRequestTyped == NoRequest \in Request
<1>1. PICK p \in Projects, u \in Users : TRUE
  OBVIOUS
<1>2. [method |-> "GET", path |-> "clusters", project |-> p, user |-> u] \in
        Request
  BY DEF Request, Methods, Paths
<1>3. \E req \in Request : TRUE
  BY <1>2
<1> QED
  BY <1>3, Zenon DEF NoRequest

\* and a client that leaves.
LEMMA LeaveType == ASSUME TypeOK, NEW c \in Callers, Leave(c) PROVE TypeOK'
<1>1. StoresTyped'
  BY DEF TypeOK, StoresTyped, Leave, stores
<1>2. NoRequest \in Request
  BY NoRequestTyped
<1>3. /\ pc' \in [Callers -> {"idle", "ValidateRequest", "loadGlobalPolicies",
                              "getAttachments", "resolve",
                                "labels"} \cup Answers]
      /\ request' \in [Callers -> Request]
      /\ \A d \in Callers \ {c} : request'[d] = request[d] /\ pc'[d] = pc[d]
      /\ pc'[c] = "idle"
  BY <1>2 DEF TypeOK, Leave, Goto
<1>4. ASSUME NEW d \in Callers, pc'[d] \notin {"idle", "bypass"}
      PROVE  ActionOf(request'[d]) \in Actions
  <2>1. d # c
    BY <1>3, <1>4
  <2>2. request'[d] = request[d] /\ pc'[d] = pc[d]
    BY <1>3, <2>1
  <2>3. ActionOf(request[d]) \in Actions
    BY <1>4, <2>2 DEF TypeOK
  <2> QED
    BY <2>2, <2>3
<1>5. edits \in Nat /\ UNCHANGED edits
  BY DEF TypeOK, Leave
<1> QED
  BY <1>1, <1>3, <1>4, <1>5 DEF TypeOK, StoresTyped, Leave, ActionOf

\* So every step of a request keeps the types.
LEMMA StepType == ASSUME TypeOK, NEW c \in Callers, Step(c) PROVE TypeOK'
BY WrapType, ReadType, LeaveType DEF Step

\* For all constants: the variables have their types.
THEOREM TypeCorrect == Spec => []TypeOK
<1>1. Init => TypeOK
  <2>1. NoRequest \in Request
    BY NoRequestTyped
  <2> QED
    BY <2>1 DEF Init, TypeOK
<1>2. TypeOK /\ [Next]_vars => TypeOK'
  <2>1. TypeOK /\ UNCHANGED vars => TypeOK'
    BY DEF TypeOK, vars, stores, progress, history, ActionOf
  <2> QED
    BY <2>1, EditType, StepType DEF Next
<1> QED
  BY <1>1, <1>2, PTL DEF Spec

-----------------------------------------------------------------------------
(* The reads, one after the other *)

\* One more attachment, with or without its policies, is still a mixture,
LEMMA MixedGrows ==
  ASSUME NEW set, NEW g, NEW taken, NEW x, NEW y, NEW p,
         Mixed(set, g, taken, x, y, p),
         NEW b
  PROVE  /\ Mixed(set \cup Given(b, y, p), g, taken \cup {b}, x, y, p)
         /\ Mixed(set, g, taken \cup {b}, x, y, p)
BY DEF Mixed

\* and with them it is still whole.
LEMMA WholeGrows ==
  ASSUME NEW set, NEW g, NEW taken, NEW x, NEW y, NEW p,
         Whole(set, g, taken, x, y, p),
         NEW b
  PROVE  Whole(set \cup Given(b, y, p), g, taken \cup {b}, x, y, p)
<1> DEFINE both == set \cup Given(b, y, p)
<1>1. ASSUME NEW pol \in both \ g
      PROVE  \E a \in taken \cup {b}, role \in {x, y} :
               pol \in Given(a, role, p) /\ Given(a, role, p) \subseteq both
  <2>1. CASE pol \in set
    <3>1. PICK a \in taken, role \in {x, y} :
            pol \in Given(a, role, p) /\ Given(a, role, p) \subseteq set
      BY <1>1, <2>1 DEF Whole
    <3> QED
      BY <3>1
  <2>2. CASE pol \in Given(b, y, p)
    BY <2>2
  <2> QED
    BY <1>1, <2>1, <2>2
<1>2. ASSUME NEW a \in taken \cup {b}
      PROVE  \E role \in {x, y} : Given(a, role, p) \subseteq both
  <2>1. CASE a \in taken
    <3>1. PICK role \in {x, y} : Given(a, role, p) \subseteq set
      BY <2>1 DEF Whole
    <3> QED
      BY <3>1
  <2> QED
    BY <1>2, <2>1
<1> QED
  BY <1>1, <1>2 DEF Whole

\* A mixture of one version of the role is one of two.
LEMMA OneMore ==
  ASSUME NEW set, NEW g, NEW taken, NEW x, NEW y, NEW p
  PROVE  /\ Mixed(set, g, taken, x, x, p) => Mixed(set, g, taken, x, y, p)
         /\ Whole(set, g, taken, x, x, p) => Whole(set, g, taken, x, y, p)
BY DEF Mixed, Whole

\* The global policies alone are a mixture.
LEMMA NothingTaken ==
  ASSUME NEW g, NEW x, NEW y, NEW p
  PROVE  Mixed(g, g, {}, x, y, p) /\ Whole(g, g, {}, x, y, p)
BY DEF Mixed, Whole

\* What could not be read is taken for none, and nothing else is changed,
LEMMA WithoutFields ==
  ASSUME NEW p, NEW docs \in AnyDocuments(p), NEW lost
  PROVE  /\ Without(docs, lost).attachments = docs.attachments
         /\ Without(docs, lost).role = docs.role
         /\ Without(docs, lost).globals =
              IF "globals" \in lost THEN {} ELSE docs.globals
         /\ Without(docs, lost).mirror =
              IF "labels" \in lost THEN NoMirror ELSE docs.mirror
BY DEF Without, AnyDocuments

\* so that known roles are attached to known users still,
LEMMA WithoutSane ==
  ASSUME NEW p \in Projects, NEW docs \in AnyDocuments(p), NEW lost
  PROVE  Sane(Without(docs, lost))
BY WithoutFields DEF AnyDocuments, Sane

\* no more than one document differs,
LEMMA WithoutEdited ==
  ASSUME NEW p, NEW old \in AnyDocuments(p), NEW new \in AnyDocuments(p),
         OneEdited(old, new), NEW lost
  PROVE  OneEdited(Without(old, lost), Without(new, lost))
BY WithoutFields DEF OneEdited

\* and a role that is lost is not among what is taken for none.
LEMMA WithoutRole ==
  ASSUME NEW docs, NEW lost
  PROVE  Without(docs, lost \cup {"role"}) = Without(docs, lost)
BY DEF Without

\* A request that is served has an action.
LEMMA ActiveAction ==
  ASSUME TypeOK, NEW c \in Callers, pc[c] \notin {"idle", "bypass"}
  PROVE  /\ request[c] \in Request /\ request[c].project \in Projects
         /\ ActionOf(request[c]) # NoAction
BY ActionsOfPermissions DEF TypeOK, Request, NoAction

\* The policies are complete: what they decide is right or, if a role was lost,
\* no wider than what is, whether or not the labels can be read.
LEMMA Complete ==
  ASSUME TypeOK, NEW c \in Callers, ReadInv(c), Active(c), meanwhile[c] <= 1,
         pc[c] \in {"resolve", "labels"}, rest[c] = {},
         NEW lost \in {failed[c], failed[c] \cup {"labels"}},
         NEW answer,
         answer = Decision(policies[c], request[c],
                    LabelsOf(Without(Documents(request[c].project),
                                     lost).mirror)),
         NEW right,
         right = {RightAnswer(Without(docs, lost), request[c]) :
                    docs \in seen[c]}
  PROVE  /\ lost \cap {"attachments", "role"} = {} => answer \in right
         /\ answer = "next" => right \cap {"next", "500"} # {}
<1> DEFINE req == request[c]
           now == Documents(req.project)
           new == Without(now, lost)
<1>1. req \in Request /\ req.project \in Projects /\ ActionOf(req) # NoAction
  BY ActiveAction DEF Active, Answers
<1>2. PICK was \in AnyDocuments(req.project) :
        /\ OneEdited(was, now)
        /\ {was, now} \subseteq seen[c]
        /\ Reading(Without(was, failed[c]), Without(now, failed[c]),
                   req.project, pc[c], policies[c], rest[c], failed[c])
  BY DEF ReadInv, Consistent
<1> DEFINE old == Without(was, lost)
<1>3. now \in AnyDocuments(req.project)
  BY <1>1, DocumentsTyped DEF TypeOK
<1>4. Sane(old) /\ Sane(new) /\ OneEdited(old, new)
  BY <1>1, <1>2, <1>3, WithoutSane, WithoutEdited
<1>5. PICK g \in {old.globals, new.globals},
        a \in {old.attachments, new.attachments} :
        /\ Mixed(policies[c], g, a, old.role, new.role, req.project)
        /\ "role" \notin lost =>
             Whole(policies[c], g, a, old.role, new.role, req.project)
  <2>1. /\ Without(was, failed[c]).globals = old.globals
        /\ Without(was, failed[c]).attachments = old.attachments
        /\ Without(was, failed[c]).role = old.role
        /\ Without(now, failed[c]).globals = new.globals
        /\ Without(now, failed[c]).attachments = new.attachments
        /\ Without(now, failed[c]).role = new.role
    BY <1>2, <1>3, WithoutFields
  <2>2. "role" \notin lost => "role" \notin failed[c]
    OBVIOUS
  <2> HIDE DEF old, new, now
  <2> QED
    BY <1>2, <2>1, <2>2 DEF Reading
<1>6. /\ RightAnswer(old, req) = Called(old, req)
      /\ RightAnswer(new, req) = Called(new, req)
  BY <1>1, <1>4, CalledRight
<1>7. {Called(old, req), Called(new, req)} \subseteq right
  BY <1>2, <1>6
<1>8. answer = Decision(policies[c], req, LabelsOf(new.mirror))
  OBVIOUS
<1> HIDE DEF req, now, old, new
<1>9. ASSUME "role" \notin lost PROVE answer \in right
  <2>1. \E docs \in {old, new} :
          Called(docs, req) = Decision(policies[c], req, LabelsOf(new.mirror))
    BY <1>1, <1>4, <1>5, <1>9, WholeRight
  <2> QED
    BY <1>7, <1>8, <2>1
<1>10. ASSUME answer = "next" PROVE right \cap {"next", "500"} # {}
  <2>1. /\ Mixed(policies[c], g, a, old.role, new.role, req.project)
        /\ Decision(policies[c], req, LabelsOf(new.mirror)) = "next"
    BY <1>5, <1>8, <1>10
  <2>2. \E docs \in {old, new} : Called(docs, req) \in {"next", "500"}
    BY <1>1, <1>4, <1>5, <2>1, MixedNext
  <2> QED
    BY <1>7, <2>2
<1> QED
  BY <1>9, <1>10

-----------------------------------------------------------------------------
(* Every step keeps the invariant *)

\* Documents that stay mean the same.
LEMMA DocumentsStay ==
  ASSUME UNCHANGED stores, NEW p
  PROVE  Documents(p)' = Documents(p)
BY DEF stores, Documents

\* A step of one request changes nothing for another.
LEMMA OthersInv ==
  ASSUME TypeOK, NEW c \in Callers, Step(c), NEW d \in Callers \ {c},
         CallerInv(d)
  PROVE  CallerInv(d)'
<1>1. /\ request'[d] = request[d] /\ pc'[d] = pc[d]
      /\ policies'[d] = policies[d] /\ rest'[d] = rest[d] /\
           failed'[d] = failed[d]
      /\ meanwhile'[d] = meanwhile[d] /\ seen'[d] = seen[d]
  BY OthersStay
<1>2. \A p : Documents(p)' = Documents(p)
  BY OthersStay, DocumentsStay
<1>3. Documents(request[d].project)' = Documents(request[d].project)
  BY <1>1, <1>2
<1>4. AnswerInv(d)' /\ LabelsInv(d)' /\ LostInv(d)'
  BY <1>1
     DEF CallerInv, AnswerInv, Judged, Right, LabelsInv, LostInv, Active
<1>5. ReadInv(d)'
  BY <1>1, <1>3 DEF CallerInv, ReadInv, Active
<1> QED
  BY <1>4, <1>5 DEF CallerInv

\* An edit: if it is the first during the request, what was read before it is
\* of the old documents and what will be read of the new; if it is the
\* second, nothing is claimed any more.
LEMMA EditInv == ASSUME TypeOK, Edit, NEW c \in Callers, CallerInv(c)
  PROVE CallerInv(c)'
<1>1. /\ UNCHANGED <<request, pc, policies, rest, failed>>
      /\ Active(c)' = Active(c)
      /\ meanwhile'[c] = meanwhile[c] + (IF Active(c) THEN 1 ELSE 0)
      /\ seen'[c] = IF Active(c)
           THEN seen[c] \cup {Documents(request[c].project)'} ELSE seen[c]
  BY DEF Edit, progress, Active
<1>2. meanwhile[c] \in Nat
  BY DEF TypeOK
<1>3. AnswerInv(c)' /\ LabelsInv(c)' /\ LostInv(c)'
  BY <1>1, <1>2
     DEF CallerInv, AnswerInv, Judged, Right, Active, Answers, LabelsInv,
         LostInv, ActionOf
<1>4. ASSUME Active(c), meanwhile'[c] <= 1
      PROVE  Consistent(request[c], Documents(request[c].project)', pc[c],
                        policies[c], rest[c], failed[c], meanwhile'[c],
                        seen'[c])
  <2> DEFINE p == request[c].project
             old == Documents(p)
             new == Documents(p)'
             lost == failed[c]
  <2>1. meanwhile[c] = 0 /\ meanwhile'[c] = 1
    BY <1>1, <1>2, <1>4
  <2>2. p \in Projects
    BY <1>4, ActiveAction DEF Active, Answers
  <2>3. /\ old \in seen[c]
        /\ Reading(Without(old, lost), Without(old, lost), p, pc[c],
                   policies[c], rest[c], lost)
    BY <1>4, <2>1 DEF CallerInv, ReadInv, Consistent
  <2>4. old \in AnyDocuments(p)
    BY <2>2, DocumentsTyped DEF TypeOK
  <2>5. new \in AnyDocuments(p)
    <3>1. p' \in Projects /\ TypeOK'
      BY <1>1, <2>2, EditType
    <3>2. Documents(p)' = [attachments |-> attachments'[p],
                           role |-> customRole'[p], globals |-> globals',
                           mirror |-> mirror'[p]]
      BY <1>1 DEF Documents
    <3>3. /\ attachments'[p] \in AttachmentDocs[p]
          /\ customRole'[p] \in RoleDocs[p] /\ mirror'[p] \in Mirrors[p]
          /\ globals' \in GlobalDocs
      BY <2>2, <3>1, DocsOf DEF TypeOK
    <3> QED
      BY <3>2, <3>3 DEF AnyDocuments
  <2>6. OneEdited(old, new)
    BY <2>2 DEF Edit, TypeOK, Docs, Documents, OneEdited
  <2>7. OneEdited(Without(old, lost), Without(new, lost))
    BY <2>4, <2>5, <2>6, WithoutEdited
  <2>8. Reading(Without(old, lost), Without(new, lost), p, pc[c], policies[c],
                rest[c], lost)
    BY <2>3, OneMore DEF Reading
  <2> HIDE DEF old, new, lost
  <2> QED
    BY <1>1, <1>4, <2>1, <2>3, <2>4, <2>6, <2>8
       DEF Consistent, old, new, lost
<1>5. ReadInv(c)'
  BY <1>1, <1>4 DEF ReadInv
<1> QED
  BY <1>3, <1>5 DEF CallerInv

\* A request comes: what is read of it is yet to come.
LEMMA WrapInv ==
  ASSUME TypeOK, NEW c \in Callers, CallerInv(c), NEW req \in Request,
         Wrap(c, req)
  PROVE  CallerInv(c)'
<1>1. /\ request'[c] = req /\ seen'[c] = {Documents(req.project)}
      /\ pc'[c] = IF ActionOf(req) = NoAction THEN "bypass"
           ELSE "ValidateRequest"
      /\ UNCHANGED <<stores, failed, policies, rest, meanwhile>>
  BY DEF TypeOK, Wrap, Goto, progress
<1>2. policies[c] = {} /\ failed[c] = {}
  BY DEF Wrap, CallerInv, LostInv
<1>3. AnswerInv(c)' /\ LabelsInv(c)' /\ LostInv(c)'
  BY <1>1, <1>2 DEF AnswerInv, Judged, LabelsInv, LostInv, ActionOf
<1>4. Consistent(req, Documents(req.project), "ValidateRequest", policies[c],
                 rest[c], failed[c], meanwhile[c], {Documents(req.project)})
  <2> DEFINE new == Documents(req.project)
  <2>1. new \in AnyDocuments(req.project)
    BY DocumentsTyped DEF TypeOK, Request
  <2>2. OneEdited(new, new)
    BY DEF OneEdited
  <2>3. Reading(Without(new, failed[c]), Without(new, failed[c]), req.project,
                "ValidateRequest", policies[c], rest[c], failed[c])
    BY <1>2 DEF Reading
  <2> HIDE DEF new
  <2> QED
    BY <2>1, <2>2, <2>3 DEF Consistent, new
<1>5. ReadInv(c)'
  <2>1. Documents(req.project)' = Documents(req.project)
    BY <1>1, DocumentsStay
  <2> QED
    BY <1>1, <1>4, <2>1 DEF ReadInv, Active, Answers
<1> QED
  BY <1>3, <1>5 DEF CallerInv

\* What comes of a read that does not answer the request.
LEMMA ReadOn ==
  ASSUME TypeOK, NEW c \in Callers, ReadInv(c), Active(c),
         UNCHANGED <<request, history>>,
         UNCHANGED stores,
         NEW step, pc'[c] = step, step \notin Answers, step # "labels",
         step # "idle", "labels" \notin failed'[c],
         \A old \in AnyDocuments(request[c].project) :
           Reading(Without(old, failed[c]),
                   Without(Documents(request[c].project), failed[c]),
                   request[c].project, pc[c], policies[c], rest[c], failed[c])
           => Reading(Without(old, failed'[c]),
                      Without(Documents(request[c].project), failed'[c]),
                      request[c].project, step, policies'[c], rest'[c],
                      failed'[c])
  PROVE  CallerInv(c)'
<1>1. Documents(request[c].project)' = Documents(request[c].project)
  BY DocumentsStay DEF Documents, stores
<1>2. /\ request'[c] = request[c] /\ meanwhile'[c] = meanwhile[c] /\
           seen'[c] = seen[c]
  BY DEF history
<1>3. ReadInv(c)'
  <2>1. meanwhile[c] <= 1 =>
          Consistent(request[c], Documents(request[c].project), step,
                     policies'[c], rest'[c], failed'[c], meanwhile[c],
                     seen[c])
    BY DEF ReadInv, Consistent
  <2> QED
    BY <1>1, <1>2, <2>1 DEF ReadInv
<1>4. AnswerInv(c)' /\ LabelsInv(c)' /\ LostInv(c)'
  BY DEF AnswerInv, Judged, LabelsInv, LostInv, Answers
<1> QED
  BY <1>3, <1>4 DEF CallerInv

\* Loading the global policies, and resolving one attachment, which takes in
\* its policies or loses its role.
LEMMA ReadInvSteps ==
  ASSUME TypeOK, NEW c \in Callers, CallerInv(c),
         \/ ValidateRequest(c) \/ loadGlobalPolicies(c)
         \/ \E u \in Users :
              resolveFailed(c, u) \/ \E role \in Roles :
                resolveAttachmentPolicy(c, u, role)
  PROVE  CallerInv(c)'
<1> DEFINE req == request[c]
           p == req.project
           new == Documents(p)
<1>1. pc[c] \in {"ValidateRequest", "loadGlobalPolicies", "resolve"}
  BY DEF ValidateRequest, loadGlobalPolicies, resolveFailed,
         resolveAttachmentPolicy
<1>2. /\ UNCHANGED <<request, history>> /\ UNCHANGED stores
      /\ ReadInv(c) /\ Active(c) /\ "labels" \notin failed[c]
  BY <1>1
     DEF LostInv, ValidateRequest, loadGlobalPolicies, resolveFailed,
         resolveAttachmentPolicy, CallerInv, Active, Answers
<1>3. /\ p \in Projects /\ new \in AnyDocuments(p)
      /\ new.role = customRole[p] /\ new.globals = globals
  <2>1. p \in Projects
    BY <1>1, ActiveAction
  <2> QED
    BY <2>1, DocumentsTyped DEF TypeOK, Documents
<1> HIDE DEF new
<1>4. CASE ValidateRequest(c)
  <2>1. pc'[c] = "401" => CallerInv(c)'
    <3> SUFFICES ASSUME pc'[c] = "401" PROVE CallerInv(c)'
      OBVIOUS
    <3>1. AnswerInv(c)' /\ LabelsInv(c)' /\ LostInv(c)'
      BY DEF AnswerInv, Judged, LabelsInv, LostInv, Active, Answers
    <3>2. ReadInv(c)'
      BY DEF ReadInv, Active, Answers
    <3> QED
      BY <3>1, <3>2 DEF CallerInv
  <2>2. ASSUME pc'[c] = "loadGlobalPolicies" PROVE CallerInv(c)'
    <3>1. /\ pc[c] = "ValidateRequest" /\ policies' = policies
          /\ rest' = rest /\ failed' = failed
      BY <1>4 DEF ValidateRequest, progress
    <3>2. \A x, y : Reading(x, y, p, "ValidateRequest", policies[c], rest[c],
                            failed[c])
            => Reading(x, y, p, "loadGlobalPolicies", policies[c], rest[c],
                       failed[c])
      BY DEF Reading
    <3> QED
      BY <1>2, <2>2, <3>1, <3>2, ReadOn DEF new, Answers
  <2> QED
    BY <1>4, <2>1, <2>2 DEF ValidateRequest, Goto, TypeOK
<1>5. CASE loadGlobalPolicies(c)
  <2>1. pc[c] = "loadGlobalPolicies" /\ pc'[c] = "getAttachments"
    BY <1>5 DEF loadGlobalPolicies, Goto, TypeOK
  <2>2. \/ policies'[c] = globals /\ failed'[c] = failed[c]
        \/ policies'[c] = policies[c] /\ failed'[c] = failed[c] \cup {"globals"}
    BY <1>5 DEF loadGlobalPolicies, Missed, TypeOK
  <2>3. ASSUME NEW old, NEW x, NEW y,
               Reading(x, y, p, "loadGlobalPolicies", policies[c], rest[c],
                       failed[c])
        PROVE  Reading(Without(old, failed'[c]), Without(new, failed'[c]), p,
                       "getAttachments", policies'[c], rest'[c], failed'[c])
    <3>1. policies[c] = {} /\ failed[c] = {}
      BY <2>3 DEF Reading
    <3>2. policies'[c] = Without(new, failed'[c]).globals
      <4> DEFINE lost == failed'[c]
      <4>1. Without(new, lost).globals =
              IF "globals" \in lost THEN {} ELSE new.globals
        BY <1>3, WithoutFields
      <4> QED
        BY <1>3, <2>2, <3>1, <4>1
    <3> QED
      BY <3>2 DEF Reading
  <2> QED
    BY <1>2, <2>1, <2>2, <2>3, ReadOn DEF new, Answers
<1>6. ASSUME NEW u \in Users, resolveFailed(c, u) PROVE CallerInv(c)'
  <2> DEFINE b == <<u, Custom>>
  <2>1. /\ pc[c] = "resolve" /\ b \in rest[c] /\ pc'[c] = "resolve"
        /\ policies'[c] = policies[c] /\ rest'[c] = rest[c] \ {b}
        /\ failed'[c] = failed[c] \cup {"role"}
    BY <1>6 DEF resolveFailed, Missed, TypeOK
  <2>2. \A docs : Without(docs, failed'[c]) = Without(docs, failed[c])
    BY <2>1, WithoutRole
  <2>3. ASSUME NEW x, NEW y,
               Reading(x, y, p, "resolve", policies[c], rest[c], failed[c])
        PROVE  Reading(x, y, p, "resolve", policies'[c], rest'[c], failed'[c])
    <3>1. PICK g \in {x.globals, y.globals},
            a \in {x.attachments, y.attachments} :
            /\ rest[c] \subseteq a
            /\ Mixed(policies[c], g, a \ rest[c], x.role, y.role, p)
      BY <2>3 DEF Reading
    <3>2. a \ rest'[c] = (a \ rest[c]) \cup {b}
      BY <2>1, <3>1
    <3>3. Mixed(policies[c], g, (a \ rest[c]) \cup {b}, x.role, y.role, p)
      BY <3>1, MixedGrows
    <3>4. Mixed(policies[c], g, a \ rest'[c], x.role, y.role, p)
      BY <3>2, <3>3
    <3> QED
      BY <2>1, <3>1, <3>4 DEF Reading
  <2> QED
    BY <1>2, <2>1, <2>2, <2>3, ReadOn DEF new, Answers
<1>7. ASSUME NEW u \in Users,
             NEW role \in Roles, resolveAttachmentPolicy(c, u, role)
      PROVE  CallerInv(c)'
  <2> DEFINE b == <<u, role>>
  <2>1. /\ pc[c] = "resolve" /\ b \in rest[c] /\ pc'[c] = "resolve"
        /\ policies'[c] = policies[c] \cup PoliciesOf(u, role, p)
        /\ rest'[c] = rest[c] \ {b} /\ failed'[c] = failed[c]
    BY <1>7 DEF resolveAttachmentPolicy, TypeOK
  <2>2. PoliciesOf(u, role, p) = Given(b, new.role, p)
    BY <1>3 DEF PoliciesOf, Given
  <2>3. ASSUME NEW x, NEW y, y.role = new.role,
               Reading(x, y, p, "resolve", policies[c], rest[c], failed[c])
        PROVE  Reading(x, y, p, "resolve", policies'[c], rest'[c], failed'[c])
    <3>1. PICK g \in {x.globals, y.globals},
            a \in {x.attachments, y.attachments} :
            /\ rest[c] \subseteq a
            /\ Mixed(policies[c], g, a \ rest[c], x.role, y.role, p)
            /\ "role" \notin failed[c] =>
                 Whole(policies[c], g, a \ rest[c], x.role, y.role, p)
      BY <2>3 DEF Reading
    <3>2. a \ rest'[c] = (a \ rest[c]) \cup {b}
      BY <2>1, <3>1
    <3>3. Mixed(policies'[c], g, a \ rest'[c], x.role, y.role, p)
      BY <2>1, <2>2, <2>3, <3>1, <3>2, MixedGrows
    <3>4. "role" \notin failed[c] =>
            Whole(policies'[c], g, a \ rest'[c], x.role, y.role, p)
      BY <2>1, <2>2, <2>3, <3>1, <3>2, WholeGrows
    <3> QED
      BY <2>1, <3>1, <3>3, <3>4 DEF Reading
  <2>4. Without(new, failed[c]).role = new.role
    BY <1>3, WithoutFields
  <2> QED
    BY <1>2, <2>1, <2>3, <2>4, ReadOn DEF new, Answers
<1> QED
  BY <1>4, <1>5, <1>6, <1>7

\* A request that is answered, or left by the client, has nothing more to read.
LEMMA Answered ==
  ASSUME NEW c \in Callers, pc'[c] \in Answers \cup {"idle"}, pc'[c] # "bypass",
         AnswerInv(c)', LostInv(c)'
  PROVE  CallerInv(c)'
<1>1. ReadInv(c)'
  BY DEF ReadInv, Active
<1>2. LabelsInv(c)'
  BY DEF LabelsInv, Answers
<1> QED
  BY <1>1, <1>2 DEF CallerInv

\* Reading the attachments, of the version before the edit or after.
LEMMA AttachmentsInv ==
  ASSUME TypeOK, NEW c \in Callers, CallerInv(c), getAttachments(c)
  PROVE  CallerInv(c)'
<1> DEFINE req == request[c]
           p == req.project
           now == Documents(p)
           new == Without(now, failed[c])
<1>1. pc[c] = "getAttachments"
  BY DEF getAttachments
<1>2. /\ rest'[c] = attachments[p] /\ policies'[c] = policies[c]
      /\ failed'[c] = failed[c]
      /\ pc'[c] = IF policies[c] = {} /\ attachments[p] = {} THEN "403"
           ELSE "resolve"
      /\ UNCHANGED <<request, history, stores>> /\ ReadInv(c) /\ Active(c)
      /\ "labels" \notin failed[c]
      /\ meanwhile'[c] = meanwhile[c] /\ seen'[c] = seen[c]
  BY <1>1
     DEF getAttachments, Goto, TypeOK, CallerInv, LostInv, Active, Answers,
         history
<1>3. p \in Projects /\ req \in Request /\ ActionOf(req) # NoAction
  BY <1>1, ActiveAction
<1>4. now \in AnyDocuments(p) /\ new.attachments = attachments[p]
  <2>1. now \in AnyDocuments(p)
    BY <1>3, DocumentsTyped DEF TypeOK
  <2> QED
    BY <2>1, WithoutFields DEF Documents
<1> HIDE DEF now, new
<1>5. ASSUME NEW old, Reading(old, new, p, "getAttachments", policies[c],
             rest[c], failed[c])
      PROVE  Reading(old, new, p, "resolve", policies[c], attachments[p],
               failed[c])
  <2>1. SUFFICES \E g \in {old.globals, new.globals},
                   a \in {old.attachments, new.attachments} :
                   /\ attachments[p] \subseteq a
                   /\ Mixed(policies[c], g, a \ attachments[p], old.role,
                        new.role, p)
                   /\ Whole(policies[c], g, a \ attachments[p], old.role,
                        new.role, p)
    BY <1>5 DEF Reading
  <2>2. policies[c] \in {old.globals, new.globals}
    BY <1>5 DEF Reading
  <2>3. attachments[p] \ attachments[p] = {}
    OBVIOUS
  <2>4. /\ Mixed(policies[c], policies[c], {}, old.role, new.role, p)
        /\ Whole(policies[c], policies[c], {}, old.role, new.role, p)
    BY NothingTaken
  <2> QED
    BY <1>4, <2>2, <2>3, <2>4
<1>6. CASE pc'[c] = "resolve"
  BY <1>1, <1>2, <1>5, <1>6, ReadOn DEF now, new, Answers
<1>7. CASE pc'[c] = "403"
  <2>1. policies[c] = {} /\ attachments[p] = {}
    BY <1>2, <1>7
  <2>2. ASSUME meanwhile[c] <= 1
        PROVE  "403" \in {RightAnswer(Without(docs, failed[c]), req) :
                            docs \in seen[c]}
    <3>1. PICK was \in AnyDocuments(p) :
            /\ OneEdited(was, now)
            /\ {was, now} \subseteq seen[c]
            /\ Reading(Without(was, failed[c]), new, p, "getAttachments",
                 policies[c], rest[c], failed[c])
      BY <1>1, <1>2, <2>2 DEF ReadInv, Consistent, now, new
    <3> DEFINE old == Without(was, failed[c])
    <3>2. PICK g \in {old.globals, new.globals} : g = {}
      BY <2>1, <3>1 DEF Reading
    <3>3. PICK a \in {old.attachments, new.attachments} : a = {}
      BY <1>4, <2>1
    <3>4. /\ Mixed({}, g, a, old.role, new.role, p)
          /\ Whole({}, g, a, old.role, new.role, p)
      BY <3>2, <3>3, NothingTaken
    <3>5. Sane(old) /\ Sane(new) /\ OneEdited(old, new)
      BY <1>3, <1>4, <3>1, WithoutSane, WithoutEdited DEF new
    <3> HIDE DEF old
    <3>6. \E docs \in {old, new} :
            Called(docs, req) = Decision({}, req, LabelsOf(new.mirror))
      <4> DEFINE set == {}  r == request[c]
      <4>1. Mixed(set, g, a, old.role, new.role, r.project)
            /\ Whole(set, g, a, old.role, new.role, r.project)
        BY <3>4
      <4> HIDE DEF set, r
      <4>2. r \in Request
        BY <1>3 DEF r
      <4>3. \E docs \in {old, new} :
              Called(docs, r) = Decision(set, r, LabelsOf(new.mirror))
        BY <3>5, <4>1, <4>2, WholeRight
      <4> QED
        BY <4>3 DEF set, r
    <3>7. Decision({}, req, LabelsOf(new.mirror)) = "403"
      BY DEF Decision, Parses, Authorize
    <3>8. /\ RightAnswer(old, req) = Called(old, req)
          /\ RightAnswer(new, req) = Called(new, req)
      BY <1>3, <3>5, CalledRight
    <3> QED
      BY <3>1, <3>6, <3>7, <3>8 DEF old, new
  <2>3. AnswerInv(c)' /\ LostInv(c)'
    BY <1>2, <1>7, <2>2 DEF AnswerInv, Judged, Right, LostInv
  <2> QED
    BY <1>7, <2>3, Answered DEF Answers
<1> QED
  BY <1>2, <1>6, <1>7

\* A failed read of the attachments answers the request.
LEMMA FailedInv ==
  ASSUME TypeOK, NEW c \in Callers, getAttachmentsFailed(c)
  PROVE  CallerInv(c)'
<1>1. pc'[c] = "500" /\ "attachments" \in failed'[c]
  BY DEF getAttachmentsFailed, Goto, Missed, TypeOK
<1>2. AnswerInv(c)' /\ LostInv(c)'
  BY <1>1 DEF AnswerInv, Judged, LostInv, Active, Answers
<1> QED
  BY <1>1, <1>2, Answered DEF Answers

\* A client that leaves has no request any more.
LEMMA LeaveInv == ASSUME TypeOK, NEW c \in Callers, Leave(c) PROVE CallerInv(c)'
<1>1. pc'[c] = "idle" /\ policies'[c] = {} /\ failed'[c] = {}
  BY DEF Leave, Goto, TypeOK
<1>2. AnswerInv(c)' /\ LostInv(c)'
  BY <1>1 DEF AnswerInv, Judged, LostInv
<1> QED
  BY <1>1, <1>2, Answered DEF Answers

\* Without policies, or about a project, labels decide nothing.
LEMMA LabelsIrrelevant ==
  ASSUME NEW req, NEW set, ~(OnCluster(req.path) /\ set # {}), NEW labels
  PROVE  Authorize(set, req.user, ActionOf(req), req.project,
           OnCluster(req.path), {}) <=>
         Authorize(set, req.user, ActionOf(req), req.project,
           OnCluster(req.path), labels)
<1>1. CASE set = {}
  BY <1>1 DEF Authorize
<1>2. CASE ~OnCluster(req.path)
  <2>1. \A pol : Applies(pol, req.user, ActionOf(req), req.project,
          OnCluster(req.path), {})
             <=> Applies(pol, req.user, ActionOf(req), req.project,
               OnCluster(req.path), labels)
    BY <1>2 DEF Applies
  <2> QED
    BY <2>1 DEF Authorize
<1> QED
  BY <1>1, <1>2

\* A decision on all that was read, with the labels as they are or, if they
\* cannot be read, with none: what Complete says of it.
LEMMA DecideInv ==
  ASSUME TypeOK, NEW c \in Callers,
         ReadInv(c), pc[c] \in {"resolve", "labels"}, rest[c] = {},
         UNCHANGED <<request, meanwhile, seen>>,
         failed'[c] \in {failed[c], failed[c] \cup {"labels"}},
         pc'[c] = Decision(policies[c], request[c],
                    LabelsOf(Without(Documents(request[c].project),
                                     failed'[c]).mirror))
  PROVE  CallerInv(c)'
<1>1. pc'[c] \in {"next", "403", "500"} /\ Active(c)
  BY DEF Decision, Active, Answers
<1>2. meanwhile[c] <= 1 =>
        /\ failed'[c] \cap {"attachments", "role"} = {} =>
             pc'[c] \in {RightAnswer(Without(docs, failed'[c]), request[c]) :
                           docs \in seen[c]}
        /\ pc'[c] = "next" =>
             {RightAnswer(Without(docs, failed'[c]), request[c]) :
                docs \in seen[c]} \cap {"next", "500"} # {}
  BY <1>1, Complete
<1>3. AnswerInv(c)' /\ LostInv(c)'
  BY <1>1, <1>2 DEF AnswerInv, Judged, Right, LostInv, Active, Answers
<1> QED
  BY <1>1, <1>3, Answered DEF Answers

\* The labels as a request finds them, unless it cannot read them.
LEMMA LabelsRead ==
  ASSUME TypeOK, NEW c \in Callers, Active(c), NEW lost
  PROVE  Without(Documents(request[c].project), lost).mirror =
           IF "labels" \in lost THEN NoMirror ELSE mirror[request[c].project]
<1>1. request[c].project \in Projects
  BY DEF TypeOK, Request
<1> QED
  BY <1>1, DocumentsTyped, WithoutFields DEF TypeOK, Documents

\* When every attachment is resolved the request is decided, or its labels
\* are fetched first.
LEMMA ResolvedInv ==
  ASSUME TypeOK, NEW c \in Callers, CallerInv(c),
         Resolved(c) \/ fetchResourceLabels(c)
  PROVE  CallerInv(c)'
<1> DEFINE req == request[c]
           read(lost) == LabelsOf(Without(Documents(req.project), lost).mirror)
<1>1. /\ pc[c] \in {"resolve", "labels"} /\ Active(c)
      /\ rest[c] = {} /\ ReadInv(c) /\ "labels" \notin failed[c]
      /\ UNCHANGED <<request, meanwhile, seen>>
      /\ policies' = policies /\ rest' = rest /\ UNCHANGED stores
  BY DEF Resolved, fetchResourceLabels, CallerInv, LabelsInv, LostInv, Active,
         Answers, progress, history
<1>2. CASE Resolved(c)
  <2>1. pc[c] = "resolve" /\ failed' = failed
    BY <1>2 DEF Resolved, progress
  <2>2. CASE ~Parses(policies[c])
    <3>1. pc'[c] = "500"
      BY <1>2, <2>2 DEF Resolved, Goto, TypeOK
    <3> QED
      BY <1>1, <2>1, <2>2, <3>1, DecideInv DEF Decision
  <2>3. CASE Parses(policies[c]) /\ ~(OnCluster(req.path) /\ policies[c] # {})
    <3>1. Decide(c, {})
      BY <1>2, <2>3 DEF Resolved
    <3>2. pc'[c] = IF Authorize(policies[c], req.user, ActionOf(req),
                                req.project, OnCluster(req.path), {})
                   THEN "next" ELSE "403"
      BY <3>1 DEF Decide, Goto, TypeOK
    <3>3. pc'[c] = Decision(policies[c], req, read(failed'[c]))
      BY <2>3, <3>2, LabelsIrrelevant DEF Decision
    <3> QED
      BY <1>1, <2>1, <3>3, DecideInv
  <2>4. CASE Parses(policies[c]) /\ OnCluster(req.path) /\ policies[c] # {}
    <3>1. pc'[c] = "labels"
      BY <1>2, <2>4 DEF Resolved, Goto, TypeOK
    <3>2. LabelsInv(c)' /\ LostInv(c)'
      BY <1>1, <2>1, <2>4, <3>1 DEF LabelsInv, LostInv
    <3>3. AnswerInv(c)'
      BY <3>1 DEF AnswerInv, Judged
    <3>4. meanwhile[c] <= 1 =>
            Consistent(req, Documents(req.project), "labels", policies[c],
                       rest[c], failed[c], meanwhile[c], seen[c])
      <4>1. \A x, y : Reading(x, y, req.project, "resolve", policies[c],
                              rest[c], failed[c])
              => Reading(x, y, req.project, "labels", policies[c], rest[c],
                         failed[c])
        BY DEF Reading
      <4> QED
        BY <1>1, <2>1, <4>1 DEF ReadInv, Consistent
    <3>5. Documents(req.project)' = Documents(req.project)
      BY <1>1, DocumentsStay DEF Documents, stores
    <3>6. ReadInv(c)'
      BY <1>1, <2>1, <3>1, <3>4, <3>5 DEF ReadInv
    <3> QED
      BY <3>2, <3>3, <3>6 DEF CallerInv
  <2> QED
    BY <2>2, <2>3, <2>4
<1>3. CASE fetchResourceLabels(c)
  <2>1. pc[c] = "labels" /\ Parses(policies[c])
    BY <1>3 DEF fetchResourceLabels, CallerInv, LabelsInv
  <2>2. \/ Decide(c, LabelsOf(mirror[req.project])) /\ failed'[c] = failed[c]
        \/ Decide(c, {}) /\ failed'[c] = failed[c] \cup {"labels"}
    BY <1>3 DEF fetchResourceLabels, Missed, TypeOK
  <2>3. read(failed'[c]) =
          IF "labels" \in failed'[c] THEN {} ELSE LabelsOf(mirror[req.project])
    BY <1>1, LabelsRead DEF LabelsOf
  <2> HIDE DEF read
  <2>4. Decide(c, read(failed'[c]))
    BY <1>1, <2>2, <2>3
  <2>5. pc'[c] = Decision(policies[c], req, read(failed'[c]))
    BY <2>1, <2>4 DEF Decide, Goto, Decision, TypeOK
  <2> QED
    BY <1>1, <2>2, <2>5, DecideInv DEF read
<1> QED
  BY <1>2, <1>3

\* Every step of a request keeps what is known of it.
LEMMA StepInv == ASSUME TypeOK, NEW c \in Callers, CallerInv(c), Step(c)
  PROVE CallerInv(c)'
BY WrapInv, ReadInvSteps, AttachmentsInv, FailedInv, ResolvedInv, LeaveInv
   DEF Step

\* The invariant holds in every reachable state.
LEMMA Inductive == Spec => []IInv
<1>1. Init => \A c \in Callers : CallerInv(c)
  BY DEF Init, CallerInv, AnswerInv, Judged, ReadInv, Active, LabelsInv,
         LostInv
<1>2. ASSUME TypeOK, \A c \in Callers : CallerInv(c), [Next]_vars
      PROVE  \A c \in Callers : CallerInv(c)'
  <2>1. CASE Edit
    BY <1>2, <2>1, EditInv
  <2>2. ASSUME NEW c \in Callers, Step(c) PROVE \A d \in Callers : CallerInv(d)'
    BY <1>2, <2>2, StepInv, OthersInv
  <2>3. CASE UNCHANGED vars
    <3>1. \A p : Documents(p)' = Documents(p)
      BY <2>3 DEF vars, stores, Documents
    <3>2. UNCHANGED <<request, pc, progress, history>>
      BY <2>3 DEF vars
    <3> QED
      BY <1>2, <3>1, <3>2
         DEF progress, history, CallerInv, AnswerInv, Judged, ReadInv, Active,
             LabelsInv, LostInv, Right, ActionOf
  <2> QED
    BY <1>2, <2>1, <2>2, <2>3 DEF Next
<1> DEFINE Callings == \A c \in Callers : CallerInv(c)
<1>3. Init => Callings
  BY <1>1
<1>4. TypeOK /\ Callings /\ [Next]_vars => Callings'
  BY <1>2
<1>5. TypeOK /\ Callings => IInv
  BY DEF IInv
<1> HIDE DEF Callings
<1> QED
  BY <1>3, <1>4, <1>5, TypeCorrect, PTL DEF Spec

\* For all documents, requests and callers: if at most one document was
\* edited while a request was served, and attachments and roles could be read,
\* then what the middleware answers is what the documents called for at some
\* moment of the request, although it reads them one after the other: those
\* documents without the global policies, or the labels, that it could not
\* read.
THEOREM DecisionsRight == Spec => []DecisionRight
<1>1. IInv => DecisionRight
  BY DEF IInv, CallerInv, AnswerInv, DecisionRight
<1> QED
  BY <1>1, Inductive, PTL

\* For all documents, requests and callers: a request let through although
\* roles could not be read would have been let through, or failed on a policy
\* that does not parse, at some moment with all of them read, and what else
\* could not be read taken for none.
THEOREM RolesNarrow == Spec => []LostRolesNarrow
<1>1. IInv => LostRolesNarrow
  BY DEF IInv, CallerInv, AnswerInv, LostRolesNarrow
<1> QED
  BY <1>1, Inductive, PTL

-----------------------------------------------------------------------------
(* What is not decided *)

\* Only what the mapper has no action for goes past undecided.
Bypassed(c) == pc[c] = "bypass" => ActionOf(request[c]) = NoAction

\* Routes of the server without an action are public, or for HEAD.
LEMMA NoActionRoutes ==
  ASSUME NEW req \in Request, ActionOf(req) = NoAction,
         <<req.method, req.path>> \in mux
  PROVE  req.path \in Public \/ req.method = "HEAD"
<1>1. CASE <<req.method, req.path>> \in patterns
  BY <1>1 DEF ActionOf, MapRequest, NoAction, patterns, Public
<1>2. CASE <<req.method, req.path>> \notin patterns
  BY <1>2 DEF mux
<1> QED
  BY <1>1, <1>2

\* A request is at "bypass" only after Wrap has put it there.
LEMMA BypassedStep ==
  ASSUME TypeOK, NEW c \in Callers, Bypassed(c), Next
  PROVE  Bypassed(c)'
<1>1. CASE Edit
  BY <1>1 DEF Edit, Bypassed, ActionOf
<1>2. ASSUME NEW d \in Callers, Step(d), d # c
      PROVE  Bypassed(c)'
  <2>1. pc'[c] = pc[c] /\ request'[c] = request[c]
    BY <1>2, OthersStay
  <2> QED
    BY <2>1 DEF Bypassed, ActionOf
<1>3. ASSUME NEW req \in Request, Wrap(c, req)
      PROVE  Bypassed(c)'
  BY <1>3 DEF Wrap, Goto, Bypassed, ActionOf, TypeOK
<1>4. ASSUME Step(c), ~\E req \in Request : Wrap(c, req)
      PROVE  pc'[c] # "bypass"
  BY <1>4 DEF Step, ValidateRequest, loadGlobalPolicies, getAttachments,
     getAttachmentsFailed, resolveAttachmentPolicy, resolveFailed, Resolved,
     fetchResourceLabels, Decide, Leave, Goto, TypeOK
<1>5. Step(c) => Bypassed(c)'
  BY <1>3, <1>4 DEF Bypassed
<1> QED
  BY <1>1, <1>2, <1>5 DEF Next

\* For all documents, requests and callers: what the server has a handler for
\* and the middleware does not decide is public, or a HEAD.
THEOREM UndecidedAre == Spec => []UndecidedRoutes
<1> DEFINE AllBypassed == \A c \in Callers : Bypassed(c)
<1>1. Init => AllBypassed
  BY DEF Init, Bypassed
<1>2. TypeOK /\ AllBypassed /\ [Next]_vars => AllBypassed'
  <2>1. UNCHANGED vars /\ AllBypassed => AllBypassed'
    BY DEF vars, Bypassed, ActionOf
  <2> QED
    BY <2>1, BypassedStep
<1>3. TypeOK /\ AllBypassed => UndecidedRoutes
  BY NoActionRoutes DEF TypeOK, Bypassed, UndecidedRoutes
<1> HIDE DEF AllBypassed
<1> QED
  BY <1>1, <1>2, <1>3, TypeCorrect, PTL DEF Spec
=============================================================================
