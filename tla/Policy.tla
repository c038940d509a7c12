------------------------------- MODULE Policy -------------------------------
(***************************************************************************)
(* Which policies a role stands for, and what they decide: the pure part   *)
(* of internal/cedar: permissions.go, mapper.go, entities.go, the policy   *)
(* templates and the functions of store.go that make policies of roles.    *)
(*                                                                         *)
(* A policy is a record of what its text says.  A condition of a custom    *)
(* role is a Cedar expression over the labels of a cluster, and stands for *)
(* the sets of labels in which it is true; in any other it is false or an  *)
(* error, which both keep the policy from applying.  A text that Cedar     *)
(* cannot parse is a condition that stands for nothing.                    *)
(***************************************************************************)
CONSTANTS Users,
          Projects,         \* the namespaces of hosted clusters
          Labels,           \* what a cluster may be labelled
          TrueFor,          \* the sets of labels each condition is true for
          Anyone, Anywhere  \* a global policy for all users, for all projects

ASSUME PolicyAssumption ==
  /\ \A c \in DOMAIN TrueFor : TrueFor[c] \subseteq SUBSET Labels
  /\ Anyone \notin Users /\ Anywhere \notin Projects

-----------------------------------------------------------------------------
(* permissions.go *)

AllPermissions ==
  {"cluster.create", "cluster.list", "cluster.get", "cluster.update",
   "cluster.delete", "cluster.kubeconfig", "policy.manage"}

PermissionToAction == [perm \in AllPermissions |->
  CASE perm = "cluster.create"     -> "CreateManagedHostedCluster"
    [] perm = "cluster.list"       -> "ListManagedHostedClusters"
    [] perm = "cluster.get"        -> "GetManagedHostedCluster"
    [] perm = "cluster.update"     -> "UpdateManagedHostedCluster"
    [] perm = "cluster.delete"     -> "DeleteManagedHostedCluster"
    [] perm = "cluster.kubeconfig" -> "GetKubeConfig"
    [] perm = "policy.manage"      -> "ManagePolicies"]

Actions == {PermissionToAction[p] : p \in AllPermissions}

\* A permission that is not known maps to no action.
MapPermissionsToActions(perms) ==
  {PermissionToAction[p] : p \in perms \cap AllPermissions}

collectionPermissions == {"cluster.list", "cluster.create"}

-----------------------------------------------------------------------------
(* templates/*.cedar *)

Predefined == {"service-admin", "cluster-admin", "cluster-viewer", "developer"}

templates == [role \in Predefined |->
  CASE role = "service-admin"  -> Actions
    [] role = "cluster-admin"  -> Actions \ {"ManagePolicies"}
    [] role = "cluster-viewer" -> {"ListManagedHostedClusters",
                                   "GetManagedHostedCluster"}
    [] role = "developer"      -> {"ListManagedHostedClusters",
                                   "GetManagedHostedCluster", "GetKubeConfig"}]

Permit(user, actions, conditions, project) ==
  [effect |-> "permit", user |-> user, actions |-> actions,
   conditions |-> conditions, project |-> project]

\* The conditions go into both blocks.
GeneratePolicyFromPermissionsFault(role, user, project) ==
  {Permit(user, MapPermissionsToActions(perms), role.conditions, project) :
     perms \in {role.permissions \cap collectionPermissions,
                role.permissions \ collectionPermissions} \ {{}}}

\* A block for the permissions on the collection, which has no labels, and one
\* with the conditions for the others; none for no permissions.
GeneratePolicyFromPermissions(role, user, project) ==
  LET collection == role.permissions \cap collectionPermissions
      others == role.permissions \ collectionPermissions
  IN {Permit(user, MapPermissionsToActions(perms),
             IF perms = others THEN role.conditions ELSE {}, project) :
        perms \in {collection, others} \ {{}}}

TemplatePolicy(template, user, project) ==
  Permit(user, templates[template], {}, project)

-----------------------------------------------------------------------------
(* mapper.go *)

\* The paths of the server, as patterns; "authz" is every path below
\* /authz/namespaces/{namespace}, "healthz" is /openapi.yaml, too.  A segment
\* with an escaped slash, which the mapper and the server split differently, is
\* left out.
Paths == {"clusters", "cluster", "kubeconfig", "authz", "templates", "healthz"}

Methods == {"GET", "HEAD", "POST", "PUT", "DELETE"}

NoAction == "none"

\* The routes below /authz leave out DELETE.
MapRequestFault(method, path) ==
  CASE path = "kubeconfig" /\ method = "GET" -> "GetKubeConfig"
    [] path = "cluster" /\ method = "GET" -> "GetManagedHostedCluster"
    [] path = "cluster" /\ method = "PUT" -> "UpdateManagedHostedCluster"
    [] path = "cluster" /\ method = "DELETE" -> "DeleteManagedHostedCluster"
    [] path = "clusters" /\ method = "GET" -> "ListManagedHostedClusters"
    [] path = "clusters" /\ method = "POST" -> "CreateManagedHostedCluster"
    [] path = "authz" /\ method \in {"GET", "POST", "PUT"} -> "ManagePolicies"
    [] OTHER -> NoAction

\* The action of a request; it has none if no route matches.
MapRequest(method, path) ==
  CASE path = "kubeconfig" /\ method = "GET" -> "GetKubeConfig"
    [] path = "cluster" /\ method = "GET" -> "GetManagedHostedCluster"
    [] path = "cluster" /\ method = "PUT" -> "UpdateManagedHostedCluster"
    [] path = "cluster" /\ method = "DELETE" -> "DeleteManagedHostedCluster"
    [] path = "clusters" /\ method = "GET" -> "ListManagedHostedClusters"
    [] path = "clusters" /\ method = "POST" -> "CreateManagedHostedCluster"
    [] path = "authz" /\ method \in {"GET", "POST", "PUT", "DELETE"} ->
         "ManagePolicies"
    [] OTHER -> NoAction

\* The resource is a cluster; otherwise it is the project.
OnCluster(path) == path \in {"cluster", "kubeconfig"}

\* The patterns the server has a handler for, cmd/apiserver/main.go.
patterns ==
  {<<"GET", "clusters">>, <<"POST", "clusters">>,
   <<"GET", "cluster">>, <<"PUT", "cluster">>, <<"DELETE", "cluster">>,
   <<"GET", "kubeconfig">>,
   <<"GET", "authz">>, <<"POST", "authz">>, <<"DELETE", "authz">>,
   <<"GET", "templates">>, <<"GET", "healthz">>}

\* What net/http serves by them: HEAD too by a pattern for GET.
mux ==
  patterns \cup
    {<<"HEAD", path>> : path \in {p \in Paths : <<"GET", p>> \in patterns}}

\* The handlers that tell nothing of any project.
Public == {"templates", "healthz"}

-----------------------------------------------------------------------------
(* The decision of the Cedar library *)

\* A resource is in its project; only a cluster has labels.
Applies(policy, user, action, project, onCluster, labels) ==
  /\ policy.user \in {user, Anyone}
  /\ action \in policy.actions
  /\ policy.project \in {project, Anywhere}
  /\ \A c \in policy.conditions : onCluster /\ labels \in TrueFor[c]

Authorize(policies, user, action, project, onCluster, labels) ==
  LET applying == {p \in policies :
                     Applies(p, user, action, project, onCluster, labels)}
  IN /\ \E p \in applying : p.effect = "permit"
     /\ \A p \in applying : p.effect # "forbid"

Parses(policies) == \A p \in policies : p.conditions \subseteq DOMAIN TrueFor
=============================================================================
