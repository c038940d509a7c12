------------------------------ MODULE MCAuthz ------------------------------
(* Instances of Authz for TLC. *)
EXTENDS Authz, TLC

CONSTANTS u, v, p, q

\* "dev" is true for clusters labelled so, "open" for those not labelled
\* "closed"; "broken" is not Cedar.
Conditions ==
  "dev"  :> {l \in SUBSET Labels : "dev" \in l} @@
  "open" :> {l \in SUBSET Labels : "closed" \notin l}

\* Each role, roles together, a role of another user; roles elsewhere.
AttachmentSets ==
  p :> {{}, {<<u, "service-admin">>}, {<<u, "cluster-viewer">>},
        {<<v, "cluster-admin">>, <<u, "custom">>}, {<<v, "custom">>},
        {<<u, "developer">>, <<u, "custom">>}} @@
  q :> {{}, {<<u, "custom">>}}

Role(permissions, conditions) ==
  [permissions |-> permissions, conditions |-> conditions]

\* All permissions for one kind of cluster; one permission and one nobody
\* knows; conditions that Cedar does not parse, and that nothing uses.
RoleSets ==
  p :> {NoRole, Role(AllPermissions, {"dev"}),
        Role({"cluster.get", "cluster.scale"}, {"open"}),
        Role({"cluster.list", "cluster.get"}, {"broken"}),
        Role({"cluster.list"}, {"broken"})} @@
  q :> {Role(AllPermissions, {})}

\* Nobody deletes what is labelled "dev".
GlobalSets ==
  {{}, {[effect |-> "forbid", user |-> Anyone,
         actions |-> {"DeleteManagedHostedCluster"},
         conditions |-> {"dev"}, project |-> Anywhere]}}

MirrorSets == p :> {NoMirror, {"dev"}, {"closed"}} @@ q :> {NoMirror}
=============================================================================
