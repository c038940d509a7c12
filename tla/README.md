# TLA+ models of hyperkube

hyperkube is a REST API in front of a fleet of management clusters, each of
which runs hosted OpenShift clusters. A client creates, changes and deletes a
`ManagedHostedCluster`; the API server places it on a management cluster and
writes *desires* into a Firestore database of that management cluster; an agent
there (kube-applier, in another repository) turns the desires into Kubernetes
objects; controllers on the management cluster turn those into HyperShift
objects. This directory holds TLA+ modules for the parts with state and
concurrency, configurations that check small instances of them with TLC, and
proofs of their safety properties, checked with TLAPS, for instances of any
size.

Paths below are relative to `src/`.

## The system

### Components, their state and their operations

| Component | Code | State | Operations |
| --- | --- | --- | --- |
| REST handlers | `internal/apiserver` | none of their own | `Create`, `Get`, `List`, `Update`, `Delete`, `GetKubeConfig` (answers a placeholder) |
| Placement client | `internal/placement` | database `placement`: `allocated` and `capacity` per management cluster, one mapping per hosted cluster | `Allocate`, `Release` (transactions); `Set`/`Get`/`DeleteClusterMapping`, `ListClusterMappings` |
| Desires | `internal/desires` | databases `mc-<name>-specs` and `mc-<name>-status`: `ApplyDesire`, `ReadDesire`, `DeleteDesire` documents | `Create`, `Get`, `List`, `Replace` (conditional on the update time), `Delete` (unconditional) |
| Cedar store | `internal/cedar/store.go`, `handlers.go` | database `cedar`: attachments per project, projects per user, global policies, custom roles | `CreateAttachment`, `DeleteAttachment`, `ResolvePolicies`, lists of roles and templates |
| Authorization | `internal/cedar/authz.go`, `mapper.go`, `entities.go`, `permissions.go` | none of its own | one decision per request, before its handler |
| JWT identity | `internal/cedar/identity.go` | the cached key set and its age, under a lock | `ValidateRequest`, `getJWKS`, `fetchJWKS` |
| Validation, logging | `internal/apiserver/validation.go`, `middleware.go` | none | check a request against the OpenAPI document |
| Firestore clients | `internal/firestorecache` | a map of clients under a mutex | `GetOrCreate`, `Close` |
| VersionStream controller | `internal/controller`, `internal/cincinnati` | the status of each `VersionStream` | `Reconcile`: resolve the version, write the status, requeue |
| HostedCluster controller | `internal/controller` | `HostedCluster` objects, conditions of `ManagedHostedCluster` | `Reconcile`: read both resources, create or update, set the condition |
| Other controllers | `internal/controller` | none | scaffolds whose `Reconcile` does nothing |
| Agent, Firestore, Kubernetes, Cincinnati, Google's keys | external | | |

### How they interact

Every REST request runs in a goroutine of its own: validation, authorization,
handler. A handler is a sequence of calls to the placement database and to one
specs database. Each call is atomic: `Allocate` and `Release` because they run
a Firestore transaction, the others because they touch one document. Nothing
makes the sequence atomic, no lock is held across calls, nothing undoes a
sequence that stopped, and several replicas of the server may run. So *any*
two requests interleave at the granularity of calls, and any request may stop
between any two calls. The agent reads the specs database and writes the status
database, from which `Get`, `List` and the authorization middleware read.

### What is hard, and what correctness means

- **Placement and handlers.** The counters are kept in transactions, the
  documents that use the slots are not. Capacity must never be exceeded, a slot
  must never be given back twice (the counter would undercount and let a
  management cluster be overfilled), concurrent Updates must not overwrite each
  other silently, a hosted cluster must not be told to exist without its
  namespace, a 200 must mean something durable, and a name must have one home.
- **Readers.** `Get` and `List` put an answer together from documents of three
  databases that the agent and other requests change between the reads. A 404
  must be true, a List complete, and a client that polls must come to see what
  it asked for.
- **Desires.** Their order and their lifetimes are a protocol with the agent:
  the `ApplyDesire` is gone before the `DeleteDesire` is written. What was
  created must come to run, what was deleted must be gone for good.
- **Cedar store.** The attachments of a project are read, edited and written
  back whole; the index is a second write. No grant should be lost, no
  revocation undone, and the index should agree with the attachments: how far
  the code keeps to that, and where it does not, is what the module says.
- **Authorization.** The documents of one decision are read one by one, each
  may be edited meanwhile and each read may fail. The decision must be one the
  documents called for, and what could not be read must not widen it.
- **JWKS cache.** Two expiry times, a lock that is held through a fetch, and key
  rotation; a valid token should not be refused for long, a withdrawn key not
  accepted for long, and nobody left waiting.
- **Controllers.** Level-triggered loops over stale reads with conflicts: they
  must converge to the resolved image once their inputs stop changing.
- **Cincinnati.** The latest release of a minor version must be chosen, from
  versions whose parts may be no numbers.

`PROJECT.json` lists each hazard at its line with the properties that cover it.

## The modules

| Module | Models | Lines |
| --- | --- | --- |
| `Fleet` | what documents are indexed by: management clusters, hosted clusters, namespaces | `clusterMapDocID`, `mhcDocumentID`, `nsDocumentID` |
| `Placement` | `internal/placement/placement.go` | every call the state-changing handlers make |
| `Desires` | `internal/desires/crud.go` on the specs databases | every call the state-changing handlers make |
| `SlotLedger` | nothing: the abstract promise of the counters | |
| `ClusterAPI` | `Create`, `Update`, `Delete` of `internal/apiserver/handlers.go` over `Placement` and `Desires`; the properties | 100-200, 340-455 |
| `Agent` | the kube-applier agents and the status databases (external) | as `design-decisions/firestore-kube-applier-integration.md` promises |
| `Pipeline` | `Get`, `List`, `GetKubeConfig` composed with `ClusterAPI` and `Agent`; liveness | 202-338, 457-477 |
| `MCPipeline` | values of the constants for TLC | |
| `Editors` | clients that put back what they got, over `Pipeline` | 202-277, 340-389 |
| `MCEditors` | values of the constants for TLC | |
| `MCClusterAPI` | values of the constants for TLC | |
| `ClusterAPIProofs` | proof of type correctness | |
| `LedgerProofs` | proofs of the refinement and of the capacity properties | |
| `DocumentProofs` | proofs about the desires, the mappings and what Creates and Updates leave | |
| `PipelineProofs` | proofs about the handlers among agents and readers | |
| `CedarStore` | `CreateAttachment`, `DeleteAttachment` of `internal/cedar/store.go` | 112-242, 432-482 |
| `MCCedarStore` | symmetry for TLC | |
| `CedarProofs` | proofs about it, for every interleaving and failure | |
| `JWKSCache` | `internal/cedar/identity.go`: the cache of the issuer's keys, its lock, time | 36-172 |
| `MCJWKSCache` | nothing to add for TLC | |
| `JWKSCacheProofs` | proofs of what may be accepted and refused, and when | |
| `Policy` | pure: permissions, templates, policies of roles, routes, the decision (`permissions.go`, `mapper.go`, `entities.go`, `store.go`, the templates) | |
| `Authz` | the middleware of `authz.go` and `ResolvePolicies` of `store.go`, over `Policy` | 32-135; 244-303 |
| `MCAuthz` | the documents of the instance for TLC | |
| `AuthzProofs` | proofs about the decisions, pure and among edits | |
| `Cincinnati` | pure: which release of a graph is taken (`compareVersions`) | 90-145 |
| `Controllers` | both reconcilers of `internal/controller`, with their caches and queues, and what they meet: Cincinnati, the agent, HyperShift, the garbage collector | `hostedcluster_controller.go` 59-280, `versionstream_controller.go` 46-106, `cincinnati/client.go` 74-178 |
| `MCControllers` | values of the constants for TLC | |
| `ControllersProofs` | proofs about the choice of a release and its way into a HostedCluster | |

Operators whose names end in `Fault` are plausible bugs of the definition that
follows them: each property is known to notice one of them. No specification
uses them.

### ClusterAPI: state and actions

`allocated` and `clustermap` are the documents of the placement database;
`applyDesires`, `nsDesires`, `readDesires`, `deleteDesires` those of the specs
databases; `op`, `key`, `pc`, `mc`, `base`, `code` are the local variables of
the handlers, one entry per request. `pc` names the call a request makes next
and an action is one call with the checks around it:

| `pc` | Call | Actions |
| --- | --- | --- |
| `start` | `GetClusterMapping` | `CreateLookup`, `UpdateLookup`, `DeleteLookup`, `LookupNotFound` |
| `allocate` | `Allocate` | `CreateAllocate`, `CreateNoCapacity` |
| `create_ns` | `ApplyDesires().Create`, of the namespace | `CreateNamespace` |
| `create_apply` | `ApplyDesires().Create` | `CreateApplyDesire`, `CreateApplyConflict` |
| `create_read` | `ReadDesires().Create` | `CreateReadDesire`, `CreateReadConflict` |
| `set_mapping` | `SetClusterMapping` | `CreateMapping` |
| `get_update`, `get_delete` | `ApplyDesires().Get` | `UpdateGet`, `DeleteGet`, `GetNotFound` |
| `replace` | `ApplyDesires().Replace` | `UpdateReplace`, `UpdateConflict` |
| `delete_apply` | `ApplyDesires().Delete` | `DeleteApplyDesire` |
| `delete_read` | `ReadDesires().Delete` | `DeleteReadDesire` |
| `create_delete` | `DeleteDesires().Create` | `CreateDeleteDesire`, `CreateDeleteConflict` |
| `release` | `Release` | `DeleteRelease` |
| `delete_mapping` | `DeleteClusterMapping` | `DeleteMapping` |

`Fail` answers 500 before any call: an error of Firestore, a cancelled context,
an unreachable specs database, or the server stopping (then nobody sees the
500, which makes no difference to the stores). A call that took effect and
whose answer was lost is the call followed by `Fail`. A client that retries is
another request with the same name.

The content of a document is abstracted to the request that wrote it. An
`ApplyDesire` is written by a request at most once, so this is a version as
well, and stands for the update time that `Replace` compares; in Firestore the
update time of a document that was removed and written again also differs from
every earlier one. `clustermap` names and the hashes that identify desires are
taken to be injective: a Kubernetes name contains neither `:` nor `/`.

### Agent and Pipeline: state and actions

`Pipeline` extends `ClusterAPI`, whose requests run as they are, with agents and
readers. `object` is what runs on a management cluster, `applyStatus` and
`readStatus` the two kinds of documents of its status database. An agent applies
an `ApplyDesire` and reports it (`AgentApply`), mirrors the object of a
`ReadDesire` (`AgentMirror`), deletes the object of a `DeleteDesire`
(`AgentDelete`) and, once it is gone, the status documents (`AgentCleanUp`). It
never removes a desire, which nothing in the repository says it does, and it
repeats itself at will.

A reader is a client that sends one request after the other. `rpc` names the
call its request makes next, as `pc` does for the others; `rmc`, `rd`, `ad`,
`rest`, `items` are local variables of the handlers, and `reply` is what the
client gets.

| `rpc` | Call | Actions |
| --- | --- | --- |
| `idle` | `GetClusterMapping` | `GetLookup`, `GetKubeConfig`, `ReadNotFound` |
| `idle` | `ListClusterMappings` | `ListStart` |
| `get_read` | `ReadDesires().Get`, status database | `GetStatusRead` |
| `get_apply` | `ApplyDesires().Get`, status database | `GetStatusApply` |
| `get_spec` | `ApplyDesires().Get`, specs database | `GetSpec` |
| `list` | `ReadDesires().Get` for each name | `ListItem`, `ListItemFailed`, `ListDone` |

Any call may fail (`ReadFailed`), which ends a `Get` and a `List` whose mappings
or client it is, and leaves a name out of a `List` whose mirror it is. The
second read of `List`, of the status of the `ApplyDesire`, only decorates an
item and is part of the same action. `owed` is history: the hosted clusters
that had a mapping and a mirror when the List began.

`Editors` adds one thing to `Pipeline`: `edited`, the version that the client of
an Update had been given by a `Get` when it edited (`TakeUp`). No handler looks
at it, as none looks at the `resourceVersion` of a request.

### JWKSCache: state and actions

`cachedJWKS` and `mu` are the fields of `JWTValidator`; `cachedAge` stands for
`cachedAt`, an age that stops at the time to live. `getJWKS` reads the cache,
`FetchSaved`, `FetchBegin`, `FetchStore` and `FetchFailed` are `fetchJWKS`: its
look at the cache under the write lock, its request, its two ends. The second
fetch of `validateToken`, for a key that is not there, goes the same way
(`refresh` in place of `load`). `Send` is the moment at which the key service
decides what it answers, `Publish` and `Withdraw` change its keys, `Tick` is
time, which a fetch holds up only when its timeout is due.

### Policy and Authz: state and actions

A policy is a record of effect, user, actions, project and conditions, and a
condition is the set of label sets in which it is true: `TrueFor` is a constant,
so that conditions need no text. `patterns` is the table of the server, `mux`
what `net/http` serves by it, which is HEAD for every GET. `Authz` has the four
kinds of documents as variables, each of which `Edit` may replace by any other
of its kind, and one entry per request for what the middleware is about to do
(`pc`) and what it has (`policies`, `rest`). Actions have the names of the
functions. `failed`, `meanwhile` and `seen` are history: which reads failed, how
many edits came since the request did, and what the documents were in that time.
What is right (`RightAnswer`) is said without policies, from documents to
answer; the middleware goes the long way, from documents to policies to a
decision. `Right` are the answers that were right in that time to what could be
read.

### CedarStore: state and actions

`attachments` has the document of each project, `userProjects` the document of
each user; `list` is the slice a request has read and edits. Reading, saving
and editing the index are the three calls of either operation (`CreateRead`,
`CreateSave`, `CreateIndex`; `DeleteRead`, `DeleteSave`, `DeleteIndex`).
`Refused` is every end before the first write. A request that fails later is
told apart by whether its first write took place (`refused`, `half_done`).
Nothing keeps two requests on one project apart. `unseen` and `late` are
history: the requests on its project that wrote between the read of a request
and its write, and between its write and its edit of the index.

### Controllers: state and actions

`stream`, `mhc`, `reported` and `hc` are objects of the Kubernetes API;
`streamCache` and `mhcCache` are what the manager last saw of the first two,
`vsQueue` and `hcQueue` the workqueues, `vsWork` and `hcWork` what a worker has
in its hands: `step` names the call it makes next.

| `step` | Call | Actions |
| --- | --- | --- |
| `idle` | `Get` of the stream, of the cluster, from the cache | `VSGet`, `HCGetCluster` |
| `resolve` | `ResolveVersion` | `ResolveVersion`, `ResolutionFailed` |
| `status` (stream) | `Status().Update` | `VSStatusUpdate`, `VSConflict`, `VSError` |
| `get_stream` | `Get` of the stream, from the cache | `HCGetStream`, `HCWaitForImage` |
| `get_hc` | `Get` of the HostedCluster, from the API | `HCGet`, `HCError` |
| `create`, `update` | `Create`, `Update` | `HCCreate`, `HCUpdate`, `HCConflict`, `HCError` |
| `status` (cluster) | `Status().Update` | `setCondition`, `HCConflict`, `HCError` |

A release is the n-th of its target to appear, and `VersionOf` its version,
which may compare with the others in any way: the parts of a version are what
`strconv.Atoi` makes of them, zero for what is no number. `Graph` has the
releases that have appeared (`Published`), of all targets, as the update graph
of a channel does; `ResolveVersion` takes one of those that `Cincinnati` finds
best.

A resource version is compared for one thing, whether a copy is still current
when it is written back; so a copy carries a bit that every write of the object
by another clears. A `ManagedHostedCluster` is the number of its life, which is
its UID: a HostedCluster belongs to the life that its controller reference
names. Delays are abstracted: what is requeued after a time is back in the
queue, from which it is taken at any time. A call that took effect and whose
answer was lost is the call followed by an error of the next one or, for the
last call, by another event. The HostedCluster is unstructured, and the
manager's client reads unstructured objects from the API rather than a cache.
`Update` replaces the whole object, and what the controller writes has no
finalizers; Kubernetes removes an object that is being deleted when its last
finalizer goes, which is why `HCUpdate` of one that is leaving removes it.

## What is checked

| Run | Bounds | Shows |
| --- | --- | --- |
| `cluster_api_concurrent` | 4 requests at a time, 2 hosted clusters in 1 namespace, 2 management clusters with 2 and 1 slots, failures | nine invariants and the refinement of `SlotLedger` |
| `cluster_api_one_home` | 2 concurrent Creates, no failure | `OneHome` is violated |
| `cluster_api_recreate` | 3 requests in sequence, no failure | `ApplyGoneBeforeDelete` is violated |
| `update_stale` | a Create, 2 Updates, a client that gets, no failure | `NoStaleUpdate` is violated |
| `cedar_store` | 4 requests at a time, 2 users, 2 projects, failures | `IndexFollows`, `GrantsKept`, `RevocationsKept` |
| `cedar_concurrent` | 2 requests at a time, no failure | `IndexAgrees` is violated |
| `controllers_safety` | 1 stream, 1 cluster that is created and deleted once, 2 targets with 2 releases each, for one a candidate and its release, 1 change of the target, outages, 1 restart | `ImageInChannel`, `NeverBack` |
| `controllers_converge` | 1 stream, 1 cluster that is created twice, 2 targets, one with a release that appears, one with 4.10.9 and 4.10.10, 1 change of the target, outages | `Converges` |
| `pipeline_reads` | 3 requests at a time, 2 hosted clusters in 1 namespace, 2 management clusters with 2 and 1 slots, 2 agents, 1 reader, failures | `ListComplete`, `NoOrphans`, `NotFoundIsTrue` |
| `pipeline_converge` | 3 requests at a time on 1 hosted cluster, 1 management cluster and its agent, 1 reader that polls, no failure | `CreatedRuns`, `DeletedGone`, `PollingShows` |
| `jwks_cache` | 2 requests, again and again, 2 key IDs, 1 key, time to live 3, five seconds 1, timeout 2 | `OneFetchServesAll`, `AcceptedWhileKnown`, `NotFoundOnlyIfNew`, `EveryoneAnswered` |
| `authz` | 1 request of every kind for 2 users and 2 projects, 6 sets of attachments, 5 custom roles, a global policy, 3 sets of labels, 1 edit, every read may fail | `DecisionRight`, `LostRolesNarrow`, `UndecidedRoutes` |

**Capacity.** `SlotAccounting`, `NoOvercommit`, `ReleasedOnce` and
`ImplementsLedger` say that the counters do their work across calls: whatever
counts on a slot (a written `ApplyDesire`, a Create that is about to write one,
a removed one whose slot a Delete will give back) has one of its own, so the
counter never undercounts. It may overcount: slots of failed requests leak,
which the design document accepts (2.3, "No rollback on partial failure").
`Balanced` is about the choice `Allocate` makes.

**Documents.** `NoLostUpdate`, `NamespaceFirst`, `CreateDurable` and
`MappingLeadsToDesire` relate documents that are written in different calls by
different requests. `NoLostUpdate` is about what the handler of an Update reads:
of two that ran into each other one is refused, so that none overwrites what it
has not read. It says nothing of what the client had read before, which
`NoStaleUpdate` does. `Agreement` is the strongest relation, and needs requests
in sequence that leave nothing half done; it is proved (`StoresAgree`) and has
no run of its own. A ReadDesire that outlives its ApplyDesire would break it,
and `DeletedGone` as well. `MappingLeadsToDesire` and `Agreement` except what a
request left that ended half way: the code has no way back from there, and no
document says what should hold then.

**Cedar store.** As requests on one project are not kept apart, neither grants
nor revocations are safe, and the index agrees with the attachments only
sometimes. A later CreateAttachment drops an earlier grant (`cedar_concurrent`),
one that had read the list before a DeleteAttachment wrote puts the removed
attachment back although both are answered with success, and a request that ends
between its two writes leaves an attachment that the index does not show, or an
entry of the index without one. All of that is in the model, and `IndexFollows`,
`GrantsKept` and `RevocationsKept` say that there is nothing else: a grant is
lost and a removed role comes back only where a request wrote back a list that
it had read before the other wrote, and the index is right for a user unless a
request about this user is between its two writes, ended there, or was overtaken
by another about the same user. In particular requests on other projects, which
edit the documents of the same users, never do harm, nor do requests about other
users that run one after the other with these.

**Controllers.** `ImageInChannel` says that the release and the channel of a
HostedCluster come from one resolution, through two objects, two caches,
failures that keep the image of an earlier success and changes of the target.
`NeverBack` says that no stale read makes its way into a release that compares
lower, also where the later of two releases does.
`Converges` is the promise of a level-triggered controller; that it also holds
for a cluster that was deleted and created again is not obvious, since the
HostedCluster found then may be leaving and its removal wakes nobody. It holds
because the condition is new to the new life: writing it is a change of the
ManagedHostedCluster, and that wakes the controller once more.

That the newest release is found at all is `Cincinnati`: the instance has
patches 9 and 10, which as text compare the wrong way round, and a minor
version 9 beside 10 in one graph: with a comparison as text `Converges` fails.
What is newest by `compareVersions` need not be what appeared last: the parts of
`4.16.0-rc.1` are 4, 16, 0 (for `0-rc`, which is no number) and 1, so that it
compares above `4.16.0`, and in the channel group "candidate" it is the
candidate that is taken. `controllers_safety` has such a pair.

**Readers and agents.** `NotFoundIsTrue` says that a 404 is true when it is
given, although `Get` tries three documents one after the other. `ListComplete`
is about the names that a List drops in silence: only those whose mirror it
could not read, that had none, or that a Delete has found. `NoOrphans` says that
nothing runs that no desire asks for or takes away, but after a Delete that
failed between removing the one and writing the other: that is a state the code
does not come back from, for the Delete that is tried again finds no
`ApplyDesire` and answers 404. `CreatedRuns`, `DeletedGone` and `PollingShows`
are what a client may hope for: the last is the design document's "Clients must
poll" (2.3). `DeletedGone` excepts a name that is created again on the same
management cluster, which `ApplyGoneBeforeDelete` is about.

What they do not say: a `Get` after an `Update` may show the older content,
and after a Delete and a Create the content of the earlier life, until the agent
comes to it; that is the asynchronous design.

**Keys.** `AcceptedWhileKnown` bounds how long a withdrawn key is accepted: the
time to live and one fetch. `NotFoundOnlyIfNew` bounds how long a published one
is missed: five seconds and one fetch. `OneFetchServesAll` says that those who
waited behind a fetch do not each fetch again. That holds for fetches that
succeed: after one that failed, everyone who waited tries for himself, one after
the other, since only a success is remembered.

**Decisions.** `DecisionRight` compares the middleware with `RightAnswer`, for
one edit between the reads. Two edits may be mixed, as TLC shows at once with
`MaxEdits = 2`: an attachment that is removed before its role is extended can be
taken together with the extended role; the reads are no snapshot. `Unparseable`
is part of what is right: a condition that Cedar cannot parse makes all requests
of the project fail with 500, since the policies are parsed as one text; nothing
in the repository validates the conditions of a custom role. `LostRolesNarrow`
says which failed reads only narrow: those of roles. Global policies that cannot
be read are none to the code, and labels are those of no cluster; both
properties take that as it is, and say that the rest of the decision does not
suffer from it. A forbid policy that cannot be read does not forbid.
`UndecidedRoutes` relates the two tables that should agree, the routes of the
mapper and those of the server. They differ in one method: `net/http` serves
HEAD by every pattern for GET, the mapper has no HEAD, and what it has no route
for goes past the middleware as it is. So a HEAD of a project's routes is served
without a decision; the property excepts it by name and says that it is all.

**Bounds.** Four requests are two Creates, and two Deletes or Updates that race
with one another on what the Creates wrote, which is what every counterexample
met so far needs at most three of; two hosted clusters make one compete with
another for a slot; three slots in two management clusters let requests run out
of them, and let a level load differ from filling up. A third Create on the
same name adds a third home, not a new interleaving. `Requests` and `Clusters`
are symmetric; management clusters are not, since a tie in `Allocate` goes to
the first document ID. In `CedarStore` requests are attachments too: four are
enough for two grants and two revocations on one project, or two on each of
two, and for a request that overtakes another and is overtaken by a third.

Three requests are a Create, an Update and a Delete, or two of one kind and one
of another, which is what it takes to disturb a reader and an agent; a fourth
makes no new pair. A List needs two names, on one management cluster (the inner
loop) and on two (the outer). For liveness one hosted cluster is enough: the
agents and the calls of handlers that are about different ones meet in the
counters and the namespace only, and safety runs cover these.

For the keys the ages are what counts: the time to live is greater than the
five seconds, a timeout may be longer than these, as it is in the code, and both
fit into the time to live. Two requests are one that fetches and one that waits,
and each starts again without a bound. With one key published and withdrawn, and
a second key ID that never is, both answers of a lookup occur; keys share
nothing but the fetch.

For `NoStaleUpdate` a hosted cluster, its Create and two Updates are enough, one
after the other.

For decisions one request is enough, as requests only read. The documents of
the instance have a role of each kind, one beside another and one of another
user, conditions that are true with a label and without one, one that does not
parse, one that is not used; and a second project whose role must not count.

For the controllers one stream and one cluster are enough: streams share
nothing, and clusters share only the stream, which they read. Two releases of a
target let one be older than the other, a candidate and its release let one
compare lower that is not; `Converges` also needs a change of release, which the
change of the target is.

**Fairness.** `ClusterAPI`, `CedarStore` and `Authz` assume none: nothing
checked of them is a liveness property. A handler that has started runs to its
end unless it fails, but no promise of the code is about that alone; liveness
comes with the agent. `Pipeline` assumes that every handler goes on to its next
call (the goroutine of a request is scheduled; in that run no call hangs or
fails), that every agent is up again and again and takes up what its databases
hold (weak fairness; the agent "watches Firestore and reconciles", says the
design document), and that clients take their replies and ask for each name
again (strong fairness of the lookup, since a reader that is busy cannot be
asked). `JWKSCache` assumes that time goes on, that a request that has what it
waits for goes on, and that whoever waits for the lock gets it in the end
although others come and go (strong fairness; `sync.RWMutex` makes new readers
wait behind a writer and does not let a writer starve). That the key service
answers is not assumed: the timeout of the HTTP client is what ends a fetch.
`Controllers` assumes that caches catch up, that workers take what is queued
and that a Reconcile that has begun comes to its next call (weak fairness; the
loops of controller-runtime, and the timeout of 30 seconds of the Cincinnati
client), and that of infinitely many updates of a HostedCluster that could
succeed one does, although HyperShift may write between the read and the update
each time (strong fairness; the workqueue spaces retries by a delay that
grows). Nothing is assumed of the agent, HyperShift, the garbage collector or
Cincinnati: `Converges` is about behaviours in which outages, targets, releases
and ManagedHostedClusters stop changing.

**Deadlock** is checked. When every request has its answer the server idles,
which is a step that changes nothing (`AllAnswered`).

### Where code and documents disagree

- `OneHome`. The lookup and the mapping of a Create are at its two ends, and
  the duplicate that Firestore would refuse is in another database when
  `Allocate` chooses another management cluster. Two concurrent Creates of one
  name both answer 200 and both hosted clusters run; the mapping knows one. The
  same state is reached in sequence when a Create fails after its `ApplyDesire`
  and the client retries.
- `ApplyGoneBeforeDelete`. A Create does not look for the `DeleteDesire` of an
  earlier life of the name. After Create, Delete, Create the agent is told to
  apply and to delete one object; the next Delete removes the `ApplyDesire`,
  then is refused with 409 by the old `DeleteDesire`, and the mapping and the
  slot stay behind.
- `NoStaleUpdate`. The README requires `resourceVersion` in an Update
  (`README.md:327`), the OpenAPI document says it is there "for optimistic
  concurrency" (`api/openapi/spec.yaml:240`). The handler decodes it and
  compares nothing with it: of two clients that edited the same version both are
  answered 200, and the second undoes what the first changed.
- `IndexAgrees`. The design document asks for one transaction around both writes
  (`design-decisions/firestore-kube-applier-integration.md:459`); the code has
  an unconditional write and a transaction of its own. Two concurrent Creates on
  one project leave a project in the index of a user whose attachment was
  overwritten.

Modelled, with no run of its own: the comment of a stream's target says that the
latest patch version is taken (`api/v1alpha1/versionstream_types.go:26`), which
with release candidates (line 34) is what compares highest; the document on
authorization has Cedar as the engine for the API
(`design-decisions/authorization.md:5`), which a HEAD goes past.

Met while reading and not modelled: the design document asks for a bounded
client cache (`design-decisions/firestore-kube-applier-integration.md:350`), the
code keeps every client; a change of the target reaches every cluster of the
stream "subject to their UpgradeSchedule constraints" (`README.md:171`), which
no code reads (`README.md:216` calls the schedules a placeholder).

Met in `Controllers`, with no line of the repository that it contradicts:
`Update` strips the finalizers and annotations that HyperShift puts on a
HostedCluster, and when a cluster is deleted and created again while its
HostedCluster is being taken down, it removes that HostedCluster at once,
before HyperShift is done.

## What is proved

Every safety invariant and every action property that the passing runs check is
also a theorem, for all values of the constants that satisfy the assumptions
named in the modules. These are weak: document IDs are ordered like naturals;
hosted clusters and requests are finite in number; a hosted cluster has a
namespace; capacities and durations are natural numbers, the five seconds not
zero; the "nothing" values are nothing; there are users and projects; a target
has a major and a minor version, and the version of a release begins with its
target. Nothing is assumed of which requests run together, nor of how the
releases of a target compare. So the theorems hold for every fleet, every set of
requests, users, projects, streams and clusters, every number of requests served
at a time, with and without failures.

| Module | Theorem | Says |
| --- | --- | --- |
| `ClusterAPIProofs` | `TypeCorrect` | `Spec => []TypeOK` |
| `LedgerProofs` | `Refinement` | `Spec => ImplementsLedger`: the handlers implement `SlotLedger` |
| | `SlotsAccounted` | `Spec => []SlotAccounting` |
| | `NeverOvercommitted` | `Spec => []NoOvercommit` |
| | `SlotsReleasedOnce` | `Spec => []ReleasedOnce` |
| `DocumentProofs` | `NamespaceComesFirst` | `Spec => []NamespaceFirst` |
| | `UpdatesKept` | `Spec => []NoLostUpdate` |
| | `CountersLevel` | `Spec => []Balanced` |
| | `CreatesDurable` | `Spec => []CreateDurable` |
| | `MappingsLead` | `Spec => []MappingLeadsToDesire` |
| | `StoresAgree` | `Spec => []Agreement` |
| `PipelineProofs` | `PipelineIsClusterAPI` | `PipelineSpec => Spec`: all of the above holds among agents and readers |
| | `PipelineTypeCorrect` | `PipelineSpec => []PipelineTypeOK` |
| | `NothingOrphaned` | `PipelineSpec => []NoOrphans` |
| | `ListsComplete` | `PipelineSpec => []ListComplete` |
| | `NotFoundTrue` | `PipelineSpec => NotFoundIsTrue` |
| `CedarProofs` | `TypeCorrect` | `Spec => []TypeOK` |
| | `IndexAgreement` | `Spec => []IndexFollows` |
| | `GrantsStay` | `Spec => []GrantsKept` |
| | `RevocationsStay` | `Spec => []RevocationsKept` |
| `ControllersProofs` | `TypeCorrect` | `Spec => []TypeOK` |
| | `CompareOrders` | `compareVersions` is a total preorder of all versions |
| | `BestIsLatest` | what `Cincinnati` finds is a published release of the target that none compares above |
| | `BestExists` | it finds one as soon as the target has a release |
| | `ImagesInChannel` | `Spec => []ImageInChannel` |
| | `NeverGoesBack` | `Spec => NeverBack` |
| `JWKSCacheProofs` | `TypeCorrect` | `Spec => []TypeOK` |
| | `FetchedOnce` | `Spec => []OneFetchServesAll` |
| | `OnlyKnownAccepted` | `Spec => AcceptedWhileKnown` |
| | `NotFoundWhileNew` | `Spec => NotFoundOnlyIfNew` |
| `AuthzProofs` | `TypeCorrect` | `Spec => []TypeOK` |
| | `CalledRight` | on documents that stay, the middleware decides what they mean |
| | `DecisionsRight` | `Spec => []DecisionRight` |
| | `RolesNarrow` | `Spec => []LostRolesNarrow` |
| | `UndecidedAre` | `Spec => []UndecidedRoutes` |

**Slots** (`LedgerProofs`). `NoOvercommit` is not inductive: it says nothing of
a Create that has its slot and not yet its `ApplyDesire`, nor of a Delete that
has removed the `ApplyDesire` and not yet released. `Claims(m)` collects what
counts on a slot, and `Backed` (as many slots as claims, within the capacity) is
inductive together with `TypeOK` and `HandlerInv`. `HandlerInv` has the two
facts about requests that the argument needs: an Update only replaces a document
that it found, so that it never creates a claim, and a request that got past
`create_delete` is the only one for its hosted cluster there, since a
`DeleteDesire` is never removed by a handler and its Create admits one.

The proof goes through the abstract specification. For each action a lemma says
what becomes of the claims (`Reserving`, `Placing`, `Removing`, `Winning`,
`Releasing`, `Leaving`, `Keeping`, `Elsewhere`); from these every step of the
handlers is a step of `SlotLedger` or a stutter (`LedgerStep`), which is the
refinement. That a step of the ledger never makes more claims than slots is
about cardinalities alone (`LedgerSafe`). The two together make `IInv`
inductive, and the other theorems follow from it.

**Documents** (`DocumentProofs`). A lemma for each call says, document by
document, what the call writes; no later proof expands a handler. `DocumentInv`
is a conjunction of parts, each proved from those before it:

- `RequestInv`: where a request is, and what it may already hold.
- `NamespaceInv`: a Create at its `ApplyDesire` has the one of its namespace.
- `VersionInv`: a version is in one place, its request's; what an Update that
  was answered 200 began from is nowhere any more. That is what
  `NoLostUpdate` lacks: a version that is gone never comes back, since a
  request writes its version once.
- `LevelInv`: nothing is released before a `DeleteDesire` is written.
- `DurableInv`: what a Create has written so far, before it is answered.
- `MappingInv`: `WonInv` (of the Deletes of one hosted cluster one writes the
  `DeleteDesire`) and `GoneInv`: a mapping, or a Delete that followed one, comes
  from a Create that was answered 200; if the `ApplyDesire` of such a Create is
  gone, a Delete has taken it. `MappingLeadsToDesire` alone says nothing of a
  mapping that is still to be written, by one of two Creates of a name.
- `SerialInv` and `AgreementInv`: with one request at a time, the stores agree
  but for what the step of that request accounts for (`Agreed`).

**Agents and readers** (`PipelineProofs`). The steps of agents and readers leave
the variables of `ClusterAPI` alone, so `PipelineSpec => Spec`. `Writers` is
what they rely on of a handler's step, and `PipelineInv` adds to `DocumentInv`
what an agent holds, what a `Get` past its lookup may count on (`GetInv`) and
what a `List` still owes (`ListInv`). `NotFoundIsTrue` follows from `GetInv` and
`CreateDurable`.

**Cedar store** (`CedarProofs`). `unseen` and `late` record what a request has
missed, and the invariant says that the list it is about to write differs from
what is stored by no more than that: what was granted is in it unless the grant
was missed (`GrantInv`), what was removed is not in it unless the removal was
(`RevokeInv`), and of a user about whom nothing was missed it holds what is
stored (`Follows`). For such a user the index is one edit behind between the two
writes of a request, and a single request about the user is there at a time; a
request about somebody else leaves the entry as it is, on this project and on
any other.

**Controllers** (`ControllersProofs`). That `compareVersions` orders versions is
proved, not assumed: the first part in which two versions differ decides
(`Decided`; that there is a first is the library's well-foundedness of `<`), and
from the parts follow reflexivity, totality and transitivity (`CompareOrders`).
Of the first n releases of a target one is therefore best, since with one more
either it stays so or the new one is (`BestExists`).

A release passes through five stages: resolved, reported, cached, built,
written. Of one channel, what is at a stage never compares above what is at the
stages before it (`StreamOrder`, `ClusterOrder`), and a step only hands releases
on (`Flow`); the two preserve each other, and `NeverBack` is `Flow` with the
order. That the stages are fed only with releases that no published one compares
above is `BestIsLatest`.

**Keys** (`JWKSCacheProofs`). The argument is one of ages: what was fetched
agrees with the issuer but for keys that changed since the fetch began, and what
is cached but for those that changed since the fetch that filled it began. A
fetch takes less than the timeout, and the cache is read only while it is fresh.

**Decisions** (`AuthzProofs`). `CalledRight` is about documents that do not
change: the policies made of them decide what `RightAnswer` says without
policies. Its first attempt failed for a good reason: `RightAnswer` required a
cluster for a custom role's `policy.manage` even if the role has no conditions,
which `GeneratePolicyFromPermissions` (`internal/cedar/store.go:305`) does not,
and the instance had no such request. The definition was corrected, and the
instance now has it. The invariant then says of a request during which at most
one document was edited that what it has read is a mixture of documents
`Without` the global policies or the labels, if these could not be read: the
global policies of the documents before or after the edit, the attachments of
one of the two, and for each of these the role of either (`Mixed`), all of their
policies unless a read failed (`Whole`). As only one document differs, one of
the two decides like the mixture (`WholeRight`). For two edits this is false, as
the comment at `DecisionRight` says.

**Only model-checked.** What is about liveness under fairness: `CreatedRuns`,
`DeletedGone`, `PollingShows`, `EveryoneAnswered` and `Converges`; and what is
not true in general, the four runs that expect a violation. Outside what the
prover can do, and left to TLC for good: liveness and `ENABLED`; induction over
data, and so what a recursive definition computes for all inputs.
(`compareVersions`, a loop in the code, is defined by the first part that
differs, without recursion.)

## What is not modelled

Listed with reasons in `PROJECT.json`. In short: validation and logging, which
precede the first call and keep nothing; the desire codec; the Firestore client
cache, a map under one mutex; declarations and generated code; the entry points;
the OpenAPI generator; the scaffolded controllers.

Left out inside the modelled parts: collisions of the eight digits of an
attachment ID; a capacity or a counter changed by hand; documents that do not
decode, which end a request like any error; the width of the counters, which
are 64 bits and bounded by a capacity; a stream that does not exist, a release
without an image, changes of the spec of a ManagedHostedCluster, two managers at
a time, and a `List` of the cache that fails while a stream's change is mapped;
signatures
and claims of tokens, and the refusals that come of them; an agent that is
refused an object or applies an `ApplyDesire` it read before a Delete removed
it; HTTP methods that neither the mapper names nor the server serves, paths it
has no pattern for, and path segments with an escaped slash, which mapper and
server split differently; policies about anything but user, action, project and
labels;
`ListRoles`, `GetRole`, `ListAttachments` and `ListUserProjects`, which read and
change nothing.

## Plan

In this order, the most important behaviour first.

1. `Fleet`, `Placement`, `Desires`, `SlotLedger`, `ClusterAPI`, with their
   proofs; `CedarStore`. *Done.*
2. `Agent` and `Pipeline`: the agent, the handlers that read, liveness. *Done.*
3. `Controllers`: the two reconcilers with caches, conflicts, requeues, outages
   and restarts; liveness; `Cincinnati` as the choice of a release. *Done.*
4. `JWKSCache`: the lock, the two expiry times, rotation and failure of the key
   service; bounded time. *Done.*
5. `Policy` and `Authz`: routes, permissions, policies, the decision and what
   each failed read does to it; `Editors`: what clients edit. *Done.*
6. Proofs: the ledger, the documents, the composition with agents and readers,
   the Cedar store, the reconcilers, the cache of keys, the decisions. *Done.*
7. Next: an abstract specification of the API as a set of hosted clusters, which
   the handlers implement with one request at a time and no failure, from
   `Agreed`; one of an atomic decision, which the middleware implements as long
   as nothing is edited, from `CalledRight`.

## Running

    tlc -config ClusterAPI_concurrent.cfg MCClusterAPI.tla
    tlc -config CedarStore.cfg MCCedarStore.tla
    tlc -config Editors.cfg MCEditors.tla
    tlc -config Pipeline_reads.cfg MCPipeline.tla
    tlc -config JWKSCache.cfg MCJWKSCache.tla
    tlc -config Authz.cfg MCAuthz.tla
    tlc -config Controllers_converge.cfg MCControllers.tla
    tlapm LedgerProofs.tla
    tlapm DocumentProofs.tla
    tlapm PipelineProofs.tla
    tlapm CedarProofs.tla
    tlapm ControllersProofs.tla
    tlapm JWKSCacheProofs.tla
    tlapm AuthzProofs.tla
