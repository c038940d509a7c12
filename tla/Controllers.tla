----------------------------- MODULE Controllers -----------------------------
(***************************************************************************)
(* The controllers of a management cluster (internal/controller): the      *)
(* VersionStream controller resolves the target version of a stream to a   *)
(* release, the HostedCluster controller builds a HostedCluster from each  *)
(* ManagedHostedCluster and the release of its stream.                     *)
(*                                                                         *)
(* Both read the streams and the ManagedHostedClusters from caches that    *)
(* lag behind the Kubernetes API, which enqueues what changes once the     *)
(* cache has it.  An object is never reconciled by two workers at a time,  *)
(* and a Reconcile that fails at any call is retried.  The API refuses a   *)
(* write of a copy that is not current, whether of an object or a status;  *)
(* resource versions are compared for nothing else, so that a copy carries *)
(* only whether it is still current.  Caches skip from a version to the    *)
(* current one.  HostedClusters are read from the API and not watched.      *)
(*                                                                         *)
(* Not here: a stream that does not exist, a release without an image, two *)
(* managers at a time (leader election is for that), changes of the spec of*)
(* a ManagedHostedCluster, and the parts of a HostedCluster other than its *)
(* release image and channel, which come from that spec and from constants.*)
(***************************************************************************)
EXTENDS Cincinnati

CONSTANTS Streams, Clusters,
          StreamOf,         \* versionStreamRef of each ManagedHostedCluster
          Targets,          \* target versions: major and minor
          VersionOf,        \* the version of each release
          AtFirst,          \* how many releases of each target there are at first
          MaxPatch,         \* bound on the releases of each target
          MaxChanges,       \* bound on changes of the target of a stream
          MaxLives,         \* bound on creations of a ManagedHostedCluster
          MaxRestarts,      \* bound on restarts of the manager
          NoImage, NoHC

ASSUME ControllersAssumption ==
  /\ StreamOf \in [Clusters -> Streams]
  /\ {AtFirst, MaxPatch} \subseteq [Targets -> Nat]
  /\ \A t \in Targets : AtFirst[t] <= MaxPatch[t]
  /\ {MaxChanges, MaxLives, MaxRestarts} \subseteq Nat

\* The releases of a target, in the order they appear.
Releases == UNION {{t} \X (1..MaxPatch[t]) : t \in Targets}

ASSUME VersionsAssumption ==
  /\ Targets \subseteq Nat \X Nat
  /\ VersionOf \in [Releases -> Seq(Nat)]
  /\ \A r \in Releases : IsStrictPrefix(r[1], VersionOf[r])

VARIABLES
  outage,           \* whether calls may fail that nothing stands in the way of
  latest,           \* the newest release of each target that Cincinnati has
  stream,           \* target and status of each VersionStream
  changes,          \* how often its target was changed
  streamCache,      \* ... as cached
  streamSynced,     \* whether the cache is current
  vsQueue,          \* the queue of the VersionStream controller
  vsWork,           \* what its worker has of a stream
  mhc,              \* which life each ManagedHostedCluster is in, 0 if none
  lives,            \* how many lives it has had
  reported,         \* whether its status has the condition
  mhcCache,         \* the life that is cached
  mhcSynced,        \* whether the cache is current
  hc,               \* each HostedCluster
  hcQueue,          \* the queue of the HostedCluster controller
  hcWork,           \* what its worker has of a cluster
  restarts

streamVars == <<stream, changes, streamCache, streamSynced>>
vsVars == <<vsQueue, vsWork>>
mhcVars == <<mhc, lives, reported, mhcCache, mhcSynced>>
hcVars == <<hcQueue, hcWork>>
worldVars == <<outage, latest>>
vars == <<worldVars, streamVars, vsVars, mhcVars, hc, hcVars, restarts>>

Statuses == [image : Releases \cup {NoImage}, channel : Targets \cup {NoImage},
             resolved : BOOLEAN]
NoStatus == [image |-> NoImage, channel |-> NoImage, resolved |-> FALSE]
StreamType == [target : Targets, status : Statuses]
Built == [image : Releases, channel : Targets]

\* A new HostedCluster has no finalizer; HyperShift adds one.
HostedClusters == [spec : Built, owner : 1..MaxLives,
                   phase : {"new", "finalizer", "deleting"}]

\* The call a worker makes next, what it has read, whether that is current,
\* and what it has made of it.
VSIdle == [step |-> "idle", copy |-> NoImage, fresh |-> FALSE, result |-> NoImage]
VSWork == [step : {"resolve", "status"}, copy : StreamType, fresh : BOOLEAN,
           result : Releases \cup {NoImage}]
HCIdle == [step |-> "idle", owner |-> 0, mhcFresh |-> FALSE, built |-> NoHC,
           hcFresh |-> FALSE]
HCWork == [step : {"get_stream", "get_hc", "create", "update", "status"},
           owner : 1..MaxLives, mhcFresh : BOOLEAN, built : Built \cup {NoHC},
           hcFresh : BOOLEAN]

\* Every variable has its type: a HostedCluster is only built with a release.
TypeOK ==
  /\ outage \in BOOLEAN
  /\ latest \in [Targets -> Nat] /\ \A t \in Targets : latest[t] <= MaxPatch[t]
  /\ stream \in [Streams -> StreamType]
  /\ changes \in [Streams -> 0..MaxChanges]
  /\ streamCache \in [Streams -> StreamType]
  /\ streamSynced \in [Streams -> BOOLEAN]
  /\ vsQueue \subseteq Streams
  /\ vsWork \in [Streams -> VSWork \cup {VSIdle}]
  /\ mhc \in [Clusters -> 0..MaxLives]
  /\ lives \in [Clusters -> 0..MaxLives]
  /\ reported \in [Clusters -> BOOLEAN]
  /\ mhcCache \in [Clusters -> 0..MaxLives]
  /\ mhcSynced \in [Clusters -> BOOLEAN]
  /\ hc \in [Clusters -> HostedClusters \cup {NoHC}]
  /\ hcQueue \subseteq Clusters
  /\ hcWork \in [Clusters -> HCWork \cup {HCIdle}]
  /\ restarts \in 0..MaxRestarts

\* The manager starts among streams that nothing has resolved, on an empty
\* management cluster.
Init ==
  /\ outage = FALSE
  /\ latest = AtFirst
  /\ stream \in [Streams -> [target : Targets, status : {NoStatus}]]
  /\ changes = [s \in Streams |-> 0]
  /\ streamCache = stream
  /\ streamSynced = [s \in Streams |-> TRUE]
  /\ vsQueue = Streams
  /\ vsWork = [s \in Streams |-> VSIdle]
  /\ mhc = [c \in Clusters |-> 0]
  /\ lives = [c \in Clusters |-> 0]
  /\ reported = [c \in Clusters |-> FALSE]
  /\ mhcCache = mhc
  /\ mhcSynced = [c \in Clusters |-> TRUE]
  /\ hc = [c \in Clusters |-> NoHC]
  /\ hcQueue = {}
  /\ hcWork = [c \in Clusters |-> HCIdle]
  /\ restarts = 0

-----------------------------------------------------------------------------
(* Outside the manager *)

PublishRelease(t) ==
  /\ latest[t] < MaxPatch[t]
  /\ latest' = [latest EXCEPT ![t] = @ + 1]
  /\ UNCHANGED <<outage, streamVars, vsVars, mhcVars, hc, hcVars, restarts>>

\* Cincinnati or the API server goes down, or comes back.
OutageChanges ==
  /\ outage' = ~outage
  /\ UNCHANGED <<latest, streamVars, vsVars, mhcVars, hc, hcVars, restarts>>

ChangeTarget(s, t) ==
  /\ changes[s] < MaxChanges /\ t # stream[s].target
  /\ changes' = [changes EXCEPT ![s] = @ + 1]
  /\ stream' = [stream EXCEPT ![s].target = t]
  /\ streamSynced' = [streamSynced EXCEPT ![s] = FALSE]
  /\ vsWork' = [vsWork EXCEPT ![s].fresh = FALSE]
  /\ UNCHANGED <<worldVars, streamCache, vsQueue, mhcVars, hc, hcVars, restarts>>

\* Every copy of a ManagedHostedCluster is out of date once it has changed.
ClusterChanges(c) ==
  /\ mhcSynced' = [mhcSynced EXCEPT ![c] = FALSE]
  /\ hcWork' = [hcWork EXCEPT ![c].mhcFresh = FALSE]

\* The agent applies and deletes ManagedHostedClusters.
CreateCluster(c) ==
  /\ mhc[c] = 0 /\ lives[c] < MaxLives
  /\ lives' = [lives EXCEPT ![c] = @ + 1]
  /\ mhc' = [mhc EXCEPT ![c] = lives'[c]]
  /\ ClusterChanges(c)
  /\ UNCHANGED <<worldVars, streamVars, vsVars, reported, mhcCache, hc, hcQueue,
                 restarts>>

DeleteCluster(c) ==
  /\ mhc[c] # 0
  /\ mhc' = [mhc EXCEPT ![c] = 0]
  /\ reported' = [reported EXCEPT ![c] = FALSE]
  /\ ClusterChanges(c)
  /\ UNCHANGED <<worldVars, streamVars, vsVars, lives, mhcCache, hc, hcQueue,
                 restarts>>

HostedClusterChanges(c, new) ==
  /\ hc' = [hc EXCEPT ![c] = new]
  /\ hcWork' = [hcWork EXCEPT ![c].hcFresh = FALSE]
  /\ UNCHANGED <<worldVars, streamVars, vsVars, mhcVars, hcQueue, restarts>>

\* The garbage collector deletes a HostedCluster whose owner is gone; one with
\* a finalizer stays until HyperShift has taken the cluster down.
Collect(c) ==
  /\ hc[c] # NoHC /\ hc[c].owner # mhc[c]
  /\ \/ hc[c].phase = "new" /\ HostedClusterChanges(c, NoHC)
     \/ hc[c].phase = "finalizer"
          /\ HostedClusterChanges(c, [hc[c] EXCEPT !.phase = "deleting"])

TakeDown(c) ==
  /\ hc[c] # NoHC /\ hc[c].phase = "deleting"
  /\ HostedClusterChanges(c, NoHC)

\* HyperShift adds its finalizer, and writes the status.
HyperShiftUpdate(c) ==
  /\ hc[c] # NoHC
  /\ \/ hc[c].phase = "new"
          /\ HostedClusterChanges(c, [hc[c] EXCEPT !.phase = "finalizer"])
     \/ hcWork[c].hcFresh /\ HostedClusterChanges(c, hc[c])

-----------------------------------------------------------------------------
(* Caches and events *)

\* The changed stream alone is reconciled.
SyncStreamFault(s) ==
  /\ ~streamSynced[s]
  /\ streamCache' = [streamCache EXCEPT ![s] = stream[s]]
  /\ streamSynced' = [streamSynced EXCEPT ![s] = TRUE]
  /\ vsQueue' = vsQueue \cup {s}
  /\ UNCHANGED <<worldVars, stream, changes, vsWork, mhcVars, hc, hcVars, restarts>>

mapVersionStreamToManagedHostedClusters(s) ==
  {c \in Clusters : mhcCache[c] # 0 /\ StreamOf[c] = s}

SyncStream(s) ==
  /\ ~streamSynced[s]
  /\ streamCache' = [streamCache EXCEPT ![s] = stream[s]]
  /\ streamSynced' = [streamSynced EXCEPT ![s] = TRUE]
  /\ vsQueue' = vsQueue \cup {s}
  /\ hcQueue' = hcQueue \cup mapVersionStreamToManagedHostedClusters(s)
  /\ UNCHANGED <<worldVars, stream, changes, vsWork, mhcVars, hc, hcWork, restarts>>

SyncCluster(c) ==
  /\ ~mhcSynced[c]
  /\ mhcCache' = [mhcCache EXCEPT ![c] = mhc[c]]
  /\ mhcSynced' = [mhcSynced EXCEPT ![c] = TRUE]
  /\ hcQueue' = hcQueue \cup {c}
  /\ UNCHANGED <<worldVars, streamVars, vsVars, mhc, lives, reported, hc, hcWork,
                 restarts>>

-----------------------------------------------------------------------------
(* VersionStreamReconciler *)

VSGet(s) ==
  /\ vsWork[s] = VSIdle /\ s \in vsQueue
  /\ vsQueue' = vsQueue \ {s}
  /\ vsWork' = [vsWork EXCEPT ![s] = [step |-> "resolve", copy |-> streamCache[s],
                                      fresh |-> streamSynced[s],
                                      result |-> NoImage]]
  /\ UNCHANGED <<worldVars, streamVars, mhcVars, hc, hcVars, restarts>>

VSResolved(s, result) ==
  /\ vsWork' = [vsWork EXCEPT ![s].step = "status", ![s].result = result]
  /\ UNCHANGED <<worldVars, streamVars, vsQueue, mhcVars, hc, hcVars, restarts>>

Published == {r \in Releases : r[2] <= latest[r[1]]}

\* The update graph of a channel, which also has releases of other versions.
Graph == {VersionOf[r] : r \in Published}

\* Any release that matches, which need not be the newest.
ResolveVersionFault(s) ==
  /\ vsWork[s].step = "resolve"
  /\ \E r \in Published :
       /\ VersionOf[r] \in Matching(Graph, vsWork[s].copy.target)
       /\ VSResolved(s, r)

ResolveVersion(s) ==
  /\ vsWork[s].step = "resolve"
  /\ LET best == Best(Graph, vsWork[s].copy.target)
     IN \E r \in Published : VersionOf[r] \in best /\ VSResolved(s, r)

\* Cincinnati does not answer, or has no release of the target.
ResolutionFailed(s) ==
  /\ vsWork[s].step = "resolve"
  /\ outage \/ Matching(Graph, vsWork[s].copy.target) = {}
  /\ VSResolved(s, NoImage)

\* The channel is assigned before the error is looked at.
NewStatusFault(work) ==
  IF work.result = NoImage
  THEN [work.copy.status EXCEPT !.resolved = FALSE, !.channel = work.copy.target]
  ELSE [image |-> work.result, channel |-> work.copy.target, resolved |-> TRUE]

\* A failure changes the condition and leaves the rest.
NewStatus(work) ==
  IF work.result = NoImage
  THEN [work.copy.status EXCEPT !.resolved = FALSE]
  ELSE [image |-> work.result, channel |-> work.copy.target, resolved |-> TRUE]

\* Back to the queue, at once or after a delay.
VSRequeue(s) ==
  /\ vsQueue' = vsQueue \cup {s}
  /\ vsWork' = [vsWork EXCEPT ![s] = VSIdle]
  /\ UNCHANGED <<worldVars, changes, streamCache, mhcVars, hc, hcVars, restarts>>

\* Requeued after five minutes, or one after a failure.  A status that is the
\* same is no change of the stream, unless the condition has another message.
VSStatusUpdate(s) ==
  /\ vsWork[s].step = "status" /\ vsWork[s].fresh
  /\ stream' = [stream EXCEPT ![s].status = NewStatus(vsWork[s])]
  /\ \/ streamSynced' = [streamSynced EXCEPT ![s] = FALSE]
     \/ stream' = stream /\ UNCHANGED streamSynced
  /\ VSRequeue(s)

VSConflict(s) ==
  /\ vsWork[s].step = "status" /\ ~vsWork[s].fresh
  /\ VSRequeue(s)
  /\ UNCHANGED <<stream, streamSynced>>

VSError(s) ==
  /\ outage /\ vsWork[s].step = "status"
  /\ VSRequeue(s)
  /\ UNCHANGED <<stream, streamSynced>>

-----------------------------------------------------------------------------
(* HostedClusterReconciler *)

\* A cluster that is not there any more is dropped from the queue.
HCGetCluster(c) ==
  /\ hcWork[c] = HCIdle /\ c \in hcQueue
  /\ hcQueue' = hcQueue \ {c}
  /\ \/ mhcCache[c] = 0 /\ UNCHANGED hcWork
     \/ /\ mhcCache[c] # 0
        /\ hcWork' = [hcWork EXCEPT ![c] =
                        [HCIdle EXCEPT !.step = "get_stream",
                                       !.owner = mhcCache[c],
                                       !.mhcFresh = mhcSynced[c]]]
  /\ UNCHANGED <<worldVars, streamVars, vsVars, mhcVars, hc, restarts>>

buildHostedCluster(st) == [image |-> st.image, channel |-> st.channel]

HCBuilt(c, st) ==
  /\ hcWork' = [hcWork EXCEPT ![c].step = "get_hc",
                              ![c].built = buildHostedCluster(st)]
  /\ UNCHANGED <<worldVars, streamVars, vsVars, mhcVars, hc, hcQueue, restarts>>

\* The HostedCluster is built although the image is empty.
HCGetStreamFault(c) ==
  hcWork[c].step = "get_stream" /\ HCBuilt(c, streamCache[StreamOf[c]].status)

HCGetStream(c) ==
  LET st == streamCache[StreamOf[c]].status IN
  hcWork[c].step = "get_stream" /\ st.image # NoImage /\ HCBuilt(c, st)

HCRetry(c) ==
  /\ hcQueue' = hcQueue \cup {c}
  /\ hcWork' = [hcWork EXCEPT ![c] = HCIdle]
  /\ UNCHANGED <<worldVars, streamVars, vsVars, mhcVars, hc, restarts>>

\* The image is not yet resolved: requeued after ten seconds.
HCWaitForImage(c) ==
  /\ hcWork[c].step = "get_stream"
  /\ streamCache[StreamOf[c]].status.image = NoImage
  /\ HCRetry(c)

HCGet(c) ==
  /\ hcWork[c].step = "get_hc"
  /\ hcWork' = [hcWork EXCEPT
                  ![c].step = IF hc[c] = NoHC THEN "create" ELSE "update",
                  ![c].hcFresh = hc[c] # NoHC]
  /\ UNCHANGED <<worldVars, streamVars, vsVars, mhcVars, hc, hcQueue, restarts>>

HCWritten(c, new) ==
  /\ hc' = [hc EXCEPT ![c] = new]
  /\ hcWork' = [hcWork EXCEPT ![c].step = "status", ![c].hcFresh = FALSE]
  /\ UNCHANGED <<worldVars, streamVars, vsVars, mhcVars, hcQueue, restarts>>

NewHostedCluster(work) ==
  [spec |-> work.built, owner |-> work.owner, phase |-> "new"]

HCCreate(c) ==
  hcWork[c].step = "create" /\ HCWritten(c, NewHostedCluster(hcWork[c]))

\* What is written has no finalizer, and takes the place of what is there: the
\* API removes one that is being deleted.
HCUpdate(c) ==
  /\ hcWork[c].step = "update" /\ hcWork[c].hcFresh
  /\ \/ hc[c].phase = "deleting" /\ HCWritten(c, NoHC)
     \/ hc[c].phase # "deleting" /\ HCWritten(c, NewHostedCluster(hcWork[c]))

\* The condition carries the second it was set: another one is a change of
\* the ManagedHostedCluster even if nothing else is new.
setCondition(c) ==
  /\ hcWork[c].step = "status" /\ hcWork[c].mhcFresh
  /\ reported' = [reported EXCEPT ![c] = TRUE]
  /\ \/ mhcSynced' = [mhcSynced EXCEPT ![c] = FALSE]
     \/ reported[c] /\ UNCHANGED mhcSynced
  /\ hcWork' = [hcWork EXCEPT ![c] = HCIdle]
  /\ UNCHANGED <<worldVars, streamVars, vsVars, mhc, lives, mhcCache, hc, hcQueue,
                 restarts>>

HCConflict(c) ==
  /\ \/ hcWork[c].step = "update" /\ ~hcWork[c].hcFresh
     \/ hcWork[c].step = "status" /\ ~hcWork[c].mhcFresh
  /\ HCRetry(c)

HCError(c) ==
  /\ outage /\ hcWork[c].step \in {"get_hc", "create", "update", "status"}
  /\ HCRetry(c)

-----------------------------------------------------------------------------

\* A manager that starts lists everything: caches are current, all is queued.
Restart ==
  /\ restarts < MaxRestarts
  /\ restarts' = restarts + 1
  /\ streamCache' = stream
  /\ streamSynced' = [s \in Streams |-> TRUE]
  /\ mhcCache' = mhc
  /\ mhcSynced' = [c \in Clusters |-> TRUE]
  /\ vsQueue' = Streams
  /\ vsWork' = [s \in Streams |-> VSIdle]
  /\ hcQueue' = {c \in Clusters : mhc[c] # 0}
  /\ hcWork' = [c \in Clusters |-> HCIdle]
  /\ UNCHANGED <<worldVars, stream, changes, mhc, lives, reported, hc>>

\* What the worker of a controller does with a stream and with a cluster, as
\* long as no call fails.
VSWorker(s) ==
  VSGet(s) \/ ResolveVersion(s) \/ ResolutionFailed(s) \/ VSStatusUpdate(s) \/ VSConflict(s)

HCWorker(c) ==
  \/ HCGetCluster(c) \/ HCGetStream(c) \/ HCWaitForImage(c) \/ HCGet(c)
  \/ HCCreate(c) \/ HCUpdate(c) \/ setCondition(c) \/ HCConflict(c)

StreamStep(s) ==
  \/ \E t \in Targets : ChangeTarget(s, t)
  \/ SyncStream(s)
  \/ VSWorker(s) \/ VSError(s)

ClusterStep(c) ==
  \/ CreateCluster(c) \/ DeleteCluster(c)
  \/ Collect(c) \/ TakeDown(c) \/ HyperShiftUpdate(c)
  \/ SyncCluster(c)
  \/ HCWorker(c) \/ HCError(c)

Next ==
  \/ OutageChanges
  \/ \E t \in Targets : PublishRelease(t)
  \/ \E s \in Streams : StreamStep(s)
  \/ \E c \in Clusters : ClusterStep(c)
  \/ Restart

\* Caches catch up, workers take what is queued and end what they have begun.
\* HyperShift may write each time between the read and the update of a
\* HostedCluster, but the update that is tried again and again is faster once.
Fairness ==
  /\ \A s \in Streams : WF_vars(SyncStream(s)) /\ WF_vars(VSWorker(s))
  /\ \A c \in Clusters :
       WF_vars(SyncCluster(c)) /\ WF_vars(HCWorker(c)) /\ SF_vars(HCUpdate(c))

Spec == Init /\ [][Next]_vars /\ Fairness

-----------------------------------------------------------------------------

\* The image and the channel of a HostedCluster belong together: both come
\* from one successful resolution, through two objects and two caches and
\* whatever failed or changed in between.
ImageInChannel ==
  \A c \in Clusters : hc[c] # NoHC => hc[c].spec.image[1] = hc[c].spec.channel

\* A release is as new as another, as compareVersions has it.
AtLeast(r, other) == compareVersions(VersionOf[r], VersionOf[other]) >= 0

\* A HostedCluster never goes back to an older release of the same version,
\* although what is written into it was read from a cache earlier.
NeverBack ==
  [][\A c \in Clusters :
       (hc[c] # NoHC /\ hc'[c] # NoHC
          /\ hc'[c].spec.channel = hc[c].spec.channel)
         => AtLeast(hc'[c].spec.image, hc[c].spec.image)]_vars

Resolvable(c) == latest[stream[StreamOf[c]].target] > 0

\* No release of its stream's target is newer.
UpToDate(c) ==
  LET t == stream[StreamOf[c]].target IN
  /\ hc[c] # NoHC /\ hc[c].spec.channel = t
  /\ \A n \in 1..latest[t] : AtLeast(hc[c].spec.image, <<t, n>>)

\* Once targets, releases and ManagedHostedClusters stop changing and outages
\* are over, every one of these has, and keeps, a HostedCluster with the newest
\* release of its stream's target, and a condition that says so: whatever calls
\* failed before, whichever cache is behind, and although nothing watches the
\* HostedCluster, which may be on its way out for the deletion of an earlier
\* ManagedHostedCluster.
Converges ==
  \A c \in Clusters :
    <>[](mhc[c] # 0 /\ Resolvable(c) /\ ~outage)
      => <>[](UpToDate(c) /\ reported[c])
=============================================================================
