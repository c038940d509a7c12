-------------------------- MODULE ControllersProofs --------------------------
(***************************************************************************)
(* Proofs about Controllers, for all targets, releases, streams and        *)
(* clusters, whatever the workers read late, whatever fails and however    *)
(* often the process restarts: the release a HostedCluster is given        *)
(* belongs to its channel, and it never goes back to a release of the same *)
(* channel that compares lower.  Nothing is assumed of how the releases of *)
(* a target compare: compareVersions is shown to be a total preorder of    *)
(* all versions, so that among what is published there is always a best.   *)
(*                                                                         *)
(* A release is handed on in five stages: resolved by a worker of the      *)
(* VersionStream controller, reported in the status of the stream, cached, *)
(* built into a HostedCluster by the other controller, written. IInv says  *)
(* that what is at a stage never compares above what is at the stages      *)
(* before it, as long as the channel is the same; Flow says that a step    *)
(* hands releases on from stage to stage, and takes in only releases that  *)
(* no published one compares above. Together they preserve IInv and are    *)
(* NeverBack.                                                              *)
(***************************************************************************)
EXTENDS Controllers, WellFoundedInduction, TLAPS

\* The steps of a worker that holds a HostedCluster it has built.
HasSpec == {"get_hc", "create", "update", "status"}

\* The HostedCluster that a status of a stream asks for, if any.
Offer(status) ==
  IF status.image = NoImage THEN {} ELSE {buildHostedCluster(status)}

\* The five stages of a release, from the last: what the HostedCluster of c
\* has,
Written(c) == IF hc[c] = NoHC THEN {} ELSE {hc[c].spec}
\* what the worker of c has built,
BuiltBy(c) == IF hcWork[c].step \in HasSpec THEN {hcWork[c].built} ELSE {}
\* what the cached status of the stream asks for,
Cached(s) == Offer(streamCache[s].status)
\* what its status asks for,
Reported(s) == Offer(stream[s].status)
\* and what the worker of the stream has resolved and not yet reported.
Resolved(s) ==
  IF vsWork[s].step # "status" \/ vsWork[s].result = NoImage THEN {}
  ELSE {[image |-> vsWork[s].result, channel |-> vsWork[s].copy.target]}

\* A release that was published, of the version the channel names.
Sound(spec) ==
  /\ spec \in Built
  /\ spec.image[1] = spec.channel
  /\ spec.image[2] <= latest[spec.channel]

\* Of the same channel, nothing in the first set compares above what is in the
\* second.
Before(earlier, later) ==
  \A e \in earlier, l \in later :
    e.channel = l.channel => AtLeast(l.image, e.image)

\* The cache of a stream that missed no event, and the copy of a worker that
\* was overtaken by no other write, are the stream.
WorkInv ==
  /\ \A s \in Streams : streamSynced[s] => streamCache[s] = stream[s]
  /\ \A s \in Streams : vsWork[s].fresh => vsWork[s].copy = stream[s]

\* Every stage holds sound releases.
SoundInv ==
  /\ \A c \in Clusters : \A spec \in Written(c) \cup BuiltBy(c) : Sound(spec)
  /\ \A s \in Streams :
       \A spec \in Cached(s) \cup Reported(s) \cup Resolved(s) : Sound(spec)

\* The stages of a stream are in order,
StreamOrder(s) ==
  /\ Before(Cached(s), Reported(s) \cup Resolved(s))
  /\ Before(Reported(s), Resolved(s))

\* and those of a cluster, with the ones of its stream.
ClusterOrder(c) ==
  LET s == StreamOf[c]
      Stream == Cached(s) \cup Reported(s) \cup Resolved(s)
  IN /\ Before(Written(c), BuiltBy(c) \cup Stream)
     /\ Before(BuiltBy(c), Stream)

\* The inductive invariant.
IInv ==
  /\ TypeOK /\ WorkInv /\ SoundInv
  /\ \A s \in Streams : StreamOrder(s)
  /\ \A c \in Clusters : ClusterOrder(c)

\* The published releases that no published one of the same target compares
\* above.
Newest ==
  {spec \in Built :
     /\ Sound(spec)
     /\ \A n \in 1..latest[spec.channel] :
          AtLeast(spec.image, <<spec.channel, n>>)}

\* Releases are published and never withdrawn, and each stage gets only what
\* the stage before it has, or keeps what it had.
Flow ==
  /\ \A t \in Targets : latest'[t] >= latest[t]
  /\ \A c \in Clusters :
       /\ Written(c)' \subseteq Written(c) \cup BuiltBy(c)
       /\ BuiltBy(c)' \subseteq BuiltBy(c) \cup Cached(StreamOf[c])
  /\ \A s \in Streams :
       /\ Cached(s)' \subseteq Cached(s) \cup Reported(s)
       /\ Reported(s)' \subseteq Reported(s) \cup Resolved(s)
       /\ Resolved(s)' \subseteq Resolved(s) \cup Newest

USE ControllersAssumption, VersionsAssumption

-----------------------------------------------------------------------------
(* How versions compare *)

\* A set of numbers that is not empty has a least one.
LEMMA LeastExists ==
  ASSUME NEW S \in SUBSET Nat, S # {}
  PROVE  \E x \in S : \A y \in S : x <= y
<1>1. PICK x \in S : \A y \in S : ~(<<y, x>> \in OpToRel(<, Nat))
  BY WFMin, NatLessThanWellFounded, Zenon
<1>2. \A y \in S : ~(y < x)
  BY <1>1, Zenon DEF OpToRel
<1> QED
  BY <1>2

\* compareVersions finds a version equal to itself.
LEMMA CompareSelf ==
  ASSUME NEW v
  PROVE  compareVersions(v, v) = 0
BY DEF compareVersions

\* The parts of a version are numbers.
LEMMA PartType ==
  ASSUME NEW v \in Seq(Nat), NEW i
  PROVE  Part(v, i) \in Nat
BY DEF Part

\* The parts of two versions are the same, and they compare equal, or the first
\* part that differs decides.
LEMMA Decided ==
  ASSUME NEW v \in Seq(Nat), NEW w \in Seq(Nat)
  PROVE  \/ /\ compareVersions(v, w) = 0
            /\ \A i \in Nat : Part(v, i) = Part(w, i)
         \/ \E i \in Nat :
              /\ compareVersions(v, w) = Part(v, i) - Part(w, i)
              /\ Part(v, i) # Part(w, i)
              /\ \A j \in Nat : j < i => Part(v, j) = Part(w, j)
<1> DEFINE Differ == {i \in DOMAIN v \cup DOMAIN w : Part(v, i) # Part(w, i)}
<1>1. \A i : Part(v, i) # Part(w, i) => i \in Differ
  BY DEF Part
<1>2. CASE Differ = {}
  BY <1>1, <1>2 DEF compareVersions
<1>3. CASE Differ # {}
  <2>1. Differ \in SUBSET Nat
    OBVIOUS
  <2>2. \E x \in Differ : \A y \in Differ : x <= y
    BY <1>3, <2>1, LeastExists
  <2>3. compareVersions(v, w) = Part(v, Min(Differ)) - Part(w, Min(Differ))
    BY <1>3 DEF compareVersions
  <2>4. \A i \in Differ : i \in Nat /\ Part(v, i) # Part(w, i)
    BY <2>1
  <2> HIDE DEF Differ
  <2>5. Min(Differ) \in Differ /\ \A y \in Differ : Min(Differ) <= y
    BY <2>2 DEF Min
  <2>6. \A j \in Nat : j < Min(Differ) => Part(v, j) = Part(w, j)
    BY <1>1, <2>4, <2>5
  <2> QED
    BY <2>3, <2>4, <2>5, <2>6
<1> QED
  BY <1>2, <1>3

\* Which version compares above the other is seen from the first part that
\* differs.
LEMMA Above ==
  ASSUME NEW v \in Seq(Nat), NEW w \in Seq(Nat), NEW i \in Nat,
         Part(v, i) > Part(w, i),
         \A j \in Nat : j < i => Part(v, j) = Part(w, j)
  PROVE  compareVersions(v, w) > 0
<1>1. PICK k \in Nat : /\ compareVersions(v, w) = Part(v, k) - Part(w, k)
                       /\ Part(v, k) # Part(w, k)
                       /\ \A j \in Nat : j < k => Part(v, j) = Part(w, j)
  BY Decided, PartType
<1>2. k = i
  BY <1>1, PartType
<1> QED
  BY <1>1, <1>2, PartType

\* One version is at least another: their parts are the same, or the first that
\* differs is greater in it.
LEMMA AtLeastByParts ==
  ASSUME NEW v \in Seq(Nat), NEW w \in Seq(Nat)
  PROVE  compareVersions(v, w) >= 0 <=>
           \/ \A i \in Nat : Part(v, i) = Part(w, i)
           \/ \E i \in Nat : /\ Part(v, i) > Part(w, i)
                             /\ \A j \in Nat : j < i => Part(v, j) = Part(w, j)
<1>1. ASSUME compareVersions(v, w) >= 0
      PROVE  \/ \A i \in Nat : Part(v, i) = Part(w, i)
             \/ \E i \in Nat : /\ Part(v, i) > Part(w, i)
                               /\ \A j \in Nat : j < i =>
                                    Part(v, j) = Part(w, j)
  <2>1. CASE /\ compareVersions(v, w) = 0
             /\ \A i \in Nat : Part(v, i) = Part(w, i)
    BY <2>1
  <2>2. ASSUME NEW i \in Nat, compareVersions(v, w) = Part(v, i) - Part(w, i),
               Part(v, i) # Part(w, i),
               \A j \in Nat : j < i => Part(v, j) = Part(w, j)
        PROVE  Part(v, i) > Part(w, i)
    BY <1>1, <2>2, PartType
  <2> QED
    BY <2>1, <2>2, Decided
<1>2. ASSUME \A i \in Nat : Part(v, i) = Part(w, i)
      PROVE  compareVersions(v, w) >= 0
  BY <1>2, Decided
<1>3. ASSUME NEW i \in Nat, Part(v, i) > Part(w, i),
             \A j \in Nat : j < i => Part(v, j) = Part(w, j)
      PROVE  compareVersions(v, w) >= 0
  <2>1. compareVersions(v, w) > 0
    BY <1>3, Above
  <2>2. compareVersions(v, w) \in Int
    BY Decided, PartType
  <2> QED
    BY <2>1, <2>2
<1> QED
  BY <1>1, <1>2, <1>3

\* compareVersions of the Cincinnati client orders all versions, of whatever
\* lengths and with zeros wherever a part is no number: each is at least itself,
\* of two one is at least the other, and "at least" goes on from one to the
\* next.  That lets Resolve keep one best version while it walks through a
\* graph.
THEOREM CompareOrders ==
  /\ \A v \in Seq(Nat) : compareVersions(v, v) >= 0
  /\ \A v, w \in Seq(Nat) : compareVersions(v, w) >= 0 \/
       compareVersions(w, v) >= 0
  /\ \A u, v, w \in Seq(Nat) :
       compareVersions(u, v) >= 0 /\ compareVersions(v, w) >= 0
         => compareVersions(u, w) >= 0
<1>1. \A v \in Seq(Nat) : compareVersions(v, v) >= 0
  BY CompareSelf
<1>2. ASSUME NEW v \in Seq(Nat),
             NEW w \in Seq(Nat), ~(compareVersions(v, w) >= 0)
      PROVE  compareVersions(w, v) >= 0
  <2> DEFINE c == compareVersions(v, w)
  <2>0. ~(c = 0)
    BY <1>2
  <2>1. PICK i \in Nat : /\ c = Part(v, i) - Part(w, i)
                         /\ \A j \in Nat : j < i => Part(v, j) = Part(w, j)
    BY <2>0, Decided
  <2>2. Part(w, i) > Part(v, i)
    BY <1>2, <2>1, PartType
  <2>3. \A j \in Nat : j < i => Part(w, j) = Part(v, j)
    BY <2>1
  <2> QED
    BY <2>2, <2>3, AtLeastByParts
<1>3. ASSUME NEW u \in Seq(Nat), NEW v \in Seq(Nat), NEW w \in Seq(Nat),
             compareVersions(u, v) >= 0, compareVersions(v, w) >= 0
      PROVE  compareVersions(u, w) >= 0
  <2>1. CASE \A i \in Nat : Part(u, i) = Part(v, i)
    <3>1. CASE \A i \in Nat : Part(v, i) = Part(w, i)
      BY <2>1, <3>1, AtLeastByParts
    <3>2. CASE ~\A i \in Nat : Part(v, i) = Part(w, i)
      <4>1. PICK i \in Nat : /\ Part(v, i) > Part(w, i)
                             /\ \A j \in Nat : j < i => Part(v, j) = Part(w, j)
        BY <1>3, <3>2, AtLeastByParts
      <4>2. /\ Part(u, i) > Part(w, i)
            /\ \A j \in Nat : j < i => Part(u, j) = Part(w, j)
        BY <2>1, <4>1
      <4> QED
        BY <4>2, AtLeastByParts
    <3> QED
      BY <3>1, <3>2
  <2>2. CASE ~\A i \in Nat : Part(u, i) = Part(v, i)
    <3>1. PICK i \in Nat : /\ Part(u, i) > Part(v, i)
                           /\ \A j \in Nat : j < i => Part(u, j) = Part(v, j)
      BY <1>3, <2>2, AtLeastByParts
    <3>2. CASE \A k \in Nat : Part(v, k) = Part(w, k)
      <4>1. /\ Part(u, i) > Part(w, i)
            /\ \A j \in Nat : j < i => Part(u, j) = Part(w, j)
        BY <3>1, <3>2
      <4> QED
        BY <4>1, AtLeastByParts
    <3>3. CASE ~\A k \in Nat : Part(v, k) = Part(w, k)
      <4>1. PICK k \in Nat : /\ Part(v, k) > Part(w, k)
                             /\ \A j \in Nat : j < k => Part(v, j) = Part(w, j)
        BY <1>3, <3>3, AtLeastByParts
      <4> DEFINE first == IF i <= k THEN i ELSE k
      <4>2. /\ first \in Nat /\ Part(u, first) > Part(w, first)
            /\ \A j \in Nat : j < first => Part(u, j) = Part(w, j)
        <5>1. /\ Part(u, i) \in Nat /\ Part(v, i) \in Nat /\ Part(w, i) \in Nat
              /\ Part(u, k) \in Nat /\ Part(v, k) \in Nat /\ Part(w, k) \in Nat
          BY PartType
        <5>2. CASE i < k
          BY <3>1, <4>1, <5>1, <5>2
        <5>3. CASE i = k
          BY <3>1, <4>1, <5>1, <5>3
        <5>4. CASE k < i
          BY <3>1, <4>1, <5>1, <5>4
        <5> QED
          BY <5>2, <5>3, <5>4
      <4> QED
        BY <4>2, AtLeastByParts
    <3> QED
      BY <3>2, <3>3
  <2> QED
    BY <2>1, <2>2
<1> QED
  BY <1>1, <1>2, <1>3

-----------------------------------------------------------------------------
(* How releases are handed on *)

\* A stage has one release or none.
LEMMA AtMostOne ==
  /\ \A c \in Clusters : \A e, l \in Written(c) : e = l
  /\ \A c \in Clusters : \A e, l \in BuiltBy(c) : e = l
  /\ \A s \in Streams : \A e, l \in Cached(s) : e = l
  /\ \A s \in Streams : \A e, l \in Reported(s) : e = l
  /\ \A s \in Streams : \A e, l \in Resolved(s) : e = l
BY DEF Written, BuiltBy, Cached, Reported, Resolved, Offer

\* A release is a target and a number within it.
LEMMA ReleaseNumber ==
  ASSUME NEW r \in Releases
  PROVE  r[1] \in Targets /\ r[2] \in 1..MaxPatch[r[1]] /\ r[2] \in Nat /\
           r = <<r[1], r[2]>>
BY DEF Releases

\* What flows stays sound, since no release is withdrawn.
LEMMA FlowSound ==
  ASSUME TypeOK, SoundInv, Flow, latest' \in [Targets -> Nat]
  PROVE  SoundInv'
<1>1. ASSUME NEW spec, Sound(spec) PROVE Sound(spec)'
  <2>1. spec.channel \in Targets /\ spec.image \in Releases
    BY <1>1 DEF Sound, Built
  <2> QED
    BY <1>1, <2>1, ReleaseNumber DEF Sound, Flow, TypeOK
<1>2. ASSUME NEW c \in Clusters, NEW spec \in Written(c)' \cup BuiltBy(c)'
      PROVE  Sound(spec)'
  <2>1. StreamOf[c] \in Streams
    OBVIOUS
  <2>2. Sound(spec)
    BY <1>2, <2>1 DEF Flow, SoundInv
  <2> QED
    BY <2>2, <1>1
<1>3. ASSUME NEW s \in Streams,
             NEW spec \in Cached(s)' \cup Reported(s)' \cup Resolved(s)'
      PROVE  Sound(spec)'
  <2>1. Sound(spec)
    BY <1>3 DEF Newest, Flow, SoundInv
  <2> QED
    BY <2>1, <1>1
<1> QED
  BY <1>2, <1>3 DEF SoundInv

\* No sound release compares above the newest.
LEMMA SoundIsBeforeNewest ==
  ASSUME NEW spec, Sound(spec), NEW new \in Newest, spec.channel = new.channel
  PROVE  AtLeast(new.image, spec.image)
<1>1. spec.image \in Releases /\ spec.image[1] = spec.channel
  BY DEF Sound, Built
<1>2. spec.image[2] \in Nat \ {0} /\
        spec.image = <<spec.channel, spec.image[2]>>
  BY <1>1, ReleaseNumber
<1>3. spec.image[2] \in 1..latest[spec.channel]
  BY <1>2 DEF Sound, Newest
<1> QED
  BY <1>2, <1>3 DEF Newest

\* A release does not compare above itself.
LEMMA SoundReflexive ==
  ASSUME NEW spec
  PROVE  AtLeast(spec.image, spec.image)
BY CompareSelf DEF AtLeast

\* What flows stays in order in a stream,
LEMMA FlowStream ==
  ASSUME TypeOK, SoundInv, Flow, NEW s \in Streams, StreamOrder(s)
  PROVE  StreamOrder(s)'
<1> DEFINE Older == Cached(s) \cup Reported(s) \cup Resolved(s)
<1>1. \A e \in Older, l \in Newest : e.channel = l.channel =>
        AtLeast(l.image, e.image)
  BY SoundIsBeforeNewest DEF SoundInv
<1>2. \A e \in Older : AtLeast(e.image, e.image)
  BY SoundReflexive DEF SoundInv
<1>3. \A e \in Newest : AtLeast(e.image, e.image)
  BY SoundReflexive
<1>4. /\ Cached(s)' \subseteq Cached(s) \cup Reported(s)
      /\ Reported(s)' \subseteq Reported(s) \cup Resolved(s)
      /\ Resolved(s)' \subseteq Resolved(s) \cup Newest
  BY DEF Flow
<1>5. Before(Cached(s)', Reported(s)' \cup Resolved(s)')
  BY <1>1, <1>2, <1>4, AtMostOne DEF Before, StreamOrder
<1>6. Before(Reported(s)', Resolved(s)')
  BY <1>1, <1>2, <1>4, AtMostOne DEF Before, StreamOrder
<1> QED
  BY <1>5, <1>6 DEF StreamOrder, Before

\* and on to the clusters that follow it.
LEMMA FlowCluster ==
  ASSUME TypeOK, SoundInv, Flow, NEW c \in Clusters, ClusterOrder(c),
         StreamOrder(StreamOf[c])
  PROVE  ClusterOrder(c)'
<1> DEFINE s == StreamOf[c]
           Older == Written(c) \cup BuiltBy(c) \cup Cached(s) \cup Reported(s)
                      \cup Resolved(s)
<1>0. s \in Streams
  OBVIOUS
<1>1. \A e \in Older, l \in Newest : e.channel = l.channel =>
        AtLeast(l.image, e.image)
  BY <1>0, SoundIsBeforeNewest DEF SoundInv
<1>2. \A e \in Older : AtLeast(e.image, e.image)
  BY <1>0, SoundReflexive DEF SoundInv
<1>4. /\ Written(c)' \subseteq Written(c) \cup BuiltBy(c)
      /\ BuiltBy(c)' \subseteq BuiltBy(c) \cup Cached(s)
      /\ Cached(s)' \subseteq Cached(s) \cup Reported(s)
      /\ Reported(s)' \subseteq Reported(s) \cup Resolved(s)
      /\ Resolved(s)' \subseteq Resolved(s) \cup Newest
  BY <1>0 DEF Flow
<1>5. Before(Written(c)',
        BuiltBy(c)' \cup Cached(s)' \cup Reported(s)' \cup Resolved(s)')
  BY <1>0, <1>1, <1>2, <1>4, AtMostOne DEF Before, StreamOrder, ClusterOrder
<1>6. Before(BuiltBy(c)', Cached(s)' \cup Reported(s)' \cup Resolved(s)')
  BY <1>0, <1>1, <1>2, <1>4, AtMostOne DEF Before, StreamOrder, ClusterOrder
<1> QED
  BY <1>5, <1>6 DEF ClusterOrder, Before

-----------------------------------------------------------------------------
(* Which release is resolved *)

\* A version belongs to one target: the tests of Resolve for a prefix pick
\* out at most one.
LEMMA SamePrefix ==
  ASSUME NEW t \in Targets, NEW u \in Targets, NEW v,
         IsStrictPrefix(t, v), IsStrictPrefix(u, v)
  PROVE  t = u
<1>1. /\ t = <<t[1], t[2]>> /\ u = <<u[1], u[2]>>
      /\ Len(t) = 2 /\ Len(u) = 2
  <2>1. \A x \in Nat \X Nat : x = <<x[1], x[2]>> /\ Len(x) = 2
    OBVIOUS
  <2> QED
    BY <2>1
<1>2. SubSeq(t, 1, 2) = SubSeq(v, 1, 2) /\ SubSeq(u, 1, 2) = SubSeq(v, 1, 2)
  BY <1>1 DEF IsStrictPrefix, IsPrefix
<1>3. \A x \in Nat \X Nat : SubSeq(x, 1, 2) = x
  OBVIOUS
<1> QED
  BY <1>2, <1>3

\* What Resolve looks at is of the target.
LEMMA MatchingRelease ==
  ASSUME NEW r \in Releases, NEW t \in Targets,
         VersionOf[r] \in Matching(Graph, t)
  PROVE  r[1] = t
BY SamePrefix, ReleaseNumber DEF Matching

\* Every published release of a target matches it.
LEMMA PublishedMatches ==
  ASSUME TypeOK, NEW t \in Targets, NEW n \in 1..latest[t]
  PROVE  <<t, n>> \in Published /\ VersionOf[<<t, n>>] \in Matching(Graph, t)
<1>1. <<t, n>> \in Releases /\ <<t, n>>[1] = t /\ <<t, n>>[2] = n
  BY DEF Releases, TypeOK
<1>2. <<t, n>> \in Published
  BY <1>1 DEF Published, TypeOK
<1> QED
  BY <1>1, <1>2 DEF Matching, Graph

\* What Resolve of the Cincinnati client returns is a published release of the
\* target that no other published one of the target compares above.
THEOREM BestIsLatest ==
  ASSUME TypeOK, NEW r \in Published, NEW t \in Targets,
         VersionOf[r] \in Best(Graph, t)
  PROVE  /\ r[1] = t /\ r[2] <= latest[t]
         /\ \A n \in 1..latest[t] : AtLeast(r, <<t, n>>)
<1>1. r \in Releases /\ r[2] <= latest[r[1]] /\
        VersionOf[r] \in Matching(Graph, t)
  BY DEF Best, Published
<1>2. r[1] = t
  BY <1>1, MatchingRelease
<1>3. ASSUME NEW n \in 1..latest[t] PROVE AtLeast(r, <<t, n>>)
  <2>1. VersionOf[<<t, n>>] \in Matching(Graph, t)
    BY PublishedMatches
  <2>2. CASE VersionOf[<<t, n>>] = VersionOf[r]
    BY <2>2, CompareSelf DEF AtLeast
  <2>3. CASE VersionOf[<<t, n>>] # VersionOf[r]
    BY <2>1, <2>3 DEF Best, AtLeast
  <2> QED
    BY <2>2, <2>3
<1> QED
  BY <1>1, <1>2, <1>3

\* As soon as a target has a release, Resolve has one to return, however the
\* releases compare: of the first n there is one that none of them compares
\* above, since with one more either it stays so or the new one is.
THEOREM BestExists ==
  ASSUME TypeOK, NEW t \in Targets, latest[t] > 0
  PROVE  \E r \in Published : r[1] = t /\ VersionOf[r] \in Best(Graph, t)
<1> DEFINE Top(m, n) == \A k \in 1..n : AtLeast(<<t, m>>, <<t, k>>)
           Without == {n \in 1..latest[t] : \A m \in 1..n : ~Top(m, n)}
<1>1. latest[t] \in Nat \ {0}
  BY DEF TypeOK
<1>2. \A k \in 1..latest[t] : VersionOf[<<t, k>>] \in Seq(Nat)
  BY PublishedMatches DEF Published
<1>3. \A k \in 1..latest[t] : AtLeast(<<t, k>>, <<t, k>>)
  BY CompareSelf DEF AtLeast
<1>4. ASSUME NEW k \in 1..latest[t], NEW m \in 1..latest[t]
      PROVE  AtLeast(<<t, k>>, <<t, m>>) \/ AtLeast(<<t, m>>, <<t, k>>)
  BY <1>2, CompareOrders DEF AtLeast
<1>5. ASSUME NEW k \in 1..latest[t], NEW l \in 1..latest[t],
             NEW m \in 1..latest[t],
             AtLeast(<<t, k>>, <<t, l>>), AtLeast(<<t, l>>, <<t, m>>)
      PROVE  AtLeast(<<t, k>>, <<t, m>>)
  <2>1. /\ VersionOf[<<t, k>>] \in Seq(Nat) /\ VersionOf[<<t, l>>] \in Seq(Nat)
        /\ VersionOf[<<t, m>>] \in Seq(Nat)
    BY <1>2
  <2> QED
    BY <1>5, <2>1, CompareOrders DEF AtLeast
<1>6. Without = {}
  <2> SUFFICES ASSUME Without # {} PROVE FALSE
    OBVIOUS
  <2>1. Without \in SUBSET Nat
    BY <1>1
  <2>2. PICK n \in Without : \A y \in Without : n <= y
    BY <2>1, LeastExists
  <2>3. n \in 1..latest[t] /\ n \in Nat /\ \A m \in 1..n : ~Top(m, n)
    BY <1>1, <2>2
  <2>4. CASE n = 1
    <3>1. \A k \in 1..1 : k = 1 /\ 1 \in 1..latest[t]
      BY <1>1
    <3>2. Top(1, 1)
      BY <1>3, <3>1
    <3> QED
      BY <2>3, <2>4, <3>2
  <2>5. CASE n > 1
    <3>1. n - 1 \in 1..latest[t] /\ n - 1 \notin Without
      BY <1>1, <2>2, <2>3, <2>5
    <3>2. PICK m \in 1..(n - 1) : Top(m, n - 1)
      BY <3>1
    <3>3. m \in 1..n /\ m \in 1..latest[t] /\ n \in 1..n
      BY <1>1, <2>3, <2>5
    <3>4. \A k \in 1..n : k = n \/ k \in 1..(n - 1)
      BY <2>3
    <3>5. \A k \in 1..n : k \in 1..latest[t]
      BY <1>1, <2>3
    <3>6. CASE AtLeast(<<t, m>>, <<t, n>>)
      <4>1. Top(m, n)
        BY <3>2, <3>4, <3>6
      <4> QED
        BY <2>3, <3>3, <4>1
    <3>7. CASE AtLeast(<<t, n>>, <<t, m>>)
      <4>1. ASSUME NEW k \in 1..n PROVE AtLeast(<<t, n>>, <<t, k>>)
        <5>1. CASE k = n
          BY <1>3, <2>3, <5>1
        <5>2. CASE k \in 1..(n - 1)
          BY <1>5, <2>3, <3>2, <3>3, <3>5, <3>7, <5>2
        <5> QED
          BY <3>4, <5>1, <5>2
      <4>2. Top(n, n)
        BY <4>1
      <4> QED
        BY <2>3, <3>3, <4>2
    <3> QED
      BY <1>4, <2>3, <3>3, <3>6, <3>7
  <2> QED
    BY <2>3, <2>4, <2>5
<1>7. PICK m \in 1..latest[t] : Top(m, latest[t])
  <2>1. latest[t] \in 1..latest[t]
    BY <1>1
  <2>2. latest[t] \notin Without
    BY <1>6
  <2> HIDE DEF Top
  <2> QED
    BY <2>1, <2>2
<1>8. <<t, m>> \in Published /\ VersionOf[<<t, m>>] \in Matching(Graph, t)
  BY PublishedMatches
<1>9. ASSUME NEW w \in Matching(Graph, t)
      PROVE  compareVersions(VersionOf[<<t, m>>], w) >= 0
  <2>1. PICK r \in Published : VersionOf[r] = w
    BY DEF Matching, Graph
  <2>2. r \in Releases /\ r[2] <= latest[r[1]]
    BY <2>1 DEF Published
  <2>3. r[1] = t
    BY <2>1, <2>2, MatchingRelease
  <2>4. r = <<t, r[2]>> /\ r[2] \in 1..latest[t]
    BY <1>1, <2>2, <2>3, ReleaseNumber
  <2> QED
    BY <1>7, <2>1, <2>4 DEF AtLeast
<1> QED
  BY <1>8, <1>9 DEF Best

-----------------------------------------------------------------------------
(* Steps *)

\* What a worker has, with one field changed.
LEMMA WorkFields ==
  ASSUME NEW work \in HCWork \cup {HCIdle}
  PROVE  /\ [work EXCEPT !.mhcFresh = FALSE] \in HCWork \cup {HCIdle}
         /\ [work EXCEPT !.hcFresh = FALSE] \in HCWork \cup {HCIdle}
         /\ [work EXCEPT !.mhcFresh = FALSE].step = work.step
         /\ [work EXCEPT !.mhcFresh = FALSE].built = work.built
         /\ [work EXCEPT !.hcFresh = FALSE].step = work.step
         /\ [work EXCEPT !.hcFresh = FALSE].built = work.built
<1>1. CASE work \in HCWork
  BY <1>1 DEF HCWork
<1>2. CASE work = HCIdle
  <2> DEFINE Only == [step : {"idle"}, owner : {0}, mhcFresh : {FALSE},
                      built : {NoHC}, hcFresh : {FALSE}]
  <2>1. work \in Only
    BY <1>2 DEF HCIdle
  <2>2. [work EXCEPT !.mhcFresh = FALSE] \in Only /\
          [work EXCEPT !.hcFresh = FALSE] \in Only
    BY <2>1
  <2>3. ASSUME NEW x \in Only PROVE x = HCIdle
    <3>1. x = [step |-> x.step, owner |-> x.owner, mhcFresh |-> x.mhcFresh,
               built |-> x.built, hcFresh |-> x.hcFresh]
      OBVIOUS
    <3>2. /\ x.step = "idle" /\ x.owner = 0 /\ x.mhcFresh = FALSE
          /\ x.built = NoHC /\ x.hcFresh = FALSE
      OBVIOUS
    <3> QED
      BY <3>1, <3>2, Zenon DEF HCIdle
  <2> QED
    BY <2>1, <2>2, <2>3
<1> QED
  BY <1>1, <1>2

\* What becomes of a worker of a stream that another write has overtaken.
LEMMA StreamWorkFields ==
  ASSUME NEW work \in VSWork \cup {VSIdle}
  PROVE  /\ [work EXCEPT !.fresh = FALSE] \in VSWork \cup {VSIdle}
         /\ [work EXCEPT !.fresh = FALSE].step = work.step
         /\ [work EXCEPT !.fresh = FALSE].copy = work.copy
         /\ [work EXCEPT !.fresh = FALSE].result = work.result
         /\ ~[work EXCEPT !.fresh = FALSE].fresh
<1>1. CASE work \in VSWork
  BY <1>1 DEF VSWork
<1>2. CASE work = VSIdle
  <2> DEFINE Only == [step : {"idle"}, copy : {NoImage}, fresh : {FALSE},
                      result : {NoImage}]
  <2>1. work \in Only
    BY <1>2 DEF VSIdle
  <2>2. [work EXCEPT !.fresh = FALSE] \in Only
    BY <2>1
  <2>3. ASSUME NEW x \in Only PROVE x = VSIdle
    <3>1. x = [step |-> x.step, copy |-> x.copy, fresh |-> x.fresh,
            result |-> x.result]
      OBVIOUS
    <3>2. x.step = "idle" /\ x.copy = NoImage /\ x.fresh = FALSE /\
            x.result = NoImage
      OBVIOUS
    <3> QED
      BY <3>1, <3>2, Zenon DEF VSIdle
  <2> QED
    BY <2>1, <2>2, <2>3
<1> QED
  BY <1>1, <1>2

\* A stream with another target, or with another status.
LEMMA StreamFields ==
  ASSUME NEW st \in StreamType, NEW t \in Targets, NEW status \in Statuses
  PROVE  /\ [st EXCEPT !.target = t] \in StreamType
         /\ [st EXCEPT !.target = t].status = st.status
         /\ [st EXCEPT !.status = status] \in StreamType
         /\ [st EXCEPT !.status = status].status = status
BY DEF StreamType

USE DEF worldVars, streamVars, vsVars, mhcVars, hcVars

\* Nobody resolves, reports, builds or writes anything.
LEMMA StagesStay ==
  /\ UNCHANGED stream => \A s \in Streams : Reported(s)' = Reported(s)
  /\ UNCHANGED streamCache => \A s \in Streams : Cached(s)' = Cached(s)
  /\ UNCHANGED vsWork => \A s \in Streams : Resolved(s)' = Resolved(s)
  /\ UNCHANGED hcWork => \A c \in Clusters : BuiltBy(c)' = BuiltBy(c)
  /\ UNCHANGED hc => \A c \in Clusters : Written(c)' = Written(c)
  /\ TypeOK /\ UNCHANGED latest => \A t \in Targets : latest'[t] >= latest[t]
<1>1. UNCHANGED stream => \A s \in Streams : Reported(s)' = Reported(s)
  BY DEF Reported
<1>2. UNCHANGED streamCache => \A s \in Streams : Cached(s)' = Cached(s)
  BY DEF Cached
<1>3. UNCHANGED vsWork => \A s \in Streams : Resolved(s)' = Resolved(s)
  BY DEF Resolved
<1>4. UNCHANGED hcWork => \A c \in Clusters : BuiltBy(c)' = BuiltBy(c)
  BY DEF BuiltBy
<1>5. UNCHANGED hc => \A c \in Clusters : Written(c)' = Written(c)
  BY DEF Written
<1>6. TypeOK /\ UNCHANGED latest => \A t \in Targets : latest'[t] >= latest[t]
  BY DEF TypeOK
<1> QED
  BY <1>1, <1>2, <1>3, <1>4, <1>5, <1>6

\* What each step is shown to do.
Kept == TypeOK' /\ WorkInv' /\ Flow

\* A release is published: what was resolved may now be below the newest.
LEMMA PublishReleaseStep ==
  ASSUME IInv, NEW t \in Targets, PublishRelease(t)
  PROVE  Kept
<1>1. TypeOK'
  BY DEF IInv, TypeOK, PublishRelease
<1>2. WorkInv'
  BY DEF IInv, WorkInv, PublishRelease
<1>3. \A u \in Targets : latest'[u] >= latest[u]
  BY DEF IInv, TypeOK, PublishRelease
<1> QED
  BY <1>1, <1>2, <1>3, StagesStay DEF Kept, Flow, PublishRelease

\* Cincinnati fails, or answers again.
LEMMA OutageStep ==
  ASSUME IInv, OutageChanges
  PROVE  Kept
<1>1. TypeOK'
  BY DEF IInv, TypeOK, OutageChanges
<1> QED
  BY <1>1, StagesStay DEF IInv, WorkInv, Kept, Flow, OutageChanges

\* The user asks for another version: nothing that was resolved changes, and
\* a worker that has read the stream will meet a conflict.
LEMMA ChangeTargetStep ==
  ASSUME IInv, NEW s \in Streams, NEW t \in Targets, ChangeTarget(s, t)
  PROVE  Kept
<1> USE DEF IInv, TypeOK, ChangeTarget
<1>1. /\ stream' \in [Streams -> StreamType]
      /\ \A u \in Streams : stream'[u].status = stream[u].status
      /\ \A u \in Streams \ {s} : stream'[u] = stream[u]
  <2>1. stream[s].status \in Statuses
    BY DEF StreamType
  <2>2. \A u \in Streams : stream'[u] =
          IF u = s THEN [stream[s] EXCEPT !.target = t] ELSE stream[u]
    OBVIOUS
  <2>3. /\ [stream[s] EXCEPT !.target = t] \in StreamType
        /\ [stream[s] EXCEPT !.target = t].status = stream[s].status
    BY <2>1, StreamFields
  <2> QED
    BY <2>2, <2>3
<1>2. /\ vsWork' \in [Streams -> VSWork \cup {VSIdle}]
      /\ \A u \in Streams : /\ vsWork'[u].step = vsWork[u].step
                            /\ vsWork'[u].copy = vsWork[u].copy
                            /\ vsWork'[u].result = vsWork[u].result
                            /\ vsWork'[u].fresh => u # s /\ vsWork[u].fresh
  <2>1. \A u \in Streams : vsWork'[u] =
          IF u = s THEN [vsWork[s] EXCEPT !.fresh = FALSE] ELSE vsWork[u]
    OBVIOUS
  <2> QED
    BY <2>1, StreamWorkFields
<1>3. changes' \in [Streams -> 0..MaxChanges]
  OBVIOUS
<1>4. TypeOK'
  BY <1>1, <1>2, <1>3
<1>5. WorkInv'
  BY <1>1, <1>2 DEF WorkInv
<1>6. \A u \in Streams : Reported(u)' = Reported(u)
  BY <1>1 DEF Reported
<1>7. ASSUME NEW u \in Streams PROVE Resolved(u)' = Resolved(u)
  <2>1. vsWork'[u].copy.target = vsWork[u].copy.target
    BY <1>2
  <2> QED
    <3>1. vsWork'[u].step = vsWork[u].step /\
            vsWork'[u].result = vsWork[u].result
      BY <1>2
    <3> QED
      BY <2>1, <3>1, Zenon DEF Resolved
<1> QED
  BY <1>4, <1>5, <1>6, <1>7, StagesStay DEF Kept, Flow

\* The copy of a ManagedHostedCluster that a worker has is out of date.
LEMMA ClusterChangesStep ==
  ASSUME TypeOK, NEW c \in Clusters, ClusterChanges(c)
  PROVE  /\ hcWork' \in [Clusters -> HCWork \cup {HCIdle}]
         /\ mhcSynced' \in [Clusters -> BOOLEAN]
         /\ \A d \in Clusters : BuiltBy(d)' = BuiltBy(d)
<1> USE DEF TypeOK, ClusterChanges
<1>1. \A d \in Clusters : hcWork'[d] =
        IF d = c THEN [hcWork[c] EXCEPT !.mhcFresh = FALSE] ELSE hcWork[d]
  OBVIOUS
<1>2. /\ hcWork' \in [Clusters -> HCWork \cup {HCIdle}]
      /\ \A d \in Clusters : /\ hcWork'[d].step = hcWork[d].step
                             /\ hcWork'[d].built = hcWork[d].built
  BY <1>1, WorkFields
<1>3. ASSUME NEW d \in Clusters PROVE BuiltBy(d)' = BuiltBy(d)
  <2>1. hcWork'[d].step = hcWork[d].step /\ hcWork'[d].built = hcWork[d].built
    BY <1>2
  <2> QED
    BY <2>1, Zenon DEF BuiltBy
<1> QED
  BY <1>2, <1>3

\* A HostedCluster that is written from outside, with the release it had.
LEMMA HostedClusterChangesStep ==
  ASSUME IInv, NEW c \in Clusters, NEW new \in HostedClusters \cup {NoHC},
         HostedClusterChanges(c, new), new # NoHC =>
           new.spec = hc[c].spec /\ hc[c] # NoHC
  PROVE  Kept
<1> USE DEF IInv, TypeOK, HostedClusterChanges
<1>1. \A d \in Clusters : hcWork'[d] =
        IF d = c THEN [hcWork[c] EXCEPT !.hcFresh = FALSE] ELSE hcWork[d]
  OBVIOUS
<1>2. /\ hcWork' \in [Clusters -> HCWork \cup {HCIdle}]
      /\ \A d \in Clusters : /\ hcWork'[d].step = hcWork[d].step
                             /\ hcWork'[d].built = hcWork[d].built
  BY <1>1, WorkFields
<1>3. ASSUME NEW d \in Clusters PROVE BuiltBy(d)' = BuiltBy(d)
  <2>1. hcWork'[d].step = hcWork[d].step /\ hcWork'[d].built = hcWork[d].built
    BY <1>2
  <2> QED
    BY <2>1, Zenon DEF BuiltBy
<1>4. hc' \in [Clusters -> HostedClusters \cup {NoHC}]
  OBVIOUS
<1>5. \A d \in Clusters : Written(d)' \subseteq Written(d)
  BY DEF Written
<1>6. TypeOK'
  BY <1>2, <1>4
<1>7. WorkInv'
  BY DEF WorkInv
<1> QED
  BY <1>3, <1>5, <1>6, <1>7, StagesStay DEF Kept, Flow

\* The users, the agent, HyperShift and the garbage collector hand no release
\* on: a HostedCluster they write keeps the one it has.
LEMMA OutsideStep ==
  ASSUME IInv, NEW c \in Clusters,
         CreateCluster(c) \/ DeleteCluster(c) \/ Collect(c) \/ TakeDown(c)
           \/ HyperShiftUpdate(c)
  PROVE  Kept
<1>1. CASE CreateCluster(c)
  <2> USE DEF IInv, TypeOK, CreateCluster
  <2>1. /\ hcWork' \in [Clusters -> HCWork \cup {HCIdle}]
        /\ mhcSynced' \in [Clusters -> BOOLEAN]
        /\ \A d \in Clusters : BuiltBy(d)' = BuiltBy(d)
    BY <1>1, ClusterChangesStep
  <2>2. lives' \in [Clusters -> 0..MaxLives] /\
          mhc' \in [Clusters -> 0..MaxLives]
    BY <1>1
  <2>3. TypeOK'
    BY <1>1, <2>1, <2>2
  <2>4. WorkInv'
    BY <1>1 DEF WorkInv
  <2> QED
    BY <1>1, <2>1, <2>3, <2>4, StagesStay DEF Kept, Flow
<1>2. CASE DeleteCluster(c)
  <2> USE DEF IInv, TypeOK, DeleteCluster
  <2>1. /\ hcWork' \in [Clusters -> HCWork \cup {HCIdle}]
        /\ mhcSynced' \in [Clusters -> BOOLEAN]
        /\ \A d \in Clusters : BuiltBy(d)' = BuiltBy(d)
    BY <1>2, ClusterChangesStep
  <2>2. reported' \in [Clusters -> BOOLEAN] /\
          mhc' \in [Clusters -> 0..MaxLives]
    BY <1>2
  <2>3. TypeOK'
    BY <1>2, <2>1, <2>2
  <2>4. WorkInv'
    BY <1>2 DEF WorkInv
  <2> QED
    BY <1>2, <2>1, <2>3, <2>4, StagesStay DEF Kept, Flow
<1>3. ASSUME HostedClusterChanges(c, NoHC) PROVE Kept
  BY <1>3, HostedClusterChangesStep
<1>4. ASSUME hc[c] # NoHC, NEW phase \in {"finalizer", "deleting"},
             HostedClusterChanges(c, [hc[c] EXCEPT !.phase = phase])
      PROVE  Kept
  <2>1. hc[c] \in HostedClusters
    BY <1>4 DEF IInv, TypeOK
  <2>2. /\ [hc[c] EXCEPT !.phase = phase] \in HostedClusters
        /\ [hc[c] EXCEPT !.phase = phase].spec = hc[c].spec
    BY <2>1 DEF HostedClusters
  <2> QED
    BY <1>4, <2>2, HostedClusterChangesStep
<1>5. CASE Collect(c) \/ TakeDown(c)
  BY <1>3, <1>4, <1>5 DEF Collect, TakeDown
<1>6. CASE HyperShiftUpdate(c)
  <2>1. CASE HostedClusterChanges(c, hc[c])
    BY <1>6, <2>1, HostedClusterChangesStep DEF HyperShiftUpdate, IInv, TypeOK
  <2> QED
    BY <1>4, <1>6, <2>1 DEF HyperShiftUpdate
<1> QED
  BY <1>1, <1>2, <1>5, <1>6

\* The cache of a stream is brought up to date.
LEMMA SyncStreamStep ==
  ASSUME IInv, NEW s \in Streams, SyncStream(s)
  PROVE  Kept
<1> USE DEF IInv, TypeOK, SyncStream
<1>1. TypeOK'
  BY DEF mapVersionStreamToManagedHostedClusters
<1>2. WorkInv'
  BY DEF WorkInv
<1>3. \A u \in Streams : Cached(u)' \subseteq Cached(u) \cup Reported(u)
  BY DEF Cached, Reported
<1> QED
  BY <1>1, <1>2, <1>3, StagesStay DEF Kept, Flow

\* The cache of a ManagedHostedCluster is brought up to date.
LEMMA SyncClusterStep ==
  ASSUME IInv, NEW c \in Clusters, SyncCluster(c)
  PROVE  Kept
<1> USE DEF IInv, TypeOK, SyncCluster
<1>1. TypeOK'
  OBVIOUS
<1> QED
  BY <1>1, StagesStay DEF Kept, Flow, WorkInv

\* A worker of the VersionStream controller that takes up a stream.
LEMMA VSGetStep ==
  ASSUME IInv, NEW s \in Streams, VSGet(s)
  PROVE  Kept
<1> USE DEF IInv, TypeOK, VSGet
<1> DEFINE new == [step |-> "resolve", copy |-> streamCache[s],
                   fresh |-> streamSynced[s], result |-> NoImage]
<1>1. new \in VSWork /\ new.step = "resolve" /\ new.copy = streamCache[s]
        /\ new.fresh = streamSynced[s]
  BY DEF VSWork
<1>2. \A u \in Streams : vsWork'[u] = IF u = s THEN new ELSE vsWork[u]
  OBVIOUS
<1> HIDE DEF new
<1>3. TypeOK'
  BY <1>1, <1>2
<1>4. WorkInv'
  BY <1>1, <1>2 DEF WorkInv
<1>5. ASSUME NEW u \in Streams PROVE Resolved(u)' \subseteq Resolved(u)
  <2>1. CASE u = s
    BY <1>1, <1>2, <2>1 DEF Resolved
  <2>2. CASE u # s
    <3>1. vsWork'[u] = vsWork[u]
      BY <1>2, <2>2
    <3> QED
      BY <3>1 DEF Resolved
  <2> QED
    BY <2>1, <2>2
<1> QED
  BY <1>3, <1>4, <1>5, StagesStay DEF Kept, Flow

\* The result of a resolution.
LEMMA VSResolvedStep ==
  ASSUME IInv, NEW s \in Streams, vsWork[s].step = "resolve",
         NEW result \in Releases \cup {NoImage}, VSResolved(s, result),
         result # NoImage =>
           [image |-> result, channel |-> vsWork[s].copy.target] \in Newest
  PROVE  Kept
<1> USE DEF IInv, TypeOK, VSResolved
<1>1. vsWork[s] \in VSWork
  BY DEF VSIdle
<1> DEFINE new == [vsWork[s] EXCEPT !.step = "status", !.result = result]
<1>2. new \in VSWork /\ new.step = "status" /\ new.copy = vsWork[s].copy
        /\ new.fresh = vsWork[s].fresh /\ new.result = result
  BY <1>1 DEF VSWork
<1>3. \A u \in Streams : vsWork'[u] = IF u = s THEN new ELSE vsWork[u]
  OBVIOUS
<1> HIDE DEF new
<1>4. TypeOK'
  BY <1>2, <1>3
<1>5. WorkInv'
  BY <1>2, <1>3 DEF WorkInv
<1>6. ASSUME NEW u \in Streams
             PROVE Resolved(u)' \subseteq Resolved(u) \cup Newest
  <2>1. CASE u = s
    <3>1. vsWork'[u].result = result /\ vsWork'[u].copy = vsWork[s].copy
      BY <1>2, <1>3, <2>1
    <3>2. vsWork'[u].copy.target = vsWork[s].copy.target
      BY <3>1
    <3> QED
      BY <3>1, <3>2, Zenon DEF Resolved
  <2>2. CASE u # s
    <3>1. vsWork'[u] = vsWork[u]
      BY <1>3, <2>2
    <3> QED
      BY <3>1 DEF Resolved
  <2> QED
    BY <2>1, <2>2
<1> QED
  BY <1>4, <1>5, <1>6, StagesStay DEF Kept, Flow

\* The worker takes in a release of the target it has read that none compares
\* above, or fails.
LEMMA ResolveStep ==
  ASSUME IInv, NEW s \in Streams, ResolveVersion(s) \/ ResolutionFailed(s)
  PROVE  Kept
<1>1. CASE ResolutionFailed(s)
  BY <1>1, VSResolvedStep DEF ResolutionFailed
<1>2. CASE ResolveVersion(s)
  <2>1. PICK r \in Published :
          /\ VersionOf[r] \in Best(Graph, vsWork[s].copy.target)
          /\ VSResolved(s, r) /\ vsWork[s].step = "resolve"
    BY <1>2 DEF ResolveVersion
  <2>2. vsWork[s].copy.target \in Targets
    <3>1. vsWork[s] \in VSWork
      BY <2>1 DEF IInv, TypeOK, VSIdle
    <3> QED
      BY <3>1 DEF VSWork, StreamType
  <2> DEFINE t == vsWork[s].copy.target
             spec == [image |-> r, channel |-> t]
  <2>3. r[1] = t /\ r[2] <= latest[t] /\ \A n \in 1..latest[t] :
          AtLeast(r, <<t, n>>)
    BY <2>1, <2>2, BestIsLatest DEF IInv
  <2>4. spec \in Newest /\ r \in Releases
    BY <2>2, <2>3 DEF Newest, Sound, Built, Published
  <2> QED
    BY <2>1, <2>4, VSResolvedStep
<1> QED
  BY <1>1, <1>2

\* The worker gives up the stream.
LEMMA VSRequeueStep ==
  ASSUME IInv, NEW s \in Streams, VSRequeue(s)
  PROVE  /\ vsQueue' \subseteq Streams
         /\ vsWork' \in [Streams -> VSWork \cup {VSIdle}]
         /\ \A u \in Streams : vsWork'[u].fresh =>
              u # s /\ vsWork'[u] = vsWork[u]
         /\ \A u \in Streams : Resolved(u)' \subseteq Resolved(u)
<1> USE DEF IInv, TypeOK, VSRequeue
<1>1. \A u \in Streams : vsWork'[u] = IF u = s THEN VSIdle ELSE vsWork[u]
  OBVIOUS
<1>2. VSIdle.step = "idle" /\ ~VSIdle.fresh
  BY DEF VSIdle
<1>3. ASSUME NEW u \in Streams PROVE Resolved(u)' \subseteq Resolved(u)
  <2>1. CASE u = s
    BY <1>1, <1>2, <2>1 DEF Resolved
  <2>2. CASE u # s
    <3>1. vsWork'[u] = vsWork[u]
      BY <1>1, <2>2
    <3> QED
      BY <3>1 DEF Resolved
  <2> QED
    BY <2>1, <2>2
<1> QED
  BY <1>1, <1>2, <1>3

\* The status that is written offers what was resolved, or what it did before.
LEMMA NewStatusOffer ==
  ASSUME IInv, NEW s \in Streams, vsWork[s].step = "status", vsWork[s].fresh
  PROVE  /\ NewStatus(vsWork[s]) \in Statuses
         /\ Offer(NewStatus(vsWork[s])) \subseteq Reported(s) \cup Resolved(s)
<1>1. vsWork[s] \in VSWork /\ vsWork[s].copy = stream[s] /\
        stream[s].status \in Statuses
  BY DEF IInv, TypeOK, WorkInv, VSIdle, StreamType
<1>2. /\ vsWork[s].result \in Releases \cup {NoImage}
      /\ vsWork[s].copy.target \in Targets
  BY <1>1 DEF VSWork, StreamType
<1> DEFINE old == stream[s].status
<1>3. /\ [old EXCEPT !.resolved = FALSE] \in Statuses
      /\ [old EXCEPT !.resolved = FALSE].image = old.image
      /\ [old EXCEPT !.resolved = FALSE].channel = old.channel
  BY <1>1 DEF Statuses
<1>4. CASE vsWork[s].result = NoImage
  <2>1. NewStatus(vsWork[s]) = [old EXCEPT !.resolved = FALSE]
    BY <1>1, <1>4 DEF NewStatus
  <2> HIDE DEF old
  <2>2. Reported(s) = Offer(old)
    BY DEF Reported, old
  <2> QED
    BY <1>3, <2>1, <2>2 DEF Offer, buildHostedCluster
<1>5. CASE vsWork[s].result # NoImage
  BY <1>2, <1>5 DEF NewStatus, Offer, buildHostedCluster, Resolved, Statuses
<1> QED
  BY <1>4, <1>5

\* Status().Update reports what was resolved, if the stream is still the one
\* that was read.
LEMMA VSStatusUpdateStep ==
  ASSUME IInv, NEW s \in Streams, VSStatusUpdate(s)
  PROVE  Kept
<1> USE DEF IInv, TypeOK, VSStatusUpdate
<1> DEFINE new == [stream[s] EXCEPT !.status = NewStatus(vsWork[s])]
<1>1. new \in StreamType /\ new.status = NewStatus(vsWork[s])
  <2>1. NewStatus(vsWork[s]) \in Statuses
    BY NewStatusOffer
  <2>2. stream[s] \in StreamType /\ stream[s].target \in Targets
    BY DEF StreamType
  <2> QED
    BY <2>1, <2>2, StreamFields
<1>2. \A u \in Streams : stream'[u] = IF u = s THEN new ELSE stream[u]
  OBVIOUS
<1>3. /\ UNCHANGED <<worldVars, changes, streamCache, mhcVars, hc, hcVars,
           restarts>>
      /\ stream' \in [Streams -> StreamType]
  BY <1>1 DEF VSRequeue
<1> HIDE DEF new
<1>4. streamSynced' \in [Streams -> BOOLEAN]
  OBVIOUS
<1>5. TypeOK'
  BY <1>3, <1>4, VSRequeueStep
<1>6. WorkInv'
  <2>1. \A u \in Streams : vsWork'[u].fresh => vsWork'[u].copy = stream'[u]
    BY <1>2, VSRequeueStep DEF WorkInv
  <2>2. \A u \in Streams : streamSynced'[u] => streamCache'[u] = stream'[u]
    BY <1>2, <1>3 DEF WorkInv
  <2> QED
    BY <2>1, <2>2 DEF WorkInv
<1>7. ASSUME NEW u \in Streams
             PROVE Reported(u)' \subseteq Reported(u) \cup Resolved(u)
  <2>1. CASE u = s
    <3>1. stream'[s].status = NewStatus(vsWork[s])
      BY <1>1, <1>2
    <3>2. Reported(s)' = Offer(NewStatus(vsWork[s]))
      BY <3>1, Zenon DEF Reported
    <3> QED
      BY <2>1, <3>2, NewStatusOffer
  <2>2. CASE u # s
    <3>1. stream'[u] = stream[u]
      BY <1>2, <2>2
    <3> QED
      BY <3>1 DEF Reported
  <2> QED
    BY <2>1, <2>2
<1> QED
  BY <1>3, <1>5, <1>6, <1>7, VSRequeueStep, StagesStay DEF Kept, Flow

\* A conflict or an error: the worker lets go of what it has resolved.
LEMMA VSGiveUpStep ==
  ASSUME IInv, NEW s \in Streams, VSConflict(s) \/ VSError(s)
  PROVE  Kept
<1> USE DEF IInv, TypeOK
<1>1. /\ UNCHANGED <<worldVars, changes, streamCache, mhcVars, hc, hcVars,
           restarts>>
      /\ UNCHANGED <<stream, streamSynced>>
      /\ VSRequeue(s)
  BY DEF VSConflict, VSError, VSRequeue
<1>2. TypeOK'
  BY <1>1, VSRequeueStep
<1>3. WorkInv'
  BY <1>1, VSRequeueStep DEF WorkInv
<1> QED
  BY <1>1, <1>2, <1>3, VSRequeueStep, StagesStay DEF Kept, Flow

\* What a step of a cluster's worker leaves alone.
Apart(c) ==
  /\ UNCHANGED <<worldVars, streamVars, vsVars, mhc, lives, mhcCache, restarts>>
  /\ reported' \in [Clusters -> BOOLEAN]
  /\ mhcSynced' \in [Clusters -> BOOLEAN]
  /\ hcQueue' \subseteq Clusters

\* A step of a cluster's worker that goes on with new work.
LEMMA WorkerStep ==
  ASSUME IInv, NEW c \in Clusters, Apart(c),
         NEW new \in HCWork \cup {HCIdle}, hcWork' = [hcWork EXCEPT ![c] = new],
         new.step \in HasSpec =>
           new.built \in BuiltBy(c) \cup Cached(StreamOf[c]),
         hc' \in [Clusters -> HostedClusters \cup {NoHC}],
         \A d \in Clusters : Written(d)' \subseteq Written(d) \cup BuiltBy(d)
  PROVE  Kept
<1> USE DEF IInv, TypeOK, Apart
<1>1. \A d \in Clusters : hcWork'[d] = IF d = c THEN new ELSE hcWork[d]
  OBVIOUS
<1>2. TypeOK'
  BY <1>1
<1>3. WorkInv'
  BY DEF WorkInv
<1>4. ASSUME NEW d \in Clusters
      PROVE  BuiltBy(d)' \subseteq BuiltBy(d) \cup Cached(StreamOf[d])
  <2>1. CASE d = c
    <3>1. hcWork'[d] = new
      BY <1>1, <2>1
    <3>2. BuiltBy(d)' = IF new.step \in HasSpec THEN {new.built} ELSE {}
      BY <3>1 DEF BuiltBy
    <3> QED
      BY <2>1, <3>2
  <2>2. CASE d # c
    <3>1. hcWork'[d] = hcWork[d]
      BY <1>1, <2>2
    <3> QED
      BY <3>1 DEF BuiltBy
  <2> QED
    BY <2>1, <2>2
<1> QED
  BY <1>2, <1>3, <1>4, StagesStay DEF Kept, Flow

\* An idle worker has built nothing.
LEMMA HCIdleFields == HCIdle.step = "idle"
BY DEF HCIdle

\* A worker that has something to write has built it.
LEMMA AtWork ==
  ASSUME IInv, NEW c \in Clusters
  PROVE  /\ hcWork[c].step # "idle" => hcWork[c] \in HCWork
         /\ hcWork[c].step \in HasSpec =>
              hcWork[c].built \in BuiltBy(c) /\ hcWork[c].built \in Built
BY HCIdleFields DEF IInv, TypeOK, SoundInv, Sound, BuiltBy

\* A conflict or an error: the worker lets go of what it has built.
LEMMA HCRetryStep ==
  ASSUME IInv, NEW c \in Clusters, HCRetry(c)
  PROVE  Kept
<1>1. \A d \in Clusters : Written(d)' \subseteq Written(d)
  BY StagesStay DEF HCRetry
<1>2. Apart(c)
  BY DEF HCRetry, Apart, IInv, TypeOK
<1> QED
  BY <1>1, <1>2, HCIdleFields, WorkerStep DEF HCRetry, IInv, TypeOK, HasSpec

\* The worker has read the ManagedHostedCluster from the cache.
LEMMA HCGetClusterStep ==
  ASSUME IInv, NEW c \in Clusters, HCGetCluster(c)
  PROVE  Kept
<1>1. \A d \in Clusters : Written(d)' \subseteq Written(d)
  BY StagesStay DEF HCGetCluster
<1>2. Apart(c)
  BY DEF HCGetCluster, Apart, IInv, TypeOK
<1>3. hc' \in [Clusters -> HostedClusters \cup {NoHC}] /\ hcWork[c] = HCIdle
  BY DEF HCGetCluster, IInv, TypeOK
<1>4. CASE mhcCache[c] = 0 /\ UNCHANGED hcWork
  <2>1. hcWork' = [hcWork EXCEPT ![c] = HCIdle]
    BY <1>3, <1>4 DEF IInv, TypeOK
  <2> QED
    BY <1>1, <1>2, <1>3, <2>1, HCIdleFields, WorkerStep DEF HasSpec
<1>5. CASE mhcCache[c] # 0
  <2> DEFINE new == [HCIdle EXCEPT !.step = "get_stream", !.owner = mhcCache[c],
                                   !.mhcFresh = mhcSynced[c]]
  <2>1. hcWork' = [hcWork EXCEPT ![c] = new]
    BY <1>5 DEF HCGetCluster
  <2>2. new \in HCWork /\ new.step = "get_stream"
    <3> DEFINE Only == [step : {"idle"}, owner : {0}, mhcFresh : {FALSE},
                        built : {NoHC}, hcFresh : {FALSE}]
    <3>1. HCIdle \in Only
      BY DEF HCIdle
    <3>2. mhcCache[c] \in 1..MaxLives /\ mhcSynced[c] \in BOOLEAN
      BY <1>5 DEF IInv, TypeOK
    <3> QED
      BY <3>1, <3>2 DEF HCWork
  <2> HIDE DEF new
  <2> QED
    BY <1>1, <1>2, <1>3, <2>1, <2>2, WorkerStep DEF HasSpec
<1> QED
  BY <1>4, <1>5 DEF HCGetCluster

\* The worker builds the HostedCluster from the cached status of the stream.
LEMMA HCGetStreamStep ==
  ASSUME IInv, NEW c \in Clusters, HCGetStream(c)
  PROVE  Kept
<1> DEFINE s == StreamOf[c]
           st == streamCache[s].status
           new == [hcWork[c] EXCEPT !.step = "get_hc",
             !.built = buildHostedCluster(st)]
<1>1. \A d \in Clusters : Written(d)' \subseteq Written(d)
  BY StagesStay DEF HCGetStream, HCBuilt
<1>2. Apart(c)
  BY DEF HCGetStream, HCBuilt, Apart, IInv, TypeOK
<1>3. hc' \in [Clusters -> HostedClusters \cup {NoHC}] /\ s \in Streams
  BY DEF HCGetStream, HCBuilt, IInv, TypeOK
<1>4. buildHostedCluster(st) \in Cached(s)
  BY DEF HCGetStream, Cached, Offer
<1>5. buildHostedCluster(st) \in Built
  BY <1>3, <1>4 DEF IInv, SoundInv, Sound
<1>6. hcWork[c] \in HCWork
  BY AtWork DEF HCGetStream
<1>7. new \in HCWork /\ new.built = buildHostedCluster(st)
  BY <1>5, <1>6 DEF HCWork
<1>8. hcWork' = [hcWork EXCEPT ![c] = new]
  BY DEF HCGetStream, HCBuilt
<1> HIDE DEF new
<1> QED
  BY <1>1, <1>2, <1>3, <1>4, <1>7, <1>8, WorkerStep

\* The worker has read the HostedCluster: it will be created, or replaced.
LEMMA HCGetStep ==
  ASSUME IInv, NEW c \in Clusters, HCGet(c)
  PROVE  Kept
<1> DEFINE new == [hcWork[c] EXCEPT !.step = IF hc[c] = NoHC THEN "create"
             ELSE "update",
                                    !.hcFresh = hc[c] # NoHC]
<1>1. \A d \in Clusters : Written(d)' \subseteq Written(d)
  BY StagesStay DEF HCGet
<1>2. Apart(c)
  BY DEF HCGet, Apart, IInv, TypeOK
<1>3. hc' \in [Clusters -> HostedClusters \cup {NoHC}]
  BY DEF HCGet, IInv, TypeOK
<1>4. hcWork[c] \in HCWork /\ hcWork[c].built \in BuiltBy(c)
  BY AtWork DEF HCGet, HasSpec
<1>5. new \in HCWork /\ new.built = hcWork[c].built
  BY <1>4 DEF HCWork
<1>6. hcWork' = [hcWork EXCEPT ![c] = new]
  BY DEF HCGet
<1> HIDE DEF new
<1> QED
  BY <1>1, <1>2, <1>3, <1>4, <1>5, <1>6, WorkerStep

\* The HostedCluster gets the release that was built for it, or is removed.
LEMMA HCWrittenStep ==
  ASSUME IInv, NEW c \in Clusters, hcWork[c].step \in {"create", "update"},
         NEW new, HCWritten(c, new), new \in {NoHC, NewHostedCluster(hcWork[c])}
  PROVE  Kept
<1> DEFINE work == [hcWork[c] EXCEPT !.step = "status", !.hcFresh = FALSE]
<1>1. hcWork[c] \in HCWork /\ hcWork[c].built \in BuiltBy(c) /\
        hcWork[c].built \in Built
  BY AtWork DEF HasSpec
<1>2. work \in HCWork /\ work.built = hcWork[c].built
  BY <1>1 DEF HCWork
<1>3. hcWork' = [hcWork EXCEPT ![c] = work]
  BY DEF HCWritten
<1> HIDE DEF work
<1>4. Apart(c)
  BY DEF HCWritten, Apart, IInv, TypeOK
<1>5. /\ NewHostedCluster(hcWork[c]) \in HostedClusters
      /\ NewHostedCluster(hcWork[c]).spec = hcWork[c].built
  BY <1>1 DEF NewHostedCluster, HostedClusters, HCWork
<1>6. hc' \in [Clusters -> HostedClusters \cup {NoHC}]
  BY <1>5 DEF HCWritten, IInv, TypeOK
<1>7. ASSUME NEW d \in Clusters
             PROVE Written(d)' \subseteq Written(d) \cup BuiltBy(d)
  BY <1>1, <1>5 DEF HCWritten, IInv, TypeOK, Written
<1> QED
  BY <1>1, <1>2, <1>3, <1>4, <1>6, <1>7, WorkerStep

\* The worker writes its condition, and is done or starts again.
LEMMA ReportStep ==
  ASSUME IInv, NEW c \in Clusters, setCondition(c)
  PROVE  Kept
<1>1. \A d \in Clusters : Written(d)' \subseteq Written(d)
  BY StagesStay DEF setCondition
<1>2. Apart(c)
  BY DEF setCondition, Apart, IInv, TypeOK
<1> QED
  BY <1>1, <1>2, HCIdleFields, WorkerStep
     DEF setCondition, IInv, TypeOK, HasSpec

\* The process restarts: the caches are read anew, which shows them the
\* streams as they are, and all work is lost.
LEMMA RestartStep ==
  ASSUME IInv, Restart
  PROVE  Kept
<1> USE DEF IInv, TypeOK, Restart
<1>1. VSIdle.step = "idle" /\ ~VSIdle.fresh /\ HCIdle.step = "idle"
  BY DEF VSIdle, HCIdle
<1>2. \A s \in Streams : vsWork'[s] = VSIdle /\ ~vsWork'[s].fresh
  BY <1>1
<1>3. \A c \in Clusters : hcWork'[c] = HCIdle
  OBVIOUS
<1>4. TypeOK'
  OBVIOUS
<1>5. WorkInv'
  BY <1>2 DEF WorkInv
<1>6. \A s \in Streams : Resolved(s)' = {}
  BY <1>1, <1>2 DEF Resolved
<1>7. \A c \in Clusters : BuiltBy(c)' = {}
  BY <1>1, <1>3 DEF BuiltBy, HasSpec
<1>8. \A s \in Streams : Cached(s)' = Reported(s)
  BY DEF Cached, Reported
<1> QED
  BY <1>4, <1>5, <1>6, <1>7, <1>8, StagesStay DEF Kept, Flow

\* Each step of the controllers and of what they meet is one of those above.
LEMMA StepKept == IInv /\ [Next]_vars => Kept
<1> SUFFICES ASSUME IInv, [Next]_vars PROVE Kept
  OBVIOUS
<1>1. CASE OutageChanges
  BY <1>1, OutageStep
<1>2. ASSUME NEW t \in Targets, PublishRelease(t) PROVE Kept
  BY <1>2, PublishReleaseStep
<1>3. ASSUME NEW s \in Streams, StreamStep(s) PROVE Kept
  BY <1>3, ChangeTargetStep, SyncStreamStep, VSGetStep, ResolveStep,
     VSStatusUpdateStep, VSGiveUpStep
     DEF StreamStep, VSWorker
<1>4. ASSUME NEW c \in Clusters, ClusterStep(c) PROVE Kept
  <2>1. CASE HCCreate(c)
    BY <2>1, HCWrittenStep DEF HCCreate
  <2>2. CASE HCUpdate(c)
    BY <2>2, HCWrittenStep DEF HCUpdate
  <2>3. CASE HCWaitForImage(c) \/ HCConflict(c) \/ HCError(c)
    BY <2>3, HCRetryStep DEF HCWaitForImage, HCConflict, HCError
  <2> QED
    BY <1>4, <2>1, <2>2, <2>3, OutsideStep, SyncClusterStep, HCGetClusterStep,
       HCGetStreamStep, HCGetStep, ReportStep
       DEF ClusterStep, HCWorker
<1>5. CASE Restart
  BY <1>5, RestartStep
<1>6. CASE UNCHANGED vars
  <2>1. TypeOK' /\ WorkInv'
    BY <1>6 DEF vars, IInv, TypeOK, WorkInv
  <2> QED
    BY <1>6, <2>1, StagesStay DEF vars, IInv, Kept, Flow
<1> QED
  BY <1>1, <1>2, <1>3, <1>4, <1>5, <1>6 DEF Next

\* Nothing is resolved, reported, built or written at first.
LEMMA InitInv == Init => IInv
<1> SUFFICES ASSUME Init PROVE IInv
  OBVIOUS
<1>1. VSIdle.step = "idle" /\ ~VSIdle.fresh /\ HCIdle.step = "idle"
  BY DEF VSIdle, HCIdle
<1>2. NoStatus \in Statuses /\ NoStatus.image = NoImage
  BY DEF NoStatus, Statuses
<1>3. stream \in [Streams -> StreamType]
      /\ \A s \in Streams : stream[s].status.image = NoImage
  BY <1>2 DEF Init, StreamType
<1>4. TypeOK
  <2>1. AtFirst \in [Targets -> Nat] /\ \A t \in Targets :
          AtFirst[t] <= MaxPatch[t]
    OBVIOUS
  <2>2. 0 \in 0..MaxLives /\ 0 \in 0..MaxChanges /\ 0 \in 0..MaxRestarts
    OBVIOUS
  <2>3. vsWork \in [Streams -> VSWork \cup {VSIdle}] /\
          hcWork \in [Clusters -> HCWork \cup {HCIdle}]
    BY DEF Init
  <2>4. mhc \in [Clusters -> 0..MaxLives] /\ lives \in [Clusters -> 0..MaxLives]
    BY <2>2 DEF Init
  <2> QED
    BY <1>3, <2>1, <2>2, <2>3, <2>4 DEF Init, TypeOK
<1>5. WorkInv
  BY <1>1 DEF Init, WorkInv
<1>6. /\ \A s \in Streams : Reported(s) = {} /\ Cached(s) = {} /\
           Resolved(s) = {}
      /\ \A c \in Clusters : Written(c) = {} /\ BuiltBy(c) = {}
  BY <1>1, <1>3
     DEF Init, Reported, Cached, Resolved, Written, BuiltBy, Offer, HasSpec
<1> QED
  BY <1>4, <1>5, <1>6 DEF IInv, SoundInv, StreamOrder, ClusterOrder, Before

\* So every step preserves the invariant, and only hands releases on.
LEMMA IInvStep == IInv /\ [Next]_vars => IInv' /\ Flow
<1> SUFFICES ASSUME IInv, [Next]_vars PROVE IInv' /\ Flow
  OBVIOUS
<1>1. TypeOK' /\ WorkInv' /\ Flow
  BY StepKept DEF Kept
<1>2. latest' \in [Targets -> Nat]
  BY <1>1 DEF TypeOK
<1>3. SoundInv'
  BY <1>1, <1>2, FlowSound DEF IInv
<1>4. \A s \in Streams : StreamOrder(s)'
  BY <1>1, FlowStream DEF IInv
<1>5. \A c \in Clusters : ClusterOrder(c)'
  BY <1>1, FlowCluster DEF IInv
<1> QED
  BY <1>1, <1>3, <1>4, <1>5 DEF IInv

\* The invariant holds in every reachable state.
LEMMA Inductive == Spec => []IInv
BY InitInv, IInvStep, PTL DEF Spec

\* For all targets, releases and clusters: the variables have their types.
THEOREM TypeCorrect == Spec => []TypeOK
<1>1. IInv => TypeOK
  BY DEF IInv
<1> QED
  BY <1>1, Inductive, PTL

\* For all targets, releases and clusters: the image and the channel that
\* buildHostedCluster writes belong together, since both come from one
\* successful resolution.
THEOREM ImagesInChannel == Spec => []ImageInChannel
<1>1. IInv => ImageInChannel
  BY DEF IInv, SoundInv, Written, Sound, ImageInChannel
<1> QED
  BY <1>1, Inductive, PTL

\* For all targets, releases and clusters: a HostedCluster is never written
\* with a release of its channel that compares below the one it has, although
\* what Reconcile writes was read from a cache, was reported by another worker
\* and may be long out of date.
THEOREM NeverGoesBack == Spec => NeverBack
<1> DEFINE Forward ==
      \A c \in Clusters :
        (hc[c] # NoHC /\ hc'[c] # NoHC /\
          hc'[c].spec.channel = hc[c].spec.channel)
          => AtLeast(hc'[c].spec.image, hc[c].spec.image)
<1>1. ASSUME IInv, [Next]_vars, NEW c \in Clusters, hc[c] # NoHC, hc'[c] # NoHC,
             hc'[c].spec.channel = hc[c].spec.channel
      PROVE  AtLeast(hc'[c].spec.image, hc[c].spec.image)
  <2>1. Written(c)' \subseteq Written(c) \cup BuiltBy(c)
    BY <1>1, IInvStep DEF Flow
  <2>2. hc'[c].spec \in Written(c) \cup BuiltBy(c) /\ hc[c].spec \in Written(c)
    BY <1>1, <2>1 DEF Written
  <2>3. CASE hc'[c].spec \in Written(c)
    BY <1>1, <2>2, <2>3, SoundReflexive, AtMostOne
  <2>4. CASE hc'[c].spec \in BuiltBy(c)
    BY <1>1, <2>2, <2>4 DEF IInv, ClusterOrder, Before
  <2> QED
    BY <2>2, <2>3, <2>4
<1>2. IInv /\ [Next]_vars => [Forward]_vars
  BY <1>1
<1> QED
  BY <1>2, Inductive, PTL DEF Spec, NeverBack
=============================================================================
