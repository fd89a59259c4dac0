----------------------- MODULE ModuleController_proofs -----------------------
(* Proofs of the safety properties of ModuleController.                      *)
EXTENDS ModuleController, TLAPS

USE DEF Settled, Transitional, Phase

-----------------------------------------------------------------------------
(* What the three ways to change the list of versions do to it. *)

\* A write appends the new version, which becomes the server's.
LEMMA AppendVersion ==
    ASSUME NEW s \in Seq(Version), NEW v \in Version, Len(s) >= 1
    PROVE  /\ Append(s, v) \in Seq(Version)
           /\ Len(Append(s, v)) = Len(s) + 1
           /\ Append(s, v)[Len(s) + 1] = v
           /\ \A i \in 1 .. Len(s) : Append(s, v)[i] = s[i]
  OBVIOUS

\* A watch event drops the oldest version.
LEMMA TailVersions ==
    ASSUME NEW s \in Seq(Version), Len(s) > 1
    PROVE  /\ Tail(s) \in Seq(Version)
           /\ Len(Tail(s)) = Len(s) - 1
           /\ \A i \in 1 .. Len(s) - 1 : Tail(s)[i] = s[i + 1]
  OBVIOUS

\* A restart, and the clock, leave one version.
LEMMA OneVersion ==
    ASSUME NEW v \in Version
    PROVE  <<v>> \in Seq(Version) /\ Len(<<v>>) = 1 /\ <<v>>[1] = v
  OBVIOUS

\* Index arithmetic, stated by itself.
LEMMA OnlyIndex == \A n \in Nat : \A i \in 1 .. n : n = 1 => i = n
  OBVIOUS

LEMMA LastOrEarlier ==
    \A n \in Nat : \A i \in 1 .. n + 1 : i \in 1 .. n \/ i = n + 1
  OBVIOUS

LEMMA WriteFits ==
    \A n \in Nat : n = 1 \/ (n >= 1 /\ n <= MaxLag) => n + 1 \in 1 .. MaxLag + 1
  BY MaxLagAssumption

LEMMA CounterFits ==
    \A n \in Nat : 0 \in 0 .. n /\ \A k \in 0 .. n : k < n => k + 1 \in 0 .. n
  OBVIOUS

LEMMA Shift == \A n, m, i \in Nat : m = n - 1 /\ i + 1 = n => i = m
  OBVIOUS

\* The updates the actions make stay in Version; what they do to the phase and
\* to the finalizer.
LEMMA FinalizerAdded ==
    ASSUME NEW v \in Version
    PROVE  /\ [v EXCEPT !.finalizers = {"delete"}] \in Version
           /\ [v EXCEPT !.finalizers = {"delete"}].phase = v.phase
           /\ HasFinalizer([v EXCEPT !.finalizers = {"delete"}])
  BY DEF Version, HasFinalizer

LEMMA PhaseSet ==
    ASSUME NEW v \in Version, NEW p \in Phase
    PROVE  /\ WithPhase(v, p) \in Version
           /\ WithPhase(v, p).phase = p
           /\ HasFinalizer(WithPhase(v, p)) <=> HasFinalizer(v)
           /\ WithPhase(v, p).data = v.data /\ v.data \in History
  BY DEF Version, HasFinalizer, WithPhase

LEMMA Removed ==
    ASSUME NEW v \in Version
    PROVE  /\ [v EXCEPT !.phase = "gone", !.finalizers = {}] \in Version
           /\ [v EXCEPT !.phase = "gone", !.finalizers = {}].phase = "gone"
           /\ [v EXCEPT !.deleting = TRUE, !.phase = "gone"] \in Version
           /\ [v EXCEPT !.deleting = TRUE, !.phase = "gone"].phase = "gone"
  BY DEF Version

\* v and w show the same phase and the same finalizers.
Alike(v, w) == v.phase = w.phase /\ v.finalizers = w.finalizers

LEMMA OtherUpdates ==
    ASSUME NEW v \in Version, NEW d \in History
    PROVE  /\ [v EXCEPT !.data = d] \in Version
           /\ Alike([v EXCEPT !.data = d], v)
           /\ [v EXCEPT !.hibernated = ~v.hibernated] \in Version
           /\ Alike([v EXCEPT !.hibernated = ~v.hibernated], v)
           /\ [v EXCEPT !.deleting = TRUE] \in Version
           /\ Alike([v EXCEPT !.deleting = TRUE], v)
           /\ [v EXCEPT !.aged = TRUE] \in Version
           /\ Alike([v EXCEPT !.aged = TRUE], v)
           /\ Alike(v, v)
  BY DEF Version, Alike

-----------------------------------------------------------------------------
(* How CacheOrdered survives each of them. *)

\* The versions are Versions, the cache's and the server's in particular.
LEMMA VersionsTyped ==
    ASSUME TypeOK
    PROVE  /\ objs \in Seq(Version) /\ Len(objs) \in Nat /\ Len(objs) >= 1
           /\ Server \in Version /\ Cached \in Version
           /\ CacheIsCurrent => Cached = Server
           /\ \A i \in 1 .. Len(objs) : objs[i] \in Version
  <1>1. objs \in Seq(Version) /\ Len(objs) \in 1 .. MaxLag + 1 /\ MaxLag \in Nat
    BY MaxLagAssumption DEF TypeOK, VersionsTypeOK
  <1>2. Len(objs) \in Nat /\ Len(objs) >= 1
    BY <1>1
  <1>3. \A i \in 1 .. Len(objs) : objs[i] \in Version
    BY <1>1
  <1>4. Server \in Version /\ Cached \in Version
    BY <1>2, <1>3 DEF Server, Cached
  <1>5. CacheIsCurrent => Cached = Server
    BY DEF CacheIsCurrent, Server, Cached
  <1>. QED BY <1>1, <1>2, <1>3, <1>4, <1>5

\* A write: the phase changes only under the finalizer, and from "" only to
\* "installing", or on a cache that is current.
LEMMA WriteKeepsOrder ==
    ASSUME TypeOK, CacheOrdered, NEW v \in Version,
           objs' = Append(objs, v), CacheIsCurrent \/ Len(objs) <= MaxLag,
           Server.phase # "gone",
           v.phase \notin {"", "gone"} => HasFinalizer(v),
           HasFinalizer(Server) => HasFinalizer(v) \/ v.phase = "gone",
           v.phase = "" => Server.phase = "",
           \/ v.phase \in {Server.phase, "installing", "gone"}
           \/ CacheIsCurrent /\ Server.phase # ""
    PROVE  VersionsTypeOK' /\ CacheOrdered' /\ Server' = v
  <1>1. /\ objs \in Seq(Version) /\ Len(objs) \in Nat /\ Len(objs) >= 1
        /\ \A i \in 1 .. Len(objs) : objs[i] \in Version
    BY VersionsTyped
  <1>2. /\ objs' \in Seq(Version) /\ Len(objs') = Len(objs) + 1
        /\ objs'[Len(objs) + 1] = v
        /\ \A i \in 1 .. Len(objs) : objs'[i] = objs[i]
    BY <1>1, AppendVersion
  <1>3. Server' = v
    BY <1>2 DEF Server
  <1>4. ASSUME NEW i \in 1 .. Len(objs')
        PROVE  /\ objs'[i].phase \notin {"", "gone"} => HasFinalizer(objs'[i])
               /\ HasFinalizer(objs'[i]) => HasFinalizer(v) \/ v.phase = "gone"
               /\ objs'[i].phase = "gone" => i = Len(objs')
               /\ v.phase = "" => objs'[i].phase = ""
               /\ v.phase \notin {"", "installing", "gone"} => objs'[i].phase # ""
    <2>1. CASE i = Len(objs) + 1
      <3>1. objs'[i] = v /\ i = Len(objs')
        BY <1>2, <2>1
      <3>. QED BY <3>1
    <2>2. CASE i \in 1 .. Len(objs)
      <3>1. objs'[i] = objs[i]
        BY <1>2, <2>2
      <3>2. objs[i].phase # "gone"
        BY <2>2 DEF CacheOrdered, Server
      <3>3. objs[i].phase # "" => HasFinalizer(objs[i])
        BY <2>2, <3>2 DEF CacheOrdered
      <3>4. HasFinalizer(objs[i]) => HasFinalizer(v) \/ v.phase = "gone"
        BY <2>2 DEF CacheOrdered
      <3>5. v.phase = "" => objs[i].phase = ""
        BY <2>2 DEF CacheOrdered
      <3>6. v.phase \notin {"", "installing", "gone"} => objs[i].phase # ""
        <4>1. CASE v.phase \in {Server.phase, "installing", "gone"}
          BY <2>2, <4>1 DEF CacheOrdered
        <4>2. CASE CacheIsCurrent /\ Server.phase # ""
          <5>1. i = Len(objs)
            BY <1>1, <2>2, <4>2, OnlyIndex, Zenon DEF CacheIsCurrent
          <5>. QED BY <4>2, <5>1 DEF Server
        <4>. QED BY <4>1, <4>2
      <3>. QED BY <3>1, <3>2, <3>3, <3>4, <3>5, <3>6
    <2>3. i \in 1 .. Len(objs) \/ i = Len(objs) + 1
      BY <1>1, <1>2, LastOrEarlier, Zenon
    <2>. QED BY <2>1, <2>2, <2>3
  <1>5. Len(objs') \in 1 .. MaxLag + 1
    BY <1>1, <1>2, WriteFits, Zenon DEF CacheIsCurrent
  <1>. QED BY <1>2, <1>3, <1>4, <1>5 DEF CacheOrdered, VersionsTypeOK

\* A watch event keeps the newest version and the order of the rest.
LEMMA DeliverKeepsOrder ==
    ASSUME TypeOK, CacheOrdered, Len(objs) > 1, objs' = Tail(objs)
    PROVE  /\ CacheOrdered' /\ Server' = Server
           /\ objs' \in Seq(Version) /\ Len(objs') = Len(objs) - 1
  <1>1. /\ objs \in Seq(Version) /\ Len(objs) \in Nat
        /\ \A i \in 1 .. Len(objs) : objs[i] \in Version
    BY VersionsTyped
  <1>2. /\ objs' \in Seq(Version) /\ Len(objs') = Len(objs) - 1
        /\ \A i \in 1 .. Len(objs') : i + 1 \in 1 .. Len(objs) /\ objs'[i] = objs[i + 1]
    BY <1>1, TailVersions
  <1>3. Server' = Server
    BY <1>1, <1>2 DEF Server
  <1>4. ASSUME NEW i \in 1 .. Len(objs')
        PROVE  /\ objs'[i].phase \notin {"", "gone"} => HasFinalizer(objs'[i])
               /\ HasFinalizer(objs'[i]) => HasFinalizer(Server) \/ Server.phase = "gone"
               /\ objs'[i].phase = "gone" => i = Len(objs')
               /\ Server.phase = "" => objs'[i].phase = ""
               /\ Server.phase \notin {"", "installing", "gone"} => objs'[i].phase # ""
    <2>1. i + 1 \in 1 .. Len(objs) /\ objs'[i] = objs[i + 1]
      BY <1>2
    <2>2. objs[i + 1].phase = "gone" => i + 1 = Len(objs)
      BY <2>1 DEF CacheOrdered
    <2>3. i + 1 = Len(objs) => i = Len(objs')
      <3>1. i \in Nat /\ Len(objs') \in Nat
        BY <1>2
      <3>. QED BY <1>1, <1>2, <3>1, Shift, Zenon
    <2>4. objs'[i].phase = "gone" => i = Len(objs')
      BY <2>1, <2>2, <2>3
    <2>. QED BY <2>1, <2>4 DEF CacheOrdered
  <1>. QED BY <1>2, <1>3, <1>4 DEF CacheOrdered

\* A restart keeps the newest version only; the clock changes nothing of it
\* that CacheOrdered mentions.
LEMMA RelistKeepsOrder ==
    ASSUME TypeOK, CacheOrdered, NEW v \in Version, objs' = <<v>>,
           Alike(v, Server)
    PROVE  /\ CacheOrdered' /\ Server' = v
           /\ objs' \in Seq(Version) /\ Len(objs') = 1
  <1>1. /\ objs \in Seq(Version) /\ Len(objs) \in Nat /\ Len(objs) >= 1
    BY VersionsTyped
  <1>2. objs' \in Seq(Version) /\ Len(objs') = 1 /\ objs'[1] = v
    BY OneVersion
  <1>3. Server' = v
    BY <1>2 DEF Server
  <1>4. Len(objs) \in 1 .. Len(objs)
    BY <1>1
  <1>5. v.phase \notin {"", "gone"} => HasFinalizer(v)
    BY <1>4 DEF CacheOrdered, Server, HasFinalizer, Alike
  <1>6. \A i \in 1 .. Len(objs') : i = Len(objs') /\ objs'[i] = v
    BY <1>2
  <1>. QED BY <1>2, <1>3, <1>5, <1>6 DEF CacheOrdered

\* What a stale copy still tells about the server's version.
LEMMA StaleReadIsSafe ==
    ASSUME TypeOK, CacheOrdered
    PROVE  /\ Cached.phase # "" => Server.phase # ""
           /\ Cached.phase = "" => Server.phase \in {"", "installing", "gone"}
           /\ HasFinalizer(Cached) => HasFinalizer(Server) \/ Server.phase = "gone"
           /\ Cached.phase = "gone" => Server.phase = "gone"
           /\ Server.phase \notin {"", "gone"} => HasFinalizer(Server)
  <1>1. 1 \in 1 .. Len(objs) /\ Len(objs) \in 1 .. Len(objs)
    BY VersionsTyped
  <1>. QED BY <1>1 DEF CacheOrdered, Cached, Server

-----------------------------------------------------------------------------
(* What several actions have in common. *)

USE DEF Inductive, worker, cluster, environment

\* A step that writes no version.
LEMMA NoWrite ==
    ASSUME Inductive, UNCHANGED objs
    PROVE  VersionsTypeOK' /\ CacheOrdered' /\ Server' = Server
  BY DEF TypeOK, VersionsTypeOK, CacheOrdered, Server

\* A step of the worker that leaves workspace and counters alone.
LEMMA KeepEnvironment ==
    ASSUME Inductive, UNCHANGED environment
    PROVE  EnvironmentTypeOK'
  BY DEF TypeOK, EnvironmentTypeOK

LEMMA KeepCluster ==
    ASSUME Inductive, UNCHANGED cluster
    PROVE  ClusterTypeOK'
  BY DEF TypeOK, ClusterTypeOK

\* A step that neither touches the release nor removes the module.
LEMMA KeepRelease ==
    ASSUME Inductive, UNCHANGED <<outcome, cluster, adopted>>,
           pc' = "dropFinalizer" => pc = "dropFinalizer",
           Server'.phase = Server.phase \/ Server'.phase \notin {"", "gone"}
    PROVE  ReleaseGuarded'
  BY DEF ReleaseGuarded, NoReleaseLeftSilently, AdoptedReleaseKept

\* A step that leaves the worker where it is.
LEMMA SameWorker ==
    ASSUME Inductive, queued' \in BOOLEAN, UNCHANGED worker, Server' = Server
    PROVE  WorkerTypeOK' /\ WorkerConsistent'
  <1>1. WorkerTypeOK'
    BY DEF TypeOK, WorkerTypeOK
  <1>2. WorkerConsistent'
    BY DEF WorkerConsistent
  <1>. QED BY <1>1, <1>2

LEMMA NoHistoryTyped == NoHistory \in History
  BY DEF NoHistory, History

\* Leaving Reconcile: the worker holds no obligation any more.
LEMMA ReturnStep ==
    ASSUME Inductive, NEW b \in BOOLEAN, Return(b), UNCHANGED outcome
    PROVE  WorkerTypeOK' /\ WorkerConsistent' /\ pc' = "idle"
  <1>1. pc' = "idle" /\ goal' = "" /\ then' = "stop" /\ meta' = NoHistory
    BY DEF Return
  <1>2. queued' \in BOOLEAN
    BY DEF Return, TypeOK, WorkerTypeOK
  <1>3. outcome' \in {"none", "done", "skipped", "failed"}
    BY DEF TypeOK, WorkerTypeOK
  <1>4. WorkerTypeOK'
    BY <1>1, <1>2, <1>3, NoHistoryTyped DEF WorkerTypeOK, ThenLabels
  <1>5. WorkerConsistent'
    BY <1>1 DEF WorkerConsistent
  <1>. QED BY <1>1, <1>4, <1>5

\* A patch or an edit that leaves phase and finalizers as they are.
LEMMA AlikeWrite ==
    ASSUME Inductive, NEW v \in Version, Alike(v, Server), Server.phase # "gone",
           objs' = Append(objs, v), Len(objs) <= MaxLag
    PROVE  VersionsTypeOK' /\ CacheOrdered' /\ Server' = v
  <1>1. v.phase = Server.phase /\ (HasFinalizer(v) <=> HasFinalizer(Server))
    BY DEF Alike, HasFinalizer
  <1>2. Server.phase \notin {"", "gone"} => HasFinalizer(Server)
    BY StaleReadIsSafe
  <1>. QED BY <1>1, <1>2, WriteKeepsOrder

LEMMA AlikeKeepsWorker ==
    ASSUME Inductive, Alike(Server', Server), UNCHANGED <<pc, goal, then>>
    PROVE  WorkerConsistent'
  <1>1. Server'.phase = Server.phase /\ (HasFinalizer(Server') <=> HasFinalizer(Server))
    BY DEF Alike, HasFinalizer
  <1>. QED BY <1>1 DEF WorkerConsistent

-----------------------------------------------------------------------------
(* The steps of the worker. *)

\* Reconcile reads the cache and decides; it writes nothing.
LEMMA ReconcileStep == Inductive /\ Reconcile => Inductive'
  <1>. SUFFICES ASSUME Inductive, Reconcile PROVE Inductive'
    OBVIOUS
  <1>1. UNCHANGED <<objs, outcome, cluster, environment>>
    BY DEF Reconcile
  <1>2. VersionsTypeOK' /\ ClusterTypeOK' /\ EnvironmentTypeOK' /\ CacheOrdered'
    BY <1>1, NoWrite, KeepCluster, KeepEnvironment
  <1>3. Server' = Server
    BY <1>1, NoWrite
  <1>5. WorkerTypeOK'
    BY <1>1, NoHistoryTyped DEF TypeOK, WorkerTypeOK, Reconcile, Start, handleDeletion, handleHibernation,
       CallSetPhase, GoTo, ThenLabels
  <1>6. WorkerConsistent'
    <2>1. /\ Cached.phase # "" => Server.phase # ""
          /\ Cached.phase = "" => Server.phase \in {"", "installing", "gone"}
      BY StaleReadIsSafe
    <2>2. CASE UNCHANGED <<pc, goal, then>>
      BY <1>3, <2>2 DEF WorkerConsistent
    <2>3. CASE Start(Cached)
      <3>1. CASE pc' = "addFinalizer" /\ Cached.phase = ""
        BY <1>3, <2>1, <3>1 DEF WorkerConsistent
      <3>2. CASE handleDeletion(Cached)
        BY <1>3, <2>1, <3>2 DEF WorkerConsistent, handleDeletion, CallSetPhase, DeletionProceeds
      <3>3. CASE Cached.phase \in {"ready", "sleeped"} /\ handleHibernation(Cached)
        BY <1>3, <2>1, <3>3 DEF WorkerConsistent, handleHibernation, CallSetPhase
      <3>4. CASE TimedOut(Cached) /\ CallSetPhase("failed", "stop")
        BY <1>3, <2>1, <3>4 DEF WorkerConsistent, CallSetPhase, TimedOut
      <3>. QED BY <2>3, <3>1, <3>2, <3>3, <3>4 DEF Start, GoTo
    <2>. QED BY <2>2, <2>3 DEF Reconcile
  <1>7. ReleaseGuarded'
    <2>1. pc' # "dropFinalizer"
      BY DEF Reconcile, Start, handleDeletion, handleHibernation, CallSetPhase, GoTo
    <2>. QED BY <1>1, <1>3, <2>1, KeepRelease
  <1>. QED BY <1>2, <1>5, <1>6, <1>7 DEF TypeOK

\* addFinalizer either finds the finalizer or writes it on the newest version.
LEMMA AddFinalizerStep == Inductive /\ addFinalizer => Inductive'
  <1>. SUFFICES ASSUME Inductive, addFinalizer PROVE Inductive'
    OBVIOUS
  <1>1. /\ UNCHANGED <<queued, meta, outcome, cluster, environment>>
        /\ pc = "addFinalizer" /\ Cached.phase # "gone"
        /\ pc' = "setPhase" /\ goal' = "installing" /\ then' = "install"
    BY DEF addFinalizer, CallSetPhase
  <1>2. ClusterTypeOK' /\ EnvironmentTypeOK'
    BY <1>1, KeepCluster, KeepEnvironment
  <1>3. WorkerTypeOK'
    BY <1>1 DEF TypeOK, WorkerTypeOK, ThenLabels
  <1>4. Server.phase \in {"", "installing", "gone"}
    BY <1>1 DEF WorkerConsistent
  <1>5. /\ VersionsTypeOK' /\ CacheOrdered' /\ Server'.phase = Server.phase
        /\ HasFinalizer(Server') \/ Server'.phase = "gone"
    <2>1. CASE HasFinalizer(Cached)
      <3>1. UNCHANGED objs
        BY <2>1 DEF addFinalizer
      <3>. QED BY <2>1, <3>1, NoWrite, StaleReadIsSafe
    <2>2. CASE ~HasFinalizer(Cached)
      <3>. DEFINE v == [Cached EXCEPT !.finalizers = {"delete"}]
      <3>1. CacheIsCurrent /\ objs' = Append(objs, v)
        BY <2>2 DEF addFinalizer, Put
      <3>2. Cached \in Version /\ Cached = Server
        BY <3>1, VersionsTyped
      <3>3. v \in Version /\ v.phase = Server.phase /\ HasFinalizer(v)
        BY <3>2, FinalizerAdded
      <3>. HIDE DEF v
      <3>4. VersionsTypeOK' /\ CacheOrdered' /\ Server' = v
        BY <1>1, <3>1, <3>2, <3>3, WriteKeepsOrder
      <3>. QED BY <3>3, <3>4
    <2>. QED BY <2>1, <2>2
  <1>6. WorkerConsistent'
    BY <1>1, <1>4, <1>5 DEF WorkerConsistent
  <1>7. ReleaseGuarded'
    BY <1>1, <1>5, KeepRelease
  <1>. QED BY <1>2, <1>3, <1>5, <1>6, <1>7 DEF TypeOK

\* setPhase writes on the newest version, which carries the finalizer.
LEMMA SetPhaseStep == Inductive /\ setPhase => Inductive'
  <1>. SUFFICES ASSUME Inductive, setPhase PROVE Inductive'
    OBVIOUS
  <1>. DEFINE v == WithPhase(Cached, goal)
  <1>1. /\ UNCHANGED <<outcome, cluster, environment>>
        /\ pc = "setPhase" /\ Cached.phase # "gone"
        /\ CacheIsCurrent /\ objs' = Append(objs, v)
    BY DEF setPhase, Put
  <1>2. \/ then = "hibernate" /\ handleHibernation(v) /\ meta' = v.data /\ UNCHANGED queued
        \/ \E b \in BOOLEAN : Return(b)
        \/ /\ then \notin {"hibernate", "stop", "requeue"}
           /\ GoTo(then) /\ meta' = v.data /\ UNCHANGED queued
    BY DEF setPhase
  <1>3. Cached \in Version /\ Cached = Server /\ Server.phase # "gone"
    BY <1>1, VersionsTyped
  <1>4. goal \in Phase /\ then \in ThenLabels
    BY DEF TypeOK, WorkerTypeOK
  <1>5. /\ v \in Version /\ v.phase = goal /\ v.data \in History
        /\ HasFinalizer(v) <=> HasFinalizer(Server)
    BY <1>3, <1>4, PhaseSet
  <1>. HIDE DEF v
  <1>6. \/ /\ goal = "installing" /\ then = "install" /\ HasFinalizer(Server)
        \/ /\ \/ goal = "uninstalling" /\ then = "uninstall"
              \/ goal = "sleeping" /\ then = "sleep"
              \/ goal = "resuming" /\ then = "resume"
              \/ goal \in Settled /\ then \in {"hibernate", "stop", "requeue"}
           /\ Server.phase # ""
    BY <1>1, <1>3 DEF WorkerConsistent
  <1>7. HasFinalizer(Server)
    BY <1>3, <1>6, StaleReadIsSafe
  <1>8. VersionsTypeOK' /\ CacheOrdered' /\ Server' = v
    <2>1. goal \notin {"", "gone"}
      BY <1>6
    <2>. QED BY <1>1, <1>3, <1>5, <1>6, <1>7, <2>1, WriteKeepsOrder
  <1>9. ClusterTypeOK' /\ EnvironmentTypeOK'
    BY <1>1, KeepCluster, KeepEnvironment
  <1>10. WorkerTypeOK' /\ WorkerConsistent' /\ pc' # "dropFinalizer"
    <2>1. CASE \E b \in BOOLEAN : Return(b)
      BY <1>1, <2>1, ReturnStep
    <2>2. CASE then = "hibernate" /\ handleHibernation(v) /\ meta' = v.data /\ UNCHANGED queued
      <3>1. \/ pc' = "setPhase" /\ goal' = "sleeping" /\ then' = "sleep"
            \/ pc' = "setPhase" /\ goal' = "resuming" /\ then' = "resume"
        BY <2>2 DEF handleHibernation, CallSetPhase
      <3>2. WorkerTypeOK'
        BY <1>1, <1>5, <2>2, <3>1 DEF TypeOK, WorkerTypeOK, ThenLabels
      <3>3. Server'.phase # ""
        BY <1>5, <1>6, <1>8
      <3>4. WorkerConsistent'
        BY <3>1, <3>3 DEF WorkerConsistent
      <3>. QED BY <3>1, <3>2, <3>4
    <2>3. CASE /\ then \notin {"hibernate", "stop", "requeue"}
               /\ GoTo(then) /\ meta' = v.data /\ UNCHANGED queued
      <3>1. /\ \/ goal = "installing" /\ pc' = "install"
               \/ goal = "uninstalling" /\ pc' = "uninstall"
               \/ goal = "sleeping" /\ pc' = "sleep"
               \/ goal = "resuming" /\ pc' = "resume"
            /\ UNCHANGED <<goal, then>>
        BY <1>6, <2>3 DEF GoTo
      <3>2. WorkerTypeOK'
        BY <1>1, <1>5, <2>3, <3>1 DEF TypeOK, WorkerTypeOK
      <3>3. WorkerConsistent'
        BY <1>5, <1>8, <3>1 DEF WorkerConsistent
      <3>. QED BY <3>1, <3>2, <3>3
    <2>. QED BY <1>2, <2>1, <2>2, <2>3
  <1>11. ReleaseGuarded'
    BY <1>1, <1>5, <1>6, <1>8, <1>10, KeepRelease
  <1>. QED BY <1>8, <1>9, <1>10, <1>11 DEF TypeOK

\* dropFinalizer removes the module; uninstallModule has accounted for the release.
LEMMA DropFinalizerStep == Inductive /\ dropFinalizer => Inductive'
  <1>. SUFFICES ASSUME Inductive, dropFinalizer PROVE Inductive'
    OBVIOUS
  <1>. DEFINE v == [Cached EXCEPT !.phase = "gone", !.finalizers = {}]
  <1>1. /\ UNCHANGED <<outcome, cluster, environment>>
        /\ pc = "dropFinalizer" /\ Cached.phase # "gone"
        /\ CacheIsCurrent /\ objs' = Append(objs, v)
        /\ Return(FALSE)
    BY DEF dropFinalizer, Put
  <1>2. Cached \in Version /\ Cached = Server /\ Server.phase # "gone"
    BY <1>1, VersionsTyped
  <1>3. v \in Version /\ v.phase = "gone"
    BY <1>2, Removed
  <1>. HIDE DEF v
  <1>4. VersionsTypeOK' /\ CacheOrdered' /\ Server' = v
    BY <1>1, <1>2, <1>3, WriteKeepsOrder
  <1>5. ClusterTypeOK' /\ EnvironmentTypeOK'
    BY <1>1, KeepCluster, KeepEnvironment
  <1>6. WorkerTypeOK' /\ WorkerConsistent' /\ pc' = "idle"
    BY <1>1, ReturnStep
  <1>7. ReleaseGuarded'
    BY <1>1, <1>3, <1>4, <1>6 DEF ReleaseGuarded, NoReleaseLeftSilently, AdoptedReleaseKept
  <1>. QED BY <1>4, <1>5, <1>6, <1>7 DEF TypeOK

\* A failed write changes nothing but where the worker is.
LEMMA WriteFailsStep == Inductive /\ writeFails => Inductive'
  <1>. SUFFICES ASSUME Inductive, writeFails PROVE Inductive'
    OBVIOUS
  <1>1. UNCHANGED <<objs, outcome, cluster, environment>> /\ Return(TRUE)
    BY DEF writeFails
  <1>2. VersionsTypeOK' /\ CacheOrdered' /\ Server' = Server
    BY <1>1, NoWrite
  <1>3. ClusterTypeOK' /\ EnvironmentTypeOK'
    BY <1>1, KeepCluster, KeepEnvironment
  <1>4. WorkerTypeOK' /\ WorkerConsistent' /\ pc' = "idle"
    BY <1>1, ReturnStep
  <1>5. ReleaseGuarded'
    BY <1>1, <1>2, <1>4, KeepRelease
  <1>. QED BY <1>2, <1>3, <1>4, <1>5 DEF TypeOK

\* installModule adopts, installs or gives up; its module is "installing".
LEMMA InstallModuleStep == Inductive /\ installModule => Inductive'
  <1>. SUFFICES ASSUME Inductive, installModule PROVE Inductive'
    OBVIOUS
  <1>1. pc = "install" /\ UNCHANGED <<outcome, environment>>
    BY DEF installModule
  <1>2. Server.phase = "installing"
    BY <1>1 DEF WorkerConsistent
  <1>3. EnvironmentTypeOK'
    BY <1>1, KeepEnvironment
  <1>4. CASE CallSetPhase("failed", "stop") /\ UNCHANGED <<queued, objs, meta, cluster>>
    <2>1. VersionsTypeOK' /\ CacheOrdered' /\ Server' = Server /\ ClusterTypeOK'
      BY <1>4, NoWrite, KeepCluster
    <2>2. pc' = "setPhase" /\ goal' = "failed" /\ then' = "stop"
      BY <1>4 DEF CallSetPhase
    <2>3. WorkerTypeOK'
      BY <1>1, <1>4, <2>2 DEF TypeOK, WorkerTypeOK, ThenLabels
    <2>4. WorkerConsistent'
      BY <1>2, <2>1, <2>2 DEF WorkerConsistent
    <2>5. ReleaseGuarded'
      BY <1>1, <1>4, <2>1, <2>2, KeepRelease
    <2>. QED BY <1>3, <2>1, <2>3, <2>4, <2>5 DEF TypeOK
  <1>5. CASE Return(TRUE) /\ UNCHANGED <<objs, cluster>>
    <2>1. VersionsTypeOK' /\ CacheOrdered' /\ Server' = Server /\ ClusterTypeOK'
      BY <1>5, NoWrite, KeepCluster
    <2>2. WorkerTypeOK' /\ WorkerConsistent' /\ pc' = "idle"
      BY <1>1, <1>5, ReturnStep
    <2>3. ReleaseGuarded'
      BY <1>1, <1>5, <2>1, <2>2, KeepRelease
    <2>. QED BY <1>3, <2>1, <2>2, <2>3 DEF TypeOK
  <1>6. CASE /\ Patch(Server) /\ CallSetPhase("ready", "hibernate")
             /\ UNCHANGED <<queued, meta, cluster>>
    <2>1. VersionsTypeOK' /\ CacheOrdered' /\ Server' = Server
      <3>1. Server \in Version /\ Alike(Server, Server)
        BY VersionsTyped DEF Alike
      <3>2. objs' = Append(objs, Server) /\ Len(objs) <= MaxLag
        BY <1>6 DEF Patch
      <3>. QED BY <1>2, <3>1, <3>2, AlikeWrite
    <2>2. pc' = "setPhase" /\ goal' = "ready" /\ then' = "hibernate"
      BY <1>6 DEF CallSetPhase
    <2>3. WorkerTypeOK'
      BY <1>1, <1>6, <2>2 DEF TypeOK, WorkerTypeOK, ThenLabels
    <2>4. WorkerConsistent'
      BY <1>2, <2>1, <2>2 DEF WorkerConsistent
    <2>5. ReleaseGuarded' /\ ClusterTypeOK'
      BY <1>1, <1>6, <2>1, <2>2, KeepRelease, KeepCluster
    <2>. QED BY <1>3, <2>1, <2>3, <2>4, <2>5 DEF TypeOK
  <1>7. CASE /\ ~adopted /\ helmInstall /\ pc' = "patch"
             /\ UNCHANGED <<queued, objs, meta>>
    <2>1. VersionsTypeOK' /\ CacheOrdered' /\ Server' = Server
      BY <1>7, NoWrite
    <2>2. \/ goal' = "ready" /\ then' = "hibernate"
          \/ goal' = "failed" /\ then' = "stop"
      BY <1>7 DEF helmInstall, InstallRelease
    <2>3. WorkerTypeOK'
      BY <1>1, <1>7, <2>2 DEF TypeOK, WorkerTypeOK, ThenLabels
    <2>4. WorkerConsistent'
      BY <1>2, <1>7, <2>1, <2>2 DEF WorkerConsistent
    <2>5. ClusterTypeOK'
      <3>1. Replicas \in [Workloads -> Count]
        BY ConstantsAssumption DEF Count
      <3>. QED BY <1>7, <3>1 DEF TypeOK, ClusterTypeOK, helmInstall, InstallRelease
    <2>6. ReleaseGuarded'
      BY <1>1, <1>2, <1>7, <2>1, <2>2 DEF ReleaseGuarded, NoReleaseLeftSilently, AdoptedReleaseKept
    <2>. QED BY <1>3, <2>1, <2>3, <2>4, <2>5, <2>6 DEF TypeOK
  <1>. QED BY <1>4, <1>5, <1>6, <1>7 DEF installModule, adoptExistingHelmRelease

\* The annotation patch leaves phase and finalizers as they are.
LEMMA PatchManagerDataStep == Inductive /\ patchManagerData => Inductive'
  <1>. SUFFICES ASSUME Inductive, patchManagerData PROVE Inductive'
    OBVIOUS
  <1>1. pc = "patch" /\ UNCHANGED <<outcome, cluster, environment>>
    BY DEF patchManagerData
  <1>2. Server.phase \in {"installing", "sleeping"}
    BY <1>1 DEF WorkerConsistent
  <1>3. ClusterTypeOK' /\ EnvironmentTypeOK'
    BY <1>1, KeepCluster, KeepEnvironment
  <1>4. VersionsTypeOK' /\ CacheOrdered' /\ Server'.phase = Server.phase
    <2>1. CASE UNCHANGED objs
      BY <2>1, NoWrite
    <2>2. CASE Patch([Server EXCEPT !.data = meta])
      <3>. DEFINE v == [Server EXCEPT !.data = meta]
      <3>1. Server \in Version /\ meta \in History
        BY VersionsTyped DEF TypeOK, WorkerTypeOK
      <3>2. v \in Version /\ Alike(v, Server)
        BY <3>1, OtherUpdates
      <3>3. objs' = Append(objs, v) /\ Len(objs) <= MaxLag
        BY <2>2 DEF Patch
      <3>. HIDE DEF v
      <3>. QED BY <1>2, <3>2, <3>3, AlikeWrite DEF Alike
    <2>. QED BY <2>1, <2>2 DEF patchManagerData
  <1>5. WorkerTypeOK' /\ WorkerConsistent' /\ pc' # "dropFinalizer"
    <2>1. CASE Return(TRUE)
      BY <1>1, <2>1, ReturnStep
    <2>2. CASE then # "error" /\ pc' = "setPhase" /\ UNCHANGED <<queued, goal, then, meta>>
      <3>1. WorkerTypeOK'
        BY <1>1, <2>2 DEF TypeOK, WorkerTypeOK
      <3>2. goal \in Settled /\ then \in {"hibernate", "stop"}
        BY <1>1, <2>2 DEF WorkerConsistent
      <3>3. WorkerConsistent'
        BY <1>2, <1>4, <2>2, <3>2 DEF WorkerConsistent
      <3>. QED BY <2>2, <3>1, <3>3
    <2>. QED BY <2>1, <2>2 DEF patchManagerData
  <1>6. ReleaseGuarded'
    BY <1>1, <1>4, <1>5, KeepRelease
  <1>. QED BY <1>3, <1>4, <1>5, <1>6 DEF TypeOK

\* The counts a sleep leaves and records stay in their types.
LEMMA SleepTyped ==
    ASSUME TypeOK, NEW down \in SUBSET Workloads, NEW recorded \in SUBSET Workloads,
           Sleep(down, recorded)
    PROVE  live' \in [Workloads -> Count] /\ meta' \in History
  <1>1. live \in [Workloads -> Count] /\ meta \in History
    BY DEF TypeOK, ClusterTypeOK, WorkerTypeOK
  <1>2. live' \in [Workloads -> Count]
    <2>1. live' = [w \in Workloads |-> IF w \in down THEN 0 ELSE live[w]]
      BY DEF Sleep, Scaled
    <2>. QED BY <1>1, <2>1 DEF Count
  <1>3. [w \in recorded |-> live[w]] \in [recorded -> Count]
    BY <1>1
  <1>4. [w \in recorded |-> live[w]] \in History
    BY <1>3 DEF History
  <1>. QED BY <1>1, <1>2, <1>4 DEF Sleep

\* sleepModule changes counts in the cluster and in memory only.
LEMMA SleepModuleStep == Inductive /\ sleepModule => Inductive'
  <1>. SUFFICES ASSUME Inductive, sleepModule PROVE Inductive'
    OBVIOUS
  <1>1. pc = "sleep" /\ UNCHANGED <<objs, outcome, environment>>
    BY DEF sleepModule
  <1>2. VersionsTypeOK' /\ CacheOrdered' /\ Server' = Server /\ EnvironmentTypeOK'
    BY <1>1, NoWrite, KeepEnvironment
  <1>3. CASE Return(TRUE) /\ UNCHANGED cluster
    <2>1. WorkerTypeOK' /\ WorkerConsistent' /\ pc' = "idle"
      BY <1>1, <1>3, ReturnStep
    <2>2. ReleaseGuarded' /\ ClusterTypeOK'
      BY <1>1, <1>2, <1>3, <2>1, KeepRelease, KeepCluster
    <2>. QED BY <1>2, <2>1, <2>2 DEF TypeOK
  <1>4. CASE /\ pc' = "patch" /\ UNCHANGED <<queued, deployed, cleanup>>
             /\ \E down \in SUBSET Present, recorded \in SUBSET Present :
                  /\ Sleep(down, recorded)
                  /\ \/ goal' = "sleeped" /\ then' = "hibernate"
                     \/ goal' = "" /\ then' = "error"
    <2>1. PICK down \in SUBSET Present, recorded \in SUBSET Present :
            Sleep(down, recorded)
      BY <1>4
    <2>2. down \in SUBSET Workloads /\ recorded \in SUBSET Workloads
      BY <2>1 DEF Present
    <2>3. live' \in [Workloads -> Count] /\ meta' \in History
      BY <2>1, <2>2, SleepTyped
    <2>4. \/ goal' = "sleeped" /\ then' = "hibernate"
          \/ goal' = "" /\ then' = "error"
      BY <1>4
    <2>5. WorkerTypeOK'
      BY <1>1, <1>4, <2>3, <2>4 DEF TypeOK, WorkerTypeOK, ThenLabels
    <2>6. WorkerConsistent'
      <3>1. Server'.phase = "sleeping"
        BY <1>1, <1>2 DEF WorkerConsistent
      <3>. QED BY <1>4, <2>4, <3>1 DEF WorkerConsistent
    <2>7. ClusterTypeOK'
      BY <1>4, <2>3 DEF TypeOK, ClusterTypeOK
    <2>8. ReleaseGuarded'
      BY <1>1, <1>2, <1>4 DEF ReleaseGuarded, NoReleaseLeftSilently, AdoptedReleaseKept
    <2>. QED BY <1>2, <2>5, <2>6, <2>7, <2>8 DEF TypeOK
  <1>. QED BY <1>3, <1>4 DEF sleepModule

\* resumeModule writes back counts that were recorded.
LEMMA ResumeModuleStep == Inductive /\ resumeModule => Inductive'
  <1>. SUFFICES ASSUME Inductive, resumeModule PROVE Inductive'
    OBVIOUS
  <1>1. pc = "resume" /\ UNCHANGED <<objs, outcome, deployed, cleanup, environment>>
    BY DEF resumeModule
  <1>2. VersionsTypeOK' /\ CacheOrdered' /\ Server' = Server /\ EnvironmentTypeOK'
    BY <1>1, NoWrite, KeepEnvironment
  <1>3. ClusterTypeOK'
    <2>1. live \in [Workloads -> Count] /\ meta \in History
      BY DEF TypeOK, ClusterTypeOK, WorkerTypeOK
    <2>2. \A w \in DOMAIN meta : meta[w] \in Count
      BY <2>1 DEF History
    <2>3. \/ UNCHANGED live
          \/ \E S \in SUBSET DOMAIN meta :
               live' = [w \in Workloads |-> IF w \in S THEN meta[w] ELSE live[w]]
      <3>1. Scaled(meta) = [w \in Workloads |-> IF w \in DOMAIN meta THEN meta[w] ELSE live[w]]
        BY DEF Scaled
      <3>2. ASSUME NEW up \in SUBSET DOMAIN meta
            PROVE  Scaled([w \in up |-> meta[w]])
                     = [w \in Workloads |-> IF w \in up THEN meta[w] ELSE live[w]]
        BY DEF Scaled
      <3>. QED BY <3>1, <3>2 DEF resumeModule, Resume, ResumeFails
    <2>4. live' \in [Workloads -> Count]
      BY <2>1, <2>2, <2>3
    <2>. QED BY <1>1, <2>4 DEF TypeOK, ClusterTypeOK
  <1>4. WorkerTypeOK' /\ WorkerConsistent' /\ pc' # "dropFinalizer"
    <2>1. CASE Return(TRUE)
      BY <1>1, <2>1, ReturnStep
    <2>2. CASE CallSetPhase("ready", "requeue") /\ UNCHANGED <<queued, meta>>
      <3>1. pc' = "setPhase" /\ goal' = "ready" /\ then' = "requeue"
        BY <2>2 DEF CallSetPhase
      <3>2. WorkerTypeOK'
        BY <1>1, <2>2, <3>1 DEF TypeOK, WorkerTypeOK, ThenLabels
      <3>3. Server'.phase = "resuming"
        BY <1>1, <1>2 DEF WorkerConsistent
      <3>4. WorkerConsistent'
        BY <3>1, <3>3 DEF WorkerConsistent
      <3>. QED BY <3>1, <3>2, <3>4
    <2>. QED BY <2>1, <2>2 DEF resumeModule
  <1>5. ReleaseGuarded'
    BY <1>1, <1>2, <1>4 DEF ReleaseGuarded, NoReleaseLeftSilently, AdoptedReleaseKept
  <1>. QED BY <1>2, <1>3, <1>4, <1>5 DEF TypeOK

\* uninstallModule removes the release or records why it did not.
LEMMA UninstallModuleStep == Inductive /\ uninstallModule => Inductive'
  <1>. SUFFICES ASSUME Inductive, uninstallModule PROVE Inductive'
    OBVIOUS
  <1>1. /\ pc = "uninstall" /\ pc' = "dropFinalizer"
        /\ UNCHANGED <<goal, then, objs, queued, meta, environment>>
    BY DEF uninstallModule, GoTo
  <1>2. VersionsTypeOK' /\ CacheOrdered' /\ Server' = Server /\ EnvironmentTypeOK'
    BY <1>1, NoWrite, KeepEnvironment
  <1>3. \/ outcome' \in {"skipped", "failed"} /\ UNCHANGED cluster
        \/ ~adopted /\ RemoveRelease /\ outcome' = "done"
    BY DEF uninstallModule
  <1>4. WorkerTypeOK'
    BY <1>1, <1>3 DEF TypeOK, WorkerTypeOK
  <1>5. Server'.phase = "uninstalling"
    BY <1>1, <1>2 DEF WorkerConsistent
  <1>6. WorkerConsistent'
    BY <1>1, <1>5 DEF WorkerConsistent
  <1>7. ClusterTypeOK'
    BY <1>3 DEF TypeOK, ClusterTypeOK, RemoveRelease, AllDown, Count
  <1>8. ReleaseGuarded'
    <2>1. (cleanup => ~adopted) /\ (adopted => deployed)
      BY DEF ReleaseGuarded, AdoptedReleaseKept
    <2>2. CASE outcome' \in {"skipped", "failed"} /\ UNCHANGED cluster
      BY <1>1, <1>5, <2>1, <2>2 DEF ReleaseGuarded, NoReleaseLeftSilently, AdoptedReleaseKept
    <2>3. CASE ~adopted /\ RemoveRelease
      BY <1>1, <2>3 DEF ReleaseGuarded, NoReleaseLeftSilently, AdoptedReleaseKept, RemoveRelease
    <2>. QED BY <1>3, <2>2, <2>3
  <1>. QED BY <1>2, <1>4, <1>6, <1>7, <1>8 DEF TypeOK

-----------------------------------------------------------------------------
(* The steps of the environment. *)

\* The clean-up goroutine never belongs to an adopted release.
LEMMA CleanupStep == Inductive /\ cleanupFailedInstall => Inductive'
  <1>. SUFFICES ASSUME Inductive, cleanupFailedInstall PROVE Inductive'
    OBVIOUS
  <1>1. /\ cleanup /\ cleanup' = FALSE
        /\ (deployed' = FALSE /\ live' = AllDown) \/ UNCHANGED <<deployed, live>>
        /\ UNCHANGED <<objs, queued, worker, environment>>
    BY DEF cleanupFailedInstall
  <1>2. VersionsTypeOK' /\ CacheOrdered' /\ Server' = Server /\ EnvironmentTypeOK'
    BY <1>1, NoWrite, KeepEnvironment
  <1>3. WorkerTypeOK' /\ WorkerConsistent'
    BY <1>1, <1>2, SameWorker DEF TypeOK, WorkerTypeOK
  <1>4. ClusterTypeOK'
    BY <1>1 DEF TypeOK, ClusterTypeOK, AllDown, Count
  <1>5. ReleaseGuarded'
    <2>1. UNCHANGED <<pc, outcome>>
      BY <1>1 DEF worker
    <2>2. ~adopted
      BY <1>1 DEF ReleaseGuarded
    <2>3. deployed' => deployed
      BY <1>1
    <2>. QED
      BY <1>1, <1>2, <2>1, <2>2, <2>3
      DEF ReleaseGuarded, NoReleaseLeftSilently, AdoptedReleaseKept
  <1>. QED BY <1>2, <1>3, <1>4, <1>5 DEF TypeOK

\* A watch event moves the cache, never the server.
LEMMA DeliverStep == Inductive /\ deliver => Inductive'
  <1>. SUFFICES ASSUME Inductive, deliver PROVE Inductive'
    OBVIOUS
  <1>1. /\ Len(objs) > 1 /\ objs' = Tail(objs) /\ queued' = TRUE
        /\ UNCHANGED <<worker, cluster, environment>>
    BY DEF deliver
  <1>2. /\ CacheOrdered' /\ Server' = Server
        /\ objs' \in Seq(Version) /\ Len(objs') = Len(objs) - 1
    BY <1>1, DeliverKeepsOrder
  <1>3. Len(objs) \in 1 .. MaxLag + 1 /\ MaxLag \in Nat
    BY MaxLagAssumption DEF TypeOK, VersionsTypeOK
  <1>4. VersionsTypeOK'
    <2>1. \A n, k \in Nat : n \in 1 .. k + 1 /\ n > 1 => n - 1 \in 1 .. k + 1
      OBVIOUS
    <2>2. Len(objs) \in Nat
      BY VersionsTyped
    <2>3. Len(objs') \in 1 .. MaxLag + 1
      BY <1>1, <1>2, <1>3, <2>1, <2>2, Zenon
    <2>. QED BY <1>2, <2>3 DEF VersionsTypeOK
  <1>5. ClusterTypeOK' /\ EnvironmentTypeOK'
    BY <1>1, KeepCluster, KeepEnvironment
  <1>6. WorkerTypeOK' /\ WorkerConsistent'
    BY <1>1, <1>2, SameWorker
  <1>7. ReleaseGuarded'
    BY <1>1, <1>2, KeepRelease
  <1>. QED BY <1>2, <1>4, <1>5, <1>6, <1>7 DEF TypeOK

\* An edit of spec.hibernated leaves phase and finalizers as they are.
LEMMA SetHibernatedStep == Inductive /\ setHibernated => Inductive'
  <1>. SUFFICES ASSUME Inductive, setHibernated PROVE Inductive'
    OBVIOUS
  <1>. DEFINE v == [Server EXCEPT !.hibernated = ~Server.hibernated]
  <1>1. /\ edits < MaxEdits /\ edits' = edits + 1 /\ Server.phase # "gone"
        /\ UNCHANGED <<queued, worker, cluster, adopted, ws, crashes>>
        /\ objs' = Append(objs, v) /\ Len(objs) <= MaxLag
    BY DEF setHibernated, Patch
  <1>2. v \in Version /\ Alike(v, Server)
    BY VersionsTyped, NoHistoryTyped, OtherUpdates
  <1>. HIDE DEF v
  <1>3. VersionsTypeOK' /\ CacheOrdered' /\ Server' = v
    BY <1>1, <1>2, AlikeWrite
  <1>4. WorkerTypeOK'
    BY <1>1 DEF TypeOK, WorkerTypeOK
  <1>5. WorkerConsistent'
    BY <1>1, <1>2, <1>3, AlikeKeepsWorker
  <1>6. ReleaseGuarded' /\ ClusterTypeOK'
    BY <1>1, <1>2, <1>3, KeepRelease, KeepCluster DEF Alike
  <1>7. EnvironmentTypeOK'
    BY <1>1, ConstantsAssumption DEF TypeOK, EnvironmentTypeOK
  <1>. QED BY <1>3, <1>4, <1>5, <1>6, <1>7 DEF TypeOK

\* A delete marks the module; it removes only one that has no finalizer, and
\* such a module owns no release.
LEMMA DeleteStep == Inductive /\ delete => Inductive'
  <1>. SUFFICES ASSUME Inductive, delete PROVE Inductive'
    OBVIOUS
  <1>1. /\ Server.phase # "gone" /\ Len(objs) <= MaxLag
        /\ UNCHANGED <<queued, worker, cluster, environment>>
    BY DEF delete, Patch
  <1>2. ClusterTypeOK' /\ EnvironmentTypeOK'
    BY <1>1, KeepCluster, KeepEnvironment
  <1>3. WorkerTypeOK'
    BY <1>1 DEF TypeOK, WorkerTypeOK
  <1>4. CASE HasFinalizer(Server)
    <2>. DEFINE v == [Server EXCEPT !.deleting = TRUE]
    <2>1. objs' = Append(objs, v)
      BY <1>4 DEF delete, Patch
    <2>2. v \in Version /\ Alike(v, Server)
      BY VersionsTyped, NoHistoryTyped, OtherUpdates
    <2>. HIDE DEF v
    <2>3. VersionsTypeOK' /\ CacheOrdered' /\ Server' = v
      BY <1>1, <2>1, <2>2, AlikeWrite
    <2>4. WorkerConsistent'
      BY <1>1, <2>2, <2>3, AlikeKeepsWorker
    <2>5. ReleaseGuarded'
      BY <1>1, <2>2, <2>3, KeepRelease DEF Alike
    <2>. QED BY <1>2, <1>3, <2>3, <2>4, <2>5 DEF TypeOK
  <1>5. CASE ~HasFinalizer(Server)
    <2>. DEFINE v == [Server EXCEPT !.deleting = TRUE, !.phase = "gone"]
    <2>1. objs' = Append(objs, v)
      BY <1>5 DEF delete, Patch
    <2>2. v \in Version /\ v.phase = "gone"
      BY VersionsTyped, Removed
    <2>. HIDE DEF v
    <2>3. VersionsTypeOK' /\ CacheOrdered' /\ Server' = v
      BY <1>1, <2>1, <2>2, WriteKeepsOrder
    <2>4. Server.phase = ""
      BY <1>1, <1>5, StaleReadIsSafe
    <2>5. WorkerConsistent'
      BY <1>1, <2>2, <2>3, <2>4 DEF WorkerConsistent
    <2>6. ReleaseGuarded'
      BY <1>1, <2>2, <2>3, <2>4 DEF ReleaseGuarded, NoReleaseLeftSilently, AdoptedReleaseKept,
         WorkerConsistent
    <2>. QED BY <1>2, <1>3, <2>3, <2>5, <2>6 DEF TypeOK
  <1>. QED BY <1>4, <1>5

\* The workspace moves on its own.
LEMMA WorkspaceStep == Inductive /\ (workspaceReady \/ workspaceMoves) => Inductive'
  <1>. SUFFICES ASSUME Inductive, workspaceReady \/ workspaceMoves PROVE Inductive'
    OBVIOUS
  <1>1. UNCHANGED <<objs, queued, worker, cluster, adopted, edits, crashes>>
    BY DEF workspaceReady, workspaceMoves
  <1>2. ws' \in WorkspaceState
    <2>1. ws \in WorkspaceState
      BY DEF TypeOK, EnvironmentTypeOK
    <2>2. CASE workspaceReady
      BY <2>1, <2>2 DEF workspaceReady, WorkspaceState
    <2>3. CASE workspaceMoves
      BY <2>3 DEF workspaceMoves, WorkspaceShown
    <2>. QED BY <2>2, <2>3
  <1>3. VersionsTypeOK' /\ CacheOrdered' /\ Server' = Server /\ ClusterTypeOK'
    BY <1>1, NoWrite, KeepCluster
  <1>4. EnvironmentTypeOK'
    BY <1>1, <1>2 DEF TypeOK, EnvironmentTypeOK
  <1>6. WorkerTypeOK' /\ WorkerConsistent'
    BY <1>1, <1>3, SameWorker DEF TypeOK, WorkerTypeOK
  <1>5. ReleaseGuarded'
    BY <1>1, <1>3, KeepRelease
  <1>. QED BY <1>3, <1>4, <1>5, <1>6 DEF TypeOK

\* Time ages the status; a restart forgets the worker.
LEMMA FiveMinutesStep == Inductive /\ fiveMinutesPass => Inductive'
  <1>. SUFFICES ASSUME Inductive, fiveMinutesPass PROVE Inductive'
    OBVIOUS
  <1>. DEFINE v == [Cached EXCEPT !.aged = TRUE]
  <1>1. /\ CacheIsCurrent /\ objs' = <<v>>
        /\ UNCHANGED <<queued, worker, cluster, environment>>
    BY DEF fiveMinutesPass
  <1>2. Cached = Server /\ Server \in Version
    BY <1>1, VersionsTyped
  <1>3. v \in Version /\ Alike(v, Server)
    BY <1>2, NoHistoryTyped, OtherUpdates
  <1>. HIDE DEF v
  <1>4. /\ CacheOrdered' /\ Server' = v
        /\ objs' \in Seq(Version) /\ Len(objs') = 1
    BY <1>1, <1>3, RelistKeepsOrder
  <1>5. VersionsTypeOK'
    BY <1>4, MaxLagAssumption DEF VersionsTypeOK
  <1>6. ClusterTypeOK' /\ EnvironmentTypeOK' /\ WorkerTypeOK'
    BY <1>1, KeepCluster, KeepEnvironment DEF TypeOK, WorkerTypeOK
  <1>7. WorkerConsistent'
    BY <1>1, <1>3, <1>4, AlikeKeepsWorker
  <1>8. ReleaseGuarded'
    BY <1>1, <1>3, <1>4, KeepRelease DEF Alike
  <1>. QED BY <1>4, <1>5, <1>6, <1>7, <1>8 DEF TypeOK

LEMMA RestartStep == Inductive /\ restart => Inductive'
  <1>. SUFFICES ASSUME Inductive, restart PROVE Inductive'
    OBVIOUS
  <1>1. /\ objs' = <<Server>> /\ queued' = TRUE /\ crashes < MaxCrashes
        /\ crashes' = crashes + 1 /\ cleanup' = FALSE
        /\ pc' = "idle" /\ goal' = "" /\ then' = "stop" /\ meta' = NoHistory
        /\ UNCHANGED <<outcome, deployed, live, adopted, edits>>
        /\ ws' = ws \/ ws' \in WorkspaceShown
    BY DEF restart
  <1>2. Server \in Version /\ Alike(Server, Server)
    BY VersionsTyped DEF Alike
  <1>3. /\ CacheOrdered' /\ Server' = Server
        /\ objs' \in Seq(Version) /\ Len(objs') = 1
    BY <1>1, <1>2, RelistKeepsOrder
  <1>4. VersionsTypeOK'
    BY <1>3, MaxLagAssumption DEF VersionsTypeOK
  <1>5. ClusterTypeOK' /\ EnvironmentTypeOK'
    <2>1. ClusterTypeOK'
      BY <1>1 DEF TypeOK, ClusterTypeOK
    <2>2. crashes' \in 0 .. MaxCrashes
      <3>1. crashes \in 0 .. MaxCrashes
        BY DEF TypeOK, EnvironmentTypeOK
      <3>. QED BY <1>1, <3>1, CounterFits, ConstantsAssumption, Zenon
    <2>4. ws' \in WorkspaceState
      BY <1>1 DEF TypeOK, EnvironmentTypeOK, WorkspaceShown
    <2>3. EnvironmentTypeOK'
      BY <1>1, <2>2, <2>4 DEF TypeOK, EnvironmentTypeOK
    <2>. QED BY <2>1, <2>3
  <1>6. WorkerTypeOK' /\ WorkerConsistent'
    BY <1>1, NoHistoryTyped DEF TypeOK, WorkerTypeOK, WorkerConsistent, ThenLabels
  <1>7. ReleaseGuarded'
    BY <1>1, <1>3 DEF ReleaseGuarded, NoReleaseLeftSilently, AdoptedReleaseKept
  <1>. QED BY <1>3, <1>4, <1>5, <1>6, <1>7 DEF TypeOK

-----------------------------------------------------------------------------
(* The theorems. *)

\* The initial states satisfy the invariant.
LEMMA InitInductive == Init => Inductive
  <1>. SUFFICES ASSUME Init PROVE Inductive
    OBVIOUS
  <1>1. PICK h \in BOOLEAN :
          objs = << [phase |-> "", hibernated |-> h, deleting |-> FALSE,
                     finalizers |-> {}, aged |-> FALSE, data |-> NoHistory] >>
    BY DEF Init
  <1>. DEFINE v == [phase |-> "", hibernated |-> h, deleting |-> FALSE,
                    finalizers |-> {}, aged |-> FALSE, data |-> NoHistory]
  <1>2. v \in Version /\ v.phase = "" /\ ~HasFinalizer(v)
    BY NoHistoryTyped DEF Version, HasFinalizer
  <1>3. objs = <<v>>
    BY <1>1
  <1>. HIDE DEF v
  <1>4. objs \in Seq(Version) /\ Len(objs) = 1 /\ objs[1] = v
    BY <1>2, <1>3, OneVersion
  <1>5. Server = v
    BY <1>4 DEF Server
  <1>6. VersionsTypeOK
    BY <1>4, MaxLagAssumption DEF VersionsTypeOK
  <1>7. CacheOrdered
    <2>1. \A i \in 1 .. Len(objs) : objs[i] = v
      BY <1>4
    <2>. QED BY <1>2, <1>5, <2>1 DEF CacheOrdered
  <1>8. WorkerTypeOK /\ WorkerConsistent
    BY NoHistoryTyped DEF Init, WorkerTypeOK, WorkerConsistent, ThenLabels
  <1>9. ClusterTypeOK
    BY ConstantsAssumption DEF Init, ClusterTypeOK, AllDown, Count
  <1>10. EnvironmentTypeOK
    <2>1. ws \in WorkspaceState
      BY DEF Init, WorkspaceState
    <2>2. edits \in 0 .. MaxEdits /\ crashes \in 0 .. MaxCrashes
      BY CounterFits, ConstantsAssumption, Zenon DEF Init
    <2>3. adopted \in BOOLEAN
      BY DEF Init
    <2>. QED BY <2>1, <2>2, <2>3 DEF EnvironmentTypeOK
  <1>11. ReleaseGuarded
    <2>1. deployed = adopted /\ cleanup = FALSE /\ pc = "idle"
      BY DEF Init
    <2>. QED BY <1>2, <1>5, <2>1 DEF ReleaseGuarded, NoReleaseLeftSilently, AdoptedReleaseKept
  <1>. QED BY <1>6, <1>7, <1>8, <1>9, <1>10, <1>11 DEF TypeOK

\* Every step keeps it.
LEMMA NextInductive == Inductive /\ [Next]_vars => Inductive'
  <1>. SUFFICES ASSUME Inductive, [Next]_vars PROVE Inductive'
    OBVIOUS
  <1>1. CASE Work
    BY <1>1, ReconcileStep, AddFinalizerStep, SetPhaseStep, DropFinalizerStep,
       WriteFailsStep, InstallModuleStep, PatchManagerDataStep, SleepModuleStep,
       ResumeModuleStep, UninstallModuleStep DEF Work
  <1>2. CASE Environment
    BY <1>2, CleanupStep, DeliverStep, SetHibernatedStep, DeleteStep, WorkspaceStep,
       FiveMinutesStep, RestartStep DEF Environment
  <1>3. CASE UNCHANGED vars
    <2>1. VersionsTypeOK' /\ CacheOrdered' /\ Server' = Server
      BY <1>3, NoWrite DEF vars
    <2>2. ClusterTypeOK' /\ EnvironmentTypeOK'
      BY <1>3, KeepCluster, KeepEnvironment DEF vars
    <2>3. WorkerTypeOK' /\ WorkerConsistent'
      BY <1>3, <2>1, SameWorker DEF vars, TypeOK, WorkerTypeOK
    <2>4. ReleaseGuarded'
      BY <1>3, <2>1, KeepRelease DEF vars
    <2>. QED BY <2>1, <2>2, <2>3, <2>4 DEF TypeOK
  <1>. QED BY <1>1, <1>2, <1>3 DEF Next

\* The invariant holds in every reachable state, whatever the workloads, the
\* faults, the lag of the cache and the number of edits and restarts.
THEOREM InductiveInvariant == Spec => []Inductive
  BY InitInductive, NextInductive, PTL DEF Spec

\* Every variable keeps its type.
THEOREM TypeCorrect == Spec => []TypeOK
  BY InductiveInvariant, PTL

\* A module that disappears without a reported failure leaves no release behind.
THEOREM ReleaseAccountedFor == Spec => []NoReleaseLeftSilently
  <1>1. Inductive => NoReleaseLeftSilently
    BY DEF ReleaseGuarded
  <1>. QED BY <1>1, InductiveInvariant, PTL

\* An adopted release is never uninstalled.
THEOREM AdoptionIsSafe == Spec => []AdoptedReleaseKept
  <1>1. Inductive => AdoptedReleaseKept
    BY DEF ReleaseGuarded
  <1>. QED BY <1>1, InductiveInvariant, PTL

\* A write makes the new version the server's.
LEMMA AppendedIsServer ==
    ASSUME TypeOK, NEW v \in Version, objs' = Append(objs, v)
    PROVE  Server' = v
  <1>1. objs \in Seq(Version) /\ Len(objs) \in Nat /\ Len(objs) >= 1
    BY VersionsTyped
  <1>2. Len(objs') = Len(objs) + 1 /\ objs'[Len(objs) + 1] = v
    BY <1>1, AppendVersion
  <1>. QED BY <1>2 DEF Server

\* Only setPhase gives the server's module a new phase, its removal aside.
LEMMA OthersKeepPhase ==
    ASSUME Inductive, [Next]_vars, ~setPhase
    PROVE  Server'.phase \in {Server.phase, "gone"}
  <1>0. Server \in Version /\ Cached \in Version /\ (CacheIsCurrent => Cached = Server)
    BY VersionsTyped
  <1>1. CASE UNCHANGED objs
    BY <1>1, NoWrite
  <1>2. CASE addFinalizer /\ ~UNCHANGED objs
    <2>. DEFINE v == [Cached EXCEPT !.finalizers = {"delete"}]
    <2>1. CacheIsCurrent /\ objs' = Append(objs, v)
      BY <1>2 DEF addFinalizer, Put
    <2>2. v \in Version /\ v.phase = Server.phase
      BY <1>0, <2>1, FinalizerAdded
    <2>. HIDE DEF v
    <2>. QED BY <2>1, <2>2, AppendedIsServer
  <1>3. CASE dropFinalizer
    <2>. DEFINE v == [Cached EXCEPT !.phase = "gone", !.finalizers = {}]
    <2>1. objs' = Append(objs, v) /\ v \in Version /\ v.phase = "gone"
      BY <1>0, <1>3, Removed DEF dropFinalizer, Put
    <2>. HIDE DEF v
    <2>. QED BY <2>1, AppendedIsServer
  <1>4. CASE \E v \in Version : Alike(v, Server) /\ objs' = Append(objs, v)
    BY <1>4, AppendedIsServer DEF Alike
  <1>5. CASE deliver
    BY <1>5, DeliverKeepsOrder DEF deliver
  <1>6. CASE delete /\ ~HasFinalizer(Server)
    <2>. DEFINE v == [Server EXCEPT !.deleting = TRUE, !.phase = "gone"]
    <2>1. objs' = Append(objs, v) /\ v \in Version /\ v.phase = "gone"
      BY <1>0, <1>6, Removed DEF delete, Patch
    <2>. HIDE DEF v
    <2>. QED BY <2>1, AppendedIsServer
  <1>7. CASE \E v \in Version : Alike(v, Server) /\ objs' = <<v>>
    BY <1>7, RelistKeepsOrder DEF Alike
  <1>8. (installModule \/ patchManagerData \/ setHibernated
          \/ (delete /\ HasFinalizer(Server))) /\ ~UNCHANGED objs
        => \E v \in Version : Alike(v, Server) /\ objs' = Append(objs, v)
    <2>1. meta \in History
      BY DEF TypeOK, WorkerTypeOK
    <2>2. installModule /\ ~UNCHANGED objs => objs' = Append(objs, Server)
      BY DEF installModule, adoptExistingHelmRelease, Patch
    <2>3. patchManagerData /\ ~UNCHANGED objs => objs' = Append(objs, [Server EXCEPT !.data = meta])
      BY DEF patchManagerData, Patch
    <2>4. setHibernated => objs' = Append(objs, [Server EXCEPT !.hibernated = ~Server.hibernated])
      BY DEF setHibernated, Patch
    <2>5. delete /\ HasFinalizer(Server) => objs' = Append(objs, [Server EXCEPT !.deleting = TRUE])
      BY DEF delete, Patch
    <2>. QED BY <1>0, <2>1, <2>2, <2>3, <2>4, <2>5, OtherUpdates, Zenon
  <1>9. fiveMinutesPass \/ restart => \E v \in Version : Alike(v, Server) /\ objs' = <<v>>
    <2>1. fiveMinutesPass => CacheIsCurrent /\ objs' = << [Cached EXCEPT !.aged = TRUE] >>
      BY DEF fiveMinutesPass
    <2>2. restart => objs' = <<Server>>
      BY DEF restart
    <2>. QED BY <1>0, <2>1, <2>2, NoHistoryTyped, OtherUpdates, Zenon
  <1>10. \/ UNCHANGED objs
         \/ addFinalizer \/ dropFinalizer \/ installModule \/ patchManagerData
         \/ deliver \/ setHibernated \/ delete \/ fiveMinutesPass \/ restart
    BY Zenon DEF Next, Work, Environment, vars, Reconcile, writeFails, sleepModule, resumeModule,
       uninstallModule, cleanupFailedInstall, workspaceReady, workspaceMoves
  <1>. QED BY <1>1, <1>2, <1>3, <1>4, <1>5, <1>6, <1>7, <1>8, <1>9, <1>10

\* A module past its installation is not installed again, by any step and
\* however stale the copy it started from.
THEOREM InstallsOnce == Spec => InstallNotRepeated
  <1>1. Inductive /\ [Next]_vars =>
          [(Server.phase)' = "installing" => Server.phase \in {"", "installing"}]_objs
    <2>. SUFFICES ASSUME Inductive, [Next]_vars, objs' # objs,
                         (Server.phase)' = "installing"
                  PROVE  Server.phase \in {"", "installing"}
      OBVIOUS
    <2>1. CASE setPhase
      <3>1. /\ pc = "setPhase" /\ CacheIsCurrent /\ Cached.phase # "gone"
            /\ objs' = Append(objs, WithPhase(Cached, goal))
        BY <2>1 DEF setPhase, Put
      <3>2. Cached \in Version /\ Cached = Server /\ goal \in Phase
        BY <3>1, VersionsTyped DEF TypeOK, WorkerTypeOK
      <3>3. WithPhase(Cached, goal) \in Version /\ WithPhase(Cached, goal).phase = goal
        BY <3>2, PhaseSet
      <3>4. Server' = WithPhase(Cached, goal)
        BY <3>1, <3>3, AppendedIsServer
      <3>5. goal = "installing"
        BY <3>3, <3>4
      <3>. QED BY <3>1, <3>2, <3>5 DEF WorkerConsistent
    <2>2. CASE ~setPhase
      <3>1. Server'.phase \in {Server.phase, "gone"}
        BY <2>2, OthersKeepPhase
      <3>. QED BY <3>1
    <2>. QED BY <2>1, <2>2
  <1>. QED BY <1>1, InductiveInvariant, PTL DEF Spec, InstallNotRepeated

=============================================================================
