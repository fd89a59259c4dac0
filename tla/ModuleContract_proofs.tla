------------------------ MODULE ModuleContract_proofs ------------------------
(* ModuleController keeps the promises of ModuleLife: proofs.                *)
EXTENDS ModuleController_proofs, ApiObject_proofs

USE DEF Settled, Transitional, Phase

-----------------------------------------------------------------------------
(* The order of the phases. *)

LEMMA AfterTable ==
    /\ Life!After("gone") = {""}
    /\ Life!After("") = {"installing", "gone"}
    /\ Life!After("installing") = {"ready", "failed"}
    /\ Life!After("ready") = {"sleeping", "uninstalling", "failed"}
    /\ Life!After("sleeping") = {"sleeped", "uninstalling", "failed"}
    /\ Life!After("sleeped") = {"resuming", "uninstalling", "failed"}
    /\ Life!After("resuming") = {"ready", "uninstalling", "failed"}
    /\ Life!After("failed") = {"sleeping", "resuming", "uninstalling"}
    /\ Life!After("uninstalling") = {"gone"}
  BY DEF Life!After

LEMMA AfterUninstalling ==
    \A p \in Phase : "uninstalling" \in Life!After(p) => p \notin {"", "installing", "gone"}
  BY AfterTable

-----------------------------------------------------------------------------
(* The copies in flight. *)

USE DEF Inductive, TypeOK, worker, cluster, environment

LEMMA Versions ==
    ASSUME Inductive
    PROVE  /\ objs \in Seq(Version) /\ Len(objs) \in 1 .. MaxLag + 1
           /\ InFlight \subseteq Version /\ Cached \in InFlight /\ Server \in InFlight
           /\ Cached \in Version /\ Server \in Version
           /\ CacheIsCurrent => Cached = Server /\ InFlight = {Server}
           /\ \A v \in InFlight : v.phase \in Phase
  <1>1. objs \in Seq(Version) /\ Len(objs) \in 1 .. MaxLag + 1
    BY DEF VersionsTypeOK
  <1>2. InFlight \subseteq Version
    BY <1>1, InFlightTyped
  <1>3. \A v \in InFlight : v.phase \in Phase
    BY <1>2 DEF Version
  <1>. QED BY <1>1, <1>2, <1>3, InFlightTyped, CurrentCache

\* CacheOrdered, of copies instead of places in the list.
LEMMA CopiesOrdered ==
    ASSUME Inductive, NEW v \in InFlight
    PROVE  /\ v.phase \notin {"", "gone"} => HasFinalizer(v)
           /\ v.phase = "gone" => Server.phase = "gone"
           /\ Server.phase = "" => v.phase = ""
  <1>1. PICK i \in 1 .. Len(objs) : v = objs[i]
    BY Zenon DEF InFlight
  <1>. QED BY <1>1 DEF CacheOrdered, Server

\* A write on the newest version follows the order; any other one keeps the phase, or
\* removes a module nothing was done for.
LEMMA WriteInOrder ==
    ASSUME Inductive, CopiesInOrder, NEW v \in Version, objs' = Append(objs, v),
           Server.deleting => v.deleting,
           \/ Len(objs) <= MaxLag /\ v.phase = Server.phase
           \/ Len(objs) <= MaxLag /\ v.phase = "gone" /\ Server.phase = ""
           \/ /\ CacheIsCurrent /\ v.phase \in {Server.phase} \cup Life!After(Server.phase)
              /\ v.phase = "uninstalling" => Server.deleting
    PROVE  CopiesInOrder' /\ Server' = v /\ InFlight' = InFlight \cup {v}
  <1>1. /\ objs \in Seq(Version) /\ Len(objs) \in 1 .. MaxLag + 1
        /\ CacheIsCurrent => InFlight = {Server}
        /\ Server \in InFlight
    BY Versions
  <1>2. Server' = v /\ InFlight' = InFlight \cup {v}
    BY <1>1, WriteInFlight
  <1>3. ASSUME NEW w \in InFlight
        PROVE  /\ v.phase \in {w.phase} \cup Life!After(w.phase)
               /\ w.deleting => v.deleting
               /\ v.phase = "uninstalling" => w.deleting
    <2>1. /\ Server.phase \in {w.phase} \cup Life!After(w.phase)
          /\ w.deleting => Server.deleting
          /\ Server.phase = "uninstalling" => w.deleting
      BY DEF CopiesInOrder
    <2>2. CASE v.phase = Server.phase
      BY <2>1, <2>2
    <2>3. CASE v.phase = "gone" /\ Server.phase = ""
      BY <2>1, <2>3, CopiesOrdered, AfterTable
    <2>4. CASE /\ CacheIsCurrent /\ v.phase \in {Server.phase} \cup Life!After(Server.phase)
               /\ v.phase = "uninstalling" => Server.deleting
      BY <1>1, <2>1, <2>4
    <2>. QED BY <2>2, <2>3, <2>4
  <1>4. v.phase = "uninstalling" => v.deleting
    BY <1>1, <1>3
  <1>. QED BY <1>2, <1>3, <1>4 DEF CopiesInOrder

LEMMA FewerInOrder ==
    ASSUME CopiesInOrder, InFlight' \subseteq InFlight, Server' = Server
    PROVE  CopiesInOrder'
  BY DEF CopiesInOrder

\* The updates the actions make of a version.
LEMMA PhaseUpdate ==
    ASSUME NEW v \in Version, NEW p \in Phase
    PROVE  /\ WithPhase(v, p) \in Version /\ WithPhase(v, p).phase = p
           /\ WithPhase(v, p).deleting = v.deleting /\ WithPhase(v, p).data = v.data
  BY DEF Version, WithPhase

LEMMA FieldUpdate ==
    ASSUME NEW v \in Version, NEW d \in History
    PROVE  /\ [v EXCEPT !.data = d] \in Version
           /\ [v EXCEPT !.data = d].phase = v.phase
           /\ [v EXCEPT !.data = d].deleting = v.deleting
           /\ [v EXCEPT !.data = d].data = d
           /\ [v EXCEPT !.hibernated = ~v.hibernated] \in Version
           /\ [v EXCEPT !.hibernated = ~v.hibernated].phase = v.phase
           /\ [v EXCEPT !.hibernated = ~v.hibernated].deleting = v.deleting
           /\ [v EXCEPT !.hibernated = ~v.hibernated].data = v.data
           /\ [v EXCEPT !.aged = TRUE] \in Version
           /\ [v EXCEPT !.aged = TRUE].phase = v.phase
           /\ [v EXCEPT !.aged = TRUE].deleting = v.deleting
           /\ [v EXCEPT !.aged = TRUE].data = v.data
           /\ [v EXCEPT !.finalizers = {"delete"}] \in Version
           /\ [v EXCEPT !.finalizers = {"delete"}].phase = v.phase
           /\ [v EXCEPT !.finalizers = {"delete"}].deleting = v.deleting
           /\ [v EXCEPT !.finalizers = {"delete"}].data = v.data
  BY DEF Version

LEMMA RemovalUpdate ==
    ASSUME NEW v \in Version
    PROVE  /\ [v EXCEPT !.phase = "gone", !.finalizers = {}] \in Version
           /\ [v EXCEPT !.phase = "gone", !.finalizers = {}].phase = "gone"
           /\ [v EXCEPT !.phase = "gone", !.finalizers = {}].deleting = v.deleting
           /\ [v EXCEPT !.deleting = TRUE] \in Version
           /\ [v EXCEPT !.deleting = TRUE].phase = v.phase
           /\ [v EXCEPT !.deleting = TRUE].deleting = TRUE
           /\ [v EXCEPT !.deleting = TRUE].data = v.data
           /\ [v EXCEPT !.deleting = TRUE, !.phase = "gone"] \in Version
           /\ [v EXCEPT !.deleting = TRUE, !.phase = "gone"].phase = "gone"
           /\ [v EXCEPT !.deleting = TRUE, !.phase = "gone"].deleting = TRUE
  BY DEF Version

-----------------------------------------------------------------------------
(* What the worker's steps do to the phase and to what it will do next. *)

\* The branches of Reconcile, by the cached copy they are taken on.
LEMMA Decision ==
    ASSUME Reconcile
    PROVE  /\ UNCHANGED <<objs, outcome, cluster, environment>> /\ pc = "idle"
           /\ \/ UNCHANGED <<pc, goal, then, meta>>
              \/ pc' = "addFinalizer" /\ Cached.phase = ""
              \/ /\ pc' = "setPhase" /\ goal' = "uninstalling"
                 /\ Cached.deleting /\ Cached.phase \in Settled
              \/ /\ pc' = "setPhase" /\ goal' = "sleeping"
                 /\ ~Cached.deleting /\ Cached.phase = "ready"
              \/ /\ pc' = "setPhase" /\ goal' = "resuming"
                 /\ ~Cached.deleting /\ Cached.phase = "sleeped"
              \/ /\ pc' = "setPhase" /\ goal' = "failed"
                 /\ ~Cached.deleting /\ Cached.phase \in Transitional
  <1>1. UNCHANGED <<objs, outcome, cluster, environment>> /\ pc = "idle"
    BY DEF Reconcile
  <1>2. Start(Cached) \/ UNCHANGED <<pc, goal, then, meta>>
    BY DEF Reconcile
  <1>. QED BY <1>1, <1>2 DEF Start, handleDeletion, DeletionProceeds, handleHibernation,
              HibernationCase, TimedOut, CallSetPhase, GoTo

\* The status write and what follows it.
LEMMA StatusWrite ==
    ASSUME Inductive, setPhase
    PROVE  \E v \in Version :
             /\ objs' = Append(objs, v) /\ CacheIsCurrent
             /\ v.phase = goal /\ v.deleting = Server.deleting /\ v.data = Server.data
             /\ Server.phase # "gone" /\ pc = "setPhase"
             /\ UNCHANGED <<outcome, cluster, environment>>
             /\ \/ goal = "ready" /\ pc' = "setPhase" /\ goal' = "sleeping" /\ meta' = v.data
                \/ goal = "sleeped" /\ pc' = "setPhase" /\ goal' = "resuming" /\ meta' = v.data
                \/ pc' = "idle"
                \/ goal = "installing" /\ pc' = "install" /\ goal' = goal /\ meta' = v.data
                \/ goal = "uninstalling" /\ pc' = "uninstall" /\ goal' = goal /\ meta' = v.data
                \/ goal = "sleeping" /\ pc' = "sleep" /\ goal' = goal /\ meta' = v.data
                \/ goal = "resuming" /\ pc' = "resume" /\ goal' = goal /\ meta' = v.data
  <1>. DEFINE v == WithPhase(Cached, goal)
  <1>1. /\ UNCHANGED <<outcome, cluster, environment>>
        /\ pc = "setPhase" /\ Cached.phase # "gone"
        /\ CacheIsCurrent /\ objs' = Append(objs, v)
    BY DEF setPhase, Put
  <1>2. \/ then = "hibernate" /\ handleHibernation(v) /\ meta' = v.data
        \/ \E b \in BOOLEAN : Return(b)
        \/ /\ then \notin {"hibernate", "stop", "requeue"}
           /\ GoTo(then) /\ meta' = v.data
    BY DEF setPhase
  <1>3. Cached \in Version /\ Cached = Server /\ Server.phase # "gone"
    BY <1>1, Versions
  <1>4. goal \in Phase
    BY DEF WorkerTypeOK
  <1>5. /\ v \in Version /\ v.phase = goal /\ v.deleting = Server.deleting
        /\ v.data = Server.data
    BY <1>3, <1>4, PhaseUpdate
  <1>. HIDE DEF v
  <1>6. CASE then = "hibernate" /\ handleHibernation(v) /\ meta' = v.data
    <2>1. \/ goal = "ready" /\ pc' = "setPhase" /\ goal' = "sleeping"
          \/ goal = "sleeped" /\ pc' = "setPhase" /\ goal' = "resuming"
      BY <1>5, <1>6 DEF handleHibernation, HibernationCase, CallSetPhase
    <2>. QED BY <1>1, <1>3, <1>5, <1>6, <2>1
  <1>7. CASE \E b \in BOOLEAN : Return(b)
    <2>1. pc' = "idle"
      BY <1>7 DEF Return
    <2>. QED BY <1>1, <1>3, <1>5, <2>1
  <1>8. CASE /\ then \notin {"hibernate", "stop", "requeue"}
             /\ GoTo(then) /\ meta' = v.data
    <2>1. \/ goal = "installing" /\ then = "install"
          \/ goal = "uninstalling" /\ then = "uninstall"
          \/ goal = "sleeping" /\ then = "sleep"
          \/ goal = "resuming" /\ then = "resume"
      BY <1>1, <1>8 DEF WorkerConsistent
    <2>2. pc' = then /\ goal' = goal
      BY <1>8 DEF GoTo
    <2>. QED BY <1>1, <1>3, <1>5, <1>8, <2>1, <2>2
  <1>. QED BY <1>2, <1>6, <1>7, <1>8

-----------------------------------------------------------------------------
(* Every step keeps the copies and the worker in order. *)

InOrder == CopiesInOrder /\ WorkerInOrder

\* A worker that has returned, or is where nothing is promised, is in order.
LEMMA IdleInOrder ==
    ASSUME pc' \notin {"setPhase", "patch"}
    PROVE  WorkerInOrder'
  BY DEF WorkerInOrder

LEMMA ReturnsIdle ==
    ASSUME NEW b \in BOOLEAN, Return(b)
    PROVE  pc' = "idle" /\ meta' = NoHistory /\ goal' = ""
  BY DEF Return

\* A step of someone else.
LEMMA OthersInOrder ==
    ASSUME Inductive, WorkerInOrder, UNCHANGED <<pc, goal, then>>,
           Server.deleting => Server'.deleting,
           \/ Server'.phase = Server.phase
           \/ Server.phase = "" /\ Server'.phase = "gone"
    PROVE  WorkerInOrder'
  <1>1. pc = "patch" => Server.phase \in {"installing", "sleeping"}
    BY DEF WorkerConsistent
  <1>. QED BY <1>1 DEF WorkerInOrder

LEMMA ReconcileInOrder == Inductive /\ InOrder /\ Reconcile => InOrder'
  <1>. SUFFICES ASSUME Inductive, CopiesInOrder, WorkerInOrder, Reconcile
                PROVE  CopiesInOrder' /\ WorkerInOrder'
    BY DEF InOrder
  <1>1. Server' = Server /\ InFlight' = InFlight
    BY Decision, NoWriteInFlight
  <1>2. CopiesInOrder'
    BY <1>1, FewerInOrder
  <1>3. /\ Server.phase \in {Cached.phase} \cup Life!After(Cached.phase)
        /\ Cached.deleting => Server.deleting
        /\ Server.phase = "uninstalling" => Cached.deleting
    BY Versions DEF CopiesInOrder
  <1>4. CASE pc' \notin {"setPhase", "patch"}
    BY <1>2, <1>4, IdleInOrder
  <1>5. CASE pc' = "setPhase" /\ goal' = "uninstalling" /\ Cached.deleting /\ Cached.phase \in Settled
    BY <1>1, <1>2, <1>3, <1>5, AfterTable DEF WorkerInOrder
  <1>6. CASE pc' = "setPhase" /\ goal' = "sleeping" /\ ~Cached.deleting /\ Cached.phase = "ready"
    BY <1>1, <1>2, <1>3, <1>6, AfterTable DEF WorkerInOrder
  <1>7. CASE pc' = "setPhase" /\ goal' = "resuming" /\ ~Cached.deleting /\ Cached.phase = "sleeped"
    BY <1>1, <1>2, <1>3, <1>7, AfterTable DEF WorkerInOrder
  <1>8. CASE pc' = "setPhase" /\ goal' = "failed" /\ ~Cached.deleting /\ Cached.phase \in Transitional
    BY <1>1, <1>2, <1>3, <1>8, AfterTable DEF WorkerInOrder
  <1>. QED BY <1>4, <1>5, <1>6, <1>7, <1>8, Decision

LEMMA AddFinalizerInOrder == Inductive /\ InOrder /\ addFinalizer => InOrder' /\ Server'.phase = Server.phase
  <1>. SUFFICES ASSUME Inductive, CopiesInOrder, WorkerInOrder, addFinalizer
                PROVE  CopiesInOrder' /\ WorkerInOrder' /\ Server'.phase = Server.phase
    BY DEF InOrder
  <1>1. pc = "addFinalizer" /\ pc' = "setPhase" /\ goal' = "installing"
    BY DEF addFinalizer, CallSetPhase
  <1>2. Server.phase \in {"", "installing", "gone"}
    BY <1>1 DEF WorkerConsistent
  <1>3. CopiesInOrder' /\ Server'.phase = Server.phase
    <2>1. CASE UNCHANGED objs
      BY <2>1, NoWriteInFlight, FewerInOrder
    <2>2. CASE Put([Cached EXCEPT !.finalizers = {"delete"}])
      <3>. DEFINE v == [Cached EXCEPT !.finalizers = {"delete"}]
      <3>1. CacheIsCurrent /\ objs' = Append(objs, v)
        BY <2>2 DEF Put
      <3>2. Cached \in Version /\ Cached = Server
        BY <3>1, Versions
      <3>3. v \in Version /\ v.phase = Server.phase /\ v.deleting = Server.deleting
        BY <3>2, FieldUpdate, NoHistoryTyped
      <3>. HIDE DEF v
      <3>4. v.phase = "uninstalling" => Server.deleting
        BY <1>2, <3>3
      <3>. QED BY <3>1, <3>3, <3>4, WriteInOrder
    <2>. QED BY <2>1, <2>2 DEF addFinalizer
  <1>. QED BY <1>1, <1>2, <1>3, AfterTable DEF WorkerInOrder

LEMMA SetPhaseInOrder == Inductive /\ InOrder /\ setPhase => InOrder'
  <1>. SUFFICES ASSUME Inductive, CopiesInOrder, WorkerInOrder, setPhase
                PROVE  CopiesInOrder' /\ WorkerInOrder'
    BY DEF InOrder
  <1>1. PICK v \in Version :
          /\ objs' = Append(objs, v) /\ CacheIsCurrent
          /\ v.phase = goal /\ v.deleting = Server.deleting
          /\ Server.phase # "gone" /\ pc = "setPhase"
          /\ \/ goal = "ready" /\ pc' = "setPhase" /\ goal' = "sleeping"
             \/ goal = "sleeped" /\ pc' = "setPhase" /\ goal' = "resuming"
             \/ pc' \notin {"setPhase", "patch"}
    BY StatusWrite
  <1>2. /\ goal \in {Server.phase} \cup Life!After(Server.phase)
        /\ goal = "uninstalling" => Server.deleting
    BY <1>1 DEF WorkerInOrder
  <1>3. CopiesInOrder' /\ Server' = v
    BY <1>1, <1>2, WriteInOrder
  <1>4. WorkerInOrder'
    BY <1>1, <1>3, AfterTable DEF WorkerInOrder
  <1>. QED BY <1>3, <1>4

LEMMA DropFinalizerInOrder == Inductive /\ InOrder /\ dropFinalizer => InOrder'
  <1>. SUFFICES ASSUME Inductive, CopiesInOrder, WorkerInOrder, dropFinalizer
                PROVE  CopiesInOrder' /\ WorkerInOrder'
    BY DEF InOrder
  <1>. DEFINE v == [Cached EXCEPT !.phase = "gone", !.finalizers = {}]
  <1>1. CacheIsCurrent /\ objs' = Append(objs, v) /\ pc = "dropFinalizer" /\ pc' = "idle"
    BY DEF dropFinalizer, Put, Return
  <1>2. Server.phase = "uninstalling"
    BY <1>1 DEF WorkerConsistent
  <1>3. Cached \in Version /\ Cached = Server
    BY <1>1, Versions
  <1>4. v \in Version /\ v.phase = "gone" /\ v.deleting = Server.deleting
    BY <1>3, RemovalUpdate
  <1>. HIDE DEF v
  <1>5. v.phase \in Life!After(Server.phase)
    BY <1>2, <1>4, AfterTable
  <1>6. CopiesInOrder'
    BY <1>1, <1>4, <1>5, WriteInOrder
  <1>. QED BY <1>1, <1>6, IdleInOrder

\* What installModule does, by the way it ends.
LEMMA InstallEnds ==
    ASSUME installModule
    PROVE  /\ pc = "install" /\ UNCHANGED <<outcome, environment>>
           /\ \/ /\ pc' = "setPhase" /\ goal' = "failed"
                 /\ UNCHANGED <<objs, meta, cluster>>
              \/ pc' = "idle" /\ goal' = "" /\ UNCHANGED <<objs, cluster>>
              \/ /\ adopted /\ pc' = "setPhase" /\ goal' = "ready"
                 /\ Patch(Server) /\ UNCHANGED <<meta, cluster>>
              \/ /\ ~adopted /\ pc' = "patch" /\ goal' = "ready" /\ then' = "hibernate"
                 /\ UNCHANGED <<objs, meta>>
                 /\ deployed' = TRUE /\ live' = Replicas /\ UNCHANGED cleanup
              \/ /\ ~adopted /\ pc' = "patch" /\ goal' = "failed" /\ then' = "stop"
                 /\ UNCHANGED <<objs, meta>>
                 /\ cleanup' = TRUE \/ UNCHANGED cluster
                 /\ UNCHANGED live \/ (~deployed /\ live' = Replicas)
  <1>1. pc = "install" /\ UNCHANGED <<outcome, environment>>
    BY DEF installModule
  <1>2. CASE CallSetPhase("failed", "stop") /\ UNCHANGED <<objs, meta, cluster>>
    BY <1>1, <1>2 DEF CallSetPhase
  <1>3. CASE Return(TRUE) /\ UNCHANGED <<objs, cluster>>
    BY <1>1, <1>3 DEF Return
  <1>4. CASE adopted /\ adoptExistingHelmRelease
    BY <1>1, <1>4 DEF adoptExistingHelmRelease, CallSetPhase
  <1>5. CASE ~adopted /\ helmInstall /\ pc' = "patch" /\ UNCHANGED <<objs, meta>>
    <2>1. CASE /\ deployed' = TRUE /\ live' = Replicas /\ UNCHANGED cleanup
               /\ goal' = "ready" /\ then' = "hibernate"
      BY <1>1, <1>5, <2>1
    <2>2. CASE /\ cleanup' = TRUE /\ goal' = "failed" /\ then' = "stop"
               /\ \E made \in BOOLEAN :
                    /\ deployed' = (deployed \/ made)
                    /\ live' = IF made /\ ~deployed THEN Replicas ELSE live
      <3>1. PICK made \in BOOLEAN :
              /\ deployed' = (deployed \/ made)
              /\ live' = IF made /\ ~deployed THEN Replicas ELSE live
        BY <2>2
      <3>2. live' = live \/ (~deployed /\ live' = Replicas)
        BY <3>1
      <3>. QED BY <1>1, <1>5, <2>2, <3>2
    <2>3. CASE goal' = "failed" /\ then' = "stop" /\ UNCHANGED cluster
      BY <1>1, <1>5, <2>3
    <2>. QED BY <1>5, <2>1, <2>2, <2>3 DEF helmInstall, InstallRelease
  <1>. QED BY <1>2, <1>3, <1>4, <1>5 DEF installModule

LEMMA InstallInOrder == Inductive /\ InOrder /\ installModule => InOrder' /\ Server'.phase = Server.phase
  <1>. SUFFICES ASSUME Inductive, CopiesInOrder, WorkerInOrder, installModule
                PROVE  CopiesInOrder' /\ WorkerInOrder' /\ Server'.phase = Server.phase
    BY DEF InOrder
  <1>1. Server.phase = "installing"
    BY InstallEnds DEF WorkerConsistent
  <1>2. Server \in Version
    BY Versions
  <1>3. CopiesInOrder' /\ Server' = Server
    <2>1. CASE UNCHANGED objs
      BY <2>1, NoWriteInFlight, FewerInOrder
    <2>2. CASE Patch(Server)
      <3>1. objs' = Append(objs, Server) /\ Len(objs) <= MaxLag
        BY <2>2 DEF Patch
      <3>. QED BY <1>2, <3>1, WriteInOrder
    <2>. QED BY <2>1, <2>2, InstallEnds
  <1>4. pc' \in {"setPhase", "patch"} => goal' \in {"ready", "failed"}
    BY InstallEnds
  <1>. QED BY <1>1, <1>3, <1>4, AfterTable DEF WorkerInOrder

\* What the annotation patch does: when it cannot fail, the server has the history.
LEMMA PatchEnds ==
    ASSUME Inductive, CopiesInOrder, patchManagerData
    PROVE  /\ pc = "patch" /\ UNCHANGED <<outcome, cluster, environment>>
           /\ \/ then = "error" /\ pc' = "idle" /\ goal' = ""
              \/ then # "error" /\ pc' = "setPhase" /\ UNCHANGED <<goal, then, meta>>
           /\ CopiesInOrder'
           /\ Server'.phase = Server.phase /\ Server'.deleting = Server.deleting
           /\ \A w \in InFlight' : w \in InFlight \/ w.phase = Server.phase
           /\ "patch" \notin Faults => Server'.data = meta
  <1>1. /\ pc = "patch" /\ UNCHANGED <<outcome, cluster, environment>>
        /\ \/ then = "error" /\ pc' = "idle" /\ goal' = ""
           \/ then # "error" /\ pc' = "setPhase" /\ UNCHANGED <<goal, then, meta>>
    BY DEF patchManagerData, Return
  <1>2. CASE UNCHANGED objs /\ (meta = Server.data \/ "patch" \in Faults)
    <2>1. Server' = Server /\ InFlight' = InFlight
      BY <1>2, NoWriteInFlight
    <2>. QED BY <1>1, <1>2, <2>1, FewerInOrder
  <1>3. CASE Patch([Server EXCEPT !.data = meta])
    <2>. DEFINE v == [Server EXCEPT !.data = meta]
    <2>1. objs' = Append(objs, v) /\ Len(objs) <= MaxLag
      BY <1>3 DEF Patch
    <2>2. Server \in Version /\ meta \in History
      BY Versions DEF WorkerTypeOK
    <2>3. /\ v \in Version /\ v.phase = Server.phase /\ v.deleting = Server.deleting
          /\ v.data = meta
      BY <2>2, FieldUpdate
    <2>. HIDE DEF v
    <2>4. CopiesInOrder' /\ Server' = v /\ InFlight' = InFlight \cup {v}
      BY <2>1, <2>3, WriteInOrder
    <2>. QED BY <1>1, <2>3, <2>4
  <1>. QED BY <1>2, <1>3 DEF patchManagerData

LEMMA PatchInOrder == Inductive /\ InOrder /\ patchManagerData => InOrder'
  <1>. SUFFICES ASSUME Inductive, CopiesInOrder, WorkerInOrder, patchManagerData
                PROVE  CopiesInOrder' /\ WorkerInOrder'
    BY DEF InOrder
  <1>1. /\ pc = "patch" /\ CopiesInOrder' /\ Server'.phase = Server.phase
        /\ \/ pc' = "idle"
           \/ then # "error" /\ pc' = "setPhase" /\ goal' = goal
    BY PatchEnds
  <1>2. then # "error" => goal \in Life!After(Server.phase)
    BY <1>1 DEF WorkerInOrder
  <1>3. Server.phase \in {"installing", "sleeping"}
    BY <1>1 DEF WorkerConsistent
  <1>4. "uninstalling" \in Life!After(Server.phase) => Server.phase = "sleeping"
    BY <1>3, AfterTable
  <1>5. then # "error" => goal # "uninstalling"
    BY <1>1 DEF WorkerConsistent
  <1>. QED BY <1>1, <1>2, <1>5 DEF WorkerInOrder

\* sleepModule, resumeModule and uninstallModule write no version.
LEMMA OperationsInOrder ==
    Inductive /\ InOrder /\ (sleepModule \/ resumeModule \/ uninstallModule) => InOrder'
  <1>. SUFFICES ASSUME Inductive, CopiesInOrder, WorkerInOrder,
                       sleepModule \/ resumeModule \/ uninstallModule
                PROVE  CopiesInOrder' /\ WorkerInOrder'
    BY DEF InOrder
  <1>1. UNCHANGED objs
    BY DEF sleepModule, resumeModule, uninstallModule
  <1>2. CopiesInOrder' /\ Server' = Server
    BY <1>1, NoWriteInFlight, FewerInOrder
  <1>3. CASE sleepModule
    <2>1. pc = "sleep" /\ (pc' = "idle" \/ (pc' = "patch" /\ (then' = "error" \/ goal' = "sleeped")))
      BY <1>3 DEF sleepModule, Return
    <2>2. Server.phase = "sleeping"
      BY <2>1 DEF WorkerConsistent
    <2>. QED BY <1>2, <2>1, <2>2, AfterTable DEF WorkerInOrder
  <1>4. CASE resumeModule
    <2>1. pc = "resume" /\ (pc' = "idle" \/ (pc' = "setPhase" /\ goal' = "ready"))
      BY <1>4 DEF resumeModule, Return, CallSetPhase
    <2>2. Server.phase = "resuming"
      BY <2>1 DEF WorkerConsistent
    <2>. QED BY <1>2, <2>1, <2>2, AfterTable DEF WorkerInOrder
  <1>5. CASE uninstallModule
    <2>1. pc' = "dropFinalizer"
      BY <1>5 DEF uninstallModule, GoTo
    <2>. QED BY <1>2, <2>1, IdleInOrder
  <1>. QED BY <1>3, <1>4, <1>5

LEMMA WriteFailsInOrder == Inductive /\ InOrder /\ writeFails => InOrder'
  <1>. SUFFICES ASSUME Inductive, CopiesInOrder, WorkerInOrder, writeFails
                PROVE  CopiesInOrder' /\ WorkerInOrder'
    BY DEF InOrder
  <1>1. UNCHANGED objs /\ pc' = "idle"
    BY DEF writeFails, Return
  <1>2. CopiesInOrder'
    BY <1>1, NoWriteInFlight, FewerInOrder
  <1>. QED BY <1>1, <1>2, IdleInOrder

\* What the environment does to the object: it edits it, marks it as deleted, removes
\* it while it is new, ages it, or brings the cache up to date.
LEMMA EnvironmentEnds ==
    ASSUME Inductive, CopiesInOrder, Environment, ~restart
    PROVE  /\ UNCHANGED worker /\ UNCHANGED adopted /\ CopiesInOrder'
           /\ Server.deleting => Server'.deleting
           /\ \/ Server'.phase = Server.phase /\ Server'.data = Server.data
              \/ Server.phase = "" /\ Server'.phase = "gone"
           /\ \A w \in InFlight' : w \in InFlight \/ w.phase = Server'.phase
           /\ UNCHANGED cluster \/ cleanupFailedInstall
  <1>0. Server \in Version /\ Server \in InFlight /\ objs \in Seq(Version) /\ Len(objs) \in 1 .. MaxLag + 1
    BY Versions
  <1>1. CASE cleanupFailedInstall
    <2>1. UNCHANGED objs /\ UNCHANGED worker /\ UNCHANGED adopted
      BY <1>1 DEF cleanupFailedInstall
    <2>2. Server' = Server /\ InFlight' = InFlight /\ CopiesInOrder'
      BY <2>1, NoWriteInFlight, FewerInOrder
    <2>. QED BY <1>1, <2>1, <2>2
  <1>2. CASE workspaceReady \/ workspaceMoves
    <2>1. UNCHANGED objs /\ UNCHANGED worker /\ UNCHANGED adopted /\ UNCHANGED cluster
      BY <1>2 DEF workspaceReady, workspaceMoves
    <2>2. Server' = Server /\ InFlight' = InFlight /\ CopiesInOrder'
      BY <2>1, NoWriteInFlight, FewerInOrder
    <2>. QED BY <2>1, <2>2
  <1>3. CASE deliver
    <2>1. /\ UNCHANGED worker /\ UNCHANGED adopted /\ UNCHANGED cluster
          /\ Len(objs) > 1 /\ objs' = Tail(objs)
      BY <1>3 DEF deliver
    <2>2. Server' = Server /\ InFlight' \subseteq InFlight
      BY <1>0, <2>1, DeliverInFlight
    <2>. QED BY <2>1, <2>2, FewerInOrder
  <1>4. CASE setHibernated
    <2>. DEFINE v == [Server EXCEPT !.hibernated = ~Server.hibernated]
    <2>1. /\ UNCHANGED worker /\ UNCHANGED adopted /\ UNCHANGED cluster
          /\ objs' = Append(objs, v) /\ Len(objs) <= MaxLag
      BY <1>4 DEF setHibernated, Patch
    <2>2. /\ v \in Version /\ v.phase = Server.phase /\ v.deleting = Server.deleting
          /\ v.data = Server.data
      BY <1>0, FieldUpdate, NoHistoryTyped
    <2>. HIDE DEF v
    <2>3. CopiesInOrder' /\ Server' = v /\ InFlight' = InFlight \cup {v}
      BY <2>1, <2>2, WriteInOrder
    <2>. QED BY <2>1, <2>2, <2>3
  <1>5. CASE delete /\ HasFinalizer(Server)
    <2>. DEFINE v == [Server EXCEPT !.deleting = TRUE]
    <2>1. /\ UNCHANGED worker /\ UNCHANGED adopted /\ UNCHANGED cluster
          /\ objs' = Append(objs, v) /\ Len(objs) <= MaxLag
      BY <1>5 DEF delete, Patch
    <2>2. /\ v \in Version /\ v.phase = Server.phase /\ v.deleting = TRUE
          /\ v.data = Server.data
      BY <1>0, RemovalUpdate
    <2>. HIDE DEF v
    <2>3. CopiesInOrder' /\ Server' = v /\ InFlight' = InFlight \cup {v}
      BY <2>1, <2>2, WriteInOrder
    <2>. QED BY <2>1, <2>2, <2>3
  <1>6. CASE delete /\ ~HasFinalizer(Server)
    <2>. DEFINE v == [Server EXCEPT !.deleting = TRUE, !.phase = "gone"]
    <2>1. /\ UNCHANGED worker /\ UNCHANGED adopted /\ UNCHANGED cluster
          /\ objs' = Append(objs, v) /\ Len(objs) <= MaxLag /\ Server.phase # "gone"
      BY <1>6 DEF delete, Patch
    <2>2. v \in Version /\ v.phase = "gone" /\ v.deleting = TRUE
      BY <1>0, RemovalUpdate
    <2>. HIDE DEF v
    <2>3. Server.phase = ""
      BY <1>0, <1>6, <2>1, CopiesOrdered
    <2>4. CopiesInOrder' /\ Server' = v /\ InFlight' = InFlight \cup {v}
      BY <2>1, <2>2, <2>3, WriteInOrder
    <2>. QED BY <2>1, <2>2, <2>3, <2>4
  <1>7. CASE fiveMinutesPass
    <2>. DEFINE v == [Cached EXCEPT !.aged = TRUE]
    <2>1. /\ UNCHANGED worker /\ UNCHANGED adopted /\ UNCHANGED cluster
          /\ objs' = <<v>> /\ CacheIsCurrent
      BY <1>7 DEF fiveMinutesPass
    <2>2. Cached = Server
      BY <2>1, Versions
    <2>3. /\ v \in Version /\ v.phase = Server.phase /\ v.deleting = Server.deleting
          /\ v.data = Server.data
      BY <1>0, <2>2, FieldUpdate, NoHistoryTyped
    <2>. HIDE DEF v
    <2>4. Server' = v /\ InFlight' = {v}
      BY <2>1, <2>3, RelistInFlight
    <2>5. v.phase = "uninstalling" => v.deleting
      BY <1>0, <2>3 DEF CopiesInOrder
    <2>6. CopiesInOrder'
      BY <2>4, <2>5 DEF CopiesInOrder
    <2>. QED BY <2>1, <2>3, <2>4, <2>6
  <1>. QED BY <1>1, <1>2, <1>3, <1>4, <1>5, <1>6, <1>7 DEF Environment

LEMMA RestartEnds ==
    ASSUME Inductive, CopiesInOrder, restart
    PROVE  /\ CopiesInOrder' /\ Server' = Server /\ InFlight' = {Server}
           /\ pc' = "idle" /\ cleanup' = FALSE /\ UNCHANGED <<deployed, live, adopted>>
  <1>1. Server \in Version /\ Server \in InFlight
    BY Versions
  <1>2. /\ pc' = "idle" /\ cleanup' = FALSE /\ UNCHANGED <<deployed, live, adopted>>
        /\ objs' = <<Server>>
    BY DEF restart
  <1>3. Server' = Server /\ InFlight' = {Server}
    BY <1>1, <1>2, RelistInFlight
  <1>4. CopiesInOrder'
    BY <1>1, <1>3, FewerInOrder
  <1>. QED BY <1>2, <1>3, <1>4

LEMMA EnvironmentInOrder == Inductive /\ InOrder /\ Environment => InOrder'
  <1>. SUFFICES ASSUME Inductive, CopiesInOrder, WorkerInOrder, Environment
                PROVE  CopiesInOrder' /\ WorkerInOrder'
    BY DEF InOrder
  <1>1. CASE restart
    BY <1>1, RestartEnds, IdleInOrder
  <1>2. CASE ~restart
    BY <1>2, EnvironmentEnds, OthersInOrder
  <1>. QED BY <1>1, <1>2

LEMMA NextInOrder == Inductive /\ InOrder /\ [Next]_vars => InOrder'
  <1>. SUFFICES ASSUME Inductive, InOrder, [Next]_vars PROVE InOrder'
    OBVIOUS
  <1>1. CASE Work
    BY <1>1, ReconcileInOrder, AddFinalizerInOrder, SetPhaseInOrder, DropFinalizerInOrder,
       WriteFailsInOrder, InstallInOrder, PatchInOrder, OperationsInOrder DEF Work
  <1>2. CASE Environment
    BY <1>2, EnvironmentInOrder
  <1>3. CASE UNCHANGED vars
    <2>1. UNCHANGED objs /\ UNCHANGED <<pc, goal, then>>
      BY <1>3 DEF vars
    <2>2. Server' = Server /\ InFlight' = InFlight
      BY <2>1, NoWriteInFlight
    <2>. QED BY <2>1, <2>2, FewerInOrder, OthersInOrder DEF InOrder
  <1>. QED BY <1>1, <1>2, <1>3 DEF Next

LEMMA InitInOrder == Init => InOrder
  <1>. SUFFICES ASSUME Init PROVE InOrder
    OBVIOUS
  <1>1. PICK h \in BOOLEAN :
          objs = << [phase |-> "", hibernated |-> h, deleting |-> FALSE,
                     finalizers |-> {}, aged |-> FALSE, data |-> NoHistory] >>
    BY DEF Init
  <1>. DEFINE v == [phase |-> "", hibernated |-> h, deleting |-> FALSE,
                    finalizers |-> {}, aged |-> FALSE, data |-> NoHistory]
  <1>2. v \in Version /\ v.phase = ""
    BY NoHistoryTyped DEF Version
  <1>3. objs = <<v>>
    BY <1>1
  <1>. HIDE DEF v
  <1>4. Server = v /\ InFlight = {v}
    BY <1>2, <1>3, FirstVersion
  <1>5. pc = "idle"
    BY DEF Init
  <1>. QED BY <1>2, <1>4, <1>5 DEF InOrder, CopiesInOrder, WorkerInOrder

-----------------------------------------------------------------------------
(* The order of the phases, whatever fails. *)

LEMMA PhaseStepInOrder ==
    ASSUME Inductive, InOrder, [Next]_vars
    PROVE  Server'.phase \in {Server.phase} \cup Life!After(Server.phase)
  <1>1. CASE UNCHANGED objs
    BY <1>1, NoWriteInFlight
  <1>2. CASE addFinalizer \/ installModule
    BY <1>2, AddFinalizerInOrder, InstallInOrder
  <1>3. CASE setPhase
    <2>1. PICK v \in Version : /\ objs' = Append(objs, v) /\ CacheIsCurrent /\ v.phase = goal
                               /\ Server.phase # "gone" /\ pc = "setPhase"
      BY <1>3, StatusWrite
    <2>2. Server' = v
      BY <2>1, AppendedIsServer
    <2>. QED BY <2>1, <2>2 DEF InOrder, WorkerInOrder
  <1>4. CASE dropFinalizer
    <2>. DEFINE v == [Cached EXCEPT !.phase = "gone", !.finalizers = {}]
    <2>1. objs' = Append(objs, v) /\ pc = "dropFinalizer"
      BY <1>4 DEF dropFinalizer, Put
    <2>2. v \in Version /\ v.phase = "gone"
      BY Versions, RemovalUpdate
    <2>. HIDE DEF v
    <2>3. Server' = v
      BY <2>1, <2>2, AppendedIsServer
    <2>4. Server.phase = "uninstalling"
      BY <2>1 DEF WorkerConsistent
    <2>. QED BY <2>2, <2>3, <2>4, AfterTable
  <1>5. CASE patchManagerData
    BY <1>5, PatchEnds DEF InOrder
  <1>6. CASE Environment
    BY <1>6, EnvironmentEnds, RestartEnds, AfterTable DEF InOrder
  <1>7. CASE Reconcile \/ writeFails \/ sleepModule \/ resumeModule \/ uninstallModule
    BY <1>1, <1>7 DEF Reconcile, writeFails, sleepModule, resumeModule, uninstallModule
  <1>8. CASE UNCHANGED vars
    BY <1>1, <1>8 DEF vars
  <1>. QED BY <1>2, <1>3, <1>4, <1>5, <1>6, <1>7, <1>8 DEF Next, Work

\* No copy of a Module is more than one status write behind its server, and no worker
\* is about to write a phase that does not come next.
THEOREM OrderInvariant == Spec => [](Inductive /\ InOrder)
  BY InitInductive, NextInductive, InitInOrder, NextInOrder, PTL DEF Spec

\* Whatever fails and however stale the copies are that the worker decides on, the phases
\* of a Module come in the order of ModuleLife.
THEOREM PhasesComeInOrder == Spec => PhasesInOrder
  <1>1. Init => Server.phase \in Phase
    BY InitInductive, Versions
  <1>2. Inductive /\ InOrder /\ [Next]_vars => [Life!PhaseStep]_(Server.phase)
    BY PhaseStepInOrder DEF Life!PhaseStep
  <1>. QED BY <1>1, <1>2, OrderInvariant, PTL DEF Spec, PhasesInOrder, Life!PhaseSpec

-----------------------------------------------------------------------------
(* What is known of the application, when writes and scaling succeed. *)

Known == CleanupGuarded /\ WorkerKnows /\ CopiesTellTruth

\* In these phases of the server no copy can be one in which the module is settled.
LEMMA NoneSettled ==
    ASSUME CopiesInOrder, NEW w \in InFlight
    PROVE  /\ Server.phase \in {"", "installing", "resuming"} => w.phase # "ready"
           /\ Server.phase \in {"", "installing", "sleeping"} => w.phase # "sleeped"
  <1>1. Server.phase \in {w.phase} \cup Life!After(w.phase)
    BY DEF CopiesInOrder
  <1>. QED BY <1>1, AfterTable

LEMMA ReconcileKnows ==
    ASSUME Inductive, InOrder, Known, Reconcile
    PROVE  Known'
  <1>1. Server' = Server /\ InFlight' = InFlight
    BY Decision, NoWriteInFlight
  <1>2. /\ UNCHANGED <<cluster, adopted>> /\ pc = "idle"
    BY Decision
  <1>3. Cached \in InFlight /\ Server \in InFlight
    BY Versions
  <1>4. CleanupGuarded'
    <2>1. CASE ~cleanup
      BY <1>2, <2>1 DEF CleanupGuarded
    <2>2. CASE cleanup
      <3>1. /\ \A v \in InFlight : v.phase \in {"installing", "failed", "uninstalling", "gone"}
            /\ Server.phase # "installing"
        BY <1>2, <2>2 DEF CleanupGuarded, Known
      <3>2. \/ pc' = "idle"
            \/ pc' = "setPhase" /\ goal' \in {"failed", "uninstalling"}
        BY <1>2, <1>3, <3>1, Decision
      <3>. QED BY <1>1, <3>1, <3>2 DEF CleanupGuarded
    <2>. QED BY <2>1, <2>2
  <1>5. WorkerKnows'
    <2>1. /\ Server.phase \in {Cached.phase} \cup Life!After(Cached.phase)
          /\ Server.phase = "uninstalling" => Cached.deleting
      BY <1>3 DEF InOrder, CopiesInOrder
    <2>2. CASE pc' = "setPhase" /\ goal' = "sleeping" /\ ~Cached.deleting /\ Cached.phase = "ready"
      <3>1. Server.phase \notin {"uninstalling", "gone"}
        BY <2>1, <2>2, AfterTable
      <3>2. Up
        BY <1>2, <1>3, <2>2, <3>1 DEF Known, CopiesTellTruth
      <3>. QED BY <1>1, <1>2, <2>2, <3>2 DEF Known, WorkerKnows, Up
    <2>3. CASE pc' = "setPhase" /\ goal' = "resuming" /\ ~Cached.deleting /\ Cached.phase = "sleeped"
      <3>1. Server.phase \notin {"uninstalling", "gone"}
        BY <2>1, <2>3, AfterTable
      <3>2. Down /\ Server.data = Replicas
        BY <1>2, <1>3, <2>3, <3>1 DEF Known, CopiesTellTruth
      <3>. QED BY <1>1, <1>2, <2>3, <3>2 DEF Known, WorkerKnows, Down
    <2>4. CASE \/ pc' \in {"idle", "addFinalizer"}
               \/ pc' = "setPhase" /\ goal' \in {"uninstalling", "failed"}
      BY <1>1, <1>2, <2>4 DEF Known, WorkerKnows
    <2>. QED BY <1>2, <2>2, <2>3, <2>4, Decision
  <1>6. CopiesTellTruth'
    BY <1>1, <1>2 DEF Known, CopiesTellTruth, Up, Down
  <1>. QED BY <1>4, <1>5, <1>6 DEF Known

LEMMA AddFinalizerKnows ==
    ASSUME Inductive, InOrder, Known, addFinalizer
    PROVE  Known'
  <1>1. /\ pc = "addFinalizer" /\ pc' = "setPhase" /\ goal' = "installing"
        /\ UNCHANGED <<cluster, adopted>>
    BY DEF addFinalizer, CallSetPhase
  <1>2. Server.phase \in {"", "installing", "gone"}
    BY <1>1 DEF WorkerConsistent
  <1>3. Server'.phase = Server.phase /\ CopiesInOrder'
    BY AddFinalizerInOrder DEF InOrder
  <1>4. CleanupGuarded'
    BY <1>1 DEF Known, CleanupGuarded
  <1>5. WorkerKnows'
    BY <1>1, <1>3 DEF Known, WorkerKnows
  <1>6. CopiesTellTruth'
    <2>1. \A w \in InFlight' : Server'.phase # "gone" => w.phase \notin {"ready", "sleeped"}
      BY <1>2, <1>3, AfterTable DEF CopiesInOrder
    <2>. QED BY <2>1 DEF CopiesTellTruth
  <1>. QED BY <1>4, <1>5, <1>6 DEF Known

LEMMA SetPhaseKnows ==
    ASSUME Inductive, InOrder, Known, setPhase
    PROVE  Known'
  <1>1. PICK v \in Version :
          /\ objs' = Append(objs, v) /\ CacheIsCurrent
          /\ v.phase = goal /\ v.data = Server.data
          /\ Server.phase # "gone" /\ pc = "setPhase"
          /\ UNCHANGED <<cluster, adopted>>
          /\ \/ goal = "ready" /\ pc' = "setPhase" /\ goal' = "sleeping"
             \/ goal = "sleeped" /\ pc' = "setPhase" /\ goal' = "resuming"
             \/ pc' = "idle"
             \/ goal = "installing" /\ pc' = "install"
             \/ goal = "uninstalling" /\ pc' = "uninstall"
             \/ goal = "sleeping" /\ pc' = "sleep"
             \/ goal = "resuming" /\ pc' = "resume" /\ meta' = v.data
    BY StatusWrite
  <1>2. /\ InFlight = {Server} /\ objs \in Seq(Version) /\ Len(objs) \in 1 .. MaxLag + 1
    BY <1>1, Versions
  <1>3. Server' = v /\ InFlight' = {Server, v}
    BY <1>1, <1>2, WriteInFlight
  <1>4. goal \in {Server.phase} \cup Life!After(Server.phase)
    BY <1>1 DEF InOrder, WorkerInOrder
  <1>5. goal # ""
    BY <1>1 DEF WorkerConsistent
  <1>6. CleanupGuarded'
    <2>1. CASE ~cleanup
      BY <1>1, <2>1 DEF CleanupGuarded
    <2>2. CASE cleanup
      <3>1. \/ goal = "failed" /\ Server.phase = "installing"
            \/ /\ Server.phase \in {"installing", "failed", "uninstalling", "gone"}
               /\ goal \in {"failed", "uninstalling"}
        BY <1>1, <1>2, <2>2 DEF Known, CleanupGuarded
      <3>2. pc' \in {"idle", "uninstall"}
        BY <1>1, <3>1
      <3>. QED BY <1>1, <1>3, <3>1, <3>2 DEF CleanupGuarded
    <2>. QED BY <2>1, <2>2
  <1>7. WorkerKnows'
    <2>1. adopted /\ Server'.phase \in {"", "installing"} => live = Replicas
      <3>1. goal = "installing" => Server.phase \in {"", "installing"}
        BY <1>4, Versions, AfterTable
      <3>. QED BY <1>1, <1>3, <1>5, <3>1 DEF Known, WorkerKnows
    <2>2. /\ goal \in {"sleeping", "ready"} => Up
          /\ goal \in {"resuming", "sleeped"} => Down /\ Server.data = Replicas
      BY <1>1 DEF Known, WorkerKnows
    <2>3. (Up => Up') /\ (Down => Down')
      BY <1>1 DEF Up, Down
    <2>. QED BY <1>1, <1>3, <2>1, <2>2, <2>3 DEF WorkerKnows
  <1>8. CopiesTellTruth'
    <2>1. /\ goal = "ready" => Up
          /\ goal = "sleeped" => Down /\ Server.data = Replicas
      BY <1>1 DEF Known, WorkerKnows
    <2>2. /\ Server.phase = "ready" => Up
          /\ Server.phase = "sleeped" => Down /\ Server.data = Replicas
      <3>1. Server.phase = "ready" => goal # "sleeped"
        BY <1>4, AfterTable
      <3>2. Server.phase = "sleeped" => goal # "ready"
        BY <1>4, AfterTable
      <3>. QED BY <1>1, <1>2, <3>1, <3>2 DEF Known, CopiesTellTruth
    <2>3. (Up => Up') /\ (Down => Down')
      BY <1>1 DEF Up, Down
    <2>. QED BY <1>1, <1>3, <2>1, <2>2, <2>3 DEF CopiesTellTruth
  <1>. QED BY <1>6, <1>7, <1>8 DEF Known

LEMMA DropFinalizerKnows ==
    ASSUME Inductive, InOrder, Known, dropFinalizer
    PROVE  Known'
  <1>. DEFINE v == [Cached EXCEPT !.phase = "gone", !.finalizers = {}]
  <1>1. /\ CacheIsCurrent /\ objs' = Append(objs, v) /\ pc = "dropFinalizer" /\ pc' = "idle"
        /\ UNCHANGED <<cluster, adopted>>
    BY DEF dropFinalizer, Put, Return
  <1>2. v \in Version /\ v.phase = "gone"
    BY Versions, RemovalUpdate
  <1>. HIDE DEF v
  <1>3. Server' = v /\ InFlight' = InFlight \cup {v}
    BY <1>1, <1>2, Versions, WriteInFlight
  <1>4. CleanupGuarded'
    BY <1>1, <1>2, <1>3 DEF Known, CleanupGuarded
  <1>5. WorkerKnows'
    BY <1>1, <1>2, <1>3 DEF WorkerKnows
  <1>6. CopiesTellTruth'
    BY <1>2, <1>3 DEF CopiesTellTruth
  <1>. QED BY <1>4, <1>5, <1>6 DEF Known

LEMMA WriteFailsKnows ==
    ASSUME Inductive, InOrder, Known, Reliable, writeFails
    PROVE  Known'
  <1>1. UNCHANGED <<objs, cluster, adopted>> /\ pc' = "idle" /\ Cached.phase = "gone"
    BY DEF writeFails, Return, Reliable
  <1>2. Server.phase = "gone" /\ Server' = Server /\ InFlight' = InFlight
    BY <1>1, Versions, CopiesOrdered, NoWriteInFlight
  <1>3. CleanupGuarded'
    BY <1>1, <1>2 DEF Known, CleanupGuarded
  <1>4. WorkerKnows'
    BY <1>1, <1>2 DEF WorkerKnows
  <1>5. CopiesTellTruth'
    BY <1>2 DEF CopiesTellTruth
  <1>. QED BY <1>3, <1>4, <1>5 DEF Known

LEMMA InstallKnows ==
    ASSUME Inductive, InOrder, Known, installModule
    PROVE  Known'
  <1>1. pc = "install" /\ UNCHANGED <<outcome, environment>>
    BY InstallEnds
  <1>2. Server.phase = "installing" /\ ~cleanup
    BY <1>1 DEF WorkerConsistent, Known, CleanupGuarded
  <1>3. Server'.phase = "installing" /\ CopiesInOrder'
    BY <1>2, InstallInOrder DEF InOrder
  <1>4. CopiesTellTruth'
    <2>1. \A w \in InFlight' : w.phase \notin {"ready", "sleeped"}
      BY <1>3, AfterTable DEF CopiesInOrder
    <2>. QED BY <2>1 DEF CopiesTellTruth
  <1>5. adopted => live = Replicas /\ deployed
    BY <1>2 DEF Known, WorkerKnows, ReleaseGuarded, AdoptedReleaseKept
  <1>6. CASE /\ UNCHANGED cluster
             /\ \/ pc' = "setPhase" /\ goal' = "failed"
                \/ pc' = "idle"
    BY <1>1, <1>2, <1>4, <1>5, <1>6 DEF Known, CleanupGuarded, WorkerKnows
  <1>7. CASE adopted /\ pc' = "setPhase" /\ goal' = "ready" /\ UNCHANGED cluster
    <2>1. Up'
      BY <1>2, <1>5, <1>7 DEF Up
    <2>. QED BY <1>1, <1>2, <1>4, <1>5, <1>7, <2>1 DEF Known, CleanupGuarded, WorkerKnows
  <1>8. CASE /\ ~adopted /\ pc' = "patch" /\ goal' = "ready" /\ then' = "hibernate"
             /\ deployed' = TRUE /\ live' = Replicas /\ UNCHANGED cleanup
    <2>1. Up'
      BY <1>2, <1>8 DEF Up
    <2>. QED BY <1>1, <1>2, <1>4, <1>8, <2>1 DEF Known, CleanupGuarded, WorkerKnows
  <1>9. CASE ~adopted /\ pc' = "patch" /\ goal' = "failed" /\ then' = "stop"
    BY <1>1, <1>3, <1>4, <1>9 DEF Known, CleanupGuarded, WorkerKnows
  <1>. QED BY <1>6, <1>7, <1>8, <1>9, InstallEnds

LEMMA PatchKnows ==
    ASSUME Inductive, InOrder, Known, Reliable, patchManagerData
    PROVE  Known'
  <1>1. /\ pc = "patch" /\ UNCHANGED <<outcome, cluster, environment>>
        /\ CopiesInOrder' /\ Server'.phase = Server.phase
        /\ \A w \in InFlight' : w \in InFlight \/ w.phase = Server.phase
        /\ Server'.data = meta
    BY PatchEnds DEF Reliable, InOrder
  <1>2. then # "error"
    BY <1>1 DEF Known, WorkerKnows
  <1>3. pc' = "setPhase" /\ goal' = goal
    BY <1>2, PatchEnds DEF InOrder
  <1>4. Server.phase \in {"installing", "sleeping"} /\ goal \in Settled
    BY <1>1, <1>2 DEF WorkerConsistent
  <1>5. (Up => Up') /\ (Down => Down')
    BY <1>1 DEF Up, Down
  <1>6. CleanupGuarded'
    <2>1. cleanup => goal = "failed" /\ Server.phase = "installing"
      BY <1>1 DEF Known, CleanupGuarded
    <2>. QED BY <1>1, <1>3, <2>1 DEF CleanupGuarded
  <1>7. WorkerKnows'
    <2>1. /\ goal = "ready" => Up
          /\ goal = "sleeped" => Down /\ meta = Replicas
          /\ adopted /\ Server.phase \in {"", "installing"} => live = Replicas
      BY <1>1 DEF Known, WorkerKnows
    <2>. QED BY <1>1, <1>3, <1>4, <1>5, <2>1 DEF WorkerKnows
  <1>8. CopiesTellTruth'
    <2>1. ASSUME NEW w \in InFlight'
          PROVE  /\ w.phase = "ready" => Up' \/ (pc' = "setPhase" /\ goal' = "sleeped")
                 /\ w.phase # "sleeped"
      <3>1. CASE w \in InFlight
        <4>1. w.phase = "ready" => Up \/ goal = "sleeped"
          BY <1>4, <3>1 DEF Known, CopiesTellTruth
        <4>2. w.phase # "sleeped"
          BY <1>4, <3>1, NoneSettled DEF InOrder
        <4>. QED BY <1>3, <1>5, <4>1, <4>2
      <3>2. CASE w.phase = Server.phase
        BY <1>4, <3>2
      <3>. QED BY <1>1, <3>1, <3>2
    <2>. QED BY <2>1 DEF CopiesTellTruth
  <1>. QED BY <1>6, <1>7, <1>8 DEF Known

\* The counts sleepModule finds and records when nothing fails are the chart's.
LEMMA SleepRecords ==
    ASSUME Inductive, Up, NEW down, NEW recorded \in SUBSET Present,
           down = Present, down \subseteq recorded, Sleep(down, recorded)
    PROVE  live' = AllDown /\ meta' = Replicas
  <1>1. Present = Workloads /\ down = Workloads /\ recorded = Workloads /\ live = Replicas
    BY DEF Up, Present
  <1>2. live' = AllDown
    BY <1>1 DEF Sleep, Scaled, AllDown
  <1>3. Replicas \in [Workloads -> Nat]
    BY ConstantsAssumption
  <1>4. CASE Workloads # {}
    <2>1. meta' = [w \in Workloads |-> Replicas[w]]
      BY <1>1, <1>4 DEF Sleep
    <2>. QED BY <1>2, <1>3, <2>1
  <1>5. CASE Workloads = {}
    <2>1. meta' = meta
      BY <1>1, <1>5 DEF Sleep
    <2>2. PICK S \in SUBSET Workloads : meta \in [S -> Count]
      BY DEF WorkerTypeOK, History
    <2>3. S = {}
      BY <1>5, <2>2
    <2>4. meta \in [{} -> Count] /\ Replicas \in [{} -> Nat]
      BY <1>3, <1>5, <2>2, <2>3
    <2>5. meta = [w \in {} |-> meta[w]] /\ Replicas = [w \in {} |-> Replicas[w]]
      BY <2>4
    <2>6. [w \in {} |-> meta[w]] = [w \in {} |-> Replicas[w]]
      OBVIOUS
    <2>. QED BY <1>2, <2>1, <2>5, <2>6
  <1>. QED BY <1>4, <1>5

LEMMA SleepKnows ==
    ASSUME Inductive, InOrder, Known, Reliable, sleepModule
    PROVE  Known'
  <1>1. pc = "sleep" /\ UNCHANGED <<objs, adopted>>
    BY DEF sleepModule
  <1>2. Server' = Server /\ InFlight' = InFlight /\ Server.phase = "sleeping"
    BY <1>1, NoWriteInFlight DEF WorkerConsistent
  <1>3. Up
    BY <1>1 DEF Known, WorkerKnows
  <1>4. CASE pc' = "idle" /\ UNCHANGED cluster
    <2>1. Up'
      BY <1>3, <1>4 DEF Up
    <2>2. CleanupGuarded'
      BY <2>1 DEF Up, CleanupGuarded
    <2>3. WorkerKnows'
      BY <1>2, <1>4 DEF WorkerKnows
    <2>4. CopiesTellTruth'
      BY <1>2, <2>1, NoneSettled DEF CopiesTellTruth, InOrder
    <2>. QED BY <2>2, <2>3, <2>4 DEF Known
  <1>5. CASE /\ pc' = "patch" /\ goal' = "sleeped" /\ then' = "hibernate"
             /\ live' = AllDown /\ meta' = Replicas /\ UNCHANGED <<deployed, cleanup>>
    <2>1. Down'
      BY <1>3, <1>5 DEF Up, Down
    <2>2. CleanupGuarded'
      BY <2>1 DEF Down, CleanupGuarded
    <2>3. WorkerKnows'
      BY <1>2, <1>5, <2>1 DEF WorkerKnows
    <2>4. CopiesTellTruth'
      BY <1>2, <1>5, NoneSettled DEF CopiesTellTruth, InOrder
    <2>. QED BY <2>2, <2>3, <2>4 DEF Known
  <1>6. \/ pc' = "idle" /\ UNCHANGED cluster
        \/ \E down \in SUBSET Present, recorded \in SUBSET Present :
             /\ down = Present /\ down \subseteq recorded /\ Sleep(down, recorded)
             /\ pc' = "patch" /\ goal' = "sleeped" /\ then' = "hibernate"
             /\ UNCHANGED <<deployed, cleanup>>
    BY DEF sleepModule, Return, Reliable
  <1>. QED BY <1>3, <1>4, <1>5, <1>6, SleepRecords

LEMMA ResumeKnows ==
    ASSUME Inductive, InOrder, Known, Reliable, resumeModule
    PROVE  Known'
  <1>1. pc = "resume" /\ UNCHANGED <<objs, adopted, deployed, cleanup>>
    BY DEF resumeModule
  <1>2. Server' = Server /\ InFlight' = InFlight /\ Server.phase = "resuming"
    BY <1>1, NoWriteInFlight DEF WorkerConsistent
  <1>3. Down /\ meta = Replicas
    BY <1>1 DEF Known, WorkerKnows
  <1>4. CleanupGuarded'
    BY <1>1, <1>3 DEF Down, CleanupGuarded
  <1>5. CASE pc' = "idle" /\ UNCHANGED live
    <2>1. Down'
      BY <1>1, <1>3, <1>5 DEF Down
    <2>2. WorkerKnows'
      BY <1>2, <1>5 DEF WorkerKnows
    <2>3. \A w \in InFlight : w.phase = "sleeped" => Server.data = Replicas
      BY <1>1, <1>2 DEF Known, CopiesTellTruth
    <2>4. CopiesTellTruth'
      BY <1>2, <2>1, <2>3, NoneSettled DEF CopiesTellTruth, InOrder
    <2>. QED BY <1>4, <2>2, <2>4 DEF Known
  <1>6. CASE pc' = "setPhase" /\ goal' = "ready" /\ live' = Scaled(meta)
    <2>1. live' = Replicas
      <3>1. Replicas \in [Workloads -> Nat]
        BY ConstantsAssumption
      <3>2. live' = [w \in Workloads |-> Replicas[w]]
        BY <1>3, <1>6, <3>1 DEF Scaled
      <3>. QED BY <3>1, <3>2
    <2>2. Up'
      BY <1>1, <1>3, <2>1 DEF Up, Down
    <2>3. WorkerKnows'
      BY <1>2, <1>6, <2>2 DEF WorkerKnows
    <2>4. CopiesTellTruth'
      BY <1>2, <1>6, NoneSettled DEF CopiesTellTruth, InOrder
    <2>. QED BY <1>4, <2>3, <2>4 DEF Known
  <1>. QED BY <1>5, <1>6 DEF resumeModule, Return, CallSetPhase, Resume, Reliable

LEMMA UninstallKnows ==
    ASSUME Inductive, InOrder, Known, uninstallModule
    PROVE  Known'
  <1>1. pc = "uninstall" /\ pc' = "dropFinalizer" /\ UNCHANGED <<objs, adopted, cleanup>>
    BY DEF uninstallModule, GoTo, RemoveRelease
  <1>2. Server' = Server /\ InFlight' = InFlight /\ Server.phase = "uninstalling"
    BY <1>1, NoWriteInFlight DEF WorkerConsistent
  <1>3. CleanupGuarded'
    BY <1>1, <1>2 DEF Known, CleanupGuarded
  <1>4. WorkerKnows'
    BY <1>1, <1>2 DEF WorkerKnows
  <1>5. CopiesTellTruth'
    BY <1>2 DEF CopiesTellTruth
  <1>. QED BY <1>3, <1>4, <1>5 DEF Known

\* While a clean-up is pending nobody counts on the release.
LEMMA CleanupKnows ==
    ASSUME Inductive, InOrder, Known, cleanupFailedInstall
    PROVE  Known'
  <1>1. cleanup /\ cleanup' = FALSE /\ UNCHANGED objs /\ UNCHANGED worker /\ UNCHANGED adopted
    BY DEF cleanupFailedInstall
  <1>2. Server' = Server /\ InFlight' = InFlight
    BY <1>1, NoWriteInFlight
  <1>3. ~Up /\ ~Down /\ ~adopted
    BY <1>1 DEF Up, Down, ReleaseGuarded
  <1>4. CleanupGuarded'
    BY <1>1 DEF CleanupGuarded
  <1>5. WorkerKnows'
    BY <1>1, <1>2, <1>3 DEF Known, WorkerKnows
  <1>6. CopiesTellTruth'
    BY <1>1, <1>2, <1>3 DEF Known, CopiesTellTruth, WorkerKnows
  <1>. QED BY <1>4, <1>5, <1>6 DEF Known

LEMMA EnvironmentKnows ==
    ASSUME Inductive, InOrder, Known, Environment
    PROVE  Known'
  <1>0. Server \in InFlight
    BY Versions
  <1>1. CASE cleanupFailedInstall
    BY <1>1, CleanupKnows
  <1>2. CASE ~restart /\ ~cleanupFailedInstall
    <2>1. /\ UNCHANGED worker /\ UNCHANGED adopted /\ UNCHANGED cluster
          /\ \/ Server'.phase = Server.phase /\ Server'.data = Server.data
             \/ Server.phase = "" /\ Server'.phase = "gone"
          /\ \A w \in InFlight' : w \in InFlight \/ w.phase = Server'.phase
      BY <1>2, EnvironmentEnds DEF InOrder
    <2>2. (Up' <=> Up) /\ (Down' <=> Down)
      BY <2>1 DEF Up, Down
    <2>3. CleanupGuarded'
      <3>1. CASE ~cleanup
        BY <2>1, <3>1 DEF CleanupGuarded
      <3>2. CASE pc \in {"patch", "setPhase"} /\ goal = "failed" /\ Server.phase = "installing"
        BY <2>1, <3>2 DEF CleanupGuarded
      <3>3. CASE /\ \A v \in InFlight : v.phase \in {"installing", "failed", "uninstalling", "gone"}
                 /\ Server.phase # "installing"
                 /\ pc \notin {"addFinalizer", "install", "patch", "sleep", "resume"}
                 /\ pc = "setPhase" => goal \in {"failed", "uninstalling"}
        <4>1. /\ Server'.phase \in {"failed", "uninstalling", "gone"}
              /\ \A v \in InFlight' : v.phase \in {"installing", "failed", "uninstalling", "gone"}
          BY <1>0, <2>1, <3>3
        <4>2. UNCHANGED <<pc, goal>>
          BY <2>1
        <4>. QED BY <3>3, <4>1, <4>2 DEF CleanupGuarded
      <3>. QED BY <3>1, <3>2, <3>3 DEF Known, CleanupGuarded
    <2>4. WorkerKnows'
      <3>1. pc = "setPhase" /\ Server.phase = "" => goal = "installing"
        BY DEF WorkerConsistent
      <3>. QED BY <2>1, <2>2, <3>1 DEF Known, WorkerKnows
    <2>5. CopiesTellTruth'
      BY <1>0, <2>1, <2>2 DEF Known, CopiesTellTruth
    <2>. QED BY <2>3, <2>4, <2>5 DEF Known
  <1>3. CASE restart
    <2>1. /\ Server' = Server /\ InFlight' = {Server}
          /\ pc' = "idle" /\ cleanup' = FALSE /\ UNCHANGED <<deployed, live, adopted>>
      BY <1>3, RestartEnds DEF InOrder
    <2>2. CleanupGuarded'
      BY <2>1 DEF CleanupGuarded
    <2>3. WorkerKnows'
      BY <2>1 DEF Known, WorkerKnows
    <2>4. (Up => Up') /\ (Down => Down')
      BY <2>1 DEF Up, Down
    <2>5. /\ Server.phase = "ready" => ~(pc \in {"patch", "setPhase"} /\ goal = "sleeped")
          /\ Server.phase = "sleeped" => ~(pc = "setPhase" /\ goal = "ready")
      <3>1. pc = "patch" => Server.phase # "ready"
        BY DEF WorkerConsistent
      <3>2. pc = "setPhase" /\ Server.phase # "gone" =>
              goal \in {Server.phase} \cup Life!After(Server.phase)
        BY DEF InOrder, WorkerInOrder
      <3>. QED BY <3>1, <3>2, AfterTable
    <2>6. CopiesTellTruth'
      BY <1>0, <2>1, <2>4, <2>5 DEF Known, CopiesTellTruth
    <2>. QED BY <2>2, <2>3, <2>6 DEF Known
  <1>. QED BY <1>1, <1>2, <1>3

LEMMA InitIsNew == Init => Server.phase = ""
  <1>. SUFFICES ASSUME Init PROVE Server.phase = ""
    OBVIOUS
  <1>1. PICK h \in BOOLEAN :
          objs = << [phase |-> "", hibernated |-> h, deleting |-> FALSE,
                     finalizers |-> {}, aged |-> FALSE, data |-> NoHistory] >>
    BY DEF Init
  <1>. QED BY <1>1 DEF Server

LEMMA InitKnows == Init => Known
  <1>. SUFFICES ASSUME Init PROVE Known
    OBVIOUS
  <1>1. pc = "idle" /\ cleanup = FALSE /\ (adopted => live = Replicas)
    BY DEF Init
  <1>2. Inductive /\ CopiesInOrder
    BY InitInductive, InitInOrder DEF InOrder
  <1>3. Server.phase = ""
    BY InitIsNew
  <1>. QED BY <1>1, <1>2, <1>3, NoneSettled
           DEF Known, CleanupGuarded, WorkerKnows, CopiesTellTruth

LEMMA NextKnows == Inductive /\ InOrder /\ Known /\ Reliable /\ [Next]_vars => Known'
  <1>. SUFFICES ASSUME Inductive, InOrder, Known, Reliable, [Next]_vars PROVE Known'
    OBVIOUS
  <1>1. CASE Work
    BY <1>1, ReconcileKnows, AddFinalizerKnows, SetPhaseKnows, DropFinalizerKnows,
       WriteFailsKnows, InstallKnows, PatchKnows, SleepKnows, ResumeKnows, UninstallKnows
       DEF Work
  <1>2. CASE Environment
    BY <1>2, EnvironmentKnows
  <1>3. CASE UNCHANGED vars
    <2>1. UNCHANGED objs /\ UNCHANGED worker /\ UNCHANGED cluster /\ UNCHANGED adopted
      BY <1>3 DEF vars
    <2>2. Server' = Server /\ InFlight' = InFlight
      BY <2>1, NoWriteInFlight
    <2>. QED BY <2>1, <2>2 DEF Known, CleanupGuarded, WorkerKnows, CopiesTellTruth, Up, Down
  <1>. QED BY <1>1, <1>2, <1>3 DEF Next

-----------------------------------------------------------------------------
(* The theorems about the application. *)

LEMMA StrengthenedParts == Strengthened <=> Inductive /\ InOrder /\ (Reliable => Known)
  BY DEF Strengthened, InOrder, Known

\* The whole inductive invariant; its last three parts hold when only Helm calls and
\* charts fail.
THEOREM StrengthenedInvariant == Spec => []Strengthened
  <1>1. Init => Strengthened
    BY InitInductive, InitInOrder, InitKnows, StrengthenedParts
  <1>2. Strengthened /\ [Next]_vars => Strengthened'
    <2>. SUFFICES ASSUME Strengthened, [Next]_vars PROVE Strengthened'
      OBVIOUS
    <2>1. Inductive /\ InOrder /\ (Reliable => Known)
      BY StrengthenedParts
    <2>2. Inductive' /\ InOrder' /\ (Reliable => Known')
      BY <2>1, NextInductive, NextInOrder, NextKnows
    <2>. QED BY <2>2 DEF Strengthened, InOrder, Known
  <1>. QED BY <1>1, <1>2, PTL DEF Spec

\* A Module shown as ready has its release running at the chart's size, unless a write
\* or the scaling of a workload failed.
THEOREM ReadyRuns == Reliable => (Spec => []ReadyMeansRunning)
  <1>. SUFFICES ASSUME Reliable PROVE Spec => []ReadyMeansRunning
    OBVIOUS
  <1>1. Strengthened => ReadyMeansRunning
    <2>. SUFFICES ASSUME Strengthened, Server.phase = "ready"
                  PROVE  deployed /\ live = Replicas
      BY DEF ReadyMeansRunning
    <2>1. Inductive /\ InOrder /\ Known
      BY StrengthenedParts
    <2>2. Server \in InFlight
      BY <2>1, Versions
    <2>3. ~(pc \in {"patch", "setPhase"} /\ goal = "sleeped")
      BY <2>1, AfterTable DEF InOrder, WorkerInOrder, WorkerConsistent
    <2>. QED BY <2>1, <2>2, <2>3 DEF Known, CopiesTellTruth, Up
  <1>. QED BY <1>1, StrengthenedInvariant, PTL

\* A Module shown as sleeped is scaled down and its annotation holds the chart's counts,
\* unless a write or the scaling of a workload failed.
THEOREM SleepedIsRestorable == Reliable => (Spec => []SleepedMeansRestorable)
  <1>. SUFFICES ASSUME Reliable PROVE Spec => []SleepedMeansRestorable
    OBVIOUS
  <1>1. Strengthened => SleepedMeansRestorable
    <2>. SUFFICES ASSUME Strengthened, Server.phase = "sleeped"
                  PROVE  live = AllDown /\ Server.data = Replicas
      BY DEF SleepedMeansRestorable
    <2>1. Inductive /\ InOrder /\ Known
      BY StrengthenedParts
    <2>2. Server \in InFlight
      BY <2>1, Versions
    <2>3. ~(pc = "setPhase" /\ goal = "ready")
      BY <2>1, AfterTable DEF InOrder, WorkerInOrder
    <2>. QED BY <2>1, <2>2, <2>3 DEF Known, CopiesTellTruth, Down
  <1>. QED BY <1>1, StrengthenedInvariant, PTL

\* Where the application starts and stops.
LEMMA RunningStep ==
    ASSUME Strengthened, Reliable, [Next]_vars, live' # live
    PROVE  \/ live' # AllDown /\ live = AllDown /\ Server'.phase \in {"installing", "resuming"}
           \/ live' = AllDown /\ live # AllDown /\ Server'.phase \notin {"", "ready", "resuming"}
           \/ live' # AllDown /\ live # AllDown
  <1>0. Inductive /\ InOrder /\ Known
    BY StrengthenedParts
  <1>1. CASE installModule
    <2>1. Server.phase = "installing"
      BY <1>0, <1>1, InstallEnds DEF WorkerConsistent
    <2>2. Server'.phase = "installing"
      BY <1>0, <1>1, <2>1, InstallInOrder
    <2>. QED BY <2>2
  <1>2. CASE sleepModule
    <2>1. pc = "sleep" /\ UNCHANGED objs
      BY <1>2 DEF sleepModule
    <2>2. Server'.phase = "sleeping" /\ Up
      BY <1>0, <2>1, NoWriteInFlight DEF WorkerConsistent, Known, WorkerKnows
    <2>3. \/ UNCHANGED cluster
          \/ \E down \in SUBSET Present, recorded \in SUBSET Present :
               down = Present /\ down \subseteq recorded /\ Sleep(down, recorded)
      BY <1>2 DEF sleepModule, Reliable
    <2>4. live' = AllDown
      BY <1>0, <2>2, <2>3, SleepRecords
    <2>. QED BY <2>2, <2>4
  <1>3. CASE resumeModule
    <2>1. pc = "resume" /\ UNCHANGED objs
      BY <1>3 DEF resumeModule
    <2>2. Server'.phase = "resuming" /\ live = AllDown
      BY <1>0, <2>1, NoWriteInFlight DEF WorkerConsistent, Known, WorkerKnows, Down
    <2>. QED BY <2>2
  <1>4. CASE uninstallModule
    <2>1. pc = "uninstall" /\ UNCHANGED objs /\ live' = AllDown
      BY <1>4 DEF uninstallModule, RemoveRelease
    <2>2. Server'.phase = "uninstalling"
      BY <1>0, <2>1, NoWriteInFlight DEF WorkerConsistent
    <2>. QED BY <2>1, <2>2
  <1>5. CASE cleanupFailedInstall
    <2>1. cleanup /\ UNCHANGED objs /\ live' = AllDown
      BY <1>5 DEF cleanupFailedInstall
    <2>2. Server.phase \in {"installing", "failed", "uninstalling", "gone"}
      BY <1>0, <2>1, Versions DEF Known, CleanupGuarded
    <2>3. Server' = Server
      BY <2>1, NoWriteInFlight
    <2>. QED BY <2>1, <2>2, <2>3
  <1>6. CASE \/ Reconcile \/ addFinalizer \/ setPhase \/ dropFinalizer \/ writeFails
             \/ patchManagerData
    BY <1>6 DEF Reconcile, addFinalizer, setPhase, dropFinalizer, writeFails, patchManagerData
  <1>7. CASE Environment /\ ~cleanupFailedInstall
    BY <1>0, <1>7, EnvironmentEnds, RestartEnds DEF InOrder
  <1>8. CASE UNCHANGED vars
    BY <1>8 DEF vars
  <1>. QED BY <1>1, <1>2, <1>3, <1>4, <1>5, <1>6, <1>7, <1>8 DEF Next, Work

\* The controller implements the contract of ModuleLife, unless a write or the scaling of
\* a workload failed: what a phase says of the application is true, and the application
\* starts and stops only in the phases that announce it.
THEOREM ContractKept == Reliable => (Spec => KeepsContract)
  <1>. SUFFICES ASSUME Reliable PROVE Spec => KeepsContract
    OBVIOUS
  <1>1. Init => Life!LifeInit
    <2>. SUFFICES ASSUME Init PROVE Life!LifeInit
      OBVIOUS
    <2>1. Server.phase \in Phase
      BY InitInductive, Versions
    <2>2. Server.phase = ""
      BY InitIsNew
    <2>. QED BY <2>1, <2>2 DEF Life!LifeInit
  <1>2. Strengthened /\ SleepedMeansRestorable' /\ [Next]_vars => [Life!LifeNext]_(Life!life)
    <2>. SUFFICES ASSUME Strengthened, SleepedMeansRestorable', [Next]_vars
                  PROVE  Life!LifeNext
      OBVIOUS
    <2>1. Server'.phase = Server.phase \/ Life!PhaseStep
      BY PhaseStepInOrder, StrengthenedParts DEF Life!PhaseStep
    <2>2. Server'.phase = "sleeped" => live' = AllDown
      BY DEF SleepedMeansRestorable
    <2>3. AllDown' = AllDown
      BY DEF AllDown
    <2>4. \/ (live' # AllDown) <=> (live # AllDown)
          \/ Life!Starts \/ Life!Stops
      BY RunningStep DEF Life!Starts, Life!Stops
    <2>. QED BY <2>1, <2>2, <2>3, <2>4 DEF Life!LifeNext
  <1>. QED BY <1>1, <1>2, StrengthenedInvariant, SleepedIsRestorable, PTL
           DEF Spec, KeepsContract, Life!LifeSpec

-----------------------------------------------------------------------------
(* The Module as others see it, for whoever composes the controller with them. *)

\* A Module that is gone does not come back.
LEMMA GoneForGood ==
    ASSUME Inductive, [Next]_vars, Server.phase = "gone"
    PROVE  Server'.phase = "gone"
  BY StatusWrite, OthersKeepPhase

\* The worker changes neither what the user asked for nor a deletion, and removes the
\* Module only if it is being deleted.
LEMMA WorkSeen ==
    ASSUME Inductive, InOrder, Work
    PROVE  /\ UNCHANGED environment
           /\ Server'.hibernated = Server.hibernated /\ Server'.deleting = Server.deleting
           /\ Server.phase = "gone" => Server'.phase = "gone"
           /\ Server'.phase = "gone" /\ Server.phase # "gone" => Server.deleting
  <1>1. UNCHANGED environment
    BY DEF Work, Reconcile, addFinalizer, setPhase, dropFinalizer, writeFails, installModule,
       patchManagerData, sleepModule, resumeModule, uninstallModule
  <1>2. /\ Server \in Version /\ Cached \in Version /\ meta \in History /\ goal \in Phase
        /\ CacheIsCurrent => Cached = Server
    BY Versions DEF WorkerTypeOK
  <1>3. ASSUME NEW v \in Version, objs' = Append(objs, v), v.hibernated = Server.hibernated,
               v.deleting = Server.deleting, v.phase = "gone" => Server.phase = "gone" \/ Server.deleting
        PROVE  /\ Server'.hibernated = Server.hibernated /\ Server'.deleting = Server.deleting
               /\ Server'.phase = "gone" /\ Server.phase # "gone" => Server.deleting
    BY <1>3, AppendedIsServer
  <1>4. CASE UNCHANGED objs
    BY <1>1, <1>4, NoWriteInFlight
  <1>5. CASE addFinalizer /\ ~UNCHANGED objs
    <2>. DEFINE v == [Cached EXCEPT !.finalizers = {"delete"}]
    <2>1. objs' = Append(objs, v) /\ Cached = Server
      BY <1>2, <1>5 DEF addFinalizer, Put
    <2>2. v \in Version /\ v.hibernated = Server.hibernated /\ v.deleting = Server.deleting
          /\ v.phase = Server.phase
      BY <1>2, <2>1 DEF Version
    <2>. HIDE DEF v
    <2>. QED BY <1>1, <1>3, <2>1, <2>2, AppendedIsServer
  <1>6. CASE setPhase
    <2>. DEFINE v == WithPhase(Cached, goal)
    <2>1. objs' = Append(objs, v) /\ Cached = Server /\ Server.phase # "gone" /\ pc = "setPhase"
      BY <1>2, <1>6 DEF setPhase, Put
    <2>2. goal # "gone"
      BY <2>1 DEF WorkerConsistent
    <2>3. v \in Version /\ v.hibernated = Server.hibernated /\ v.deleting = Server.deleting
          /\ v.phase # "gone"
      BY <1>2, <2>1, <2>2 DEF Version, WithPhase
    <2>. HIDE DEF v
    <2>. QED BY <1>1, <1>3, <2>1, <2>3
  <1>7. CASE dropFinalizer
    <2>. DEFINE v == [Cached EXCEPT !.phase = "gone", !.finalizers = {}]
    <2>1. objs' = Append(objs, v) /\ Cached = Server /\ Server.phase # "gone" /\ pc = "dropFinalizer"
      BY <1>2, <1>7 DEF dropFinalizer, Put
    <2>2. Server.deleting
      BY <2>1, Versions DEF WorkerConsistent, InOrder, CopiesInOrder
    <2>3. v \in Version /\ v.hibernated = Server.hibernated /\ v.deleting = Server.deleting
      BY <1>2, <2>1 DEF Version
    <2>. HIDE DEF v
    <2>. QED BY <1>1, <1>3, <2>1, <2>2, <2>3
  <1>8. CASE (installModule \/ patchManagerData) /\ ~UNCHANGED objs
    <2>1. PICK v \in {Server, [Server EXCEPT !.data = meta]} : objs' = Append(objs, v)
      BY <1>8 DEF installModule, adoptExistingHelmRelease, patchManagerData, Patch
    <2>2. v \in Version /\ v.hibernated = Server.hibernated /\ v.deleting = Server.deleting
          /\ v.phase = Server.phase
      BY <1>2, <2>1 DEF Version
    <2>. QED BY <1>1, <1>3, <2>1, <2>2, AppendedIsServer
  <1>9. \/ UNCHANGED objs
        \/ addFinalizer \/ setPhase \/ dropFinalizer \/ installModule \/ patchManagerData
    BY DEF Work, Reconcile, writeFails, sleepModule, resumeModule, uninstallModule
  <1>. QED BY <1>4, <1>5, <1>6, <1>7, <1>8, <1>9

\* The cache, the clock and a clean-up change nothing others could see.
LEMMA QuietSeen ==
    ASSUME Inductive, deliver \/ fiveMinutesPass \/ cleanupFailedInstall
    PROVE  /\ UNCHANGED environment
           /\ Server'.hibernated = Server.hibernated /\ Server'.deleting = Server.deleting
           /\ Server'.phase = Server.phase
  <1>1. UNCHANGED environment
    BY DEF deliver, fiveMinutesPass, cleanupFailedInstall
  <1>2. /\ Server \in Version /\ objs \in Seq(Version) /\ Len(objs) \in 1 .. MaxLag + 1
        /\ CacheIsCurrent => Cached = Server
    BY Versions
  <1>3. CASE deliver
    BY <1>1, <1>2, <1>3, DeliverInFlight DEF deliver
  <1>4. CASE fiveMinutesPass
    <2>. DEFINE v == [Server EXCEPT !.aged = TRUE]
    <2>1. objs' = <<v>>
      BY <1>2, <1>4 DEF fiveMinutesPass
    <2>2. v \in Version /\ v.hibernated = Server.hibernated /\ v.deleting = Server.deleting
          /\ v.phase = Server.phase
      BY <1>2 DEF Version
    <2>. HIDE DEF v
    <2>. QED BY <1>1, <2>1, <2>2, RelistInFlight
  <1>5. CASE cleanupFailedInstall
    BY <1>1, <1>5, NoWriteInFlight DEF cleanupFailedInstall
  <1>. QED BY <1>3, <1>4, <1>5

\* A release is made by installModule only, in a workspace the cache shows as ready.
LEMMA ReleaseMade ==
    ASSUME Inductive, [Next]_vars, deployed', ~deployed
    PROVE  installModule /\ ws.phase = "ready" /\ ~adopted
  <1>1. ASSUME installModule PROVE ws.phase = "ready" /\ ~adopted
    BY <1>1 DEF installModule, adoptExistingHelmRelease
  <1>2. installModule
    BY DEF Next, Work, Environment, vars, Reconcile, addFinalizer, setPhase, dropFinalizer, writeFails,
       patchManagerData, sleepModule, resumeModule, uninstallModule, RemoveRelease,
       cleanupFailedInstall, deliver, setHibernated, delete, workspaceReady, workspaceMoves,
       fiveMinutesPass, restart
  <1>. QED BY <1>1, <1>2

\* Whether the release is adopted does not change.
LEMMA AdoptedKept == [Next]_vars => UNCHANGED adopted
  BY DEF Next, Work, Environment, vars, Reconcile, addFinalizer, setPhase, dropFinalizer, writeFails,
     installModule, patchManagerData, sleepModule, resumeModule, uninstallModule,
     cleanupFailedInstall, deliver, setHibernated, delete, workspaceReady, workspaceMoves,
     fiveMinutesPass, restart, environment

\* Where the worker is about to let the Module go, or has, its release is gone.
ReleaseFirst == pc = "dropFinalizer" \/ Server.phase = "gone" => ~deployed \/ adopted

\* uninstallModule removes the release of a Module it finds the workspace of, if that is
\* being deleted, in whatever phase.
LEMMA NextReleaseFirst ==
    ASSUME Inductive, InOrder, ReleaseFirst, [Next]_vars, "helm" \notin Faults,
           pc = "uninstall" => (ws.phase # "absent" /\ ws.deleting) \/ ~deployed \/ adopted
    PROVE  ReleaseFirst'
  <1>. SUFFICES ASSUME deployed', ~adopted' PROVE pc' # "dropFinalizer" /\ Server'.phase # "gone"
    BY DEF ReleaseFirst
  <1>1. UNCHANGED adopted
    BY AdoptedKept
  <1>2. CASE ~deployed
    <2>1. installModule
      BY <1>2, ReleaseMade
    <2>2. pc' # "dropFinalizer" /\ Server.phase = "installing"
      BY <2>1, InstallEnds DEF WorkerConsistent
    <2>. QED BY <2>1, <2>2, InstallInOrder
  <1>3. CASE deployed
    <2>1. pc # "dropFinalizer" /\ Server.phase # "gone" /\ Server.phase # ""
      BY <1>1, <1>3 DEF ReleaseFirst, ReleaseGuarded
    <2>2. ~uninstallModule
      BY <1>1, <1>3 DEF uninstallModule, RemoveRelease, CannotReach
    <2>3. pc' # "dropFinalizer"
      <3>1. CASE Reconcile
        BY <2>1, <3>1, Decision
      <3>2. CASE setPhase
        BY <3>2, StatusWrite
      <3>3. CASE installModule
        BY <3>3, InstallEnds
      <3>4. CASE addFinalizer \/ dropFinalizer \/ writeFails \/ patchManagerData \/ sleepModule \/ resumeModule
        BY <3>4 DEF addFinalizer, CallSetPhase, dropFinalizer, writeFails, Return, patchManagerData,
           sleepModule, resumeModule
      <3>5. CASE Environment \/ UNCHANGED vars
        BY <2>1, <3>5 DEF Environment, vars, cleanupFailedInstall, deliver, setHibernated, delete,
           workspaceReady, workspaceMoves, fiveMinutesPass, restart
      <3>. QED BY <2>2, <3>1, <3>2, <3>3, <3>4, <3>5 DEF Next, Work
    <2>4. Server'.phase # "gone"
      <3>1. CASE Environment
        BY <2>1, <3>1, EnvironmentEnds, RestartEnds DEF InOrder
      <3>2. CASE setPhase
        <4>1. PICK v \in Version : objs' = Append(objs, v) /\ v.phase = goal /\ pc = "setPhase"
          BY <3>2, StatusWrite
        <4>2. Server' = v /\ goal # "gone"
          BY <4>1, AppendedIsServer DEF WorkerConsistent
        <4>. QED BY <4>1, <4>2
      <3>3. CASE addFinalizer \/ installModule
        BY <2>1, <3>3, AddFinalizerInOrder, InstallInOrder
      <3>4. CASE patchManagerData
        BY <2>1, <3>4, PatchEnds DEF InOrder
      <3>5. CASE UNCHANGED objs
        BY <2>1, <3>5, NoWriteInFlight
      <3>6. UNCHANGED vars \/ Reconcile \/ writeFails \/ sleepModule \/ resumeModule => UNCHANGED objs
        BY DEF vars, Reconcile, writeFails, sleepModule, resumeModule
      <3>7. ~dropFinalizer
        BY <2>1 DEF dropFinalizer
      <3>. QED BY <2>2, <3>1, <3>2, <3>3, <3>4, <3>5, <3>6, <3>7 DEF Next, Work
    <2>. QED BY <2>3, <2>4
  <1>4. deployed \in BOOLEAN
    BY DEF ClusterTypeOK
  <1>. QED BY <1>2, <1>3, <1>4
=============================================================================
