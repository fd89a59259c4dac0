--------------------- MODULE WorkspaceController_proofs ---------------------
(* Proofs of the safety properties of WorkspaceController.                   *)
EXTENDS WorkspaceController, ApiObject_proofs

USE DEF Settled, Phase

-----------------------------------------------------------------------------
(* Versions, and what the writes make of them. *)

\* v and w show the same phase, the same finalizers and the same deletion timestamp.
Alike(v, w) == v.phase = w.phase /\ v.finalizers = w.finalizers /\ v.deleting = w.deleting

\* A write starts from one version and changes a few of its fields.
LEMMA UserFieldSet ==
    ASSUME NEW v \in Version, NEW a \in AutoSetting, NEW h \in BOOLEAN
    PROVE  /\ [v EXCEPT !.auto = a] \in Version /\ Alike([v EXCEPT !.auto = a], v)
           /\ [v EXCEPT !.hibernated = h] \in Version /\ Alike([v EXCEPT !.hibernated = h], v)
  BY DEF Version, Alike

LEMMA PhaseSet ==
    ASSUME NEW v \in Version, NEW p \in Phase
    PROVE  /\ [v EXCEPT !.phase = p] \in Version
           /\ [v EXCEPT !.phase = p].phase = p
           /\ [v EXCEPT !.phase = p].finalizers = v.finalizers
           /\ [v EXCEPT !.phase = p].deleting = v.deleting
  BY DEF Version

LEMMA FinalizerAdded ==
    ASSUME NEW v \in Version
    PROVE  /\ [v EXCEPT !.finalizers = {"delete"}] \in Version
           /\ [v EXCEPT !.finalizers = {"delete"}].phase = v.phase
           /\ [v EXCEPT !.finalizers = {"delete"}].deleting = v.deleting
           /\ HasFinalizer([v EXCEPT !.finalizers = {"delete"}])
  BY DEF Version, HasFinalizer

LEMMA FinalizerDropped ==
    ASSUME NEW v \in Version
    PROVE  /\ [v EXCEPT !.phase = "gone", !.finalizers = {}] \in Version
           /\ [v EXCEPT !.phase = "gone", !.finalizers = {}].phase = "gone"
           /\ [v EXCEPT !.phase = "gone", !.finalizers = {}].deleting = v.deleting
           /\ ~HasFinalizer([v EXCEPT !.phase = "gone", !.finalizers = {}])
  BY DEF Version, HasFinalizer

LEMMA Deleted ==
    ASSUME NEW v \in Version
    PROVE  /\ [v EXCEPT !.deleting = TRUE] \in Version
           /\ [v EXCEPT !.deleting = TRUE].phase = v.phase
           /\ [v EXCEPT !.deleting = TRUE].finalizers = v.finalizers
           /\ [v EXCEPT !.deleting = TRUE].deleting = TRUE
           /\ [v EXCEPT !.deleting = TRUE, !.phase = "gone"] \in Version
           /\ [v EXCEPT !.deleting = TRUE, !.phase = "gone"].phase = "gone"
           /\ [v EXCEPT !.deleting = TRUE, !.phase = "gone"].finalizers = v.finalizers
           /\ [v EXCEPT !.deleting = TRUE, !.phase = "gone"].deleting = TRUE
  BY DEF Version

LEMMA AlikeFinalizer ==
    ASSUME NEW v, NEW w, Alike(v, w)
    PROVE  /\ v.phase = w.phase /\ v.deleting = w.deleting
           /\ HasFinalizer(v) <=> HasFinalizer(w)
  BY DEF Alike, HasFinalizer

\* The mutating webhook changes nothing but the schedule.
LEMMA AdmittedAlike ==
    ASSUME NEW m \in Version, setting \in Settings, NEW v \in Admitted(m)
    PROVE  v \in Version /\ Alike(v, m)
  <1>1. setting.auto \in AutoSetting
    BY ConstantsAssumption DEF Setting
  <1>2. v = m \/ v = [m EXCEPT !.auto = setting.auto]
    BY DEF Admitted, Default
  <1>3. Alike(m, m)
    BY DEF Alike
  <1>4. [m EXCEPT !.auto = setting.auto] \in Version /\ Alike([m EXCEPT !.auto = setting.auto], m)
    BY <1>1, UserFieldSet
  <1>. QED BY <1>2, <1>3, <1>4

LEMMA NoCopyTyped == NoCopy \in Version /\ NoModules \in UNION {[S -> ModuleState] : S \in SUBSET Modules}
  <1>1. NoAuto \in AutoSetting
    BY DEF NoAuto, AutoSetting
  <1>2. NoCopy \in Version
    BY <1>1 DEF NoCopy, Version
  <1>3. NoModules \in [{} -> ModuleState]
    BY DEF NoModules
  <1>. QED BY <1>2, <1>3
-----------------------------------------------------------------------------
(* How VersionsOrdered survives the changes of the list of versions. *)

\* The facts about the list of versions that the steps start from.
LEMMA Versions ==
    ASSUME TypeOK
    PROVE  /\ objs \in Seq(Version) /\ Len(objs) \in 1 .. MaxLag + 1
           /\ InFlight \subseteq Version /\ Cached \in InFlight /\ Server \in InFlight
           /\ Cached \in Version /\ Server \in Version
           /\ CacheIsCurrent => Cached = Server /\ InFlight = {Server}
  <1>1. objs \in Seq(Version) /\ Len(objs) \in 1 .. MaxLag + 1
    BY DEF TypeOK, VersionsTypeOK
  <1>. QED BY <1>1, InFlightTyped, CurrentCache

\* A write: the phase changes only under the finalizer, the finalizer goes only with a
\* deletion every copy shows, and a managed workspace leaves its installation only on
\* a cache that is current.
LEMMA WriteKeepsOrder ==
    ASSUME TypeOK, VersionsOrdered, UNCHANGED setting, NEW v \in Version,
           objs' = Append(objs, v), CacheIsCurrent \/ Len(objs) <= MaxLag,
           Server.phase # "gone",
           v.phase \notin {"", "gone"} => HasFinalizer(v),
           v.phase = "gone" => ~HasFinalizer(v),
           Server.deleting => v.deleting,
           HasFinalizer(v) \/ ~HasFinalizer(Server) \/ (CacheIsCurrent /\ Server.deleting),
           Managed => \/ v.phase \in {Server.phase, "gone"}
                      \/ v.phase = "installing" /\ Server.phase = ""
                      \/ CacheIsCurrent /\ Server.phase # "" /\ v.phase \notin {"", "installing"}
    PROVE  /\ VersionsTypeOK' /\ VersionsOrdered'
           /\ Server' = v /\ InFlight' = InFlight \cup {v}
  <1>1. /\ objs \in Seq(Version) /\ Len(objs) \in 1 .. MaxLag + 1
        /\ CacheIsCurrent => InFlight = {Server}
        /\ Server \in InFlight
    BY Versions
  <1>2. /\ Server' = v /\ InFlight' = InFlight \cup {v}
        /\ objs' \in Seq(Version) /\ Len(objs') \in 1 .. MaxLag + 1
    BY <1>1, WriteInFlight
  <1>3. Managed' <=> Managed
    BY DEF Managed
  <1>4. ASSUME NEW w \in InFlight
        PROVE  /\ w.phase \notin {"", "gone"} => HasFinalizer(w)
               /\ w.phase # "gone"
               /\ w.deleting => v.deleting
    BY DEF VersionsOrdered
  <1>5. \/ HasFinalizer(v)
        \/ \A w \in InFlight' : ~HasFinalizer(w)
        \/ \A w \in InFlight' : w.deleting
    <2>1. CASE CacheIsCurrent /\ Server.deleting
      BY <1>1, <1>2, <2>1, Zenon
    <2>2. CASE ~HasFinalizer(v) /\ ~HasFinalizer(Server)
      <3>1. (\A w \in InFlight : ~HasFinalizer(w)) \/ (\A w \in InFlight : w.deleting)
        BY <2>2 DEF VersionsOrdered
      <3>2. CASE \A w \in InFlight : w.deleting
        BY <1>1, <1>2, <3>2, Zenon
      <3>3. CASE \A w \in InFlight : ~HasFinalizer(w)
        BY <1>2, <2>2, <3>3, Zenon
      <3>. QED BY <3>1, <3>2, <3>3
    <2>. QED BY <2>1, <2>2
  <1>6. ASSUME Managed, NEW w \in InFlight
        PROVE  /\ v.phase \in {"", "installing"} => w.phase \in {"", "installing"}
               /\ v.phase \notin {"", "installing", "gone"} => w.phase # ""
    <2>1. CASE v.phase = Server.phase
      BY <1>6, <2>1 DEF VersionsOrdered
    <2>2. CASE v.phase = "gone"
      BY <2>2
    <2>3. CASE v.phase = "installing" /\ Server.phase = ""
      BY <1>6, <2>3 DEF VersionsOrdered
    <2>4. CASE CacheIsCurrent /\ Server.phase # "" /\ v.phase \notin {"", "installing"}
      BY <1>1, <2>4
    <2>. QED BY <1>6, <2>1, <2>2, <2>3, <2>4
  <1>7. \A w \in InFlight' :
          /\ w.phase \notin {"", "gone"} => HasFinalizer(w)
          /\ w.phase = "gone" => ~HasFinalizer(w) /\ v.phase = "gone"
          /\ w.deleting => v.deleting
    BY <1>2, <1>4
  <1>8. Managed => \A w \in InFlight' :
          /\ v.phase \in {"", "installing"} => w.phase \in {"", "installing"}
          /\ v.phase \notin {"", "installing", "gone"} => w.phase # ""
    BY <1>2, <1>6
  <1>. QED BY <1>2, <1>3, <1>5, <1>7, <1>8 DEF VersionsOrdered, VersionsTypeOK

\* Fewer versions, of which the server's is still one.
LEMMA FewerVersions ==
    ASSUME VersionsOrdered, UNCHANGED setting, InFlight' \subseteq InFlight, Server' = Server
    PROVE  VersionsOrdered'
  <1>1. Managed' <=> Managed
    BY DEF Managed
  <1>. QED BY <1>1 DEF VersionsOrdered

\* What a copy still tells about the server's version, however stale it is.
LEMMA StaleReadIsSafe ==
    ASSUME TypeOK, VersionsOrdered
    PROVE  /\ Cached.phase = "gone" => Server.phase = "gone"
           /\ Server.phase = "gone" => ~HasFinalizer(Server)
           /\ Server.phase \notin {"", "gone"} => HasFinalizer(Server)
           /\ Cached.deleting => Server.deleting
           /\ HasFinalizer(Cached) /\ ~Cached.deleting => HasFinalizer(Server)
           /\ Cached.phase \in {"ready", "hibernated"} => HasFinalizer(Cached)
           /\ Managed /\ Cached.phase = "" => Server.phase \in {"", "installing", "gone"}
           /\ Managed /\ Cached.phase \in {"ready", "hibernated"}
                => Server.phase \notin {"", "installing"}
  <1>1. Cached \in InFlight /\ Server \in InFlight
    BY Versions
  <1>. QED BY <1>1 DEF VersionsOrdered

-----------------------------------------------------------------------------
(* What several actions have in common. *)

USE DEF Inductive, TypeOK, worker, cluster, source, given, environment,
        Managed, Forks, Faults, Moves

\* A step that writes no version.
LEMMA NoWrite ==
    ASSUME Inductive, UNCHANGED <<objs, setting>>
    PROVE  /\ VersionsTypeOK' /\ VersionsOrdered'
           /\ Server' = Server /\ Cached' = Cached /\ InFlight' = InFlight
  <1>1. Server' = Server /\ Cached' = Cached /\ InFlight' = InFlight
    BY NoWriteInFlight
  <1>. QED BY <1>1, FewerVersions DEF VersionsTypeOK

LEMMA KeepCron == ASSUME Inductive, UNCHANGED cron PROVE CronTypeOK'
  BY DEF CronTypeOK

LEMMA KeepCluster == ASSUME Inductive, UNCHANGED cluster PROVE ClusterTypeOK'
  BY DEF ClusterTypeOK

LEMMA KeepEnvironment == ASSUME Inductive, UNCHANGED <<source, environment>> PROVE EnvironmentTypeOK'
  BY DEF EnvironmentTypeOK

\* Leaving Reconcile: the worker holds no obligation any more.
LEMMA ReturnStep ==
    ASSUME Inductive, NEW b \in BOOLEAN, Return(b), UNCHANGED <<mods, marked, setting>>
    PROVE  WorkerTypeOK' /\ pc' = "idle" /\ SleepProgress' /\ DeletionProgress'
  <1>1. WorkerTypeOK' /\ pc' = "idle"
    BY NoCopyTyped DEF Return, WorkerTypeOK, Labels
  <1>. QED BY <1>1 DEF SleepProgress, DeletionProgress

\* A step of the environment that leaves the server's version as it is, but for the
\* user's own fields, and brings no other kind of version into flight.
LEMMA QuietStep ==
    ASSUME Inductive, UNCHANGED <<worker, cron, mods, marked, vcluster, cleanup, forked, setting>>,
           Alike(Server', Server), \A w \in InFlight' : \E v \in InFlight : Alike(w, v)
    PROVE  WorkerConsistent' /\ ForkGuarded' /\ VClusterGuarded' /\ SleepProgress' /\ DeletionProgress'
  <1>1. /\ Server'.phase = Server.phase /\ (Server'.deleting = Server.deleting)
        /\ HasFinalizer(Server') <=> HasFinalizer(Server)
    BY AlikeFinalizer
  <1>2. ASSUME NEW w \in InFlight'
        PROVE  \E v \in InFlight : v.phase = w.phase /\ (HasFinalizer(v) <=> HasFinalizer(w))
    BY <1>2, AlikeFinalizer
  <1>3. WorkerConsistent'
    BY <1>1, <1>2 DEF WorkerConsistent
  <1>4. ForkGuarded'
    BY <1>1 DEF ForkGuarded
  <1>5. VClusterGuarded'
    BY <1>1, <1>2 DEF VClusterGuarded
  <1>6. SleepProgress' /\ DeletionProgress'
    BY DEF SleepProgress, DeletionProgress, Existing
  <1>. QED BY <1>3, <1>4, <1>5, <1>6

-----------------------------------------------------------------------------
(* The initial state. *)

LEMMA InitInductive == Init => Inductive
  <1>. SUFFICES ASSUME Init PROVE Inductive
    OBVIOUS
  <1>1. setting \in Settings /\ setting.auto \in AutoSetting
    BY ConstantsAssumption DEF Init, Setting
  <1>2. PICK h \in BOOLEAN, a \in Autos \cup {NoAuto, setting.auto} :
          objs = << [phase |-> "", hibernated |-> h, deleting |-> FALSE,
                     finalizers |-> {}, auto |-> a] >>
    BY DEF Init
  <1>. DEFINE v == [phase |-> "", hibernated |-> h, deleting |-> FALSE,
                    finalizers |-> {}, auto |-> a]
  <1>3. a \in AutoSetting
    BY <1>1, ConstantsAssumption DEF NoAuto, AutoSetting
  <1>4. v \in Version /\ v.phase = "" /\ ~v.deleting /\ ~HasFinalizer(v)
    BY <1>3 DEF Version, HasFinalizer
  <1>0. objs = <<v>>
    BY <1>2
  <1>. HIDE DEF v
  <1>6. Server = v /\ InFlight = {v} /\ objs \in Seq(Version) /\ Len(objs) \in 1 .. MaxLag + 1
    BY <1>0, <1>4, FirstVersion
  <1>7. VersionsTypeOK
    BY <1>6 DEF VersionsTypeOK
  <1>8. WorkerTypeOK
    BY NoCopyTyped DEF Init, WorkerTypeOK, Labels
  <1>9. CronTypeOK
    BY DEF Init, CronTypeOK, NoEntries
  <1>10. ClusterTypeOK
    BY DEF Init, ClusterTypeOK, ModuleState
  <1>11. pc = "idle" /\ cron = NoEntries /\ ~cleanup
    BY DEF Init
  <1>12. EnvironmentTypeOK
    <2>1. secret \in BOOLEAN /\ srcReady \in BOOLEAN
      BY Zenon DEF Init
    <2>2. forked = 0 /\ edits = 0 /\ crashes = 0
      BY DEF Init
    <2>3. forked \in 0 .. 2 /\ edits \in 0 .. MaxEdits /\ crashes \in 0 .. MaxCrashes
      BY <2>2, ConstantsAssumption
    <2>. QED BY <1>1, <2>1, <2>3, Zenon DEF EnvironmentTypeOK
  <1>13. VersionsOrdered /\ ForkGuarded
    <2>1. VersionsOrdered
      BY <1>4, <1>6 DEF VersionsOrdered
    <2>2. forked = 0
      BY DEF Init
    <2>. QED BY <2>1, <2>2 DEF ForkGuarded
  <1>14. WorkerConsistent /\ SleepProgress /\ DeletionProgress
    BY <1>11 DEF WorkerConsistent, SleepProgress, DeletionProgress
  <1>15. VClusterGuarded
    BY <1>4, <1>6, <1>11 DEF VClusterGuarded
  <1>. QED BY <1>7, <1>8, <1>9, <1>10, <1>12, <1>13, <1>14, <1>15

-----------------------------------------------------------------------------
(* The steps of the worker. *)

\* Reconcile decides on a copy that may be stale, and what it decides is still right.
LEMMA ReconcileStep == Inductive /\ Reconcile => Inductive'
  <1>. SUFFICES ASSUME Inductive, Reconcile PROVE Inductive'
    OBVIOUS
  <1>1. UNCHANGED <<objs, cron, cluster, source, environment>> /\ pc = "idle"
    BY DEF Reconcile
  <1>2. /\ VersionsTypeOK' /\ VersionsOrdered' /\ CronTypeOK' /\ ClusterTypeOK' /\ EnvironmentTypeOK'
        /\ Server' = Server /\ InFlight' = InFlight
    BY <1>1, NoWrite, KeepCron, KeepCluster, KeepEnvironment
  <1>3. Cached \in InFlight /\ Cached \in Version
    BY Versions
  <1>4. WorkerTypeOK'
    BY <1>3 DEF WorkerTypeOK, Reconcile, Start, handleHibernation, Labels
  <1>5. \/ pc' = "idle"
        \/ pc' = "list delete" /\ Cached.deleting
        \/ pc' = "addFinalizer" /\ ~Cached.deleting /\ Cached.phase = ""
        \/ /\ pc' \in {"list sleep", "list resume", "auto"}
           /\ ~Cached.deleting /\ Cached.phase \in {"ready", "hibernated"}
    BY <1>1 DEF Reconcile, Start, handleHibernation
  <1>6. WorkerConsistent'
    <2>1. CASE pc' = "idle"
      BY <1>1, <1>2, <2>1 DEF WorkerConsistent
    <2>2. CASE pc' = "list delete" /\ Cached.deleting
      BY <1>1, <1>2, <2>2, StaleReadIsSafe DEF WorkerConsistent
    <2>3. CASE pc' = "addFinalizer" /\ ~Cached.deleting /\ Cached.phase = ""
      <3>1. HasFinalizer(Server) \/ \A v \in InFlight : ~HasFinalizer(v)
        BY <1>3, <2>3 DEF VersionsOrdered
      <3>. QED BY <1>1, <1>2, <2>3, <3>1, StaleReadIsSafe DEF WorkerConsistent
    <2>4. CASE /\ pc' \in {"list sleep", "list resume", "auto"}
               /\ ~Cached.deleting /\ Cached.phase \in {"ready", "hibernated"}
      BY <1>1, <1>2, <2>4, StaleReadIsSafe DEF WorkerConsistent
    <2>. QED BY <1>5, <2>1, <2>2, <2>3, <2>4
  <1>7. ForkGuarded'
    BY <1>1, <1>2, <1>5 DEF ForkGuarded
  <1>8. VClusterGuarded'
    BY <1>1, <1>2, <1>3, <1>5 DEF VClusterGuarded
  <1>9. SleepProgress' /\ DeletionProgress'
    BY <1>5 DEF SleepProgress, DeletionProgress
  <1>. QED BY <1>2, <1>4, <1>6, <1>7, <1>8, <1>9

\* What initialise leads to, once the server's version has the finalizer.
LEMMA InitialiseStep ==
    ASSUME Inductive, pc = "addFinalizer", NEW m \in Version, initialise(m),
           UNCHANGED <<cron, cluster, source, environment>>,
           HasFinalizer(Server'), Server'.phase = Server.phase, Server.phase # "gone",
           \A w \in InFlight' : w.phase = Server.phase \/ w \in InFlight,
           VersionsTypeOK', VersionsOrdered'
    PROVE  Inductive'
  <1>1. CronTypeOK' /\ ClusterTypeOK' /\ EnvironmentTypeOK'
    BY KeepCron, KeepCluster, KeepEnvironment
  <1>2. /\ pc' = "setPhase" /\ UNCHANGED <<queued, listed, awaited>> /\ local' = m
        /\ \/ Managed /\ goal' = "installing" /\ then' = "vcluster"
           \/ ~Managed /\ goal' = "hibernated" /\ then' = "auto"
           \/ ~Managed /\ goal' = "ready" /\ then' = "fork"
    BY DEF initialise
  <1>3. WorkerTypeOK'
    BY <1>2 DEF WorkerTypeOK, Labels
  <1>4. Managed => Server.phase \in {"", "installing"}
    BY DEF WorkerConsistent
  <1>5. WorkerConsistent'
    BY <1>2, <1>4 DEF WorkerConsistent
  <1>6. ForkGuarded'
    BY <1>2 DEF ForkGuarded
  <1>7. VClusterGuarded'
    <2>1. Managed /\ "write" \notin Faults => ~cleanup
      BY DEF VClusterGuarded
    <2>. QED BY <1>2, <1>4, <2>1 DEF VClusterGuarded, VersionsOrdered
  <1>8. SleepProgress' /\ DeletionProgress'
    BY <1>2 DEF SleepProgress, DeletionProgress
  <1>. QED BY <1>1, <1>3, <1>5, <1>6, <1>7, <1>8

\* addFinalizer either finds the finalizer or writes it on the newest version.
LEMMA AddFinalizerStep == Inductive /\ addFinalizer => Inductive'
  <1>. SUFFICES ASSUME Inductive, addFinalizer PROVE Inductive'
    OBVIOUS
  <1>1. /\ pc = "addFinalizer" /\ Cached.phase # "gone"
        /\ UNCHANGED <<cron, cluster, source, environment>>
    BY DEF addFinalizer
  <1>2. Cached \in InFlight /\ Cached \in Version /\ Server \in InFlight /\ setting \in Settings
    BY Versions DEF EnvironmentTypeOK
  <1>3. CASE HasFinalizer(Cached) /\ initialise(Cached) /\ UNCHANGED objs
    <2>1. HasFinalizer(Server)
      BY <1>1, <1>2, <1>3 DEF WorkerConsistent
    <2>2. Server.phase # "gone"
      BY <2>1, StaleReadIsSafe
    <2>3. VersionsTypeOK' /\ VersionsOrdered' /\ Server' = Server /\ InFlight' = InFlight
      BY <1>1, <1>3, NoWrite
    <2>. QED BY <1>1, <1>2, <1>3, <2>1, <2>2, <2>3, InitialiseStep
  <1>4. CASE /\ ~HasFinalizer(Cached)
             /\ \E m \in Admitted([Cached EXCEPT !.finalizers = {"delete"}]) :
                  Put(m) /\ initialise(m)
    <2>. DEFINE u == [Cached EXCEPT !.finalizers = {"delete"}]
    <2>1. PICK m \in Admitted(u) : Put(m) /\ initialise(m)
      BY <1>4
    <2>2. u \in Version /\ u.phase = Cached.phase /\ u.deleting = Cached.deleting /\ HasFinalizer(u)
      BY <1>2, FinalizerAdded
    <2>. HIDE DEF u
    <2>3. CacheIsCurrent /\ objs' = Append(objs, m)
      BY <2>1 DEF Put
    <2>4. Cached = Server
      BY <2>3, Versions
    <2>5. m \in Version /\ m.phase = Server.phase /\ m.deleting = Server.deleting /\ HasFinalizer(m)
      BY <1>2, <2>1, <2>2, <2>4, AdmittedAlike, AlikeFinalizer
    <2>6. VersionsTypeOK' /\ VersionsOrdered' /\ Server' = m /\ InFlight' = InFlight \cup {m}
      BY <1>1, <1>4, <2>3, <2>4, <2>5, WriteKeepsOrder
    <2>. QED BY <1>1, <2>1, <2>4, <2>5, <2>6, InitialiseStep
  <1>. QED BY <1>3, <1>4 DEF addFinalizer

\* setPhase writes on the newest version, which carries the finalizer.
LEMMA SetPhaseStep == Inductive /\ setPhase => Inductive'
  <1>. SUFFICES ASSUME Inductive, setPhase PROVE Inductive'
    OBVIOUS
  <1>. DEFINE v == [Cached EXCEPT !.phase = goal]
  <1>1. /\ UNCHANGED <<cron, cluster, source, environment>>
        /\ pc = "setPhase" /\ Cached.phase # "gone"
        /\ CacheIsCurrent /\ objs' = Append(objs, v)
    BY DEF setPhase, Put
  <1>2. \/ then = "error" /\ Return(TRUE)
        \/ then # "error" /\ pc' = then /\ local' = v /\ UNCHANGED <<queued, goal, then, listed, awaited>>
    BY DEF setPhase
  <1>3. Cached \in Version /\ Cached = Server /\ InFlight = {Server} /\ goal \in Phase
    BY <1>1, Versions DEF WorkerTypeOK
  <1>4. v \in Version /\ v.phase = goal /\ v.finalizers = Server.finalizers /\ v.deleting = Server.deleting
    BY <1>3, PhaseSet
  <1>. HIDE DEF v
  <1>5. HasFinalizer(Server) /\ HasFinalizer(v)
    BY <1>1, <1>4 DEF WorkerConsistent, HasFinalizer
  <1>6. \/ goal = "installing" /\ then = "vcluster" /\ Managed /\ Server.phase \in {"", "installing"}
        \/ goal = "ready" /\ then = "fork" /\ (Managed => Server.phase = "installing")
        \/ /\ goal \in {"ready", "hibernated"} /\ then = "auto"
           /\ Managed => Server.phase \notin {"", "installing"}
        \/ goal = "failed" /\ then = "error" /\ (Managed => Server.phase # "")
    BY <1>1 DEF WorkerConsistent
  <1>7. VersionsTypeOK' /\ VersionsOrdered' /\ Server' = v /\ InFlight' = {Server, v}
    <2>1. /\ v.phase \notin {"", "gone"} => HasFinalizer(v)
          /\ v.phase = "gone" => ~HasFinalizer(v)
          /\ Managed => \/ v.phase \in {Server.phase, "gone"}
                        \/ v.phase = "installing" /\ Server.phase = ""
                        \/ CacheIsCurrent /\ Server.phase # "" /\ v.phase \notin {"", "installing"}
      BY <1>1, <1>4, <1>5, <1>6
    <2>2. VersionsTypeOK' /\ VersionsOrdered' /\ Server' = v /\ InFlight' = InFlight \cup {v}
      BY <1>1, <1>3, <1>4, <1>5, <2>1, WriteKeepsOrder
    <2>. QED BY <1>3, <2>2
  <1>8. CronTypeOK' /\ ClusterTypeOK' /\ EnvironmentTypeOK'
    BY <1>1, KeepCron, KeepCluster, KeepEnvironment
  <1>9. WorkerTypeOK' /\ SleepProgress' /\ DeletionProgress'
    <2>1. CASE Return(TRUE)
      BY <1>1, <2>1, ReturnStep
    <2>2. CASE then # "error" /\ pc' = then /\ local' = v /\ UNCHANGED <<queued, goal, then, listed, awaited>>
      <3>1. WorkerTypeOK'
        BY <1>4, <1>6, <2>2 DEF WorkerTypeOK, Labels
      <3>2. SleepProgress' /\ DeletionProgress'
        BY <1>6, <2>2 DEF SleepProgress, DeletionProgress
      <3>. QED BY <3>1, <3>2
    <2>. QED BY <1>2, <2>1, <2>2
  <1>10. \/ pc' = "idle" /\ goal = "failed"
         \/ pc' = then /\ goal # "failed"
    BY <1>2, <1>6 DEF Return
  <1>11. WorkerConsistent'
    BY <1>1, <1>4, <1>5, <1>6, <1>7, <1>10 DEF WorkerConsistent
  <1>12. ForkGuarded'
    BY <1>1, <1>4, <1>6, <1>7, <1>10 DEF ForkGuarded
  <1>13. VClusterGuarded'
    <2>1. ASSUME Managed, "write" \notin Faults, cleanup
          PROVE  goal = "failed" /\ Server.phase = "installing"
      BY <1>1, <2>1 DEF VClusterGuarded
    <2>2. ASSUME Managed, "write" \notin Faults, \E w \in InFlight' : w.phase \in {"ready", "hibernated"}
          PROVE  vcluster = "running" \/ Server.deleting
      BY <1>1, <1>3, <1>4, <1>7, <2>2 DEF VClusterGuarded
    <2>. QED BY <1>1, <1>4, <1>6, <1>7, <1>10, <2>1, <2>2 DEF VClusterGuarded
  <1>. QED BY <1>7, <1>8, <1>9, <1>11, <1>12, <1>13

\* The finalizer goes last: the cron entries are gone, and every copy shows the deletion.
LEMMA DropFinalizerStep == Inductive /\ dropFinalizer => Inductive'
  <1>. SUFFICES ASSUME Inductive, dropFinalizer PROVE Inductive'
    OBVIOUS
  <1>. DEFINE u == [Cached EXCEPT !.phase = "gone", !.finalizers = {}]
  <1>1. /\ UNCHANGED <<cron, cluster, source, environment>> /\ Return(FALSE)
        /\ pc = "dropFinalizer" /\ Cached.phase # "gone"
        /\ \E m \in Admitted(u) : Put(m)
    BY DEF dropFinalizer
  <1>2. Cached \in Version /\ setting \in Settings
    BY Versions DEF EnvironmentTypeOK
  <1>3. u \in Version /\ u.phase = "gone" /\ u.deleting = Cached.deleting /\ ~HasFinalizer(u)
    BY <1>2, FinalizerDropped
  <1>. HIDE DEF u
  <1>4. PICK m \in Admitted(u) : CacheIsCurrent /\ objs' = Append(objs, m)
    BY <1>1 DEF Put
  <1>5. Cached = Server /\ InFlight = {Server}
    BY <1>4, Versions
  <1>6. m \in Version /\ m.phase = "gone" /\ m.deleting = Server.deleting /\ ~HasFinalizer(m)
    BY <1>2, <1>3, <1>5, AdmittedAlike, AlikeFinalizer
  <1>7. Server.deleting /\ cron = NoEntries
    BY <1>1 DEF WorkerConsistent
  <1>8. VersionsTypeOK' /\ VersionsOrdered' /\ Server' = m /\ InFlight' = InFlight \cup {m}
    BY <1>1, <1>4, <1>5, <1>6, <1>7, WriteKeepsOrder
  <1>9. CronTypeOK' /\ ClusterTypeOK' /\ EnvironmentTypeOK'
    BY <1>1, KeepCron, KeepCluster, KeepEnvironment
  <1>10. WorkerTypeOK' /\ SleepProgress' /\ DeletionProgress' /\ pc' = "idle"
    BY <1>1, ReturnStep
  <1>11. WorkerConsistent' /\ ForkGuarded'
    BY <1>1, <1>6, <1>7, <1>8, <1>10 DEF WorkerConsistent, ForkGuarded
  <1>12. VClusterGuarded'
    BY <1>1, <1>6, <1>7, <1>8, <1>10 DEF VClusterGuarded
  <1>. QED BY <1>8, <1>9, <1>10, <1>11, <1>12

\* A loop ends with an error: the worker only stops.
LEMMA WriteFailsStep == Inductive /\ writeFails => Inductive'
  <1>. SUFFICES ASSUME Inductive, writeFails PROVE Inductive'
    OBVIOUS
  <1>1. /\ UNCHANGED <<objs, cron, cluster, source, environment>> /\ Return(TRUE)
        /\ pc = "setPhase" => Cached.phase = "gone" \/ "write" \in Faults
        /\ pc \in {"addFinalizer", "setPhase", "dropFinalizer"}
    BY DEF writeFails, Refused
  <1>2. /\ VersionsTypeOK' /\ VersionsOrdered' /\ CronTypeOK' /\ ClusterTypeOK' /\ EnvironmentTypeOK'
        /\ Server' = Server /\ InFlight' = InFlight
    BY <1>1, NoWrite, KeepCron, KeepCluster, KeepEnvironment
  <1>3. WorkerTypeOK' /\ SleepProgress' /\ DeletionProgress' /\ pc' = "idle"
    BY <1>1, ReturnStep
  <1>4. WorkerConsistent' /\ ForkGuarded'
    BY <1>1, <1>2, <1>3 DEF WorkerConsistent, ForkGuarded
  <1>5. VClusterGuarded'
    <2>1. ASSUME Managed, "write" \notin Faults, cleanup
          PROVE  Server.phase \in {"failed", "gone"} /\ pc # "setPhase"
      BY <1>1, <2>1, StaleReadIsSafe DEF VClusterGuarded
    <2>. QED BY <1>1, <1>2, <1>3, <2>1 DEF VClusterGuarded
  <1>. QED BY <1>2, <1>3, <1>4, <1>5

-----------------------------------------------------------------------------
(* Starting a workspace. *)

\* The vcluster is running before the workspace is shown ready; a failed install leaves a
\* clean-up, and no copy says anything but that the workspace is being installed.
LEMMA InstallVClusterStep == Inductive /\ installVCluster => Inductive'
  <1>. SUFFICES ASSUME Inductive, installVCluster PROVE Inductive'
    OBVIOUS
  <1>1. /\ UNCHANGED <<objs, cron, mods, marked, source, environment>> /\ pc = "vcluster"
        /\ UNCHANGED <<queued, local, listed, awaited>> /\ pc' = "setPhase"
        /\ vcluster' \in {"none", "namespace", "running"} /\ cleanup' \in BOOLEAN
        /\ \/ goal' = "ready" /\ then' = "fork" /\ vcluster' = "running" /\ cleanup' = cleanup
           \/ goal' = "failed" /\ then' = "error"
    BY DEF installVCluster, CallSetPhase, ClusterTypeOK
  <1>2. /\ VersionsTypeOK' /\ VersionsOrdered' /\ CronTypeOK' /\ EnvironmentTypeOK'
        /\ Server' = Server /\ InFlight' = InFlight
    BY <1>1, NoWrite, KeepCron, KeepEnvironment
  <1>3. ClusterTypeOK' /\ WorkerTypeOK'
    BY <1>1 DEF ClusterTypeOK, WorkerTypeOK, Labels
  <1>4. Managed /\ Server.phase = "installing" /\ HasFinalizer(Server)
    BY <1>1 DEF WorkerConsistent
  <1>5. \A v \in InFlight : v.phase \in {"", "installing"}
    BY <1>4 DEF VersionsOrdered
  <1>6. WorkerConsistent' /\ ForkGuarded'
    BY <1>1, <1>2, <1>4 DEF WorkerConsistent, ForkGuarded
  <1>7. VClusterGuarded'
    <2>1. "write" \notin Faults => ~cleanup
      BY <1>1, <1>4 DEF VClusterGuarded
    <2>. QED BY <1>1, <1>2, <1>4, <1>5, <2>1 DEF VClusterGuarded
  <1>8. SleepProgress' /\ DeletionProgress'
    BY <1>1 DEF SleepProgress, DeletionProgress
  <1>. QED BY <1>2, <1>3, <1>6, <1>7, <1>8

\* A managed workspace that gets here was not forked before.
LEMMA ForkStep == Inductive /\ fork => Inductive'
  <1>. SUFFICES ASSUME Inductive, fork PROVE Inductive'
    OBVIOUS
  <1>1. /\ UNCHANGED <<objs, cron, cluster, srcReady, environment>> /\ pc = "fork"
        /\ UNCHANGED <<queued, local, listed, awaited>>
        /\ \/ pc' = "auto" /\ UNCHANGED <<goal, then>>
           \/ pc' = "setPhase" /\ goal' = "failed" /\ then' = "error"
        /\ forked' = forked \/ forked' = (IF forked = 0 THEN 1 ELSE 2)
    BY DEF fork, forkWorkspace, CallSetPhase, GoTo
  <1>2. /\ VersionsTypeOK' /\ VersionsOrdered' /\ CronTypeOK' /\ ClusterTypeOK'
        /\ Server' = Server /\ InFlight' = InFlight
    BY <1>1, NoWrite, KeepCron, KeepCluster
  <1>3. WorkerTypeOK'
    BY <1>1 DEF WorkerTypeOK, Labels
  <1>4. EnvironmentTypeOK'
    <2>1. forked' \in 0 .. 2
      BY <1>1 DEF EnvironmentTypeOK
    <2>. QED BY <1>1, <2>1, Zenon DEF EnvironmentTypeOK
  <1>5. HasFinalizer(Server) /\ (Managed => Server.phase \notin {"", "installing"})
    BY <1>1 DEF WorkerConsistent
  <1>6. WorkerConsistent'
    BY <1>1, <1>2, <1>5 DEF WorkerConsistent
  <1>7. ForkGuarded'
    <2>1. ASSUME Managed PROVE forked' < 2
      BY <1>1, <2>1 DEF ForkGuarded
    <2>. QED BY <1>1, <1>2, <1>5, <2>1 DEF ForkGuarded
  <1>8. VClusterGuarded'
    BY <1>1, <1>2 DEF VClusterGuarded
  <1>9. SleepProgress' /\ DeletionProgress'
    BY <1>1 DEF SleepProgress, DeletionProgress
  <1>. QED BY <1>2, <1>3, <1>4, <1>6, <1>7, <1>8, <1>9

-----------------------------------------------------------------------------
(* Auto-hibernation. *)

\* Both managers keep at most one entry of the workspace, with one of the schedules.
LEMMA EntriesTyped ==
    ASSUME CronTypeOK, NEW a \in AutoSetting
    PROVE  /\ EntriesFor(a) \in [sleep : Schedules \cup {"none"}, resume : Schedules \cup {"none"}]
           /\ a.mode = "on" => [cron EXCEPT !["sleep"] = AddEntry(cron["sleep"], a.sleep)]
                \in [sleep : Schedules \cup {"none"}, resume : Schedules \cup {"none"}]
  <1>. DEFINE Entry == Schedules \cup {"none"}
  <1>1. cron \in [sleep : Entry, resume : Entry] /\ cron["sleep"] \in Entry /\ cron["resume"] \in Entry
    BY DEF CronTypeOK
  <1>2. a.mode \in {"nil", "off", "on"} /\ (a.mode = "on" => a.sleep \in Schedules /\ a.wake \in Entry)
    BY DEF AutoSetting
  <1>3. NoEntries \in [sleep : Entry, resume : Entry]
    BY DEF NoEntries
  <1>4. ASSUME NEW e \in Entry, NEW s \in Entry PROVE AddEntry(e, s) \in Entry
    BY DEF AddEntry
  <1>. QED BY <1>1, <1>2, <1>3, <1>4 DEF EntriesFor

\* An entry is made only while the finalizer keeps the workspace in place.
LEMMA AutoHibernationStep == Inductive /\ handleAutoHibernation => Inductive'
  <1>. SUFFICES ASSUME Inductive, handleAutoHibernation PROVE Inductive'
    OBVIOUS
  <1>1. UNCHANGED <<objs, cluster, source, environment>> /\ pc = "auto"
    BY DEF handleAutoHibernation
  <1>2. \/ /\ local.auto.mode = "on" /\ GoTo("blocked")
           /\ cron' \in {cron, [cron EXCEPT !["sleep"] = AddEntry(cron["sleep"], local.auto.sleep)]}
        \/ cron' = EntriesFor(local.auto) /\ Return(FALSE)
    BY DEF handleAutoHibernation
  <1>3. local.auto \in AutoSetting
    BY DEF WorkerTypeOK, Version
  <1>4. CronTypeOK'
    <2>1. CASE cron' = EntriesFor(local.auto)
      BY <1>3, <2>1, EntriesTyped, Zenon DEF CronTypeOK
    <2>2. CASE cron' = cron
      BY <2>2, KeepCron
    <2>3. CASE /\ local.auto.mode = "on"
               /\ cron' = [cron EXCEPT !["sleep"] = AddEntry(cron["sleep"], local.auto.sleep)]
      BY <1>3, <2>3, EntriesTyped, Zenon DEF CronTypeOK
    <2>. QED BY <1>2, <2>1, <2>2, <2>3
  <1>5. /\ VersionsTypeOK' /\ VersionsOrdered' /\ ClusterTypeOK' /\ EnvironmentTypeOK'
        /\ Server' = Server /\ InFlight' = InFlight
    BY <1>1, NoWrite, KeepCluster, KeepEnvironment
  <1>6. WorkerTypeOK' /\ pc' \in {"idle", "blocked"}
    <2>1. CASE Return(FALSE)
      BY <1>1, <2>1, ReturnStep
    <2>2. CASE GoTo("blocked")
      BY <2>2 DEF GoTo, WorkerTypeOK, Labels
    <2>. QED BY <1>2, <2>1, <2>2
  <1>7. HasFinalizer(Server)
    BY <1>1 DEF WorkerConsistent
  <1>8. WorkerConsistent' /\ ForkGuarded'
    BY <1>1, <1>5, <1>6, <1>7 DEF WorkerConsistent, ForkGuarded
  <1>9. VClusterGuarded'
    BY <1>1, <1>5, <1>6 DEF VClusterGuarded
  <1>10. SleepProgress' /\ DeletionProgress'
    BY <1>6 DEF SleepProgress, DeletionProgress
  <1>. QED BY <1>4, <1>5, <1>6, <1>8, <1>9, <1>10

-----------------------------------------------------------------------------
(* Putting the modules to sleep, waking them, deleting them. *)

\* The list of modules, with what the API says of each.
Listing == UNION {[S -> ModuleState] : S \in SUBSET Modules}

LEMMA ListedTyped ==
    ASSUME mods \in [Modules -> ModuleState], NEW S \in SUBSET Modules
    PROVE  [m \in S |-> mods[m]] \in Listing
  <1>1. [m \in S |-> mods[m]] \in [S -> ModuleState]
    OBVIOUS
  <1>. QED BY <1>1, Zenon DEF Listing

LEMMA WithoutTyped ==
    ASSUME NEW f \in Listing, NEW m
    PROVE  /\ Without(f, m) \in Listing
           /\ DOMAIN Without(f, m) = DOMAIN f \ {m} /\ DOMAIN f \subseteq Modules
           /\ \A x \in DOMAIN f \ {m} : Without(f, m)[x] = f[x]
  <1>1. PICK S \in SUBSET Modules : f \in [S -> ModuleState]
    BY Zenon DEF Listing
  <1>2. Without(f, m) \in [S \ {m} -> ModuleState] /\ DOMAIN f = S
    BY <1>1 DEF Without
  <1>3. S \ {m} \in SUBSET Modules
    OBVIOUS
  <1>4. Without(f, m) \in Listing
    BY <1>2, <1>3, Zenon DEF Listing
  <1>. QED BY <1>1, <1>2, <1>4 DEF Without

\* sleepModules lists what is awake, handleDeletion lists everything, and drops the cron
\* entries before it goes on.
LEMMA ListStep == Inductive /\ list => Inductive'
  <1>. SUFFICES ASSUME Inductive, NEW label, NEW next, getRelatedModules(label, next),
                       \/ label = "list sleep" /\ next = "sleep"
                       \/ label = "list resume" /\ next = "resume"
                       \/ label = "list delete" /\ next = "delete"
                PROVE  Inductive'
    BY DEF list
  <1>1. UNCHANGED <<objs, cluster, source, environment>> /\ pc = label
    BY DEF getRelatedModules
  <1>2. /\ VersionsTypeOK' /\ VersionsOrdered' /\ ClusterTypeOK' /\ EnvironmentTypeOK'
        /\ Server' = Server /\ InFlight' = InFlight
    BY <1>1, NoWrite, KeepCluster, KeepEnvironment
  <1>3. mods \in [Modules -> ModuleState] /\ Selected(label) \subseteq Modules
    BY DEF ClusterTypeOK, Selected, Existing
  <1>4. NoEntries \in [sleep : Schedules \cup {"none"}, resume : Schedules \cup {"none"}]
    BY DEF NoEntries
  <1>5. CASE /\ pc' = next /\ listed' = [m \in Selected(label) |-> mods[m]]
             /\ cron' = IF label = "list delete" THEN NoEntries ELSE cron
             /\ UNCHANGED <<queued, goal, then, local, awaited>>
    <2>1. listed' \in Listing
      BY <1>3, <1>5, ListedTyped
    <2>2. CronTypeOK'
      BY <1>4, <1>5 DEF CronTypeOK
    <2>3. WorkerTypeOK'
      BY <1>5, <2>1 DEF WorkerTypeOK, Labels, Listing
    <2>4. WorkerConsistent' /\ ForkGuarded'
      BY <1>1, <1>2, <1>5 DEF WorkerConsistent, ForkGuarded
    <2>5. VClusterGuarded'
      BY <1>1, <1>2, <1>5 DEF VClusterGuarded
    <2>6. DOMAIN listed' = Selected(label) /\ \A m \in Selected(label) : listed'[m] = mods[m]
      BY <1>5
    <2>7. SleepProgress'
      <3>1. CASE label = "list sleep"
        <4>1. /\ \A m \in DOMAIN listed' : listed'[m] = "awake"
              /\ \A m \in Existing : mods[m] = "hibernated" \/ m \in DOMAIN listed'
          BY <1>3, <2>6, <3>1 DEF Selected, Existing, ModuleState
        <4>. QED BY <1>1, <1>5, <3>1, <4>1 DEF SleepProgress, Existing
      <3>2. CASE label # "list sleep"
        BY <1>5, <3>2 DEF SleepProgress
      <3>. QED BY <3>1, <3>2
    <2>8. DeletionProgress'
      BY <1>1, <1>5, <2>6 DEF DeletionProgress, Selected, Existing
    <2>. QED BY <1>2, <2>2, <2>3, <2>4, <2>5, <2>7, <2>8
  <1>6. CASE UNCHANGED cron /\ Return(TRUE) /\ label = "list delete"
    <2>1. WorkerTypeOK' /\ SleepProgress' /\ DeletionProgress' /\ pc' = "idle" /\ CronTypeOK'
      BY <1>1, <1>6, ReturnStep, KeepCron
    <2>2. WorkerConsistent' /\ ForkGuarded'
      BY <1>1, <1>2, <1>6, <2>1 DEF WorkerConsistent, ForkGuarded
    <2>3. VClusterGuarded'
      BY <1>1, <1>2, <1>6, <2>1 DEF VClusterGuarded
    <2>. QED BY <1>2, <2>1, <2>2, <2>3
  <1>7. CASE UNCHANGED cron /\ CallSetPhase("failed", "error") /\ label # "list delete"
    <2>1. pc' = "setPhase" /\ goal' = "failed" /\ then' = "error" /\ UNCHANGED <<queued, local, listed, awaited>>
      BY <1>7 DEF CallSetPhase
    <2>2. WorkerTypeOK' /\ CronTypeOK'
      BY <1>7, <2>1, KeepCron DEF WorkerTypeOK, Labels
    <2>3. WorkerConsistent' /\ ForkGuarded'
      BY <1>1, <1>2, <1>7, <2>1 DEF WorkerConsistent, ForkGuarded
    <2>4. VClusterGuarded'
      BY <1>1, <1>2, <1>7, <2>1 DEF VClusterGuarded
    <2>5. SleepProgress' /\ DeletionProgress'
      BY <2>1 DEF SleepProgress, DeletionProgress
    <2>. QED BY <1>2, <2>2, <2>3, <2>4, <2>5
  <1>. QED BY <1>5, <1>6, <1>7 DEF getRelatedModules

\* A module that is passed is asleep, or has gone.
LEMMA SleepModulesStep == Inductive /\ sleepModules => Inductive'
  <1>. SUFFICES ASSUME Inductive, sleepModules PROVE Inductive'
    OBVIOUS
  <1>1. UNCHANGED <<objs, cron, marked, vcluster, cleanup, source, environment>> /\ pc = "sleep"
    BY DEF sleepModules, patchModules
  <1>2. /\ VersionsTypeOK' /\ VersionsOrdered' /\ CronTypeOK' /\ EnvironmentTypeOK'
        /\ Server' = Server /\ InFlight' = InFlight
    BY <1>1, NoWrite, KeepCron, KeepEnvironment
  <1>3. listed \in Listing /\ mods \in [Modules -> ModuleState]
    BY DEF WorkerTypeOK, ClusterTypeOK, Listing
  <1>4. ASSUME NEW m \in DOMAIN listed,
               PatchModule(m, "hibernated") \/ ("patch" \in Faults /\ UNCHANGED mods),
               listed' = Without(listed, m), UNCHANGED <<queued, pc, goal, then, local, awaited>>
        PROVE  Inductive'
    <2>1. /\ listed' \in Listing /\ DOMAIN listed' = DOMAIN listed \ {m} /\ m \in Modules
          /\ \A x \in DOMAIN listed' : listed'[x] = listed[x]
      BY <1>3, <1>4, WithoutTyped
    <2>2. mods' \in [Modules -> ModuleState] /\ \A x \in Modules : mods'[x] \in {mods[x], "hibernated"}
      BY <1>3, <1>4, <2>1 DEF PatchModule, ModuleState
    <2>3. WorkerTypeOK' /\ ClusterTypeOK'
      BY <1>1, <1>4, <2>1, <2>2 DEF WorkerTypeOK, ClusterTypeOK, Listing
    <2>4. WorkerConsistent' /\ ForkGuarded'
      BY <1>1, <1>2, <1>4 DEF WorkerConsistent, ForkGuarded
    <2>5. VClusterGuarded'
      BY <1>1, <1>2, <1>4 DEF VClusterGuarded
    <2>6. SleepProgress'
      <3>. SUFFICES ASSUME Managed, "patch" \notin Faults, "create" \notin Moves
                    PROVE  /\ \A x \in Existing' : mods'[x] = "hibernated" \/ x \in DOMAIN listed'
                           /\ \A x \in DOMAIN listed' : listed'[x] = "awake"
        BY <1>1, <1>4 DEF SleepProgress
      <3>1. /\ \A x \in Existing : mods[x] = "hibernated" \/ x \in DOMAIN listed
            /\ \A x \in DOMAIN listed : listed[x] = "awake"
        BY <1>1 DEF SleepProgress
      <3>2. mods'[m] \in {"absent", "hibernated"} /\ \A x \in Modules \ {m} : mods'[x] = mods[x]
        BY <1>3, <1>4, <2>1, <3>1 DEF PatchModule
      <3>. QED BY <2>1, <3>1, <3>2 DEF Existing
    <2>7. DeletionProgress'
      BY <1>1, <1>4 DEF DeletionProgress
    <2>. QED BY <1>2, <2>3, <2>4, <2>5, <2>6, <2>7
  <1>5. CASE DOMAIN listed = {} /\ CallSetPhase("hibernated", "auto") /\ UNCHANGED mods
    <2>1. /\ pc' = "setPhase" /\ goal' = "hibernated" /\ then' = "auto"
          /\ UNCHANGED <<queued, local, listed, awaited>>
      BY <1>5 DEF CallSetPhase
    <2>2. WorkerTypeOK' /\ ClusterTypeOK'
      BY <1>1, <1>5, <2>1 DEF WorkerTypeOK, ClusterTypeOK, Labels
    <2>3. WorkerConsistent' /\ ForkGuarded'
      BY <1>1, <1>2, <2>1 DEF WorkerConsistent, ForkGuarded
    <2>4. VClusterGuarded'
      BY <1>1, <1>2, <2>1 DEF VClusterGuarded
    <2>5. SleepProgress'
      BY <1>1, <1>5, <2>1 DEF SleepProgress, Existing
    <2>6. DeletionProgress'
      BY <2>1 DEF DeletionProgress
    <2>. QED BY <1>2, <2>2, <2>3, <2>4, <2>5, <2>6
  <1>. QED BY <1>4, <1>5 DEF sleepModules, patchModules

LEMMA ResumeModulesStep == Inductive /\ resumeModules => Inductive'
  <1>. SUFFICES ASSUME Inductive, resumeModules PROVE Inductive'
    OBVIOUS
  <1>1. UNCHANGED <<objs, cron, marked, vcluster, cleanup, source, environment>> /\ pc = "resume"
    BY DEF resumeModules, patchModules
  <1>2. /\ VersionsTypeOK' /\ VersionsOrdered' /\ CronTypeOK' /\ EnvironmentTypeOK'
        /\ Server' = Server /\ InFlight' = InFlight
    BY <1>1, NoWrite, KeepCron, KeepEnvironment
  <1>3. listed \in Listing /\ mods \in [Modules -> ModuleState]
    BY DEF WorkerTypeOK, ClusterTypeOK, Listing
  <1>4. ASSUME NEW m \in DOMAIN listed,
               PatchModule(m, "awake") \/ ("patch" \in Faults /\ UNCHANGED mods),
               listed' = Without(listed, m), UNCHANGED <<queued, pc, goal, then, local, awaited>>
        PROVE  Inductive'
    <2>1. listed' \in Listing /\ m \in Modules
      BY <1>3, <1>4, WithoutTyped
    <2>2. mods' \in [Modules -> ModuleState]
      BY <1>3, <1>4, <2>1 DEF PatchModule, ModuleState
    <2>3. WorkerTypeOK' /\ ClusterTypeOK'
      BY <1>1, <1>4, <2>1, <2>2 DEF WorkerTypeOK, ClusterTypeOK, Listing
    <2>4. WorkerConsistent' /\ ForkGuarded'
      BY <1>1, <1>2, <1>4 DEF WorkerConsistent, ForkGuarded
    <2>5. VClusterGuarded'
      BY <1>1, <1>2, <1>4 DEF VClusterGuarded
    <2>6. SleepProgress' /\ DeletionProgress'
      BY <1>1, <1>4 DEF SleepProgress, DeletionProgress
    <2>. QED BY <1>2, <2>3, <2>4, <2>5, <2>6
  <1>5. CASE DOMAIN listed = {} /\ CallSetPhase("ready", "auto") /\ UNCHANGED mods
    <2>1. /\ pc' = "setPhase" /\ goal' = "ready" /\ then' = "auto"
          /\ UNCHANGED <<queued, local, listed, awaited>>
      BY <1>5 DEF CallSetPhase
    <2>2. WorkerTypeOK' /\ ClusterTypeOK'
      BY <1>1, <1>5, <2>1 DEF WorkerTypeOK, ClusterTypeOK, Labels
    <2>3. WorkerConsistent' /\ ForkGuarded'
      BY <1>1, <1>2, <2>1 DEF WorkerConsistent, ForkGuarded
    <2>4. VClusterGuarded'
      BY <1>1, <1>2, <2>1 DEF VClusterGuarded
    <2>5. SleepProgress' /\ DeletionProgress'
      BY <2>1 DEF SleepProgress, DeletionProgress
    <2>. QED BY <1>2, <2>2, <2>3, <2>4, <2>5
  <1>. QED BY <1>4, <1>5 DEF resumeModules, patchModules

\* The modules still to be deleted are listed, or being waited for.
LEMMA DeleteModuleStep == Inductive /\ deleteModule => Inductive'
  <1>. SUFFICES ASSUME Inductive, deleteModule PROVE Inductive'
    OBVIOUS
  <1>1. /\ UNCHANGED <<objs, queued, goal, then, local, cron, vcluster, cleanup, source, environment>>
        /\ pc = "delete"
    BY DEF deleteModule
  <1>2. /\ VersionsTypeOK' /\ VersionsOrdered' /\ CronTypeOK' /\ EnvironmentTypeOK'
        /\ Server' = Server /\ InFlight' = InFlight
    BY <1>1, NoWrite, KeepCron, KeepEnvironment
  <1>3. /\ listed \in Listing /\ mods \in [Modules -> ModuleState]
        /\ awaited \subseteq Modules /\ marked \subseteq Modules
    BY DEF WorkerTypeOK, ClusterTypeOK, Listing
  <1>4. PICK m \in DOMAIN listed :
          /\ listed' = Without(listed, m)
          /\ \/ /\ mods[m] # "absent" /\ marked' = marked \cup {m}
                /\ mods' \in {mods, [mods EXCEPT ![m] = "absent"]}
                /\ pc' = "wait" /\ awaited' = {m}
             \/ /\ mods[m] = "absent" \/ "patch" \in Faults
                /\ UNCHANGED <<mods, marked, pc, awaited>>
    BY DEF deleteModule
  <1>5. listed' \in Listing /\ DOMAIN listed' = DOMAIN listed \ {m} /\ m \in Modules
    BY <1>3, WithoutTyped, <1>4
  <1>6. WorkerTypeOK' /\ ClusterTypeOK'
    <2>1. awaited' \subseteq Modules /\ marked' \subseteq Modules /\ pc' \in {"wait", "delete"}
      BY <1>1, <1>3, <1>4, <1>5
    <2>2. mods' \in [Modules -> ModuleState]
      BY <1>3, <1>4, <1>5 DEF ModuleState
    <2>3. WorkerTypeOK'
      BY <1>1, <1>5, <2>1 DEF WorkerTypeOK, Labels, Listing
    <2>4. ClusterTypeOK'
      BY <1>1, <2>1, <2>2, Zenon DEF ClusterTypeOK
    <2>. QED BY <2>3, <2>4
  <1>7. WorkerConsistent' /\ ForkGuarded'
    BY <1>1, <1>2, <1>4 DEF WorkerConsistent, ForkGuarded
  <1>8. VClusterGuarded'
    BY <1>1, <1>2, <1>4 DEF VClusterGuarded
  <1>9. SleepProgress'
    BY <1>1, <1>4 DEF SleepProgress
  <1>10. DeletionProgress'
    <2>. SUFFICES ASSUME Faults \cap {"patch", "timeout"} = {}, "late" \notin Moves
                  PROVE  /\ pc' = "delete" => Existing' \subseteq DOMAIN listed'
                         /\ pc' = "wait" => Existing' \subseteq DOMAIN listed' \cup awaited'
      BY <1>1 DEF DeletionProgress
    <2>1. Existing \subseteq DOMAIN listed /\ "patch" \notin Faults
      BY <1>1 DEF DeletionProgress
    <2>2. Existing' \subseteq Existing
      BY <1>3, <1>4 DEF Existing
    <2>3. pc' = "delete" => mods'[m] = "absent"
      BY <1>4, <2>1
    <2>. QED BY <1>4, <1>5, <2>1, <2>2, <2>3 DEF Existing
  <1>. QED BY <1>2, <1>6, <1>7, <1>8, <1>9, <1>10

LEMMA AwaitModuleStep == Inductive /\ awaitModule => Inductive'
  <1>. SUFFICES ASSUME Inductive, awaitModule PROVE Inductive'
    OBVIOUS
  <1>1. /\ UNCHANGED <<objs, queued, goal, then, local, listed, cron, cluster, source, environment>>
        /\ pc = "wait" /\ pc' = "delete" /\ awaited' = {}
        /\ (\A m \in awaited : mods[m] = "absent") \/ "timeout" \in Faults
    BY DEF awaitModule
  <1>2. /\ VersionsTypeOK' /\ VersionsOrdered' /\ CronTypeOK' /\ ClusterTypeOK' /\ EnvironmentTypeOK'
        /\ Server' = Server /\ InFlight' = InFlight
    BY <1>1, NoWrite, KeepCron, KeepCluster, KeepEnvironment
  <1>3. WorkerTypeOK'
    BY <1>1 DEF WorkerTypeOK, Labels
  <1>4. WorkerConsistent' /\ ForkGuarded'
    BY <1>1, <1>2 DEF WorkerConsistent, ForkGuarded
  <1>5. VClusterGuarded' /\ SleepProgress'
    BY <1>1, <1>2 DEF VClusterGuarded, SleepProgress
  <1>6. DeletionProgress'
    BY <1>1 DEF DeletionProgress, Existing
  <1>. QED BY <1>2, <1>3, <1>4, <1>5, <1>6

\* The vcluster goes only when the workspace is being deleted.
LEMMA UninstallVClusterStep == Inductive /\ uninstallVCluster => Inductive'
  <1>. SUFFICES ASSUME Inductive, uninstallVCluster PROVE Inductive'
    OBVIOUS
  <1>1. /\ UNCHANGED <<objs, cron, mods, marked, cleanup, source, environment>>
        /\ UNCHANGED <<queued, goal, then, local, listed, awaited>>
        /\ pc = "delete" /\ pc' = "dropFinalizer"
        /\ vcluster' \in {"none", "namespace", "running"}
    BY DEF uninstallVCluster, GoTo, ClusterTypeOK
  <1>2. /\ VersionsTypeOK' /\ VersionsOrdered' /\ CronTypeOK' /\ EnvironmentTypeOK'
        /\ Server' = Server /\ InFlight' = InFlight
    BY <1>1, NoWrite, KeepCron, KeepEnvironment
  <1>3. WorkerTypeOK' /\ ClusterTypeOK'
    BY <1>1 DEF WorkerTypeOK, ClusterTypeOK, Labels
  <1>4. Server.deleting
    BY <1>1 DEF WorkerConsistent
  <1>5. WorkerConsistent' /\ ForkGuarded'
    BY <1>1, <1>2 DEF WorkerConsistent, ForkGuarded
  <1>6. VClusterGuarded'
    BY <1>1, <1>2, <1>4 DEF VClusterGuarded
  <1>7. SleepProgress' /\ DeletionProgress'
    BY <1>1 DEF SleepProgress, DeletionProgress
  <1>. QED BY <1>2, <1>3, <1>5, <1>6, <1>7

-----------------------------------------------------------------------------
(* The steps of the environment. *)

LEMMA DeliverStep == Inductive /\ deliver => Inductive'
  <1>. SUFFICES ASSUME Inductive, deliver PROVE Inductive'
    OBVIOUS
  <1>1. /\ UNCHANGED <<worker, cron, cluster, source, environment>> /\ queued' = TRUE
        /\ Len(objs) > 1 /\ objs' = Tail(objs)
    BY DEF deliver
  <1>2. /\ Server' = Server /\ InFlight' \subseteq InFlight
        /\ objs' \in Seq(Version) /\ Len(objs') \in 1 .. MaxLag + 1
    BY <1>1, Versions, DeliverInFlight
  <1>3. VersionsTypeOK' /\ VersionsOrdered'
    BY <1>1, <1>2, FewerVersions DEF VersionsTypeOK
  <1>4. \A w : Alike(w, w)
    BY DEF Alike
  <1>5. WorkerConsistent' /\ ForkGuarded' /\ VClusterGuarded' /\ SleepProgress' /\ DeletionProgress'
    BY <1>1, <1>2, <1>4, QuietStep
  <1>6. CronTypeOK' /\ ClusterTypeOK' /\ EnvironmentTypeOK'
    BY <1>1, KeepCron, KeepCluster, KeepEnvironment
  <1>7. WorkerTypeOK'
    BY <1>1 DEF WorkerTypeOK
  <1>. QED BY <1>3, <1>5, <1>6, <1>7

\* The counters stay within their bounds.
LEMMA CounterFits ==
    \A n \in Nat : \A k \in 0 .. n : k < n => k + 1 \in 0 .. n
  OBVIOUS

\* An edit of the spec changes neither phase, finalizers nor deletion.
LEMMA EditStep ==
    ASSUME Inductive, NEW u \in Version, Alike(u, Server), edit(u)
    PROVE  Inductive'
  <1>1. /\ UNCHANGED <<queued, worker, cron, cluster, source, given, crashes>>
        /\ Server.phase # "gone" /\ edits < MaxEdits /\ edits' = edits + 1
        /\ \E m \in Admitted(u) : Patch(m)
    BY DEF edit
  <1>2. PICK m \in Admitted(u) : Len(objs) <= MaxLag /\ objs' = Append(objs, m)
    BY <1>1 DEF Patch
  <1>3. m \in Version /\ Alike(m, u)
    BY <1>2, AdmittedAlike DEF EnvironmentTypeOK
  <1>4. Alike(m, Server)
    BY <1>3 DEF Alike
  <1>5. m.phase = Server.phase /\ m.deleting = Server.deleting /\ (HasFinalizer(m) <=> HasFinalizer(Server))
    BY <1>4, AlikeFinalizer
  <1>6. VersionsTypeOK' /\ VersionsOrdered' /\ Server' = m /\ InFlight' = InFlight \cup {m}
    BY <1>1, <1>2, <1>3, <1>5, StaleReadIsSafe, WriteKeepsOrder
  <1>7. Server \in InFlight /\ \A w : Alike(w, w)
    BY Versions DEF Alike
  <1>8. WorkerConsistent' /\ ForkGuarded' /\ VClusterGuarded' /\ SleepProgress' /\ DeletionProgress'
    BY <1>1, <1>4, <1>6, <1>7, QuietStep
  <1>9. CronTypeOK' /\ ClusterTypeOK' /\ WorkerTypeOK'
    BY <1>1, KeepCron, KeepCluster DEF WorkerTypeOK
  <1>10. EnvironmentTypeOK'
    <2>1. edits' \in 0 .. MaxEdits
      BY <1>1, ConstantsAssumption, CounterFits DEF EnvironmentTypeOK
    <2>. QED BY <1>1, <2>1 DEF EnvironmentTypeOK
  <1>. QED BY <1>6, <1>8, <1>9, <1>10

LEMMA UserStep ==
    Inductive /\ (setHibernated \/ setAuto \/ sleepCron \/ resumeCron) => Inductive'
  <1>. SUFFICES ASSUME Inductive, setHibernated \/ setAuto \/ sleepCron \/ resumeCron
                PROVE  Inductive'
    OBVIOUS
  <1>1. Server \in Version
    BY Versions
  <1>2. (~Server.hibernated) \in BOOLEAN /\ TRUE \in BOOLEAN /\ FALSE \in BOOLEAN
    BY Zenon
  <1>3. NoAuto \in AutoSetting /\ Autos \subseteq AutoSetting
    BY ConstantsAssumption DEF NoAuto, AutoSetting
  <1>4. CASE \E h \in BOOLEAN : edit([Server EXCEPT !.hibernated = h])
    BY <1>1, <1>3, <1>4, UserFieldSet, EditStep
  <1>5. CASE \E a \in Autos : edit([Server EXCEPT !.auto = a])
    BY <1>1, <1>2, <1>3, <1>5, UserFieldSet, EditStep
  <1>. QED BY <1>2, <1>4, <1>5 DEF setHibernated, setAuto, sleepCron, resumeCron, cronFires

\* A deletion is marked on the newest version, or removes one that has no finalizer.
LEMMA DeleteStep == Inductive /\ delete => Inductive'
  <1>. SUFFICES ASSUME Inductive, delete PROVE Inductive'
    OBVIOUS
  <1>. DEFINE v == IF HasFinalizer(Server)
                   THEN [Server EXCEPT !.deleting = TRUE]
                   ELSE [Server EXCEPT !.deleting = TRUE, !.phase = "gone"]
  <1>1. /\ UNCHANGED <<queued, worker, cron, cluster, source, environment>>
        /\ Server.phase # "gone" /\ Len(objs) <= MaxLag /\ objs' = Append(objs, v)
    BY DEF delete, Patch
  <1>2. Server \in Version /\ Server \in InFlight
    BY Versions
  <1>3. /\ v \in Version /\ v.deleting = TRUE /\ v.finalizers = Server.finalizers
        /\ v.phase = IF HasFinalizer(Server) THEN Server.phase ELSE "gone"
    BY <1>2, Deleted
  <1>. HIDE DEF v
  <1>4. v.deleting /\ (HasFinalizer(v) <=> HasFinalizer(Server))
    BY <1>3 DEF HasFinalizer
  <1>5. VersionsTypeOK' /\ VersionsOrdered' /\ Server' = v /\ InFlight' = InFlight \cup {v}
    BY <1>1, <1>3, <1>4, StaleReadIsSafe, WriteKeepsOrder
  <1>6. CronTypeOK' /\ ClusterTypeOK' /\ EnvironmentTypeOK' /\ WorkerTypeOK'
    BY <1>1, KeepCron, KeepCluster, KeepEnvironment DEF WorkerTypeOK
  <1>7. WorkerConsistent'
    BY <1>1, <1>3, <1>4, <1>5 DEF WorkerConsistent
  <1>8. ForkGuarded'
    BY <1>1, <1>3, <1>5 DEF ForkGuarded
  <1>9. VClusterGuarded'
    <2>1. ASSUME Managed, "write" \notin Faults, cleanup
          PROVE  HasFinalizer(Server)
      BY <1>1, <2>1, StaleReadIsSafe DEF VClusterGuarded
    <2>. QED BY <1>1, <1>2, <1>3, <1>4, <1>5, <2>1 DEF VClusterGuarded
  <1>10. SleepProgress' /\ DeletionProgress'
    BY <1>1 DEF SleepProgress, DeletionProgress, Existing
  <1>. QED BY <1>5, <1>6, <1>7, <1>8, <1>9, <1>10

\* The Secret and the source's modules are no part of the invariant.
LEMMA OutsideStep == Inductive /\ (secretMoves \/ sourceReady) => Inductive'
  <1>. SUFFICES ASSUME Inductive, secretMoves \/ sourceReady PROVE Inductive'
    OBVIOUS
  <1>1. UNCHANGED <<objs, queued, worker, cron, cluster, forked, setting, crashes>>
    BY DEF secretMoves, sourceReady
  <1>2. secret' \in BOOLEAN /\ srcReady' \in BOOLEAN
    BY Zenon DEF secretMoves, sourceReady, EnvironmentTypeOK
  <1>3. EnvironmentTypeOK'
    <2>1. edits' = edits \/ (edits < MaxEdits /\ edits' = edits + 1)
      BY DEF secretMoves, sourceReady
    <2>2. edits' \in 0 .. MaxEdits
      BY <2>1, ConstantsAssumption, CounterFits DEF EnvironmentTypeOK
    <2>. QED BY <1>1, <1>2, <2>2, Zenon DEF EnvironmentTypeOK
  <1>4. VersionsTypeOK' /\ VersionsOrdered' /\ Server' = Server /\ InFlight' = InFlight
    BY <1>1, NoWrite
  <1>5. CronTypeOK' /\ ClusterTypeOK' /\ WorkerTypeOK'
    BY <1>1, KeepCron, KeepCluster DEF WorkerTypeOK
  <1>6. \A w : Alike(w, w)
    BY DEF Alike
  <1>7. WorkerConsistent' /\ ForkGuarded' /\ VClusterGuarded' /\ SleepProgress' /\ DeletionProgress'
    BY <1>1, <1>4, <1>6, QuietStep
  <1>. QED BY <1>3, <1>4, <1>5, <1>7

\* A module appears, or goes away.
LEMMA ModulesStep == Inductive /\ (createModule \/ moduleGone) => Inductive'
  <1>. SUFFICES ASSUME Inductive, createModule \/ moduleGone PROVE Inductive'
    OBVIOUS
  <1>1. UNCHANGED <<objs, queued, worker, cron, marked, vcluster, cleanup, source, environment>>
    BY DEF createModule, moduleGone
  <1>2. /\ VersionsTypeOK' /\ VersionsOrdered' /\ CronTypeOK' /\ EnvironmentTypeOK'
        /\ Server' = Server /\ InFlight' = InFlight
    BY <1>1, NoWrite, KeepCron, KeepEnvironment
  <1>3. mods \in [Modules -> ModuleState]
    BY DEF ClusterTypeOK
  <1>4. mods' \in [Modules -> ModuleState]
    BY <1>3 DEF createModule, moduleGone, ModuleState, Existing
  <1>5. ClusterTypeOK' /\ WorkerTypeOK'
    BY <1>1, <1>4 DEF ClusterTypeOK, WorkerTypeOK
  <1>6. WorkerConsistent' /\ ForkGuarded'
    BY <1>1, <1>2 DEF WorkerConsistent, ForkGuarded
  <1>7. VClusterGuarded'
    BY <1>1, <1>2 DEF VClusterGuarded
  <1>8. moduleGone => Existing' \subseteq Existing /\ \A m \in Existing' : mods'[m] = mods[m]
    BY <1>3 DEF moduleGone, Existing
  <1>9. SleepProgress'
    BY <1>1, <1>8 DEF SleepProgress, createModule
  <1>10. DeletionProgress'
    <2>1. CASE moduleGone
      BY <1>1, <1>8, <2>1 DEF DeletionProgress
    <2>2. CASE createModule
      <3>1. pc \in {"delete", "wait"} => "late" \in Moves
        BY <2>2 DEF createModule, WorkerConsistent
      <3>. QED BY <1>1, <3>1 DEF DeletionProgress
    <2>. QED BY <2>1, <2>2
  <1>. QED BY <1>2, <1>5, <1>6, <1>7, <1>9, <1>10

\* The clean-up of a failed install finds a workspace that no copy shows as ready.
LEMMA CleanupStep == Inductive /\ cleanupFailedInstall => Inductive'
  <1>. SUFFICES ASSUME Inductive, cleanupFailedInstall PROVE Inductive'
    OBVIOUS
  <1>1. /\ UNCHANGED <<objs, queued, worker, cron, mods, marked, source, environment>>
        /\ cleanup /\ cleanup' = FALSE /\ vcluster' \in {"none", "namespace", "running"}
    BY DEF cleanupFailedInstall, ClusterTypeOK
  <1>2. /\ VersionsTypeOK' /\ VersionsOrdered' /\ CronTypeOK' /\ EnvironmentTypeOK'
        /\ Server' = Server /\ InFlight' = InFlight
    BY <1>1, NoWrite, KeepCron, KeepEnvironment
  <1>3. ClusterTypeOK' /\ WorkerTypeOK'
    BY <1>1 DEF ClusterTypeOK, WorkerTypeOK
  <1>4. WorkerConsistent' /\ ForkGuarded' /\ SleepProgress' /\ DeletionProgress'
    BY <1>1, <1>2 DEF WorkerConsistent, ForkGuarded, SleepProgress, DeletionProgress, Existing
  <1>5. VClusterGuarded'
    <2>1. ASSUME Managed, "write" \notin Faults
          PROVE  /\ \A v \in InFlight : v.phase \notin {"ready", "hibernated"}
                 /\ pc \notin {"list sleep", "list resume", "sleep", "resume"}
                 /\ pc = "setPhase" => goal \notin {"ready", "hibernated"}
      BY <1>1, <2>1 DEF VClusterGuarded, VersionsOrdered
    <2>. QED BY <1>1, <1>2, <2>1 DEF VClusterGuarded
  <1>. QED BY <1>2, <1>3, <1>4, <1>5

\* A restart loses the worker, the cron entries and the clean-up, never a version.
LEMMA RestartStep == Inductive /\ restart => Inductive'
  <1>. SUFFICES ASSUME Inductive, restart PROVE Inductive'
    OBVIOUS
  <1>1. /\ UNCHANGED <<mods, marked, vcluster, source, given, edits>>
        /\ crashes < MaxCrashes /\ crashes' = crashes + 1
        /\ objs' = <<Server>> /\ queued' = TRUE
        /\ pc' = "idle" /\ goal' = "" /\ then' = "idle" /\ local' = NoCopy
        /\ listed' = NoModules /\ awaited' = {} /\ cron' = NoEntries /\ cleanup' = FALSE
    BY DEF restart
  <1>2. Server \in Version /\ Server \in InFlight
    BY Versions
  <1>3. /\ Server' = Server /\ InFlight' = {Server}
        /\ objs' \in Seq(Version) /\ Len(objs') \in 1 .. MaxLag + 1
    BY <1>1, <1>2, RelistInFlight
  <1>4. VersionsTypeOK' /\ VersionsOrdered'
    BY <1>1, <1>2, <1>3, FewerVersions DEF VersionsTypeOK
  <1>5. WorkerTypeOK'
    BY <1>1, NoCopyTyped DEF WorkerTypeOK, Labels
  <1>6. CronTypeOK' /\ ClusterTypeOK'
    BY <1>1 DEF CronTypeOK, NoEntries, ClusterTypeOK
  <1>7. EnvironmentTypeOK'
    <2>1. crashes' \in 0 .. MaxCrashes
      BY <1>1, ConstantsAssumption, CounterFits DEF EnvironmentTypeOK
    <2>. QED BY <1>1, <2>1 DEF EnvironmentTypeOK
  <1>8. WorkerConsistent' /\ ForkGuarded' /\ SleepProgress' /\ DeletionProgress'
    BY <1>1, <1>3 DEF WorkerConsistent, ForkGuarded, SleepProgress, DeletionProgress
  <1>9. VClusterGuarded'
    BY <1>1, <1>2, <1>3 DEF VClusterGuarded
  <1>. QED BY <1>4, <1>5, <1>6, <1>7, <1>8, <1>9

-----------------------------------------------------------------------------
(* The theorems. *)

LEMMA StutterStep == Inductive /\ UNCHANGED vars => Inductive'
  <1>. SUFFICES ASSUME Inductive, UNCHANGED vars PROVE Inductive'
    OBVIOUS
  <1>1. UNCHANGED <<objs, queued, worker, cron, cluster, source, environment>>
    BY DEF vars
  <1>2. /\ VersionsTypeOK' /\ VersionsOrdered' /\ CronTypeOK' /\ ClusterTypeOK' /\ EnvironmentTypeOK'
        /\ Server' = Server /\ InFlight' = InFlight
    BY <1>1, NoWrite, KeepCron, KeepCluster, KeepEnvironment
  <1>3. \A w : Alike(w, w)
    BY DEF Alike
  <1>4. WorkerConsistent' /\ ForkGuarded' /\ VClusterGuarded' /\ SleepProgress' /\ DeletionProgress'
    BY <1>1, <1>2, <1>3, QuietStep
  <1>5. WorkerTypeOK'
    BY <1>1 DEF WorkerTypeOK
  <1>. QED BY <1>2, <1>4, <1>5

LEMMA NextInductive == Inductive /\ [Next]_vars => Inductive'
  BY ReconcileStep, AddFinalizerStep, SetPhaseStep, DropFinalizerStep, WriteFailsStep,
     InstallVClusterStep, ForkStep, AutoHibernationStep, ListStep, SleepModulesStep,
     ResumeModulesStep, DeleteModuleStep, AwaitModuleStep, UninstallVClusterStep,
     DeliverStep, UserStep, DeleteStep, OutsideStep, ModulesStep, CleanupStep, RestartStep,
     StutterStep, Zenon
  DEF Next, Work, Environment

\* The invariant that carries the results below: it holds for every set of modules and
\* schedules, every lag of the cache and every combination of faults and moves.
THEOREM InductiveInvariant == Spec => []Inductive
  BY InitInductive, NextInductive, PTL DEF Spec

\* Every variable has its type, in every reachable state.
THEOREM TypeCorrect == Spec => []TypeOK
  BY InductiveInvariant, PTL

\* handleDeletion removes both cron entries before the finalizer, and handleAutoHibernation
\* makes none for a workspace whose finalizer is gone: no cron job outlives its workspace.
THEOREM NoCronJobLeft == Spec => []NoOrphanEntry
  <1>1. Inductive => NoOrphanEntry
    BY StaleReadIsSafe DEF WorkerConsistent, NoOrphanEntry
  <1>. QED BY <1>1, InductiveInvariant, PTL

\* handleEmptyPhase forks a managed workspace at most once, whatever copies later calls of
\* Reconcile read and however often the operator restarts.
THEOREM ForkedOnce == Spec => []ForkOnce
  <1>1. Inductive => ForkOnce
    BY DEF ForkGuarded, ForkOnce
  <1>. QED BY <1>1, InductiveInvariant, PTL

\* No clean-up of a failed install takes the vcluster of a workspace shown as ready or
\* hibernated.
THEOREM VClusterInPlace == Spec => []ReadyHasVCluster
  <1>1. Inductive => ReadyHasVCluster
    <2>. SUFFICES ASSUME Inductive, Managed, "write" \notin Faults,
                         Server.phase \in {"ready", "hibernated"}, ~Server.deleting
                  PROVE  vcluster = "running"
      BY DEF ReadyHasVCluster
    <2>1. Server \in InFlight
      BY Versions
    <2>. QED BY <2>1 DEF VClusterGuarded
  <1>. QED BY <1>1, InductiveInvariant, PTL

\* A write of the workspace: it keeps a deletion, and the phase too unless it is setPhase's
\* or it removes the workspace.
Written(v) ==
    /\ objs' = Append(objs, v) /\ (CacheIsCurrent \/ Len(objs) <= MaxLag) /\ Server.phase # "gone"
    /\ Server.deleting => v.deleting
    /\ \/ v.phase = Server.phase
       \/ v.phase = "gone" /\ (pc = "dropFinalizer" \/ Server.phase = "")
       \/ setPhase /\ v.phase = goal /\ v.phase \notin {"", "gone"}

\* What a step does to the versions.
LEMMA Writes ==
    ASSUME Inductive, Next
    PROVE  \/ UNCHANGED objs \/ deliver \/ restart
           \/ \E v \in Version : Written(v)
  <1>1. Server \in Version /\ Cached \in Version /\ setting \in Settings
    BY Versions DEF EnvironmentTypeOK
  <1>2. CASE addFinalizer
    <2>1. CASE UNCHANGED objs
      BY <2>1
    <2>2. ASSUME NEW m \in Admitted([Cached EXCEPT !.finalizers = {"delete"}]), Put(m),
                 Cached.phase # "gone"
          PROVE  m \in Version /\ Written(m)
      <3>1. m \in Version /\ m.phase = Cached.phase /\ m.deleting = Cached.deleting
        BY <1>1, <2>2, FinalizerAdded, AdmittedAlike, AlikeFinalizer
      <3>2. CacheIsCurrent /\ objs' = Append(objs, m) /\ Cached = Server
        BY <2>2, Versions DEF Put
      <3>. QED BY <2>2, <3>1, <3>2 DEF Written
    <2>. QED BY <1>2, <2>1, <2>2 DEF addFinalizer
  <1>3. CASE setPhase
    <2>. DEFINE v == [Cached EXCEPT !.phase = goal]
    <2>1. pc = "setPhase" /\ CacheIsCurrent /\ objs' = Append(objs, v) /\ Cached.phase # "gone"
      BY <1>3 DEF setPhase, Put
    <2>2. Cached = Server /\ goal \in Phase /\ goal \notin {"", "gone"}
      BY <2>1, Versions DEF WorkerTypeOK, WorkerConsistent
    <2>3. v \in Version /\ v.phase = goal /\ v.deleting = Cached.deleting
      BY <1>1, <2>2, PhaseSet
    <2>. HIDE DEF v
    <2>. QED BY <1>3, <2>1, <2>2, <2>3 DEF Written
  <1>4. CASE dropFinalizer
    <2>. DEFINE u == [Cached EXCEPT !.phase = "gone", !.finalizers = {}]
    <2>1. PICK m \in Admitted(u) : Put(m)
      BY <1>4 DEF dropFinalizer
    <2>2. u \in Version /\ u.phase = "gone" /\ u.deleting = Cached.deleting
      BY <1>1, FinalizerDropped
    <2>. HIDE DEF u
    <2>3. m \in Version /\ m.phase = "gone" /\ m.deleting = Cached.deleting
      BY <1>1, <2>1, <2>2, AdmittedAlike, AlikeFinalizer
    <2>4. pc = "dropFinalizer" /\ Cached.phase # "gone" /\ CacheIsCurrent /\ objs' = Append(objs, m)
      BY <1>4, <2>1 DEF dropFinalizer, Put
    <2>5. Cached = Server
      BY <2>4, Versions
    <2>. QED BY <2>3, <2>4, <2>5 DEF Written
  <1>5. ASSUME NEW u \in Version, Alike(u, Server), edit(u)
        PROVE  \E v \in Version : Written(v)
    <2>1. PICK m \in Admitted(u) : Patch(m)
      BY <1>5 DEF edit
    <2>2. m \in Version /\ m.phase = Server.phase /\ m.deleting = Server.deleting
      BY <1>1, <1>5, <2>1, AdmittedAlike, AlikeFinalizer
    <2>. QED BY <1>5, <2>1, <2>2 DEF Written, Patch, edit
  <1>6. CASE setHibernated \/ setAuto \/ sleepCron \/ resumeCron
    <2>1. (~Server.hibernated) \in BOOLEAN /\ TRUE \in BOOLEAN /\ FALSE \in BOOLEAN
      BY Zenon
    <2>2. NoAuto \in AutoSetting /\ Autos \subseteq AutoSetting
      BY ConstantsAssumption DEF NoAuto, AutoSetting
    <2>3. CASE \E h \in BOOLEAN : edit([Server EXCEPT !.hibernated = h])
      BY <1>1, <1>5, <2>2, <2>3, UserFieldSet
    <2>4. CASE \E a \in Autos : edit([Server EXCEPT !.auto = a])
      BY <1>1, <1>5, <2>1, <2>2, <2>4, UserFieldSet
    <2>. QED BY <1>6, <2>1, <2>3, <2>4 DEF setHibernated, setAuto, sleepCron, resumeCron, cronFires
  <1>7. CASE delete
    <2>. DEFINE v == IF HasFinalizer(Server)
                     THEN [Server EXCEPT !.deleting = TRUE]
                     ELSE [Server EXCEPT !.deleting = TRUE, !.phase = "gone"]
    <2>1. Server.phase # "gone" /\ Len(objs) <= MaxLag /\ objs' = Append(objs, v)
      BY <1>7 DEF delete, Patch
    <2>2. /\ v \in Version /\ v.deleting = TRUE
          /\ v.phase = IF HasFinalizer(Server) THEN Server.phase ELSE "gone"
      BY <1>1, Deleted
    <2>. HIDE DEF v
    <2>3. ~HasFinalizer(Server) => Server.phase = ""
      BY <2>1, StaleReadIsSafe
    <2>. QED BY <2>1, <2>2, <2>3 DEF Written
  <1>8. \/ UNCHANGED objs \/ addFinalizer \/ setPhase \/ dropFinalizer \/ deliver \/ delete \/ restart
        \/ setHibernated \/ setAuto \/ sleepCron \/ resumeCron
    BY DEF Next, Work, Environment, Reconcile, writeFails, installVCluster, fork,
       handleAutoHibernation, list, getRelatedModules, sleepModules, resumeModules, patchModules,
       deleteModule, awaitModule, uninstallVCluster, secretMoves, createModule, moduleGone,
       cleanupFailedInstall, sourceReady
  <1>. QED BY <1>2, <1>3, <1>4, <1>6, <1>7, <1>8

\* Only setPhase and the end of a deletion change the phase the server shows.
LEMMA PhaseWritten ==
    ASSUME Inductive, Next, ~setPhase
    PROVE  Server'.phase \in {Server.phase, "gone"}
  <1>1. objs \in Seq(Version) /\ Len(objs) \in 1 .. MaxLag + 1 /\ Server \in Version
    BY Versions
  <1>2. ASSUME NEW v \in Version, Written(v) PROVE Server'.phase \in {Server.phase, "gone"}
    BY <1>1, <1>2, WriteInFlight DEF Written
  <1>3. CASE deliver
    BY <1>1, <1>3, DeliverInFlight DEF deliver
  <1>4. CASE restart
    BY <1>1, <1>4, RelistInFlight DEF restart
  <1>. QED BY <1>2, <1>3, <1>4, Writes, NoWriteInFlight

\* setPhaseHibernated comes after sleepModules has patched every module that was awake.
THEOREM WorkspaceSleepsWithItsModules == Spec => SleepReachesAll
  <1>. DEFINE Reached == Managed /\ Server.phase = "ready" /\ (Server.phase)' = "hibernated"
                         /\ "patch" \notin Faults /\ "create" \notin Moves
                           => \A m \in Existing : mods[m] = "hibernated"
  <1>1. Inductive /\ [Next]_vars => [Reached]_objs
    <2>. SUFFICES ASSUME Inductive, Next, Managed, Server.phase = "ready",
                         (Server.phase)' = "hibernated", "patch" \notin Faults, "create" \notin Moves
                  PROVE  \A m \in Existing : mods[m] = "hibernated"
      BY DEF vars
    <2>1. setPhase
      BY PhaseWritten
    <2>. DEFINE v == [Cached EXCEPT !.phase = goal]
    <2>2. pc = "setPhase" /\ CacheIsCurrent /\ objs' = Append(objs, v)
      BY <2>1 DEF setPhase, Put
    <2>3. Cached \in Version /\ goal \in Phase /\ objs \in Seq(Version) /\ Len(objs) \in 1 .. MaxLag + 1
      BY Versions DEF WorkerTypeOK
    <2>4. v \in Version /\ v.phase = goal
      BY <2>3, PhaseSet
    <2>. HIDE DEF v
    <2>5. Server' = v
      BY <2>2, <2>3, <2>4, WriteInFlight
    <2>6. goal = "hibernated"
      BY <2>4, <2>5
    <2>. QED BY <2>2, <2>6 DEF SleepProgress
  <1>. QED BY <1>1, InductiveInvariant, PTL DEF Spec, SleepReachesAll

\* handleDeletion gets to the vcluster with every module of the workspace gone.
THEOREM VClusterGoesLast == Spec => VClusterOutlivesModules
  <1>. DEFINE Last == vcluster = "running" /\ pc = "delete" /\ pc' = "dropFinalizer"
                      /\ Faults \cap {"patch", "timeout"} = {} /\ "late" \notin Moves
                        => Existing = {}
  <1>1. Inductive /\ [Next]_vars => [Last]_<<pc, vcluster>>
    <2>. SUFFICES ASSUME Inductive, Next, pc = "delete", pc' = "dropFinalizer",
                         Faults \cap {"patch", "timeout"} = {}, "late" \notin Moves
                  PROVE  Existing = {}
      BY DEF vars
    <2>1. Existing \subseteq DOMAIN listed
      BY DEF DeletionProgress
    <2>2. uninstallVCluster
      BY DEF Next, Work, Environment, Reconcile, addFinalizer, setPhase, dropFinalizer, writeFails,
         installVCluster, fork, handleAutoHibernation, list, getRelatedModules, sleepModules,
         resumeModules, patchModules, deleteModule, awaitModule, deliver, setHibernated, setAuto,
         sleepCron, resumeCron, cronFires, edit, delete, secretMoves, createModule, moduleGone,
         cleanupFailedInstall, sourceReady, restart
    <2>. QED BY <2>1, <2>2 DEF uninstallVCluster
  <1>. QED BY <1>1, InductiveInvariant, PTL DEF Spec, VClusterOutlivesModules

-----------------------------------------------------------------------------
(* The order of a deletion, for whoever composes the controller with its modules. *)

\* Where the worker is in handleDeletion.
Deletion == {"list delete", "delete", "wait", "dropFinalizer"}

\* A deletion is not taken back, and who acts on one leaves no copy without it.
DeletionInTurn ==
    /\ \A i, j \in 1 .. Len(objs) : i <= j /\ objs[i].deleting => objs[j].deleting
    /\ marked # {} \/ pc \in Deletion => \A v \in InFlight : v.deleting

\* handleDeletion is entered on a copy that shows the deletion of a settled workspace.
LEMMA DeletionBegins ==
    ASSUME Inductive, Next, pc' \in Deletion, pc \notin Deletion
    PROVE  UNCHANGED objs /\ Cached.deleting /\ Cached.phase \in Settled
  <1>1. CASE Reconcile
    BY <1>1 DEF Reconcile, Start, DeletionProceeds, handleHibernation, Deletion
  <1>2. CASE setPhase
    BY <1>2 DEF setPhase, Return, WorkerConsistent, Deletion
  <1>3. ~Reconcile /\ ~setPhase => pc' \notin Deletion
    BY DEF Next, Work, Environment, addFinalizer, initialise, dropFinalizer, writeFails, Return,
       installVCluster, CallSetPhase, fork, GoTo, handleAutoHibernation, list, getRelatedModules,
       sleepModules, resumeModules, patchModules, deleteModule, awaitModule, uninstallVCluster,
       deliver, setHibernated, setAuto, sleepCron, resumeCron, cronFires, edit, delete, secretMoves,
       createModule, moduleGone, cleanupFailedInstall, sourceReady, restart, Deletion
  <1>. QED BY <1>1, <1>2, <1>3

\* What is immutable in a workspace does not change.
LEMMA SettingKept == [Next]_vars => UNCHANGED setting
  BY DEF Next, Work, Environment, vars, environment, given, Reconcile, addFinalizer, setPhase,
     dropFinalizer, writeFails, installVCluster, fork, handleAutoHibernation, list, getRelatedModules,
     sleepModules, resumeModules, patchModules, deleteModule, awaitModule, uninstallVCluster, deliver,
     setHibernated, setAuto, sleepCron, resumeCron, cronFires, edit, delete, secretMoves, createModule,
     moduleGone, cleanupFailedInstall, sourceReady, restart

\* Only handleDeletion marks modules.
LEMMA MarkedBy ==
    ASSUME Next, ~UNCHANGED marked
    PROVE  deleteModule
  BY DEF Next, Work, Environment, Reconcile, addFinalizer, setPhase, dropFinalizer, writeFails,
     installVCluster, fork, handleAutoHibernation, list, getRelatedModules, sleepModules,
     resumeModules, patchModules, awaitModule, uninstallVCluster, deliver, setHibernated, setAuto,
     sleepCron, resumeCron, cronFires, edit, delete, secretMoves, createModule, moduleGone,
     cleanupFailedInstall, sourceReady, restart

LEMMA InitInTurn == Init => DeletionInTurn
  <1>. SUFFICES ASSUME Init PROVE DeletionInTurn
    OBVIOUS
  <1>1. marked = {} /\ pc = "idle" /\ Len(objs) = 1
    BY DEF Init
  <1>2. 1 .. Len(objs) = {1}
    BY <1>1
  <1>. QED BY <1>1, <1>2 DEF DeletionInTurn, Deletion

LEMMA NextInTurn == Inductive /\ DeletionInTurn /\ [Next]_vars => DeletionInTurn'
  <1>. SUFFICES ASSUME Inductive, DeletionInTurn, [Next]_vars PROVE DeletionInTurn'
    OBVIOUS
  <1>1. /\ objs \in Seq(Version) /\ Len(objs) \in 1 .. MaxLag + 1 /\ Server \in Version
        /\ Server \in InFlight /\ Cached \in InFlight
    BY Versions
  <1>2. Len(objs) \in Nat /\ Len(objs) >= 1
    BY <1>1, InFlightTyped
  <1>3. \/ UNCHANGED objs \/ deliver \/ restart \/ \E v \in Version : Written(v)
    BY Writes DEF vars
  <1>4. /\ \A i, j \in 1 .. Len(objs') : i <= j /\ objs'[i].deleting => objs'[j].deleting
        /\ (\A v \in InFlight : v.deleting) => \A v \in InFlight' : v.deleting
    <2>1. CASE UNCHANGED objs
      BY <2>1, NoWriteInFlight DEF DeletionInTurn
    <2>2. CASE deliver
      <3>1. Len(objs) > 1 /\ objs' = Tail(objs)
        BY <2>2 DEF deliver
      <3>2. InFlight' \subseteq InFlight
        BY <1>1, <3>1, DeliverInFlight
      <3>3. /\ Len(objs') = Len(objs) - 1
            /\ \A i \in 1 .. Len(objs') : i + 1 \in 1 .. Len(objs) /\ objs'[i] = objs[i + 1]
        BY <1>1, <1>2, <3>1
      <3>4. ASSUME NEW i \in 1 .. Len(objs'), NEW j \in 1 .. Len(objs'), i <= j, objs'[i].deleting
            PROVE  objs'[j].deleting
        <4>1. i + 1 \in 1 .. Len(objs) /\ j + 1 \in 1 .. Len(objs) /\ i + 1 <= j + 1
          BY <1>2, <3>3, <3>4
        <4>. QED BY <3>3, <3>4, <4>1 DEF DeletionInTurn
      <3>. QED BY <3>2, <3>4
    <2>3. CASE restart
      <3>1. objs' = <<Server>>
        BY <2>3 DEF restart
      <3>2. InFlight' = {Server}
        BY <1>1, <3>1, RelistInFlight
      <3>3. 1 .. Len(objs') = {1}
        BY <3>1
      <3>. QED BY <1>1, <3>2, <3>3
    <2>4. ASSUME NEW v \in Version, Written(v)
          PROVE  <1>4!1 /\ <1>4!2
      <3>1. InFlight' = InFlight \cup {v}
        BY <1>1, <2>4, WriteInFlight DEF Written
      <3>2. Server.deleting => v.deleting
        BY <2>4 DEF Written
      <3>3. \A w \in InFlight : w.deleting => v.deleting
        BY <3>2 DEF VersionsOrdered
      <3>4. /\ Len(objs') = Len(objs) + 1 /\ objs'[Len(objs) + 1] = v
            /\ \A i \in 1 .. Len(objs) : objs'[i] = objs[i]
        <4>1. objs' = Append(objs, v)
          BY <2>4 DEF Written
        <4>. QED BY <1>1, <1>2, <4>1
      <3>5. \A i \in 1 .. Len(objs) : objs[i].deleting => v.deleting
        BY <3>3, Zenon DEF InFlight
      <3>6. ASSUME NEW i \in 1 .. Len(objs'), NEW j \in 1 .. Len(objs'), i <= j, objs'[i].deleting
            PROVE  objs'[j].deleting
        <4>1. CASE j = Len(objs) + 1
          BY <1>2, <3>4, <3>5, <3>6, <4>1
        <4>2. CASE j # Len(objs) + 1
          <5>1. i \in 1 .. Len(objs) /\ j \in 1 .. Len(objs)
            BY <1>2, <3>4, <3>6, <4>2
          <5>. QED BY <3>4, <3>6, <5>1 DEF DeletionInTurn
        <4>. QED BY <4>1, <4>2
      <3>7. (\A w \in InFlight : w.deleting) => \A w \in InFlight' : w.deleting
        BY <1>1, <3>1, <3>2
      <3>. QED BY <3>6, <3>7
    <2>. QED BY <1>3, <2>1, <2>2, <2>3, <2>4
  <1>5. ASSUME marked' # {} \/ pc' \in Deletion PROVE \A v \in InFlight' : v.deleting
    <2>1. CASE marked # {} \/ pc \in Deletion
      BY <1>4, <2>1 DEF DeletionInTurn
    <2>2. CASE marked = {} /\ pc \notin Deletion
      <3>1. Next
        BY <1>5, <2>2 DEF vars
      <3>2. marked' = {}
        BY <2>2, <3>1, MarkedBy DEF deleteModule, Deletion
      <3>3. Cached.deleting
        BY <1>5, <2>2, <3>1, <3>2, DeletionBegins
      <3>4. \A j \in 1 .. Len(objs) : objs[j].deleting
        BY <1>2, <3>3 DEF DeletionInTurn, Cached
      <3>5. \A v \in InFlight : v.deleting
        BY <3>4, Zenon DEF InFlight
      <3>. QED BY <1>4, <3>5
    <2>. QED BY <2>1, <2>2
  <1>. QED BY <1>4, <1>5 DEF DeletionInTurn

\* A workspace nothing was ever done for, or of which nothing but its absence is left.
Untouched == \A v \in InFlight : v.phase \in {"", "gone"}

\* No module is installed or deleted in an untouched workspace, and handleDeletion leaves
\* one when its modules are gone.
ModulesFirst ==
    /\ Server.phase = "" => Untouched
    /\ Untouched => Existing = {} \/ (marked = {} /\ pc \notin Deletion)
    /\ pc = "delete" => Existing \subseteq DOMAIN listed
    /\ pc = "wait" => Existing \subseteq DOMAIN listed \cup awaited
    /\ pc = "dropFinalizer" => Existing = {}
    /\ Server.phase = "gone" => Existing = {} \/ Untouched

\* How the worker gets on in handleDeletion, and what it knows of the modules then.
LEMMA DeletionMoves ==
    ASSUME Inductive, Next, "patch" \notin Faults
    PROVE  /\ pc' = "delete" =>
                \/ UNCHANGED <<pc, listed>>
                \/ DOMAIN listed' = Existing
                \/ pc = "wait" /\ UNCHANGED listed
                \/ pc = "delete" /\ \A m \in DOMAIN listed \ DOMAIN listed' : m \notin Existing
           /\ pc' = "wait" =>
                \/ UNCHANGED <<pc, listed, awaited>>
                \/ pc = "delete" /\ DOMAIN listed \subseteq DOMAIN listed' \cup awaited'
           /\ pc' = "dropFinalizer" =>
                \/ UNCHANGED pc
                \/ pc = "delete" /\ DOMAIN listed = {}
  <1>1. CASE deleteModule
    <2>1. PICK m \in DOMAIN listed :
            /\ pc = "delete" /\ listed' = Without(listed, m)
            /\ \/ pc' = "wait" /\ awaited' = {m}
               \/ (mods[m] = "absent" \/ "patch" \in Faults) /\ UNCHANGED pc
      BY <1>1 DEF deleteModule
    <2>2. DOMAIN listed' = DOMAIN listed \ {m}
      BY <2>1, WithoutTyped DEF WorkerTypeOK, Listing
    <2>. QED BY <2>1, <2>2 DEF Existing
  <1>2. CASE list
    <2>1. ASSUME NEW label, NEW next, getRelatedModules(label, next),
                 \/ label = "list sleep" /\ next = "sleep"
                 \/ label = "list resume" /\ next = "resume"
                 \/ label = "list delete" /\ next = "delete"
          PROVE  /\ pc' \notin {"wait", "dropFinalizer"}
                 /\ pc' = "delete" => DOMAIN listed' = Existing
      BY <2>1 DEF getRelatedModules, Selected, Return, CallSetPhase
    <2>. QED BY <1>2, <2>1 DEF list
  <1>3. CASE awaitModule \/ uninstallVCluster
    BY <1>3 DEF awaitModule, uninstallVCluster, GoTo
  <1>4. CASE setPhase
    BY <1>4 DEF setPhase, Return, WorkerConsistent
  <1>5. CASE Reconcile
    BY <1>5 DEF Reconcile, Start, handleHibernation
  <1>6. CASE addFinalizer \/ dropFinalizer \/ writeFails \/ installVCluster \/ fork
             \/ handleAutoHibernation \/ sleepModules \/ resumeModules
    BY <1>6 DEF addFinalizer, initialise, dropFinalizer, writeFails, Return, installVCluster,
       CallSetPhase, fork, GoTo, handleAutoHibernation, sleepModules, resumeModules, patchModules
  <1>7. CASE Environment
    BY <1>7 DEF Environment, deliver, setHibernated, setAuto, sleepCron, resumeCron, cronFires,
       edit, delete, secretMoves, createModule, moduleGone, cleanupFailedInstall, sourceReady, restart
  <1>. QED BY <1>1, <1>2, <1>3, <1>4, <1>5, <1>6, <1>7 DEF Next, Work

LEMMA InitModulesFirst == Init => ModulesFirst
  <1>. SUFFICES ASSUME Init PROVE ModulesFirst
    OBVIOUS
  <1>1. marked = {} /\ pc = "idle" /\ Server.phase = "" /\ InFlight = {Server}
    <2>1. PICK h \in BOOLEAN, a \in Autos \cup {NoAuto, setting.auto} :
            objs = << [phase |-> "", hibernated |-> h, deleting |-> FALSE,
                       finalizers |-> {}, auto |-> a] >>
      BY DEF Init
    <2>2. CacheIsCurrent /\ Server.phase = ""
      BY <2>1 DEF CacheIsCurrent, Server
    <2>3. InFlight = {Server}
      BY <2>2, InitInductive, Versions
    <2>. QED BY <2>2, <2>3 DEF Init
  <1>. QED BY <1>1 DEF ModulesFirst, Untouched, Deletion

\* If no delete of a module fails, no module appears and handleDeletion never stops
\* waiting for one that is there.
LEMMA NextModulesFirst ==
    ASSUME Inductive, ModulesFirst, [Next]_vars, "patch" \notin Faults,
           Existing' \subseteq Existing,
           pc = "wait" /\ pc' = "delete" => Existing = {}
    PROVE  ModulesFirst' /\ (Untouched' => Untouched \/ Existing' = {})
  <1>1. /\ objs \in Seq(Version) /\ Len(objs) \in 1 .. MaxLag + 1 /\ Server \in Version
        /\ Server \in InFlight /\ Cached \in InFlight
    BY Versions
  <1>2. \/ Server' = Server /\ InFlight' \subseteq InFlight /\ Server \in InFlight'
        \/ \E v \in Version : Written(v) /\ Server' = v /\ InFlight' = InFlight \cup {v}
    <2>1. CASE UNCHANGED objs
      BY <1>1, <2>1, NoWriteInFlight
    <2>2. CASE deliver
      <3>1. /\ Server' = Server /\ InFlight' \subseteq InFlight
            /\ objs' \in Seq(Version) /\ Len(objs') \in 1 .. MaxLag + 1
        BY <1>1, <2>2, DeliverInFlight DEF deliver
      <3>2. Len(objs') \in 1 .. Len(objs')
        BY <3>1, MaxLagAssumption
      <3>3. Server' \in InFlight'
        BY <3>2, Zenon DEF Server, InFlight
      <3>. QED BY <3>1, <3>3
    <2>3. CASE restart
      <3>1. objs' = <<Server>>
        BY <2>3 DEF restart
      <3>2. Server' = Server /\ InFlight' = {Server}
        BY <1>1, <3>1, RelistInFlight
      <3>. QED BY <1>1, <3>2
    <2>4. ASSUME NEW v \in Version, Written(v)
          PROVE  Server' = v /\ InFlight' = InFlight \cup {v}
      BY <1>1, <2>4, WriteInFlight DEF Written
    <2>. QED BY <2>1, <2>2, <2>3, <2>4, Writes DEF vars
  <1>3. Untouched' => Untouched \/ Existing = {}
    <2>1. CASE Server' = Server /\ InFlight' \subseteq InFlight /\ Server \in InFlight'
      BY <2>1 DEF Untouched, ModulesFirst
    <2>2. CASE \E v \in Version : Written(v) /\ Server' = v /\ InFlight' = InFlight \cup {v}
      BY <2>2 DEF Untouched
    <2>. QED BY <1>2, <2>1, <2>2
  <1>4. Server'.phase = "" => Untouched'
    <2>1. CASE Server' = Server /\ InFlight' \subseteq InFlight
      BY <2>1 DEF Untouched, ModulesFirst
    <2>2. ASSUME NEW v \in Version, Written(v), Server' = v, InFlight' = InFlight \cup {v}, v.phase = ""
          PROVE  Untouched'
      <3>1. Server.phase = ""
        BY <2>2 DEF Written
      <3>. QED BY <2>2, <3>1 DEF Untouched, ModulesFirst
    <2>. QED BY <1>2, <2>1, <2>2
  <1>5. Untouched' => Existing' = {} \/ (marked' = {} /\ pc' \notin Deletion)
    <2>. SUFFICES ASSUME Untouched, marked = {}, pc \notin Deletion
                  PROVE  marked' = {} /\ pc' \notin Deletion
      BY <1>3 DEF ModulesFirst
    <2>1. CASE UNCHANGED vars
      BY <2>1 DEF vars
    <2>2. CASE Next
      <3>1. marked' = {}
        BY <2>2, MarkedBy DEF deleteModule, Deletion
      <3>2. Cached.phase \notin Settled
        BY <1>1 DEF Untouched
      <3>3. pc' \notin Deletion
        BY <2>2, <3>2, DeletionBegins
      <3>. QED BY <3>1, <3>3
    <2>. QED BY <2>1, <2>2
  <1>6. /\ pc' = "delete" => Existing' \subseteq DOMAIN listed'
        /\ pc' = "wait" => Existing' \subseteq DOMAIN listed' \cup awaited'
        /\ pc' = "dropFinalizer" => Existing' = {}
    <2>1. CASE UNCHANGED vars
      BY <2>1 DEF vars, ModulesFirst
    <2>2. CASE Next
      <3>1. pc' = "delete" => Existing' \subseteq DOMAIN listed'
        BY <2>2, DeletionMoves DEF ModulesFirst
      <3>2. pc' = "wait" => Existing' \subseteq DOMAIN listed' \cup awaited'
        BY <2>2, DeletionMoves DEF ModulesFirst
      <3>3. pc' = "dropFinalizer" => Existing' = {}
        BY <2>2, DeletionMoves DEF ModulesFirst
      <3>. QED BY <3>1, <3>2, <3>3
    <2>. QED BY <2>1, <2>2
  <1>7. Server'.phase = "gone" => Existing' = {} \/ Untouched'
    <2>1. CASE Server' = Server /\ InFlight' \subseteq InFlight
      BY <2>1 DEF Untouched, ModulesFirst
    <2>2. ASSUME NEW v \in Version, Written(v), Server' = v, InFlight' = InFlight \cup {v}, v.phase = "gone"
          PROVE  Existing' = {} \/ Untouched'
      <3>1. pc = "dropFinalizer" \/ Server.phase = ""
        BY <2>2 DEF Written
      <3>. QED BY <2>2, <3>1 DEF Untouched, ModulesFirst
    <2>. QED BY <1>2, <2>1, <2>2
  <1>. QED BY <1>3, <1>4, <1>5, <1>6, <1>7 DEF ModulesFirst
=============================================================================
