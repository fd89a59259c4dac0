-------------------------- MODULE ModuleController --------------------------
(***************************************************************************)
(* The reconciler of one Module resource (internal/controller/module_*.go) *)
(* with the parts it cannot be understood without: the API server's object *)
(* and the informer cache that lags behind it, the work queue, the Helm    *)
(* release the module stands for, the workspace it lives in, the user and  *)
(* the restarts of the operator.                                           *)
(*                                                                         *)
(* controller-runtime runs at most one Reconcile per object at a time, so  *)
(* the module has a single worker.  What does interleave with it: user     *)
(* edits, watch events, the workspace, the clean-up goroutine a failed     *)
(* Helm install leaves behind, the clock and crashes.                      *)
(***************************************************************************)
EXTENDS ApiObject

CONSTANTS
    Workloads,    \* the Deployments, ReplicaSets and StatefulSets of the release
    Replicas,     \* the replica count the chart gives each of them
    Faults,       \* what may fail, a subset of FaultKinds
    Moves,        \* what the environment may do, a subset of MoveKinds
    MaxEdits,     \* how often the user may flip spec.hibernated
    MaxCrashes    \* how often the operator may restart

\* "write": a RetryOnConflict loop runs out of attempts or meets an API error;
\* "patch": a patch of the ManagerData annotation fails (the code only logs it);
\* "helm":  reading the workspace, building a manager, or a Helm call fails;
\* "chart": the installation of the chart fails after it began;
\* "scale": scaling a workload down or back fails part-way.
FaultKinds == {"write", "patch", "helm", "chart", "scale"}

\* "delete", "hibernate": the user; "workspace": the workspace's life after it
\* became ready; "time": five minutes pass.
MoveKinds == {"delete", "hibernate", "workspace", "time"}

ASSUME ConstantsAssumption ==
    /\ Replicas \in [Workloads -> Nat]
    /\ Faults \subseteq FaultKinds
    /\ Moves \subseteq MoveKinds
    /\ MaxEdits \in Nat
    /\ MaxCrashes \in Nat

VARIABLES
    queued,    \* the module's key is in the work queue
    pc,        \* where the worker is in Reconcile
    goal,      \* setPhase: the phase to write
    then,      \* setPhase: where to go once it is written
    meta,      \* the worker's in-memory metaData (replica history)
    outcome,   \* how the last uninstallModule ended
    deployed,  \* the Helm release exists in the target cluster
    live,      \* spec.replicas of each workload of the release
    cleanup,   \* a goroutine started by a failed install will uninstall the release
    adopted,   \* spec.helm.existingRelease is set; it cannot be changed
    ws,        \* the workspace the module refers to
    edits,     \* flips of spec.hibernated so far
    crashes    \* restarts of the operator so far

worker == <<pc, goal, then, meta, outcome>>
cluster == <<deployed, live, cleanup>>
environment == <<adopted, ws, edits, crashes>>
vars == <<objs, queued, worker, cluster, environment>>

-----------------------------------------------------------------------------
(* Data *)

Settled == {"ready", "sleeped", "failed"}
Transitional == {"installing", "uninstalling", "sleeping", "resuming"}

\* "" is a module nothing was done for yet; "gone" is the NotFound version.
Phase == Settled \cup Transitional \cup {"", "gone"}

\* ReplicaHistory: the counts recorded for some of the workloads.  The empty
\* function is metaData without the replicaHistory key.
Count == {0} \cup {Replicas[w] : w \in Workloads}
History == UNION {[S -> Count] : S \in SUBSET Workloads}
NoHistory == [w \in {} |-> 0]

\* aged: status.lastActivity is more than five minutes ago.
Version == [phase : Phase, hibernated : BOOLEAN, deleting : BOOLEAN,
            finalizers : SUBSET {"delete"}, aged : BOOLEAN, data : History]

WorkspaceState == [phase : {"absent", "unready", "ready", "hibernated"},
                   deleting : BOOLEAN]
WorkspaceShown == {w \in WorkspaceState : w.phase = "absent" => ~w.deleting}

ThenLabels == {"install", "uninstall", "sleep", "resume", "hibernate",
               "stop", "requeue", "error"}

AllDown == [w \in Workloads |-> 0]

\* status.ready of the workspace: set by setPhaseReady and setPhaseHibernated.
WorkspaceReady == ws.phase \in {"ready", "hibernated"}

VersionsTypeOK == objs \in Seq(Version) /\ Len(objs) \in 1 .. MaxLag + 1

WorkerTypeOK ==
    /\ queued \in BOOLEAN
    /\ pc \in {"idle", "addFinalizer", "setPhase", "install", "patch", "sleep",
               "resume", "uninstall", "dropFinalizer"}
    /\ goal \in Phase
    /\ then \in ThenLabels
    /\ meta \in History
    /\ outcome \in {"none", "done", "skipped", "failed"}

ClusterTypeOK ==
    /\ deployed \in BOOLEAN
    /\ live \in [Workloads -> Count]
    /\ cleanup \in BOOLEAN

EnvironmentTypeOK ==
    /\ adopted \in BOOLEAN
    /\ ws \in WorkspaceState
    /\ edits \in 0 .. MaxEdits
    /\ crashes \in 0 .. MaxCrashes

TypeOK == VersionsTypeOK /\ WorkerTypeOK /\ ClusterTypeOK /\ EnvironmentTypeOK

Init ==
    /\ \E h \in BOOLEAN :
         objs = << [phase |-> "", hibernated |-> h, deleting |-> FALSE,
                    finalizers |-> {}, aged |-> FALSE, data |-> NoHistory] >>
    /\ queued = TRUE
    /\ pc = "idle" /\ goal = "" /\ then = "stop"
    /\ meta = NoHistory
    /\ outcome = "none"
    /\ adopted \in BOOLEAN
    /\ deployed = adopted
    /\ live = IF adopted THEN Replicas ELSE AllDown
    /\ cleanup = FALSE
    /\ ws \in [phase : {"unready", "ready", "hibernated"}, deleting : {FALSE}]
    /\ edits = 0 /\ crashes = 0

-----------------------------------------------------------------------------
(* Leaving Reconcile, and calling setPhase *)

\* Reconcile returns; an error or a RequeueAfter puts the key back, a watch
\* event that arrived in the meantime has done so already.
Return(requeue) ==
    /\ pc' = "idle" /\ goal' = "" /\ then' = "stop" /\ meta' = NoHistory
    /\ queued' = (queued \/ requeue)

CallSetPhase(phase, label) ==
    /\ pc' = "setPhase" /\ goal' = phase /\ then' = label

GoTo(label) == pc' = label /\ UNCHANGED <<goal, then>>

\* A variant with the first condition inverted.
HibernationCaseInverted(m) ==
    CASE m.phase = "ready" /\ ~m.hibernated   -> "sleep"
      [] m.phase = "sleeped" /\ ~m.hibernated -> "resume"
      [] OTHER                                -> "none"

\* The two conditions of handleHibernation, on the copy m the worker holds.
HibernationCase(m) ==
    CASE m.phase = "ready" /\ m.hibernated    -> "sleep"
      [] m.phase = "sleeped" /\ ~m.hibernated -> "resume"
      [] OTHER                                -> "none"

handleHibernation(m) ==
    \/ HibernationCase(m) = "sleep" /\ CallSetPhase("sleeping", "sleep")
    \/ HibernationCase(m) = "resume" /\ CallSetPhase("resuming", "resume")

-----------------------------------------------------------------------------
(* Reconcile: the dispatch on the cached module *)

\* A variant that forgets the failed modules.
DeletionProceedsUnlessFailed(m) == m.phase \in {"ready", "sleeped"}

\* handleDeletion proceeds from these phases only; in any other it asks to be
\* called again in two seconds.
DeletionProceeds(m) == m.phase \in Settled

handleDeletion(m) ==
    /\ DeletionProceeds(m)
    /\ CallSetPhase("uninstalling", "uninstall")

\* A variant that only watches installations.
TimedOutInstalling(m) == m.phase = "installing" /\ m.aged

TimedOut(m) == m.phase \in Transitional /\ m.aged

\* What Reconcile does next for the cached module m: a branch that starts work
Start(m) ==
    \/ m.deleting /\ handleDeletion(m)
    \/ ~m.deleting /\ m.phase = "" /\ GoTo("addFinalizer")
    \/ ~m.deleting /\ m.phase \in {"ready", "sleeped"} /\ handleHibernation(m)
    \/ ~m.deleting /\ TimedOut(m) /\ CallSetPhase("failed", "stop")

\* ... or one that returns at once, with or without asking for a requeue.
Waits(m) ==
    \/ m.deleting /\ ~DeletionProceeds(m)
    \/ ~m.deleting /\ m.phase \in {"ready", "sleeped"} /\ HibernationCase(m) = "none"
    \/ ~m.deleting /\ m.phase \in Transitional /\ ~TimedOut(m)

Ignores(m) == m.phase = "gone" \/ (~m.deleting /\ m.phase = "failed")

Reconcile ==
    /\ pc = "idle" /\ queued
    /\ \/ /\ Cached.phase # "gone" /\ Start(Cached)
          /\ queued' = FALSE /\ meta' = NoHistory
       \/ /\ Ignores(Cached)
          /\ queued' = FALSE /\ UNCHANGED <<pc, goal, then, meta>>
       \/ /\ Cached.phase # "gone" /\ Waits(Cached)
          /\ UNCHANGED <<queued, pc, goal, then, meta>>
    /\ UNCHANGED <<objs, outcome, cluster, environment>>

-----------------------------------------------------------------------------
(* The writes that go through RetryOnConflict.  A retry re-reads the cache and *)
(* tries again, so it shows only as the action waiting for the cache.         *)

\* setPhase replaces the whole status and refreshes lastActivity.
WithPhase(m, phase) == [m EXCEPT !.phase = phase, !.aged = FALSE]

\* A variant of handleEmptyPhase that starts without taking the finalizer.
addFinalizerNever ==
    /\ pc = "addFinalizer"
    /\ CallSetPhase("installing", "install")
    /\ UNCHANGED <<objs, queued, meta, outcome, cluster, environment>>

\* handleEmptyPhase, first loop.  A copy that has the finalizer is not written.
addFinalizer ==
    /\ pc = "addFinalizer"
    /\ Cached.phase # "gone"
    /\ IF HasFinalizer(Cached) THEN UNCHANGED objs
                               ELSE Put([Cached EXCEPT !.finalizers = {"delete"}])
    /\ CallSetPhase("installing", "install")
    /\ UNCHANGED <<queued, meta, outcome, cluster, environment>>

\* A variant that writes the status with a merge patch.
setPhaseMerged ==
    /\ pc = "setPhase"
    /\ Server.phase # "gone"
    /\ LET m == WithPhase(Server, goal) IN
       /\ Patch(m)
       /\ IF then = "hibernate"
          THEN \/ handleHibernation(m) /\ meta' = m.data /\ UNCHANGED queued
               \/ HibernationCase(m) = "none" /\ Return(TRUE)
          ELSE IF then \in {"stop", "requeue"}
               THEN Return(then = "requeue")
               ELSE GoTo(then) /\ meta' = m.data /\ UNCHANGED queued
    /\ UNCHANGED <<outcome, cluster, environment>>

\* The worker's copy is the server's answer, so what follows (handleHibernation,
\* or the operation that reads the annotation) sees the version just written.
setPhase ==
    /\ pc = "setPhase"
    /\ Cached.phase # "gone"
    /\ LET m == WithPhase(Cached, goal) IN
       /\ Put(m)
       /\ IF then = "hibernate"
          THEN \/ handleHibernation(m) /\ meta' = m.data /\ UNCHANGED queued
               \/ HibernationCase(m) = "none" /\ Return(TRUE)
          ELSE IF then \in {"stop", "requeue"}
               THEN Return(then = "requeue")
               ELSE GoTo(then) /\ meta' = m.data /\ UNCHANGED queued
    /\ UNCHANGED <<outcome, cluster, environment>>

\* handleDeletion, last loop: without its finalizer a deleted object is removed.
dropFinalizer ==
    /\ pc = "dropFinalizer"
    /\ Cached.phase # "gone"
    /\ Put([Cached EXCEPT !.phase = "gone", !.finalizers = {}])
    /\ Return(FALSE)
    /\ UNCHANGED <<outcome, cluster, environment>>

\* The loop ends with an error: NotFound, or a fault.  Reconcile returns it.
writeFails ==
    /\ pc \in {"addFinalizer", "setPhase", "dropFinalizer"}
    /\ Cached.phase = "gone" \/ "write" \in Faults
    /\ Return(TRUE)
    /\ UNCHANGED <<objs, outcome, cluster, environment>>

-----------------------------------------------------------------------------
(* installModule, sleepModule, resumeModule, uninstallModule *)

\* getWorkspace or newManager may fail: the workspace or the kubeconfig cannot be
\* read, the configuration is invalid, the target cluster does not answer.  The
\* patch newManager ends with writes back the ManagerData it was given, so it
\* leaves the version as it is.
CannotReach == "helm" \in Faults

\* InstallFromRepository, InstallFromLocal: the chart runs to the end, or
\* RunWithContext fails (always, when the release name is in use), with or without
\* having made the release, and leaves a goroutine that uninstalls it.
InstallRelease ==
    \/ /\ ~deployed
       /\ deployed' = TRUE /\ live' = Replicas
       /\ goal' = "ready" /\ then' = "hibernate"
       /\ UNCHANGED cleanup
    \/ /\ deployed \/ "chart" \in Faults
       /\ cleanup' = TRUE
       /\ \E made \in BOOLEAN :
            /\ deployed' = (deployed \/ made)
            /\ live' = IF made /\ ~deployed THEN Replicas ELSE live
       /\ goal' = "failed" /\ then' = "stop"

\* ModuleHelmManager.Install: fetch the chart (repository, ConfigMap or Git) and
\* its values, then install; what fails before the install leaves nothing.
helmInstall ==
    \/ InstallRelease
    \/ /\ "helm" \in Faults
       /\ goal' = "failed" /\ then' = "stop"
       /\ UNCHANGED cluster

\* The release found is annotated on the module; its counts stay as they are.
adoptExistingHelmRelease ==
    /\ Patch(Server)
    /\ CallSetPhase("ready", "hibernate")
    /\ UNCHANGED <<queued, meta, cluster>>

installModule ==
    /\ pc = "install"
    /\ \/ /\ ws.phase = "absent" \/ CannotReach
          /\ CallSetPhase("failed", "stop")
          /\ UNCHANGED <<queued, objs, meta, cluster>>
       \/ /\ ws.phase \in {"unready", "hibernated"}   \* ErrWorkspaceNotReady
          /\ Return(TRUE)
          /\ UNCHANGED <<objs, cluster>>
       \/ /\ ws.phase = "ready" /\ adopted
          /\ adoptExistingHelmRelease
       \/ /\ ws.phase = "ready" /\ ~adopted
          /\ helmInstall
          /\ pc' = "patch"
          /\ UNCHANGED <<queued, objs, meta>>
    /\ UNCHANGED <<outcome, environment>>

\* The annotation patch after Install and after Sleep.  When it fails the code
\* logs the error and goes on.
patchManagerData ==
    /\ pc = "patch"
    /\ \/ Patch([Server EXCEPT !.data = meta])
       \/ (meta = Server.data \/ "patch" \in Faults) /\ UNCHANGED objs
    /\ IF then = "error"
       THEN Return(TRUE)
       ELSE pc' = "setPhase" /\ UNCHANGED <<queued, goal, then, meta>>
    /\ UNCHANGED <<outcome, cluster, environment>>

\* ScaleDeployments, ScaleReplicaSets, ScaleStatefulSets and their *Back forms:
\* the workloads' counts once the given ones are patched.
Scaled(counts) == [w \in Workloads |-> IF w \in DOMAIN counts THEN counts[w] ELSE live[w]]

\* A variant that reads the counts after it has replaced them.
SleepRecordsAfter(down, recorded) ==
    /\ live' = Scaled([w \in down |-> 0])
    /\ meta' = IF recorded = {} THEN meta ELSE [w \in recorded |-> live'[w]]

\* A variant that leaves one of the workloads up.
SleepLeavesOne(down, recorded) ==
    /\ \E up \in Workloads : live' = Scaled([w \in down \ {up} |-> 0])
    /\ meta' = IF recorded = {} THEN meta ELSE [w \in recorded |-> live[w]]

\* ModuleHelmManager.Sleep: the counts found are recorded, the one whose patch
\* fails included; the first error ends it.  Nothing found records nothing.
Sleep(down, recorded) ==
    /\ live' = Scaled([w \in down |-> 0])
    /\ meta' = IF recorded = {} THEN meta ELSE [w \in recorded |-> live[w]]

Present == IF deployed THEN Workloads ELSE {}

sleepModule ==
    /\ pc = "sleep"
    /\ \/ /\ ~WorkspaceReady \/ CannotReach
          /\ Return(TRUE)
          /\ UNCHANGED cluster
       \/ /\ WorkspaceReady
          /\ \E down \in SUBSET Present, recorded \in SUBSET Present :
               /\ down \subseteq recorded
               /\ Sleep(down, recorded)
               /\ \/ down = Present /\ goal' = "sleeped" /\ then' = "hibernate"
                  \/ /\ "scale" \in Faults /\ down # Present
                     /\ \E w \in Present \ down : recorded \subseteq down \cup {w}
                     /\ goal' = "" /\ then' = "error"
          /\ pc' = "patch"
          /\ UNCHANGED <<queued, deployed, cleanup>>
    /\ UNCHANGED <<objs, outcome, environment>>

\* ModuleHelmManager.Resume: every recorded count is written back.  A workload
\* that no longer exists is an error, and so is a missing history.  The
\* annotation is unchanged, so its patch writes nothing.
Resume ==
    /\ DOMAIN meta # {} /\ deployed
    /\ live' = Scaled(meta)

\* Some of the counts are written back, then a patch fails.
ResumeFails ==
    \E up \in SUBSET (Present \cap DOMAIN meta) : live' = Scaled([w \in up |-> meta[w]])

resumeModule ==
    /\ pc = "resume"
    /\ \/ /\ WorkspaceReady /\ Resume
          /\ CallSetPhase("ready", "requeue")
          /\ UNCHANGED <<queued, meta>>
       \/ /\ ~WorkspaceReady \/ CannotReach \/ DOMAIN meta = {} \/ ~deployed
          /\ Return(TRUE)
          /\ UNCHANGED live
       \/ /\ WorkspaceReady /\ "scale" \in Faults /\ ResumeFails
          /\ Return(TRUE)
    /\ UNCHANGED <<objs, outcome, deployed, cleanup, environment>>

\* UninstallRelease: the release and its workloads go, and are waited for.
RemoveRelease == deployed' = FALSE /\ live' = AllDown /\ UNCHANGED cleanup

\* A variant without the early return for an adopted release.
uninstallModuleAdoptedToo ==
    /\ pc = "uninstall"
    /\ \/ ws.phase = "absent" /\ outcome' = "skipped" /\ UNCHANGED cluster
       \/ /\ ws.phase # "absent"
          /\ ws.deleting \/ WorkspaceReady
          /\ RemoveRelease
          /\ outcome' = "done"
    /\ GoTo("dropFinalizer")
    /\ UNCHANGED <<objs, queued, meta, environment>>

\* A variant that wants the workspace ready though it is being deleted.
uninstallModuleWhenReady ==
    /\ pc = "uninstall"
    /\ \/ (adopted \/ ws.phase = "absent") /\ outcome' = "skipped" /\ UNCHANGED cluster
       \/ ~adopted /\ ~WorkspaceReady /\ outcome' = "failed" /\ UNCHANGED cluster
       \/ ~adopted /\ WorkspaceReady /\ RemoveRelease /\ outcome' = "done"
    /\ GoTo("dropFinalizer")
    /\ UNCHANGED <<objs, queued, meta, environment>>

\* Whatever the outcome, handleDeletion goes on to drop the finalizer.
uninstallModule ==
    /\ pc = "uninstall"
    /\ \/ adopted /\ outcome' = "skipped" /\ UNCHANGED cluster
       \/ ~adopted /\ ws.phase = "absent" /\ outcome' = "skipped" /\ UNCHANGED cluster
       \/ /\ ~adopted /\ ws.phase # "absent"
          /\ (~ws.deleting /\ ~WorkspaceReady) \/ CannotReach
          /\ outcome' = "failed" /\ UNCHANGED cluster
       \/ /\ ~adopted /\ ws.phase # "absent"
          /\ ws.deleting \/ WorkspaceReady
          /\ RemoveRelease
          /\ outcome' = "done"
    /\ GoTo("dropFinalizer")
    /\ UNCHANGED <<objs, queued, meta, environment>>

\* go service.UninstallRelease(ctx, releaseName, namespace, true, true); its
\* error is dropped.
cleanupFailedInstall ==
    /\ cleanup
    /\ cleanup' = FALSE
    /\ \/ deployed' = FALSE /\ live' = AllDown
       \/ "helm" \in Faults /\ UNCHANGED <<deployed, live>>
    /\ UNCHANGED <<objs, queued, worker, environment>>

-----------------------------------------------------------------------------
(* The environment *)

\* A watch event reaches the cache; its handler enqueues the key.
deliver ==
    /\ Len(objs) > 1
    /\ objs' = Tail(objs)
    /\ queued' = TRUE
    /\ UNCHANGED <<worker, cluster, environment>>

\* The user, the workspace controller or a fork flips spec.hibernated.
setHibernated ==
    /\ "hibernate" \in Moves /\ edits < MaxEdits
    /\ Server.phase # "gone"
    /\ Patch([Server EXCEPT !.hibernated = ~Server.hibernated])
    /\ edits' = edits + 1
    /\ UNCHANGED <<queued, worker, cluster, adopted, ws, crashes>>

\* kubectl delete, or the deletion of the workspace: an object with a
\* finalizer is marked, one without is removed.
delete ==
    /\ "delete" \in Moves
    /\ Server.phase # "gone" /\ ~Server.deleting
    /\ Patch(IF HasFinalizer(Server)
             THEN [Server EXCEPT !.deleting = TRUE]
             ELSE [Server EXCEPT !.deleting = TRUE, !.phase = "gone"])
    /\ UNCHANGED <<queued, worker, cluster, environment>>

\* The workspace becomes ready (its install ends).
workspaceReady ==
    /\ ws.phase = "unready" /\ ~ws.deleting
    /\ ws' = [ws EXCEPT !.phase = "ready"]
    /\ UNCHANGED <<objs, queued, worker, cluster, adopted, edits, crashes>>

\* It hibernates, wakes, fails, is deleted and disappears; what the cache shows of that may
\* be several steps at once.
workspaceMoves ==
    /\ "workspace" \in Moves
    /\ ws' \in WorkspaceShown
    /\ UNCHANGED <<objs, queued, worker, cluster, adopted, edits, crashes>>

\* Five minutes pass without a status write; no watch event takes that long.
fiveMinutesPass ==
    /\ "time" \in Moves
    /\ CacheIsCurrent
    /\ Cached.phase \in Transitional /\ ~Cached.aged
    /\ objs' = << [Cached EXCEPT !.aged = TRUE] >>
    /\ UNCHANGED <<queued, worker, cluster, environment>>

\* The operator restarts: memory and goroutines are lost, the informer lists
\* the server's objects, the workspace among them, and enqueues them all.
restart ==
    /\ crashes < MaxCrashes
    /\ crashes' = crashes + 1
    /\ objs' = <<Server>>
    /\ queued' = TRUE
    /\ pc' = "idle" /\ goal' = "" /\ then' = "stop" /\ meta' = NoHistory
    /\ cleanup' = FALSE
    /\ ws' = ws \/ ("workspace" \in Moves /\ ws' \in WorkspaceShown)
    /\ UNCHANGED <<outcome, deployed, live, adopted, edits>>

-----------------------------------------------------------------------------
(* The specification *)

Work ==
    \/ Reconcile \/ addFinalizer \/ setPhase \/ dropFinalizer \/ writeFails
    \/ installModule \/ patchManagerData \/ sleepModule \/ resumeModule
    \/ uninstallModule

Environment ==
    \/ cleanupFailedInstall \/ deliver \/ setHibernated \/ delete
    \/ workspaceReady \/ workspaceMoves \/ fiveMinutesPass \/ restart

Next == Work \/ Environment

Spec == Init /\ [][Next]_vars

\* The worker goroutine, the watch and the clock do not stop; users, faults and
\* restarts are never forced.
Fairness ==
    /\ WF_vars(Work) /\ WF_vars(deliver) /\ WF_vars(fiveMinutesPass)
    /\ WF_vars(cleanupFailedInstall) /\ WF_vars(workspaceReady)

FairSpec == Spec /\ Fairness

-----------------------------------------------------------------------------
(* Safety *)

\* A module that is gone took its release with it, or uninstallModule reported
\* an error or found no workspace: handleEmptyPhase takes the finalizer before
\* anything is installed, and a conflicting delete makes that write fail.
NoReleaseLeftSilently ==
    Server.phase = "gone" /\ deployed /\ ~adopted => outcome \in {"skipped", "failed"}

\* Adopting a release never costs the release: neither a failed adoption nor
\* the deletion of the module uninstalls it.
AdoptedReleaseKept == adopted => deployed

\* A module that got past its installation is never installed again, however
\* far the cache is behind when the next Reconcile starts: setPhase succeeds
\* only on the newest version, so whoever wrote "ready" had "installing" cached.
InstallNotRepeated ==
    [][(Server.phase)' = "installing" => Server.phase \in {"", "installing"}]_objs

\* A module shown as ready has its release running at the chart's size.
ReadyMeansRunning == Server.phase = "ready" => deployed /\ live = Replicas

\* A module shown as sleeped is scaled down and its annotation holds every count
\* a later resumeModule needs.
SleepedMeansRestorable ==
    Server.phase = "sleeped" => live = AllDown /\ Server.data = Replicas

-----------------------------------------------------------------------------
(* The contract *)

Life == INSTANCE ModuleLife WITH
            Phases <- Phase, phase <- Server.phase, running <- live # AllDown

\* The phases of a Module come in the order of ModuleLife whatever fails, though a
\* worker may decide on a copy the server has moved on from: setPhase accepts only
\* the newest version, so such a copy is one status write behind and no more.
PhasesInOrder == Life!PhaseSpec

\* A Module's application starts and stops only in the phases that announce it, and
\* sleeps when it is shown as sleeped.  (With the fault "write" a repeated install
\* can lose its release to the clean-up of the first one.)
KeepsContract == Life!LifeSpec

-----------------------------------------------------------------------------
(* The inductive invariant behind the safety theorems *)

\* The versions between cache and server: a phase is only ever shown with the
\* finalizer, the finalizer is not lost, nothing follows the removal, and a
\* module past its installation has no version left in which it is new.
CacheOrdered ==
    /\ \A i \in 1 .. Len(objs) :
         /\ objs[i].phase \notin {"", "gone"} => HasFinalizer(objs[i])
         /\ HasFinalizer(objs[i]) => HasFinalizer(Server) \/ Server.phase = "gone"
         /\ objs[i].phase = "gone" => i = Len(objs)
    /\ Server.phase = "" => \A i \in 1 .. Len(objs) : objs[i].phase = ""
    /\ Server.phase \notin {"", "installing", "gone"} =>
         \A i \in 1 .. Len(objs) : objs[i].phase # ""

\* What the worker may rely on at each point: only it changes the phase, and
\* while it works the finalizer keeps the object in place.
WorkerConsistent ==
    /\ pc = "addFinalizer" => Server.phase \in {"", "installing", "gone"}
    /\ pc = "setPhase" =>
         \/ /\ goal = "installing" /\ then = "install"
            /\ Server.phase \in {"", "installing", "gone"}
            /\ HasFinalizer(Server) \/ Server.phase = "gone"
         \/ /\ \/ <<goal, then>> \in {<<"uninstalling", "uninstall">>,
                                    <<"sleeping", "sleep">>, <<"resuming", "resume">>}
               \/ goal \in Settled /\ then \in {"hibernate", "stop", "requeue"}
            /\ Server.phase # ""
    /\ pc = "install" => Server.phase = "installing"
    /\ pc = "patch" => /\ Server.phase \in {"installing", "sleeping"}
                       /\ \/ goal \in Settled /\ then \in {"hibernate", "stop"}
                          \/ then = "error"
    /\ pc = "sleep" => Server.phase = "sleeping"
    /\ pc = "resume" => Server.phase = "resuming"
    /\ pc \in {"uninstall", "dropFinalizer"} => Server.phase = "uninstalling"

\* A release exists only under a module that has a phase; it outlives the
\* module only when uninstallModule said so; no clean-up threatens an adopted one.
ReleaseGuarded ==
    /\ deployed /\ ~adopted => Server.phase # ""
    /\ pc = "dropFinalizer" /\ deployed /\ ~adopted => outcome \in {"skipped", "failed"}
    /\ NoReleaseLeftSilently
    /\ cleanup => ~adopted
    /\ AdoptedReleaseKept

Inductive == TypeOK /\ CacheOrdered /\ WorkerConsistent /\ ReleaseGuarded

\* Every copy is at most one status write behind, and a module is shown as uninstalling
\* only when no copy is left without its deletion.
CopiesInOrder ==
    \A v \in InFlight :
        /\ Server.phase \in {v.phase} \cup Life!After(v.phase)
        /\ v.deleting => Server.deleting
        /\ Server.phase = "uninstalling" => v.deleting

\* What the worker is about to write comes next in the order of the phases.
WorkerInOrder ==
    /\ pc = "setPhase" /\ Server.phase # "gone" =>
         /\ goal \in {Server.phase} \cup Life!After(Server.phase)
         /\ goal = "uninstalling" => Server.deleting
    /\ pc = "patch" /\ then # "error" => goal \in Life!After(Server.phase)

Up == deployed /\ live = Replicas /\ ~cleanup
Down == deployed /\ live = AllDown /\ ~cleanup

\* A clean-up is pending only when the installation has failed: no copy is new, and the
\* worker neither installs, sleeps nor resumes.
CleanupGuarded ==
    cleanup =>
        \/ pc \in {"patch", "setPhase"} /\ goal = "failed" /\ Server.phase = "installing"
        \/ /\ \A v \in InFlight : v.phase \in {"installing", "failed", "uninstalling", "gone"}
           /\ Server.phase # "installing"
           /\ pc \notin {"addFinalizer", "install", "patch", "sleep", "resume"}
           /\ pc = "setPhase" => goal \in {"failed", "uninstalling"}

\* What the worker knows of the application where it decides or acts on it, ...
WorkerKnows ==
    /\ adopted /\ Server.phase \in {"", "installing"} => live = Replicas
    /\ pc = "sleep" => Up
    /\ pc = "resume" => Down /\ meta = Replicas
    /\ pc = "patch" =>
         /\ then # "error"
         /\ goal = "ready" => Up
         /\ goal = "sleeped" => Down /\ meta = Replicas
    /\ pc = "setPhase" =>
         /\ goal \in {"sleeping", "ready"} => Up
         /\ goal \in {"resuming", "sleeped"} => Down /\ Server.data = Replicas

\* ... and what any copy in which the module is settled still says of it.
CopiesTellTruth ==
    Server.phase \notin {"uninstalling", "gone"} =>
        \A v \in InFlight :
            /\ v.phase = "ready" => Up \/ (pc \in {"patch", "setPhase"} /\ goal = "sleeped")
            /\ v.phase = "sleeped" =>
                 (Down /\ Server.data = Replicas) \/ (pc = "setPhase" /\ goal = "ready")

\* This part needs the patches, the status writes and the scaling to succeed.
Reliable == Faults \subseteq {"helm", "chart"}

Strengthened ==
    /\ Inductive /\ CopiesInOrder /\ WorkerInOrder
    /\ Reliable => CleanupGuarded /\ WorkerKnows /\ CopiesTellTruth

-----------------------------------------------------------------------------
(* Liveness *)

Gone == Server.phase = "gone"

\* No module stays in a transitional phase for ever unless it is being deleted:
\* what did not succeed is marked failed after five minutes.
TransitionsEnd ==
    (Server.phase \in Transitional) ~> (Server.phase \in Settled \/ Gone \/ Server.deleting)

\* A ready module that should sleep does, unless it fails or the wish changes.
HibernationHappens ==
    (Server.phase = "ready" /\ Server.hibernated)
        ~> (Server.phase \in {"sleeped", "failed"} \/ ~Server.hibernated
            \/ Server.deleting \/ Gone)

\* A deletion that finds the module settled and the worker free removes it,
\* whatever uninstallModule returns, provided the operator stays up.
SettledDeletionEnds ==
    (pc = "idle" /\ Cached.deleting /\ Server.phase \in Settled /\ crashes = MaxCrashes)
        ~> Gone

\* A module whose workspace is not ready yet is installed once it is.
InstalledOnceWorkspaceReady == <>[](ws.phase = "ready") => <>deployed
=============================================================================
