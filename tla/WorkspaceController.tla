------------------------- MODULE WorkspaceController -------------------------
(***************************************************************************)
(* The reconciler of one Workspace (workspace_controller.go,               *)
(* workspace_managed.go) and the webhooks its writes pass                  *)
(* (workspace_webhook.go), with the cron entries of its auto-hibernation,  *)
(* its virtual cluster, and the Module resources that refer to it.  As in  *)
(* ModuleController, reads go through a cache that lags (ApiObject) and one*)
(* worker serves the key; users, the module controller, the cron           *)
(* goroutines, the clean-up of a failed install and restarts interleave.   *)
(***************************************************************************)
EXTENDS ApiObject, FiniteSets

CONSTANTS
    Modules,      \* the Modules that may refer to the workspace
    Schedules,    \* cron expressions; "malformed" is one that does not parse
    Autos,        \* values of spec.autoHibernation the user may ask for
    Settings,     \* the workspaces to look at, and what may happen to each
    MaxEdits,     \* how often users and cron jobs may change the spec
    MaxCrashes    \* how often the operator may restart

\* "write": a RetryOnConflict loop fails; "list": a list of modules fails;
\* "patch": a patch or delete of a module fails (the code only logs it);
\* "vcluster": a step of installing or uninstalling the vcluster fails;
\* "source": the workspace named by spec.from is not found; "timeout": a module
\* is not gone after 60 seconds; "coincide": an old and a new cron expression
\* have the same next time.
FaultKinds == {"write", "list", "patch", "vcluster", "source", "timeout", "coincide"}

\* "hibernate", "auto", "delete": the user; "cron": the cron jobs fire;
\* "create": modules appear, "late": also once the workspace is being deleted
\* (or too late for the cache getRelatedModules reads); "secret": the Secret with
\* the kubeconfig is removed and put back.
MoveKinds == {"hibernate", "auto", "delete", "cron", "create", "late", "secret"}

\* spec.autoHibernation: nil, disabled, or enabled with its two schedules.
AutoSetting == [mode : {"nil", "off"}, sleep : {"none"}, wake : {"none"}]
               \cup [mode : {"on"}, sleep : Schedules, wake : Schedules \cup {"none"}]

NoAuto == [mode |-> "nil", sleep |-> "none", wake |-> "none"]

\* managed: spec.type = "managed", the workspace owns a vcluster; forks: spec.from
\* is set, and auto is the source's spec.autoHibernation.  The update webhook
\* refuses to change type, from and connection, so a setting is kept for ever.
Setting == [managed : BOOLEAN, forks : BOOLEAN, auto : AutoSetting,
            faults : SUBSET FaultKinds, moves : SUBSET MoveKinds]

ASSUME ConstantsAssumption ==
    /\ "none" \notin Schedules
    /\ Autos \subseteq AutoSetting
    /\ Settings \subseteq Setting
    /\ MaxEdits \in Nat /\ MaxCrashes \in Nat

VARIABLES
    setting,   \* the workspace's immutable part, and what may happen to it
    secret,    \* an unmanaged workspace's Secret is there, with a kubeconfig in it
    queued,    \* the workspace's key is in the work queue
    pc,        \* where the worker is in Reconcile
    goal,      \* setPhase*: the phase to write
    then,      \* setPhase*: where to go once it is written
    local,     \* the worker's *Workspace
    listed,    \* modules still to be handled, as getRelatedModules returned them
    awaited,   \* the modules whose deletion handleDeletion is waiting for
    cron,      \* the schedule of the workspace's entry in each cron manager
    mods,      \* each Module: not there, or its spec.hibernated
    marked,    \* Modules with a deletion timestamp
    vcluster,  \* the vcluster's namespace and Helm release
    cleanup,   \* a goroutine started by a failed install will uninstall it
    srcReady,  \* all modules of the source workspace are ready or sleeped
    forked,    \* how often forkWorkspace started its copies (2 stands for more)
    edits,     \* changes of the spec so far
    crashes    \* restarts so far

worker == <<pc, goal, then, local, listed, awaited>>
cluster == <<mods, marked, vcluster, cleanup>>
source == <<srcReady, forked>>
given == <<setting, secret>>
environment == <<given, edits, crashes>>
vars == <<objs, queued, worker, cron, cluster, source, environment>>

Managed == setting.managed
Forks == setting.forks
Faults == setting.faults
Moves == setting.moves

-----------------------------------------------------------------------------
(* Data *)

\* "" is a workspace nothing was done for yet; "gone" is the NotFound version.
\* The API also declares "terminating"; no code writes it.
Settled == {"ready", "hibernated", "failed"}
Phase == Settled \cup {"", "installing", "gone"}

Version == [phase : Phase, hibernated : BOOLEAN, deleting : BOOLEAN,
            finalizers : SUBSET {"delete"}, auto : AutoSetting]

\* Between two calls of Reconcile the worker holds no copy.
NoCopy == [phase |-> "gone", hibernated |-> FALSE, deleting |-> FALSE,
           finalizers |-> {}, auto |-> NoAuto]

ModuleState == {"absent", "awake", "hibernated"}
Existing == {m \in Modules : mods[m] # "absent"}
NoModules == [m \in {} |-> "absent"]
NoEntries == [sleep |-> "none", resume |-> "none"]

Labels == {"idle", "addFinalizer", "setPhase", "vcluster", "fork", "auto", "blocked",
           "list sleep", "list resume", "list delete", "sleep", "resume", "delete",
           "wait", "uninstall", "dropFinalizer"}

VersionsTypeOK == objs \in Seq(Version) /\ Len(objs) \in 1 .. MaxLag + 1

WorkerTypeOK ==
    /\ queued \in BOOLEAN
    /\ pc \in Labels
    /\ goal \in Phase
    /\ then \in Labels \cup {"error"}
    /\ local \in Version
    /\ listed \in UNION {[S -> ModuleState] : S \in SUBSET Modules}
    /\ awaited \subseteq Modules

CronTypeOK == cron \in [sleep : Schedules \cup {"none"}, resume : Schedules \cup {"none"}]

ClusterTypeOK ==
    /\ mods \in [Modules -> ModuleState]
    /\ marked \subseteq Modules
    /\ vcluster \in {"none", "namespace", "running"}
    /\ cleanup \in BOOLEAN

EnvironmentTypeOK ==
    /\ setting \in Settings /\ secret \in BOOLEAN
    /\ srcReady \in BOOLEAN /\ forked \in 0 .. 2
    /\ edits \in 0 .. MaxEdits /\ crashes \in 0 .. MaxCrashes

TypeOK == VersionsTypeOK /\ WorkerTypeOK /\ CronTypeOK /\ ClusterTypeOK /\ EnvironmentTypeOK

-----------------------------------------------------------------------------
(* The webhooks: every write of the resource itself passes them, a write of its *)
(* status subresource and a deletion do not.                                  *)

Parses(schedule) == schedule # "malformed"

\* A disabled setting is validated too; that it has none here stands for a valid one.
validateSchedules(auto) ==
    auto.mode = "on" => /\ Parses(auto.sleep)
                        /\ auto.wake # "none" => Parses(auto.wake) /\ auto.wake # auto.sleep

\* A local connection has no Secret: as if it was always there.
validateWorkspaceSpec(m) == validateSchedules(m.auto) /\ (Managed \/ secret)

\* A fork without autoHibernation takes its source's, if the source is found: when
\* it is created, and again whenever a write comes without one.
Default(m) ==
    IF Forks /\ m.auto = NoAuto
    THEN {[m EXCEPT !.auto = setting.auto]} \cup (IF "source" \in Faults THEN {m} ELSE {})
    ELSE {m}

\* What is stored of a write of m; nothing, when it is refused.
Admitted(m) == {v \in Default(m) : validateWorkspaceSpec(v)}

\* ValidateCreate also demands that the source exists.
Created(m) ==
    validateWorkspaceSpec(m) /\ (Forks /\ m.auto = NoAuto => setting.auto = NoAuto)

Init ==
    /\ setting \in Settings /\ secret = TRUE
    /\ \E h \in BOOLEAN, a \in Autos \cup {NoAuto, setting.auto} :
         /\ objs = << [phase |-> "", hibernated |-> h, deleting |-> FALSE,
                       finalizers |-> {}, auto |-> a] >>
         /\ Created(Server)
    /\ queued = TRUE
    /\ pc = "idle" /\ goal = "" /\ then = "idle" /\ local = NoCopy
    /\ listed = NoModules /\ awaited = {}
    /\ cron = NoEntries
    /\ mods \in [Modules -> {"absent", "awake"}] /\ marked = {}
    /\ vcluster = "none" /\ cleanup = FALSE
    /\ srcReady = FALSE /\ forked = 0
    /\ edits = 0 /\ crashes = 0

-----------------------------------------------------------------------------
(* Reconcile *)

\* Go on in the same call of Reconcile, return from it, or call a setPhase*.
GoTo(label) == pc' = label /\ UNCHANGED <<queued, goal, then, local, listed, awaited>>

Return(requeue) ==
    /\ pc' = "idle" /\ goal' = "" /\ then' = "idle" /\ local' = NoCopy
    /\ listed' = NoModules /\ awaited' = {}
    /\ queued' = (queued \/ requeue)

CallSetPhase(phase, label) ==
    /\ pc' = "setPhase" /\ goal' = phase /\ then' = label
    /\ UNCHANGED <<queued, local, listed, awaited>>

\* status.hibernatedAt is written together with the phase, and only for this one.
HibernatedAt(m) == m.phase = "hibernated"

\* A variant that never wakes.
handleHibernationNoResume(m) ==
    IF ~HibernatedAt(m) /\ m.hibernated THEN "list sleep" ELSE "auto"

\* The two conditions of handleHibernation; without them the schedule is next.
handleHibernation(m) ==
    CASE ~HibernatedAt(m) /\ m.hibernated -> "list sleep"
      [] HibernatedAt(m) /\ ~m.hibernated -> "list resume"
      [] OTHER                            -> "auto"

\* handleDeletion proceeds from these phases only; in any other it asks to be
\* called again in two seconds.
DeletionProceeds(m) == m.phase \in Settled

\* The branches of Reconcile that start work,
Start(m) ==
    \/ m.deleting /\ DeletionProceeds(m) /\ pc' = "list delete"
    \/ ~m.deleting /\ m.phase = "" /\ pc' = "addFinalizer"
    \/ ~m.deleting /\ m.phase \in {"ready", "hibernated"} /\ pc' = handleHibernation(m)

\* ... ask to be called again,
Waits(m) == IF m.deleting THEN ~DeletionProceeds(m) ELSE m.phase = "installing"

\* ... and do nothing.
Ignores(m) == m.phase = "gone" \/ (~m.deleting /\ m.phase = "failed")

Reconcile ==
    /\ pc = "idle" /\ queued
    /\ \/ /\ Cached.phase # "gone" /\ Start(Cached)
          /\ local' = Cached /\ queued' = FALSE
          /\ UNCHANGED <<goal, then, listed, awaited>>
       \/ /\ Ignores(Cached)
          /\ queued' = FALSE /\ UNCHANGED worker
       \/ /\ Cached.phase # "gone" /\ Waits(Cached)
          /\ UNCHANGED <<queued, worker>>
    /\ UNCHANGED <<objs, cron, cluster, source, environment>>

-----------------------------------------------------------------------------
(* The writes of the workspace itself *)

\* A variant that installs without showing the phase installing first.
initialiseUnannounced(m) ==
    /\ local' = m
    /\ CASE Managed                  -> pc' = "vcluster" /\ UNCHANGED <<goal, then>>
         [] ~Managed /\ m.hibernated -> pc' = "setPhase" /\ goal' = "hibernated" /\ then' = "auto"
         [] OTHER                    -> pc' = "setPhase" /\ goal' = "ready" /\ then' = "fork"
    /\ UNCHANGED <<queued, listed, awaited>>

\* What handleEmptyPhase does with the finalizer in place.
initialise(m) ==
    /\ pc' = "setPhase" /\ local' = m
    /\ CASE Managed                  -> goal' = "installing" /\ then' = "vcluster"
         [] ~Managed /\ m.hibernated -> goal' = "hibernated" /\ then' = "auto"
         [] OTHER                    -> goal' = "ready" /\ then' = "fork"
    /\ UNCHANGED <<queued, listed, awaited>>

addFinalizer ==
    /\ pc = "addFinalizer"
    /\ Cached.phase # "gone"
    /\ \/ HasFinalizer(Cached) /\ initialise(Cached) /\ UNCHANGED objs
       \/ /\ ~HasFinalizer(Cached)
          /\ \E m \in Admitted([Cached EXCEPT !.finalizers = {"delete"}]) :
               Put(m) /\ initialise(m)
    /\ UNCHANGED <<cron, cluster, source, environment>>

\* setPhaseReady, setPhaseFailed, setPhaseHibernated, setPhaseInstalling.
setPhase ==
    /\ pc = "setPhase"
    /\ Cached.phase # "gone"
    /\ LET m == [Cached EXCEPT !.phase = goal] IN
       /\ Put(m)
       /\ IF then = "error"
          THEN Return(TRUE)
          ELSE pc' = then /\ local' = m /\ UNCHANGED <<queued, goal, then, listed, awaited>>
    /\ UNCHANGED <<cron, cluster, source, environment>>

\* handleDeletion, last loop: without its finalizer a deleted object is removed.
dropFinalizer ==
    /\ pc = "dropFinalizer"
    /\ Cached.phase # "gone"
    /\ \E m \in Admitted([Cached EXCEPT !.phase = "gone", !.finalizers = {}]) : Put(m)
    /\ Return(FALSE)
    /\ UNCHANGED <<cron, cluster, source, environment>>

\* The webhooks refuse the finalizer's write.
Refused ==
    /\ Admitted(Cached) = {}
    /\ \/ pc = "addFinalizer" /\ ~HasFinalizer(Cached)
       \/ pc = "dropFinalizer"

\* A variant that does not come back to a workspace whose write failed.
writeFailsUnreported ==
    /\ pc \in {"addFinalizer", "setPhase", "dropFinalizer"}
    /\ Cached.phase = "gone" \/ "write" \in Faults \/ Refused
    /\ Return(FALSE)
    /\ UNCHANGED <<objs, cron, cluster, source, environment>>

\* A loop ends with an error: NotFound, a refusal, or a fault.  Reconcile returns it.
writeFails ==
    /\ pc \in {"addFinalizer", "setPhase", "dropFinalizer"}
    /\ Cached.phase = "gone" \/ "write" \in Faults \/ Refused
    /\ Return(TRUE)
    /\ UNCHANGED <<objs, cron, cluster, source, environment>>

-----------------------------------------------------------------------------
(* Starting a workspace *)

\* A variant that reports the workspace ready and then installs.
installVClusterLater ==
    /\ pc = "vcluster"
    /\ CallSetPhase("ready", "fork")
    /\ UNCHANGED <<objs, cron, cluster, source, environment>>

\* The namespace is created, then the Helm release; a release name in use fails.
\* A failed Helm install leaves a goroutine that uninstalls what there is.
installVCluster ==
    /\ pc = "vcluster"
    /\ \/ /\ vcluster # "running"
          /\ vcluster' = "running" /\ UNCHANGED cleanup
          /\ CallSetPhase("ready", "fork")
       \/ /\ "vcluster" \in Faults
          /\ vcluster' \in {vcluster, IF vcluster = "none" THEN "namespace" ELSE vcluster}
          /\ UNCHANGED cleanup
          /\ CallSetPhase("failed", "error")
       \/ /\ vcluster = "running" \/ "vcluster" \in Faults
          /\ vcluster' \in {"running", IF vcluster = "running" THEN vcluster ELSE "namespace"}
          /\ cleanup' = TRUE
          /\ CallSetPhase("failed", "error")
    /\ UNCHANGED <<objs, cron, mods, marked, source, environment>>

\* forkWorkspace: with every module of the source ready or sleeped it starts one
\* goroutine per module, which creates the copy, and returns.
forkWorkspace ==
    \/ srcReady /\ forked' = IF forked = 0 THEN 1 ELSE 2
    \/ (~srcReady \/ "list" \in Faults) /\ UNCHANGED forked

\* The end of handleEmptyPhase.  An error of forkWorkspace is logged as "will
\* retry"; Reconcile goes on to the schedule whatever it returned.
fork ==
    /\ pc = "fork"
    /\ \/ ~Forks /\ GoTo("auto") /\ UNCHANGED forked
       \/ Forks /\ "source" \in Faults /\ CallSetPhase("failed", "error") /\ UNCHANGED forked
       \/ Forks /\ forkWorkspace /\ GoTo("auto")
    /\ UNCHANGED <<objs, cron, cluster, srcReady, environment>>

-----------------------------------------------------------------------------
(* Auto-hibernation *)

\* The entry of one cron manager after add*Cron(override = TRUE) with a given
\* schedule: a new entry, or the present one when both have the same next time.
AddEntry(entry, schedule) ==
    IF entry = "none" /\ Parses(schedule) THEN schedule ELSE entry

\* A different schedule makes add*Cron call remove*Cron, which takes the lock the
\* caller holds: sync.RWMutex is not reentrant.
Relocks(entry, schedule) == Parses(schedule) /\ entry \notin {"none", schedule}

\* A variant that forgets the wake entry of a disabled schedule.
EntriesForKeepingResume(auto) ==
    CASE auto.mode = "nil" -> cron
      [] auto.mode = "off" -> [cron EXCEPT !["sleep"] = "none"]
      [] OTHER -> [sleep |-> AddEntry(cron["sleep"], auto.sleep),
                   resume |-> IF auto.wake = "none" THEN "none"
                              ELSE AddEntry(cron["resume"], auto.wake)]

\* What handleAutoHibernation makes of the two entries; nil changes neither.
EntriesFor(auto) ==
    CASE auto.mode = "nil" -> cron
      [] auto.mode = "off" -> NoEntries
      [] OTHER -> [sleep |-> AddEntry(cron["sleep"], auto.sleep),
                   resume |-> IF auto.wake = "none" THEN "none"
                              ELSE AddEntry(cron["resume"], auto.wake)]

handleAutoHibernation ==
    /\ pc = "auto"
    /\ LET a == local.auto
           onSleep == a.mode = "on" /\ Relocks(cron["sleep"], a.sleep)
           onResume == a.mode = "on" /\ a.wake # "none" /\ Relocks(cron["resume"], a.wake)
       IN \/ /\ onSleep \/ onResume
             /\ cron' = IF onSleep THEN cron
                        ELSE [cron EXCEPT !["sleep"] = AddEntry(cron["sleep"], a.sleep)]
             /\ GoTo("blocked")
          \/ /\ (~onSleep /\ ~onResume) \/ "coincide" \in Faults
             /\ cron' = EntriesFor(a)
             /\ Return(FALSE)
    /\ UNCHANGED <<objs, cluster, source, environment>>

-----------------------------------------------------------------------------
(* Putting the modules to sleep, waking them, deleting them *)

\* getRelatedModules, called by sleepModules, resumeModules and handleDeletion.
\* sleepModules and resumeModules patch the listed modules that pass the same
\* test, "if !module.Spec.Hibernated".
Selected(label) ==
    IF label = "list delete" THEN Existing ELSE {m \in Existing : mods[m] = "awake"}

\* A variant of handleDeletion that leaves the cron entries in place.
getRelatedModulesKeepingCron(label, next) ==
    /\ pc = label
    /\ pc' = next /\ listed' = [m \in Selected(label) |-> mods[m]]
    /\ UNCHANGED <<queued, goal, then, local, awaited, objs, cron, cluster, source, environment>>

getRelatedModules(label, next) ==
    /\ pc = label
    /\ \/ /\ pc' = next /\ listed' = [m \in Selected(label) |-> mods[m]]
          /\ cron' = IF label = "list delete" THEN NoEntries ELSE cron
          /\ UNCHANGED <<queued, goal, then, local, awaited>>
       \/ /\ "list" \in Faults
          /\ IF label = "list delete" THEN Return(TRUE)
                                      ELSE CallSetPhase("failed", "error")
          /\ UNCHANGED cron
    /\ UNCHANGED <<objs, cluster, source, environment>>

list == \/ getRelatedModules("list sleep", "sleep")
        \/ getRelatedModules("list resume", "resume")
        \/ getRelatedModules("list delete", "delete")

Without(f, m) == [x \in DOMAIN f \ {m} |-> f[x]]

\* A merge patch from the listed copy: it is empty when the copy has the value.
PatchModule(m, value) ==
    mods' = IF listed[m] = value \/ mods[m] = "absent" THEN mods
            ELSE [mods EXCEPT ![m] = value]

\* A variant that stops at the first module.
sleepModulesFirstOnly ==
    /\ pc = "sleep"
    /\ \/ /\ \E m \in DOMAIN listed : PatchModule(m, "hibernated")
          /\ CallSetPhase("hibernated", "auto")
       \/ /\ DOMAIN listed = {}
          /\ CallSetPhase("hibernated", "auto") /\ UNCHANGED mods
    /\ UNCHANGED <<objs, cron, marked, vcluster, cleanup, source, environment>>

\* The loops of sleepModules and resumeModules, a module at a time; a failed
\* patch is logged.  Then the phase is written.
patchModules(label, value, phase) ==
    /\ pc = label
    /\ \/ \E m \in DOMAIN listed :
            /\ PatchModule(m, value) \/ ("patch" \in Faults /\ UNCHANGED mods)
            /\ listed' = Without(listed, m)
            /\ UNCHANGED <<queued, pc, goal, then, local, awaited>>
       \/ /\ DOMAIN listed = {}
          /\ CallSetPhase(phase, "auto") /\ UNCHANGED mods
    /\ UNCHANGED <<objs, cron, marked, vcluster, cleanup, source, environment>>

sleepModules == patchModules("sleep", "hibernated", "hibernated")
resumeModules == patchModules("resume", "awake", "ready")

\* handleDeletion, the loop: delete a module (one without its finalizer is gone at
\* once) and wait for it ...
deleteModule ==
    /\ pc = "delete"
    /\ \E m \in DOMAIN listed :
         /\ listed' = Without(listed, m)
         /\ \/ /\ mods[m] # "absent"
               /\ marked' = marked \cup {m}
               /\ mods' \in {mods, [mods EXCEPT ![m] = "absent"]}
               /\ pc' = "wait" /\ awaited' = {m}
            \/ /\ mods[m] = "absent" \/ "patch" \in Faults
               /\ UNCHANGED <<mods, marked, pc, awaited>>
    /\ UNCHANGED <<objs, queued, goal, then, local, cron, vcluster, cleanup, source, environment>>

\* A variant that does not wait.
awaitModuleNot ==
    /\ pc = "wait"
    /\ pc' = "delete" /\ awaited' = {}
    /\ UNCHANGED <<objs, queued, goal, then, local, listed, cron, cluster, source, environment>>

\* A variant that waits for as long as it takes.
awaitModuleForever ==
    /\ pc = "wait"
    /\ \A m \in awaited : mods[m] = "absent"
    /\ pc' = "delete" /\ awaited' = {}
    /\ UNCHANGED <<objs, queued, goal, then, local, listed, cron, cluster, source, environment>>

\* ... for at most 60 seconds.
awaitModule ==
    /\ pc = "wait"
    /\ (\A m \in awaited : mods[m] = "absent") \/ "timeout" \in Faults
    /\ pc' = "delete" /\ awaited' = {}
    /\ UNCHANGED <<objs, queued, goal, then, local, listed, cron, cluster, source, environment>>

\* After the loop: the vcluster's release, then its namespace; errors are logged.
uninstallVCluster ==
    /\ pc = "delete" /\ DOMAIN listed = {}
    /\ \/ Managed /\ vcluster' = "none"
       \/ ~Managed /\ UNCHANGED vcluster
       \/ /\ Managed /\ "vcluster" \in Faults
          /\ vcluster' \in {vcluster, IF vcluster = "running" THEN "namespace" ELSE vcluster}
    /\ GoTo("dropFinalizer")
    /\ UNCHANGED <<objs, cron, mods, marked, cleanup, source, environment>>

-----------------------------------------------------------------------------
(* The environment *)

deliver ==
    /\ Len(objs) > 1
    /\ objs' = Tail(objs)
    /\ queued' = TRUE
    /\ UNCHANGED <<worker, cron, cluster, source, environment>>

\* The user edits the spec, and the webhooks accept it.
edit(version) ==
    /\ edits < MaxEdits
    /\ Server.phase # "gone"
    /\ \E m \in Admitted(version) : Patch(m)
    /\ edits' = edits + 1
    /\ UNCHANGED <<queued, worker, cron, cluster, source, given, crashes>>

setHibernated ==
    /\ "hibernate" \in Moves
    /\ edit([Server EXCEPT !.hibernated = ~Server.hibernated])

setAuto ==
    /\ "auto" \in Moves
    /\ \E a \in Autos : a # Server.auto /\ edit([Server EXCEPT !.auto = a])

\* A cron job reads the cached workspace and patches it when it has to change.
cronFires(manager, value) ==
    /\ "cron" \in Moves
    /\ cron[manager] # "none"
    /\ Cached.phase # "gone" /\ Cached.hibernated # value
    /\ edit([Server EXCEPT !.hibernated = value])

sleepCron == cronFires("sleep", TRUE)
resumeCron == cronFires("resume", FALSE)

delete ==
    /\ "delete" \in Moves
    /\ Server.phase # "gone" /\ ~Server.deleting
    /\ Patch(IF HasFinalizer(Server)
             THEN [Server EXCEPT !.deleting = TRUE]
             ELSE [Server EXCEPT !.deleting = TRUE, !.phase = "gone"])
    /\ UNCHANGED <<queued, worker, cron, cluster, source, environment>>

\* Somebody removes, breaks or repairs the Secret of an unmanaged workspace.
secretMoves ==
    /\ "secret" \in Moves /\ ~Managed
    /\ secret' = ~secret
    /\ IF secret THEN edits < MaxEdits /\ edits' = edits + 1 ELSE UNCHANGED edits
    /\ UNCHANGED <<objs, queued, worker, cron, cluster, source, setting, crashes>>

\* A user, or a copy started by forkWorkspace, creates a module.
createModule ==
    /\ "create" \in Moves
    /\ Server.deleting \/ Server.phase = "gone" => "late" \in Moves
    /\ \E m \in Modules \ (Existing \cup marked) : mods' = [mods EXCEPT ![m] = "awake"]
    /\ UNCHANGED <<objs, queued, worker, cron, marked, vcluster, cleanup, source, environment>>

\* The module controller finishes a deletion.
moduleGone ==
    /\ \E m \in Existing \cap marked : mods' = [mods EXCEPT ![m] = "absent"]
    /\ UNCHANGED <<objs, queued, worker, cron, marked, vcluster, cleanup, source, environment>>

\* go service.UninstallRelease(ctx, releaseName, namespace, true, true): the
\* release, then the namespace; its error is dropped.
cleanupFailedInstall ==
    /\ cleanup
    /\ cleanup' = FALSE
    /\ \/ vcluster' = "none"
       \/ /\ "vcluster" \in Faults
          /\ vcluster' \in {vcluster, IF vcluster = "running" THEN "namespace" ELSE vcluster}
    /\ UNCHANGED <<objs, queued, worker, cron, mods, marked, source, environment>>

\* The modules of the source workspace become ready or sleeped.
sourceReady ==
    /\ Forks /\ ~srcReady
    /\ srcReady' = TRUE
    /\ UNCHANGED <<objs, queued, worker, cron, cluster, forked, environment>>

\* The cron entries and the goroutines are in memory only.
restart ==
    /\ crashes < MaxCrashes
    /\ crashes' = crashes + 1
    /\ objs' = <<Server>>
    /\ queued' = TRUE
    /\ pc' = "idle" /\ goal' = "" /\ then' = "idle" /\ local' = NoCopy
    /\ listed' = NoModules /\ awaited' = {}
    /\ cron' = NoEntries
    /\ cleanup' = FALSE
    /\ UNCHANGED <<mods, marked, vcluster, source, given, edits>>

-----------------------------------------------------------------------------
(* The specification *)

Work ==
    \/ Reconcile \/ addFinalizer \/ setPhase \/ dropFinalizer \/ writeFails
    \/ installVCluster \/ fork \/ handleAutoHibernation
    \/ list \/ sleepModules \/ resumeModules
    \/ deleteModule \/ awaitModule \/ uninstallVCluster

Environment ==
    \/ deliver \/ setHibernated \/ setAuto \/ sleepCron \/ resumeCron \/ delete
    \/ secretMoves \/ createModule \/ moduleGone \/ cleanupFailedInstall \/ sourceReady \/ restart

Next == Work \/ Environment

Spec == Init /\ [][Next]_vars

\* The worker and the watch do not stop, modules being deleted go away and the
\* source's modules become ready; users, cron jobs, faults and restarts are free.
Fairness ==
    /\ WF_vars(Work) /\ WF_vars(deliver) /\ WF_vars(moduleGone) /\ WF_vars(sourceReady)

FairSpec == Spec /\ Fairness

-----------------------------------------------------------------------------
(* Safety *)

\* A workspace is forked once, however stale the copy a later Reconcile reads: the
\* fork belongs to a workspace just detected as new.  A managed one owes it to
\* setPhaseInstalling: setPhaseReady is accepted only when the cache has seen
\* "installing", so no copy without a phase is left when the fork starts.
\* An unmanaged workspace has no such write before.
ForkOnce == Managed => forked < 2

\* A managed workspace that modules may be installed in has its vcluster: the
\* clean-up of a failed install never takes the vcluster of a later attempt.  (It
\* could if the write of "failed" failed too, with the cache still behind.)
ReadyHasVCluster ==
    Managed /\ "write" \notin Faults /\ Server.phase \in {"ready", "hibernated"} /\ ~Server.deleting
        => vcluster = "running"

\* A managed workspace that goes to sleep takes every module with it, if no patch fails
\* and no module is created meanwhile.  (An unmanaged one can be shown as hibernated by a
\* worker that read it before it had a phase, and asks no module.)
SleepReachesAll ==
    [][Managed /\ Server.phase = "ready" /\ (Server.phase)' = "hibernated"
       /\ "patch" \notin Faults /\ "create" \notin Moves
         => \A m \in Existing : mods[m] = "hibernated"]_objs

\* No cron job outlives its workspace.
NoOrphanEntry == Server.phase = "gone" => cron = NoEntries

\* handleDeletion uninstalls the vcluster after all modules are deleted, if they
\* are deleted in time and none is created late.
VClusterOutlivesModules ==
    [][vcluster = "running" /\ pc = "delete" /\ pc' = "dropFinalizer"
       /\ Faults \cap {"patch", "timeout"} = {} /\ "late" \notin Moves
         => Existing = {}]_<<pc, vcluster>>

-----------------------------------------------------------------------------
(* The inductive invariant behind the safety theorems *)

\* The versions between cache and server: one with a phase has the finalizer, one that is
\* gone has not and is the last, a deletion is not taken back, and a version with the
\* finalizer is followed by one without only if the deletion was on all of them.  A
\* managed workspace past its installation has no version left in which it is new.
VersionsOrdered ==
    /\ \A v \in InFlight :
         /\ v.phase \notin {"", "gone"} => HasFinalizer(v)
         /\ v.phase = "gone" => ~HasFinalizer(v) /\ Server.phase = "gone"
         /\ v.deleting => Server.deleting
    /\ \/ HasFinalizer(Server)
       \/ \A v \in InFlight : ~HasFinalizer(v)
       \/ \A v \in InFlight : v.deleting
    /\ Managed => \A v \in InFlight :
         /\ Server.phase \in {"", "installing"} => v.phase \in {"", "installing"}
         /\ Server.phase \notin {"", "installing", "gone"} => v.phase # ""

\* What the worker may rely on at each point, though it decided on a copy that may have
\* been stale: the finalizer keeps the workspace in place until it is being deleted, and
\* by then the cron entries are removed.
WorkerConsistent ==
    /\ pc \in {"setPhase", "vcluster", "fork", "auto", "blocked", "list sleep", "list resume",
              "sleep", "resume"} => HasFinalizer(Server)
    /\ pc = "addFinalizer" =>
         /\ HasFinalizer(Server) \/ \A v \in InFlight : ~HasFinalizer(v)
         /\ Managed => Server.phase \in {"", "installing", "gone"}
    /\ pc = "setPhase" =>
         \/ goal = "installing" /\ then = "vcluster" /\ Managed /\ Server.phase \in {"", "installing"}
         \/ goal = "ready" /\ then = "fork" /\ (Managed => Server.phase = "installing")
         \/ /\ goal \in {"ready", "hibernated"} /\ then = "auto"
            /\ Managed => Server.phase \notin {"", "installing"}
         \/ goal = "failed" /\ then = "error" /\ (Managed => Server.phase # "")
    /\ pc \in {"fork", "list sleep", "list resume", "sleep", "resume"} =>
         (Managed => Server.phase \notin {"", "installing"})
    /\ pc = "vcluster" => Managed /\ Server.phase = "installing"
    /\ pc \in {"list delete", "delete", "wait", "dropFinalizer"} => Server.deleting
    /\ pc \in {"delete", "wait", "dropFinalizer"} => cron = NoEntries
    /\ cron # NoEntries => HasFinalizer(Server)

\* The fork of a managed workspace comes with the end of its installation.
ForkGuarded ==
    Managed => /\ forked < 2
               /\ Server.phase \in {"", "installing"} \/ pc = "fork" => forked = 0

\* A clean-up is pending only when the installation has failed and no copy says anything
\* else; whoever may show the workspace as ready or hibernated has a vcluster.
VClusterGuarded ==
    Managed /\ "write" \notin Faults =>
        /\ cleanup =>
             \/ pc = "setPhase" /\ goal = "failed" /\ Server.phase = "installing"
             \/ /\ pc \in {"idle", "list delete", "delete", "wait", "dropFinalizer"}
                /\ Server.phase \in {"failed", "gone"}
                /\ \A v \in InFlight : v.phase \in {"installing", "failed", "gone"}
        /\ (\/ \E v \in InFlight : v.phase \in {"ready", "hibernated"}
            \/ pc \in {"list sleep", "list resume", "sleep", "resume"}
            \/ pc = "setPhase" /\ goal \in {"ready", "hibernated"})
           => vcluster = "running" \/ Server.deleting

\* The modules sleepModules has passed are hibernated.
SleepProgress ==
    Managed /\ "patch" \notin Faults /\ "create" \notin Moves =>
        /\ pc = "sleep" => /\ \A m \in Existing : mods[m] = "hibernated" \/ m \in DOMAIN listed
                           /\ \A m \in DOMAIN listed : listed[m] = "awake"
        /\ pc = "setPhase" /\ goal = "hibernated" => \A m \in Existing : mods[m] = "hibernated"

\* The modules handleDeletion has passed are gone.
DeletionProgress ==
    Faults \cap {"patch", "timeout"} = {} /\ "late" \notin Moves =>
        /\ pc = "delete" => Existing \subseteq DOMAIN listed
        /\ pc = "wait" => Existing \subseteq DOMAIN listed \cup awaited

Inductive ==
    /\ TypeOK /\ VersionsOrdered /\ WorkerConsistent /\ ForkGuarded /\ VClusterGuarded
    /\ SleepProgress /\ DeletionProgress

-----------------------------------------------------------------------------
(* Liveness *)

Gone == Server.phase = "gone"
Steady == Server.phase \in {"ready", "hibernated"} /\ ~Server.deleting

\* The phase follows spec.hibernated.
HibernationFollowed ==
    \A h \in BOOLEAN :
        (Steady /\ Server.hibernated = h)
            ~> (Server.phase = (IF h THEN "hibernated" ELSE "ready")
                \/ Server.hibernated # h \/ ~Steady)

\* Deleting a workspace removes it, in whatever phase the deletion finds it and
\* though the webhooks refuse to drop the finalizer while the Secret of its
\* connection is missing: once the Secret is back, a later attempt succeeds.
DeletionEnds == <>[](Managed \/ secret) => (Server.deleting ~> Gone)

\* The cron entries follow a schedule that stays, and a disabled one has none.
ScheduleFollowed ==
    \A a \in Autos : a.mode # "nil" =>
        (<>[](Steady /\ Server.auto = a)
            => <>[](cron["sleep"] = a.sleep /\ cron["resume"] = a.wake))

\* A workspace that waits for its source is forked once the source is ready.
ForkHappens == Forks /\ <>[](Server.phase = "ready") => <>(forked > 0)
=============================================================================
