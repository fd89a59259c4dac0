---------------------------- MODULE WorkspaceFork ----------------------------
(***************************************************************************)
(* The goroutines forkWorkspace starts, one for each Module of the source  *)
(* workspace (workspace_fork.go): each creates a copy, waits until it is   *)
(* installed, puts copy and source to sleep, copies PVCs, Secrets and      *)
(* ConfigMaps (pkg/services/*_migration.go), and undoes the hibernations in*)
(* its deferred functions.  They run beside each other, beside the module  *)
(* controller, other forks of the same source, users and restarts, and read*)
(* Modules through the informer cache.                                     *)
(***************************************************************************)
EXTENDS Naturals, Sequences

CONSTANTS
    Sources,      \* Modules of the source workspace
    Copies,       \* Modules to be made; each one's goroutine has its name
    From,         \* the source of each copy
    Call,         \* the call of forkWorkspace that starts each goroutine
    Place,        \* the cluster and namespace the release of each Module is in
    PVCs, Secrets, ConfigMaps,  \* spec.helm.migration, three sequences of names;
                  \* without PVCs or without spec.from.migrateData nothing is migrated
    Settings,     \* what is found and what may happen: the sources there are, the faults
                  \* and the moves, in each setting
    MaxLag,       \* how many versions the informer cache may be behind
    MaxSeconds,   \* how many different seconds, in the names of the migration pods
    MaxMishaps    \* how many edits, deletions and restarts may happen; timeouts
                  \* and failed patches or clean-ups count too, but are not limited

\* "create": a Module is not created; "config": no kubeconfig, or a spec that
\* does not render; "pod": a migration pod is not created or not ready; "tar":
\* the stream breaks; "api": a call on a Secret or ConfigMap; "module": the module
\* controller's operation; "patch": a patch of a Module; "timeout": a wait is over
\* too early; "cleanup": a migration pod is not deleted (the code only logs it).
FaultKinds == {"create", "config", "pod", "tar", "api", "module", "patch", "timeout",
               "cleanup"}

\* "hibernate", "delete": the user; "restart": the operator.
MoveKinds == {"hibernate", "delete", "restart"}

Names(list) == {list[i] : i \in DOMAIN list}
Volumes == Names(PVCs)
Objects == Names(Secrets) \cup Names(ConfigMaps)
Items == Volumes \cup Objects
Modules == Sources \cup Copies

\* "gone" is the NotFound version, of a Module deleted or not created yet.
Phase == {"", "installing", "ready", "sleeping", "sleeped", "resuming",
          "uninstalling", "failed", "gone"}
Version == [phase : Phase, hibernated : BOOLEAN]
NotFound == [phase |-> "gone", hibernated |-> FALSE]

\* How a source is found: running, asleep, or waiting to be woken; or there is none.
SourceRuns == [phase |-> "ready", hibernated |-> FALSE]
SourceSleeps == [phase |-> "sleeped", hibernated |-> TRUE]
SourceWakes == [phase |-> "sleeped", hibernated |-> FALSE]
SourceStates == {SourceRuns, SourceSleeps, SourceWakes, NotFound}

ASSUME ConstantsAssumption ==
    /\ Sources \cap Copies = {}
    /\ From \in [Copies -> Sources] /\ DOMAIN Call = Copies /\ DOMAIN Place = Modules
    /\ PVCs \in Seq(Volumes) /\ Secrets \in Seq(Objects) /\ ConfigMaps \in Seq(Objects)
    /\ Volumes \cap Objects = {} /\ Names(Secrets) \cap Names(ConfigMaps) = {}
    /\ Settings \subseteq [sources : [Sources -> SourceStates], faults : SUBSET FaultKinds,
                           moves : SUBSET MoveKinds]
    /\ MaxLag \in Nat \ {0} /\ MaxSeconds \in Nat \ {0} /\ MaxMishaps \in Nat \ {0}

VARIABLES
    setting,      \* one of Settings
    objs,         \* per Module: its versions from the cache's to the server's
    busy,         \* per Module: what the module controller is doing
    running,      \* per Module: its workloads may be running
    wanted,       \* per source: the spec.hibernated its user asked for
    pc,           \* per goroutine: where it is
    mine,         \* per goroutine: its *Module for the copy and for the source
    old,          \* per goroutine: sourceModuleOldHibernationStatus
    left,         \* per goroutine: what is still to be migrated in this loop
    item,         \* per goroutine: what is being migrated
    stamp,        \* per goroutine: the timestamp in its pods' names
    outcome,      \* per goroutine: "reported" if it logs an error of its own, of the copy or
                  \* of the migration, "skipped" if it returns with nothing done or logged
    pods,         \* the migration pods that exist
    terminating,  \* those of them that were deleted
    vol,          \* per copy and PVC: whether it holds all the source has
    store,        \* per copy and Secret or ConfigMap: "own" as the release made it or never
                  \* made, "deleted" to be made again, or the "source"'s data
    logged,       \* per goroutine: whose migration it reported as failed
    mishaps

controller == <<busy, running>>
goroutine == <<pc, mine, old, outcome, left, item, stamp>>
data == <<vol, store, logged>>
vars == <<setting, objs, controller, wanted, goroutine, pods, terminating, data, mishaps>>

-----------------------------------------------------------------------------
(* Data *)

Faults == setting.faults
Moves == setting.moves

Cached(m) == objs[m][1]
Server(m) == objs[m][Len(objs[m])]

Roles == {"copy", "source"}
ModuleOf(g, role) == IF role = "copy" THEN g ELSE From[g]

\* pvc-migration-<role>-<seconds>, in the namespace of the volume.
PodName(g, role, second) ==
    [place |-> Place[ModuleOf(g, role)], role |-> role, second |-> second]
Pod(g, role) == PodName(g, role, stamp[g])

Stages == {"pvcs", "secrets", "configMaps"}
Listed(stage) == CASE stage = "pvcs" -> PVCs
                   [] stage = "secrets" -> Secrets
                   [] stage = "configMaps" -> ConfigMaps

Ended == {<<"unstarted">>, <<"done">>, <<"lost">>}

Init ==
    /\ setting \in Settings
    /\ LET start == setting.sources IN
       /\ objs = [m \in Modules |-> << IF m \in Sources THEN start[m] ELSE NotFound >>]
       /\ running = [m \in Modules |-> m \in Sources /\ start[m].phase = "ready"]
       /\ wanted = [s \in Sources |-> start[s].hibernated]
    /\ busy = [m \in Modules |-> "idle"]
    /\ pc = [g \in Copies |-> <<"unstarted">>]
    /\ mine = [g \in Copies |-> [r \in Roles |-> NotFound]]
    /\ old = [g \in Copies |-> FALSE]
    /\ left = [g \in Copies |-> <<>>] /\ item = [g \in Copies |-> "none"]
    /\ stamp = [g \in Copies |-> 0] /\ outcome = [g \in Copies |-> "none"]
    /\ pods = {} /\ terminating = {}
    /\ vol = [g \in Copies |-> [p \in Volumes |-> "other"]]
    /\ store = [g \in Copies |-> [k \in Objects |-> "own"]]
    /\ logged = [g \in Copies |-> {}]
    /\ mishaps = 0

-----------------------------------------------------------------------------
(* Steps of a goroutine *)

GoTo(g, label) == pc' = [pc EXCEPT ![g] = label]

\* A merge patch of spec.hibernated applies to the server's newest version.
Patch(m, value) ==
    /\ Server(m).phase # "gone" /\ Len(objs[m]) <= MaxLag
    /\ objs' = [objs EXCEPT ![m] = Append(@, [Server(m) EXCEPT !.hibernated = value])]

Move(kind) == kind \in Moves /\ mishaps < MaxMishaps /\ mishaps' = mishaps + 1
Mishap == mishaps' = IF mishaps < MaxMishaps THEN mishaps + 1 ELSE mishaps
PatchFails(m) ==
    /\ \/ "patch" \in Faults /\ Mishap
       \/ Server(m).phase = "gone" /\ UNCHANGED mishaps
    /\ UNCHANGED objs

\* All modules of the source are listed and found settled, then the goroutines
\* start.  A source that is not settled starts nothing.
forkWorkspace(call) ==
    LET started == {g \in Copies : Call[g] = call /\ Cached(From[g]).phase # "gone"} IN
    /\ \A g \in started : /\ pc[g] = <<"unstarted">>
                          /\ Cached(From[g]).phase \in {"ready", "sleeped"}
    /\ pc' = [g \in Copies |-> IF g \in started THEN <<"create">> ELSE pc[g]]
    /\ mine' = [g \in Copies |-> IF g \in started
                                 THEN [mine[g] EXCEPT !["source"] = Cached(From[g])]
                                 ELSE mine[g]]
    /\ old' = [g \in Copies |-> IF g \in started THEN Cached(From[g]).hibernated
                                                 ELSE old[g]]
    /\ UNCHANGED <<objs, controller, wanted, setting, outcome, left, item, stamp, pods,
                   terminating, data, mishaps>>

\* What a goroutine that returns leaves to be read.
Report(g) == outcome' = [outcome EXCEPT ![g] = "reported"]
Skip(g) == outcome' = [outcome EXCEPT ![g] = "skipped"]

\* Create assigns to the err of forkWorkspace, which the goroutines of one call share: one
\* may test what another has just assigned, and give up a copy that was made, or
\* wait for one that was not.
Overwritten(g) == \E h \in Copies \ {g} : Call[h] = Call[g] /\ pc[h] = <<"create">>

create(g) ==
    /\ pc[g] = <<"create">>
    /\ \/ LET new == [phase |-> "", hibernated |-> mine[g]["source"].hibernated] IN
          /\ objs' = [objs EXCEPT ![g] = Append(@, new)]
          /\ mine' = [mine EXCEPT ![g]["copy"] = new]
          /\ \/ GoTo(g, <<"await">>) /\ UNCHANGED outcome
             \/ "create" \in Faults /\ Overwritten(g) /\ GoTo(g, <<"done">>) /\ Report(g)
       \/ /\ "create" \in Faults
          /\ \/ GoTo(g, <<"done">>) /\ Report(g)
             \/ Overwritten(g) /\ GoTo(g, <<"await">>) /\ UNCHANGED outcome
          /\ UNCHANGED <<objs, mine>>
    /\ UNCHANGED <<controller, wanted, setting, old, left, item, stamp, pods, terminating,
                   data, mishaps>>

\* A variant of the loops without a limit of attempts.
ExpiresNever(m, phases) == FALSE /\ UNCHANGED mishaps

\* The 180 attempts of a loop are over before the Module got where it should be,
\* as they will be if it was deleted meanwhile or never made.
Expires(m, phases) ==
    /\ "timeout" \in Faults \/ Server(m).phase = "gone"
    /\ Mishap
    /\ Cached(m).phase \notin phases

\* The loop waitForInitialNewModuleState and the first lines of migrateModuleData.  It
\* returns without a word if the copy failed or is deleted, or no PVC is listed,
\* whatever Secrets and ConfigMaps are.
awaitCopy(g) ==
    /\ pc[g] = <<"await">>
    /\ LET c == Cached(g) IN
       \/ /\ c.phase \in {"ready", "sleeped"} /\ PVCs # <<>>
          /\ mine' = [mine EXCEPT ![g]["copy"] = c]
          /\ GoTo(g, <<"hibernate", "copy">>) /\ UNCHANGED <<mishaps, outcome>>
       \/ /\ \/ c.phase \in {"uninstalling", "failed"}
             \/ c.phase \in {"ready", "sleeped"} /\ PVCs = <<>>
          /\ GoTo(g, <<"done">>) /\ Skip(g) /\ UNCHANGED <<mine, mishaps>>
       \/ /\ \/ c.phase \in {"ready", "sleeped"} /\ "config" \in Faults /\ UNCHANGED mishaps
             \/ Expires(g, {"ready", "sleeped"})
          /\ GoTo(g, <<"done">>) /\ Report(g) /\ UNCHANGED mine
    /\ UNCHANGED <<objs, controller, wanted, setting, old, left, item, stamp, pods,
                   terminating, data>>

\* A variant that defers no restore before both Modules are asleep.
AfterErrorNothing(role) == <<"done">>

\* Where an error of hibernateModuleAndWait leads: the restore of the copy is
\* deferred before the source is hibernated, its own restore only after.
AfterError(role) == IF role = "copy" THEN <<"done">> ELSE <<"restore", "copy">>

\* hibernateModuleAndWait, the patch.
hibernateModule(g, role) ==
    LET m == ModuleOf(g, role) IN
    /\ pc[g] = <<"hibernate", role>>
    /\ \/ /\ mine[g][role].hibernated
          /\ GoTo(g, <<"asleep", role>>) /\ UNCHANGED <<objs, mine, outcome, mishaps>>
       \/ /\ ~mine[g][role].hibernated
          /\ \/ /\ Patch(m, TRUE) /\ UNCHANGED <<outcome, mishaps>>
                /\ mine' = [mine EXCEPT ![g][role] = [Server(m) EXCEPT !.hibernated = TRUE]]
                /\ GoTo(g, <<"asleep", role>>)
             \/ PatchFails(m) /\ GoTo(g, AfterError(role)) /\ Report(g) /\ UNCHANGED mine
    /\ UNCHANGED <<controller, wanted, setting, old, left, item, stamp, pods, terminating,
                   data>>

\* A variant that takes a Module on its way to sleep for one that sleeps.
AsleepTooEarly(v) == v.phase \in {"sleeping", "sleeped"}
Asleep(v) == v.phase = "sleeped"

\* Each of migratePVCs, migrateSecrets and migrateConfigMaps reads two
\* kubeconfigs if it has anything to migrate; an error ends migrateModuleData.
Enter(g, stage) ==
    \/ GoTo(g, <<stage>>) /\ left' = [left EXCEPT ![g] = Listed(stage)] /\ UNCHANGED outcome
    \/ /\ "config" \in Faults /\ Listed(stage) # <<>>
       /\ GoTo(g, <<"restore", "source">>) /\ Report(g) /\ UNCHANGED left

\* hibernateModuleAndWait, the loop: it looks at the phase alone.
awaitSleep(g, role) ==
    LET c == Cached(ModuleOf(g, role)) IN
    /\ pc[g] = <<"asleep", role>>
    /\ \/ /\ Asleep(c)
          /\ mine' = [mine EXCEPT ![g][role] = c]
          /\ IF role = "copy" THEN GoTo(g, <<"hibernate", "source">>) /\ UNCHANGED <<left, outcome>>
                              ELSE Enter(g, "pvcs")
          /\ UNCHANGED mishaps
       \/ /\ \/ c.phase \in {"uninstalling", "failed"} /\ UNCHANGED mishaps
             \/ Expires(ModuleOf(g, role), {"sleeped"})
          /\ GoTo(g, AfterError(role)) /\ Report(g) /\ UNCHANGED <<mine, left>>
    /\ UNCHANGED <<objs, controller, wanted, setting, old, item, stamp, pods, terminating,
                   data>>

-----------------------------------------------------------------------------
(* MigratePVC *)

\* A variant that takes a pod that has the name for its own.
CreatePodOrTake(name) == pods' = pods \cup {name} /\ UNCHANGED terminating

\* createMigrationPod: a pod that still has the name is an error.
CreatePod(name) ==
    /\ name \notin pods
    /\ pods' = pods \cup {name} /\ UNCHANGED terminating
CreateFails(name) ==
    /\ name \in pods \/ "pod" \in Faults
    /\ UNCHANGED <<pods, terminating>>

\* The loops log the error of one item and go on with the next.
Log(g, x) == logged' = [logged EXCEPT ![g] = @ \cup {x}]

\* The next PVC of the loop, and the pod that reads it.
migratePVC(g) ==
    /\ pc[g] = <<"pvcs">>
    /\ left[g] # <<>> /\ left' = [left EXCEPT ![g] = Tail(@)]
    /\ \E second \in 1 .. MaxSeconds :
         LET name == PodName(g, "source", second)
             p == Head(left[g])
         IN \/ /\ CreatePod(name)
               /\ stamp' = [stamp EXCEPT ![g] = second] /\ item' = [item EXCEPT ![g] = p]
               /\ GoTo(g, <<"pod">>) /\ UNCHANGED logged
            \/ CreateFails(name) /\ Log(g, p) /\ UNCHANGED <<pc, stamp, item>>
    /\ UNCHANGED <<objs, controller, wanted, setting, mine, old, outcome, vol, store,
                   mishaps>>

\* A variant whose clean-ups are deferred after both pods are made.
createDestPodLate(g) ==
    /\ pc[g] = <<"pod">>
    /\ \/ CreatePod(Pod(g, "copy")) /\ GoTo(g, <<"ready">>) /\ UNCHANGED logged
       \/ CreateFails(Pod(g, "copy")) /\ Log(g, item[g]) /\ GoTo(g, <<"pvcs">>)
    /\ UNCHANGED <<objs, controller, wanted, setting, mine, old, outcome, left, item,
                   stamp, vol, store, mishaps>>

\* The pod that writes the copy's volume; its clean-up is deferred once it is made.
createDestPod(g) ==
    /\ pc[g] = <<"pod">>
    /\ \/ CreatePod(Pod(g, "copy")) /\ GoTo(g, <<"ready">>) /\ UNCHANGED logged
       \/ /\ CreateFails(Pod(g, "copy")) /\ Log(g, item[g])
          /\ GoTo(g, <<"cleanup", "source">>)
    /\ UNCHANGED <<objs, controller, wanted, setting, mine, old, outcome, left, item,
                   stamp, vol, store, mishaps>>

\* waitForPodReady for both pods.
waitForPodReady(g) ==
    /\ pc[g] = <<"ready">>
    /\ \/ GoTo(g, <<"tar">>) /\ UNCHANGED logged
       \/ "pod" \in Faults /\ Log(g, item[g]) /\ GoTo(g, <<"cleanup", "copy">>)
    /\ UNCHANGED <<objs, controller, wanted, setting, mine, old, outcome, left, item,
                   stamp, pods, terminating, vol, store, mishaps>>

\* migrateDataViaTar waits for the end of both streams; a break of either leaves
\* a volume that does not hold what the source has.
migrateDataViaTar(g) ==
    /\ pc[g] = <<"tar">>
    /\ \/ vol' = [vol EXCEPT ![g][item[g]] = "source"] /\ UNCHANGED logged
       \/ "tar" \in Faults /\ Log(g, item[g]) /\ UNCHANGED vol
    /\ GoTo(g, <<"cleanup", "copy">>)
    /\ UNCHANGED <<objs, controller, wanted, setting, mine, old, outcome, left, item,
                   stamp, pods, terminating, store, mishaps>>

\* The deferred cleanupPod calls, last in first out.
cleanupPod(g, role) ==
    /\ pc[g] = <<"cleanup", role>>
    /\ \/ terminating' = terminating \cup {Pod(g, role)} /\ UNCHANGED mishaps
       \/ "cleanup" \in Faults /\ Mishap /\ UNCHANGED terminating
    /\ UNCHANGED pods
    /\ IF role = "copy"
       THEN GoTo(g, <<"cleanup", "source">>) /\ UNCHANGED <<item, stamp>>
       ELSE /\ GoTo(g, <<"pvcs">>)
            /\ item' = [item EXCEPT ![g] = "none"] /\ stamp' = [stamp EXCEPT ![g] = 0]
    /\ UNCHANGED <<objs, controller, wanted, setting, mine, old, outcome, left, data>>

-----------------------------------------------------------------------------
(* MigrateSecret, MigrateConfigMap *)

\* One Secret or ConfigMap of the loop: created, updated, or, when it is
\* immutable, deleted to be created again.
migrateObject(g, stage) ==
    /\ pc[g] = <<stage>> /\ stage # "pvcs"
    /\ left[g] # <<>> /\ left' = [left EXCEPT ![g] = Tail(@)]
    /\ LET k == Head(left[g]) IN
       \/ /\ store' = [store EXCEPT ![g][k] = "source"]
          /\ UNCHANGED <<pc, item, logged>>
       \/ /\ store' = [store EXCEPT ![g][k] = "deleted"]
          /\ item' = [item EXCEPT ![g] = k] /\ GoTo(g, <<"recreate", stage>>)
          /\ UNCHANGED logged
       \/ "api" \in Faults /\ Log(g, k) /\ UNCHANGED <<store, pc, item>>
    /\ UNCHANGED <<objs, controller, wanted, setting, mine, old, outcome, stamp, pods,
                   terminating, vol, mishaps>>

\* A variant that ignores the error of the second call.
recreateObjectUnchecked(g, stage) ==
    /\ pc[g] = <<"recreate", stage>>
    /\ \/ store' = [store EXCEPT ![g][item[g]] = "source"]
       \/ "api" \in Faults /\ UNCHANGED store
    /\ GoTo(g, <<stage>>) /\ item' = [item EXCEPT ![g] = "none"]
    /\ UNCHANGED <<objs, controller, wanted, setting, mine, old, outcome, left, stamp,
                   pods, terminating, vol, logged, mishaps>>

recreateObject(g, stage) ==
    /\ pc[g] = <<"recreate", stage>>
    /\ \/ store' = [store EXCEPT ![g][item[g]] = "source"] /\ UNCHANGED logged
       \/ "api" \in Faults /\ Log(g, item[g]) /\ UNCHANGED store
    /\ GoTo(g, <<stage>>) /\ item' = [item EXCEPT ![g] = "none"]
    /\ UNCHANGED <<objs, controller, wanted, setting, mine, old, outcome, left, stamp,
                   pods, terminating, vol, mishaps>>

\* One loop of migrateModuleData is over.
nextStage(g) ==
    /\ left[g] = <<>>
    /\ \/ pc[g] = <<"pvcs">> /\ Enter(g, "secrets")
       \/ pc[g] = <<"secrets">> /\ Enter(g, "configMaps")
       \/ /\ pc[g] = <<"configMaps">>
          /\ GoTo(g, <<"restore", "source">>) /\ UNCHANGED <<left, outcome>>
    /\ UNCHANGED <<objs, controller, wanted, setting, mine, old, item, stamp, pods,
                   terminating, data, mishaps>>

-----------------------------------------------------------------------------
(* The deferred restores: first the source, then the copy *)

\* A variant that remembers the source's status after it was hibernated.
RestoreToCurrent(g, role) == IF role = "source" THEN mine[g]["source"].hibernated ELSE FALSE

\* What the deferred function writes; a patch that changes nothing of the
\* goroutine's own copy of the Module is empty.
RestoreTo(g, role) == IF role = "source" THEN old[g] ELSE FALSE

AfterRestore(role) == IF role = "source" THEN <<"restore", "copy">> ELSE <<"done">>

restore(g, role) ==
    LET m == ModuleOf(g, role) IN
    /\ pc[g] = <<"restore", role>>
    /\ \/ /\ mine[g][role].hibernated = RestoreTo(g, role)
          /\ UNCHANGED <<objs, mishaps>>
       \/ /\ mine[g][role].hibernated # RestoreTo(g, role)
          /\ \/ Patch(m, RestoreTo(g, role)) /\ UNCHANGED mishaps
             \/ PatchFails(m)
    /\ GoTo(g, AfterRestore(role))
    /\ UNCHANGED <<controller, wanted, setting, mine, old, outcome, left, item, stamp,
                   pods, terminating, data>>

Goroutine(g) ==
    \/ create(g) \/ awaitCopy(g)
    \/ \E role \in Roles : \/ hibernateModule(g, role) \/ awaitSleep(g, role)
                           \/ cleanupPod(g, role) \/ restore(g, role)
    \/ migratePVC(g) \/ createDestPod(g) \/ waitForPodReady(g) \/ migrateDataViaTar(g)
    \/ \E stage \in {"secrets", "configMaps"} : migrateObject(g, stage) \/ recreateObject(g, stage)
    \/ nextStage(g)

-----------------------------------------------------------------------------
(* The module controller, as ModuleController has it in detail *)

\* Reconcile decides on the cached copy what to do.
Due(v) == CASE v.phase = "" -> "install"
            [] v.phase = "ready" /\ v.hibernated -> "sleep"
            [] v.phase = "sleeped" /\ ~v.hibernated -> "resume"
            [] OTHER -> "idle"

Begins == [install |-> "installing", sleep |-> "sleeping", resume |-> "resuming"]
Ends == [install |-> "ready", sleep |-> "sleeped", resume |-> "ready"]
Transitional == {"installing", "sleeping", "resuming"}

WritePhase(m, phase) ==
    /\ Len(objs[m]) = 1
    /\ objs' = [objs EXCEPT ![m] = Append(@, [Server(m) EXCEPT !.phase = phase])]

decide(m) ==
    /\ busy[m] = "idle" /\ Due(Cached(m)) # "idle"
    /\ busy' = [busy EXCEPT ![m] = Due(Cached(m))]
    /\ UNCHANGED <<objs, running, wanted, setting, goroutine, pods, terminating, data,
                   mishaps>>

begin(m) ==
    /\ busy[m] # "idle" /\ Server(m).phase # Begins[busy[m]]
    /\ IF Server(m).phase \in {"uninstalling", "gone"}
       THEN busy' = [busy EXCEPT ![m] = "idle"] /\ UNCHANGED <<objs, running>>
       ELSE /\ WritePhase(m, Begins[busy[m]])
            /\ running' = [running EXCEPT ![m] = @ \/ busy[m] # "sleep"]
            /\ UNCHANGED busy
    /\ UNCHANGED <<wanted, setting, goroutine, pods, terminating, data, mishaps>>

\* A variant that takes a failed sleep or resume back.
finishRollsBack(m) ==
    /\ busy[m] # "idle" /\ Server(m).phase = Begins[busy[m]]
    /\ \/ /\ WritePhase(m, Ends[busy[m]])
          /\ running' = [running EXCEPT ![m] = busy[m] # "sleep"]
       \/ "module" \in Faults /\ busy[m] = "install" /\ WritePhase(m, "failed")
          /\ UNCHANGED running
       \/ "module" \in Faults /\ busy[m] # "install" /\ UNCHANGED running
          /\ WritePhase(m, IF busy[m] = "sleep" THEN "ready" ELSE "sleeped")
    /\ busy' = [busy EXCEPT ![m] = "idle"]
    /\ UNCHANGED <<wanted, setting, goroutine, pods, terminating, data, mishaps>>

\* A failed installation is written at once; a failed sleep or resume leaves its
\* transitional phase.
finish(m) ==
    /\ busy[m] # "idle" /\ Server(m).phase = Begins[busy[m]]
    /\ \/ /\ WritePhase(m, Ends[busy[m]])
          /\ running' = [running EXCEPT ![m] = busy[m] # "sleep"]
       \/ "module" \in Faults /\ busy[m] = "install" /\ WritePhase(m, "failed")
          /\ UNCHANGED running
       \/ "module" \in Faults /\ busy[m] # "install" /\ UNCHANGED <<objs, running>>
    /\ busy' = [busy EXCEPT ![m] = "idle"]
    /\ UNCHANGED <<wanted, setting, goroutine, pods, terminating, data, mishaps>>

\* A transitional phase without a worker is marked failed after five minutes.
expire(m) ==
    /\ busy[m] = "idle" /\ Server(m).phase \in Transitional
    /\ WritePhase(m, "failed")
    /\ UNCHANGED <<controller, wanted, setting, goroutine, pods, terminating, data,
                   mishaps>>

\* handleDeletion: a deleted Module is uninstalled from a settled phase.
uninstall(m) ==
    /\ Server(m).phase = "uninstalling" /\ busy[m] = "idle"
    /\ WritePhase(m, "gone") /\ running' = [running EXCEPT ![m] = FALSE]
    /\ UNCHANGED <<busy, wanted, setting, goroutine, pods, terminating, data, mishaps>>

Controller(m) == decide(m) \/ begin(m) \/ finish(m) \/ expire(m) \/ uninstall(m)

-----------------------------------------------------------------------------
(* The environment *)

\* A watch event: the cache has the next version.
deliver(m) ==
    /\ Len(objs[m]) > 1
    /\ objs' = [objs EXCEPT ![m] = Tail(@)]
    /\ UNCHANGED <<controller, wanted, setting, goroutine, pods, terminating, data,
                   mishaps>>

\* A pod that was deleted is gone.
podGone ==
    /\ terminating # {} /\ pods' = pods \ terminating /\ terminating' = {}
    /\ UNCHANGED <<objs, controller, wanted, setting, goroutine, data, mishaps>>

setHibernated(s, value) ==
    /\ Move("hibernate")
    /\ Server(s).hibernated # value /\ Patch(s, value)
    /\ wanted' = [wanted EXCEPT ![s] = value]
    /\ UNCHANGED <<setting, controller, goroutine, pods, terminating, data>>

delete(m) ==
    /\ Move("delete")
    /\ Server(m).phase \in {"ready", "sleeped", "failed"} /\ busy[m] = "idle"
    /\ WritePhase(m, "uninstalling")
    /\ UNCHANGED <<controller, wanted, setting, goroutine, pods, terminating, data>>

\* Goroutines and their deferred functions are lost, with the workers.
restart ==
    /\ Move("restart")
    /\ \E g \in Copies : pc[g] \notin Ended
    /\ pc' = [g \in Copies |-> IF pc[g] \in Ended THEN pc[g] ELSE <<"lost">>]
    /\ busy' = [m \in Modules |-> "idle"]
    /\ UNCHANGED <<objs, running, wanted, setting, mine, old, outcome, left, item, stamp,
                   pods, terminating, data>>

Next ==
    \/ \E g \in Copies : forkWorkspace(Call[g]) \/ Goroutine(g)
    \/ \E m \in Modules : Controller(m) \/ deliver(m) \/ delete(m)
    \/ podGone \/ restart
    \/ \E s \in Sources, value \in BOOLEAN : setHibernated(s, value)

Spec == Init /\ [][Next]_vars

Fairness ==
    /\ \A g \in Copies : WF_vars(Goroutine(g))
    /\ \A m \in Modules : WF_vars(Controller(m)) /\ WF_vars(deliver(m))
    /\ WF_vars(podGone)

FairSpec == Spec /\ Fairness

-----------------------------------------------------------------------------
(* Properties *)

Life(m) == INSTANCE ModuleLife WITH
               Phases <- Phase, phase <- Server(m).phase, running <- running[m]

\* The Modules of source and copy live by the contract of ModuleLife: what this
\* module assumes of the module controller is what ModuleController implements.
ModulesKeepContract ==
    /\ \A m \in Modules : Life(m)!LifeInit
    /\ [][\A m \in Modules : Life(m)!LifeNext \/ UNCHANGED Life(m)!life]_<<objs, running>>

Copying(g) == pc[g] = <<"tar">>

\* "Hibernate source module and wait for it to sleep": while a volume is
\* copied neither the application that writes it nor the one that will read it
\* runs, as long as no user, restart or failure came between.
AtRest ==
    mishaps = 0 => \A g \in Copies : Copying(g) => ~running[g] /\ ~running[From[g]]

\* A goroutine works with its own pods, alive: another migration that chose the
\* same second neither shares nor deletes them.
PodsMine ==
    /\ \A g \in Copies : pc[g] \in {<<"ready">>, <<"tar">>} =>
         \A r \in Roles : Pod(g, r) \in pods \ terminating
    /\ \A g, h \in Copies : g # h /\ Copying(g) /\ Copying(h) =>
         \A r \in Roles : Pod(g, r) # Pod(h, r)

\* Every pod a migration made is deleted by the time its goroutine ends, on the
\* error paths too.
NoPodLeft ==
    (mishaps = 0 /\ \A g \in Copies : pc[g] \in {<<"unstarted">>, <<"done">>}) => pods \subseteq terminating

\* When the goroutines of a source have ended, its spec.hibernated is what its
\* user asked for, unless a patch or a wait failed or the Module itself did.
SourceRestored ==
    \A s \in Sources :
      (/\ mishaps = 0 /\ Server(s).phase # "failed"
       /\ \A g \in Copies : From[g] = s => pc[g] \in Ended)
      => Server(s).hibernated = wanted[s]

\* A PVC, Secret or ConfigMap is the source's, or the error it ended in is in the log.
Arrived(g, x) ==
    \/ x \in logged[g]
    \/ x \in Volumes /\ vol[g][x] = "source"
    \/ x \in Objects /\ store[g][x] = "source"

\* A goroutine that is done has logged an error of its own, for the copy or the whole
\* migration, or everything that was to be migrated has arrived or its error was logged:
\* no error path drops an item.  It returns without a word only where no PVC is listed
\* (migrateModuleData, and Secrets and ConfigMaps are then dropped) or where the copy
\* shows why: it failed or is deleted (waitForInitialNewModuleState).
NothingDroppedSilently ==
    \A g \in Copies : pc[g] = <<"done">> =>
      /\ outcome[g] = "none" => \A x \in Items : Arrived(g, x)
      /\ outcome[g] = "skipped" =>
           PVCs = <<>> \/ Server(g).phase \in {"uninstalling", "failed", "gone"}

-----------------------------------------------------------------------------
(* The inductive invariant behind the theorems about migrations *)

\* Where a goroutine is in one of the three loops of migrateModuleData, ...
Loop(stage) ==
    {<<stage>>, <<"recreate", stage>>} \cup
    (IF stage = "pvcs"
     THEN {<<"pod">>, <<"ready">>, <<"tar">>, <<"cleanup", "copy">>, <<"cleanup", "source">>}
     ELSE {})

\* ... and where the item it took from the list is not settled yet.
AtItem == {<<"pod">>, <<"ready">>, <<"tar">>, <<"recreate", "secrets">>,
           <<"recreate", "configMaps">>}

\* The pods a goroutine has made and not yet tried to delete.
Holds(g) ==
    {r \in Roles : \/ pc[g] \in {<<"ready">>, <<"tar">>, <<"cleanup", "copy">>}
                   \/ r = "source" /\ pc[g] \in {<<"pod">>, <<"cleanup", "source">>}}

MigrationTypeOK ==
    /\ DOMAIN pc = Copies
    /\ left \in [Copies -> Seq(Items)]
    /\ DOMAIN item = Copies
    /\ stamp \in [Copies -> 0 .. MaxSeconds]
    /\ vol \in [Copies -> [Volumes -> {"other", "source"}]]
    /\ store \in [Copies -> [Objects -> {"own", "deleted", "source"}]]
    /\ logged \in [Copies -> SUBSET Items]
    /\ mishaps \in 0 .. MaxMishaps

\* Pods in use are alive and of one goroutine each; without a mishap every living pod is
\* in use.
PodsOwned ==
    /\ terminating \subseteq pods
    /\ \A g \in Copies : \A r \in Holds(g) : Pod(g, r) \in pods \ terminating
    /\ \A g, h \in Copies : g # h =>
         \A r \in Holds(g) \cap Holds(h) : Pod(g, r) # Pod(h, r)
    /\ mishaps = 0 =>
         \A p \in pods \ terminating : \E g \in Copies : \E r \in Holds(g) : p = Pod(g, r)

Settled(g, list) == \A x \in Names(list) : Arrived(g, x)

\* In a loop, the list is what is left of the stage's and the rest of it is settled, but
\* for the item in work; the stages before are settled.
Accounted ==
    \A g \in Copies : \A stage \in Stages : pc[g] \in Loop(stage) =>
      /\ Names(left[g]) \subseteq Names(Listed(stage))
      /\ pc[g] \in AtItem => item[g] \in Names(Listed(stage))
      /\ \A x \in Names(Listed(stage)) :
           x \in Names(left[g]) \/ (pc[g] \in AtItem /\ x = item[g]) \/ Arrived(g, x)
      /\ stage # "pvcs" => Settled(g, PVCs)
      /\ stage = "configMaps" => Settled(g, Secrets)

MigrationInvariant == MigrationTypeOK /\ PodsOwned /\ Accounted

-----------------------------------------------------------------------------
(* Liveness *)

\* Every goroutine ends, whatever the Modules it waits for do.
MigrationEnds == \A g \in Copies : pc[g] = <<"create">> ~> pc[g] \in Ended

\* A copy that was put to sleep for the migration runs again, on every error path.
CopyWoken ==
    \A g \in Copies : (pc[g] = <<"hibernate", "source">> /\ mishaps = 0)
        ~> (Server(g).phase \in {"ready", "failed"} \/ mishaps > 0)
=============================================================================
