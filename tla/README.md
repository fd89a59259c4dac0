# TLA+ models of the forkspacer operator

Forkspacer is a Kubernetes operator with two custom resources. A **Workspace**
stands for a cluster (or a virtual cluster the operator installs) that
applications live in; a **Module** is one application in a workspace, installed
with Helm or by a custom runner. The operator installs, hibernates, wakes, forks
and deletes them. This directory models the operator as TLA+ modules, checks them on
small instances with TLC and proves their main safety properties with TLAPS.

## Inventory

| part | source | state it keeps | operations |
|---|---|---|---|
| module controller | `internal/controller/module_*.go` | the Module's `status.phase`, `lastActivity`, finalizer, the `ManagerData` annotation | `Reconcile`, `handleEmptyPhase`, `handleHibernation`, `handleDeletion`, `setPhase`, install / sleep / resume / uninstall / adopt |
| Helm manager and service | `pkg/manager/helm.go`, `pkg/services/helm.go` | the release in the target cluster, replica counts of its workloads, clean-up goroutines | `Install`, `Sleep`, `Resume`, `Uninstall`, `UninstallRelease`, `Scale*`, `Scale*Back`, `MergeHelmValues` |
| custom manager | `pkg/manager/custom.go` | a runner pod, its service and Secret; their names and the runner's state in the `ManagerData` annotation | create Secret, pod and service, wait for each, call the runner for install / sleep / resume / uninstall, delete |
| workspace controller | `internal/controller/workspace_controller.go`, `workspace_managed.go` | the Workspace's phase and finalizer, the vcluster's namespace and release | `Reconcile`, `handleEmptyPhase`, `handleHibernation`, `handleAutoHibernation`, `handleDeletion`, `setPhase*`, `installVCluster`, `uninstallVCluster` |
| cron managers | `workspace_controller.go` 51-61, 158-294 | two maps UID → cron entry, each under an `RWMutex`; in memory only | add, remove, fire |
| fork and migration | `workspace_fork.go`, `pkg/services/*_migration.go` | one goroutine per module; PVC, Secret and ConfigMap copies | create the copies, hibernate both sides, copy, restore |
| webhooks | `internal/webhook/v1` | none; they read workspaces and Secrets | defaults; validation on create and update |
| configuration and rendering | `api/v1/module_types.go` | none | validate a configuration item, render templates |

How they interact: both controllers read through controller-runtime's informer
cache and write to the API server; at most one `Reconcile` runs per object, ten
per controller. The workspace controller patches `spec.hibernated` of its modules
and deletes them; the module controller reads the workspace's status before each
operation. Cron goroutines patch `spec.hibernated` of workspaces. A failed Helm
install leaves a goroutine that uninstalls the release. A fork starts goroutines
that create modules and patch `spec.hibernated` of source and copy. Every write of a
resource, the controllers' own included, passes the webhooks; status writes and
deletions do not. A custom module's operations go to its runner through a service
that selects the runner by label.

What is hard: the cache lags behind the worker's own writes; `RetryOnConflict`
loops re-read it; users flip `spec.hibernated` and delete at any moment; the
operator restarts between any two steps and loses goroutines and cron entries;
the clock marks transitional modules as failed; each step of an operation may
fail on its own. `PROJECT.json` lists these hazards at their lines.

## Modules

| module | models |
|---|---|
| `ApiObject` | one resource seen through the client: `objs` is the sequence of versions from the one the cache serves to the one the server holds; `Put` (update, refused with a conflict when the cache is behind) and `Patch` (merge patch, never refused) |
| `ModuleLife` | the contract of a Module, without workers, caches or Helm: the order of its phases, and in which of them its application may start, stop and sleep |
| `ModuleController` | the module controller with the Helm manager and service, one Module |
| `WorkspaceController` | the workspace controller with its cron entries, its vcluster, its modules and the webhooks its writes pass, one Workspace |
| `WorkspaceFork` | the goroutines a fork starts: creation of the copies and migration of their data, with the module controller in outline |
| `CustomManager` | the manager of custom modules, its runners and the objects it makes for them, several Modules |
| `ModuleAdmission` | what a Module asks for: webhooks, configuration values and rendering, and where its release is therefore installed and looked for |
| `Forkspacer` | `ModuleController` and `WorkspaceController` together, on one workspace and one Module |
| `ApiObject_proofs`, `ModuleController_proofs`, `ModuleContract_proofs`, `WorkspaceController_proofs`, `WorkspaceFork_proofs`, `CustomManager_proofs`, `ModuleAdmission_proofs`, `Forkspacer_proofs` | theorems about them, see Proofs; `ModuleContract_proofs` has the order of the phases and the refinement of `ModuleLife` |
| `MCModuleController`, `MCWorkspaceController`, `MCWorkspaceFork`, `MCCustomManager`, `MCModuleAdmission`, `MCForkspacer` | values of the constants |

Both controllers extend `ApiObject`; `WorkspaceFork` has several Modules and the same
treatment of each. `ModuleController` (`KeepsContract`, `PhasesInOrder`) and the outline
in `WorkspaceFork` (`ModulesKeepContract`) are both shown to implement `ModuleLife` under
a refinement mapping, so the outline promises no more than the detailed controller keeps.
`Forkspacer` instantiates the two controllers over shared state: `mods` and `marked` of
the workspace controller are computed from the Module's versions, `ws` of the module
controller from the cached workspace. `ControllersComposed` says that every step of the
whole is a step of each controller's own specification; so the environment actions the
two specifications have for each other allow everything the other one really does, and
what is proved of either controller alone holds in the operator. It is a theorem
(`OperatorComposed`).

Definitions have the name of the Go function they translate where there is one;
`PROJECT.json` maps each to its lines. A definition introduced by the comment "A variant
..." is a deliberately wrong form of the one below it, used to see that a property can
fail.

### How the state corresponds to the code

- `pc` is the place of the object's worker in `Reconcile`. A step of the model is
  the code from one observable call (status write, patch, Helm call) to the next.
- `setPhase` with `goal` and `then` is a call of `setPhase` / `setPhase*` together
  with what the caller does after it returns. A conflict inside `RetryOnConflict`
  re-reads the cache and tries again, so it shows only as the action waiting for
  the cache to be current; running out of attempts is `writeFails`.
- `Return(requeue)` leaves `Reconcile`: an error or a `RequeueAfter` puts the key
  back. `deliver` is a watch event: the cache advances and the key is enqueued.
- In `ModuleController`, `aged` is "`lastActivity` is more than five minutes ago";
  `data` is the replica history in the `ManagerData` annotation, `meta` the copy the
  worker holds; `deployed`, `live` the release and its replica counts; `cleanup` the
  goroutine a failed install leaves; `ws` what a read of the workspace returns;
  `outcome` how `uninstallModule` ended; `adopted` whether `spec.helm.existingRelease`
  is set, which the webhook makes immutable.
- In `WorkspaceController`, `cron` holds the schedule of the workspace's entry in
  each cron manager, `local` the `*Workspace` the worker works on, `listed` the
  modules `getRelatedModules` returned and not yet handled, `awaited` the module whose
  deletion is being waited for, `mods` the modules (absent, or `spec.hibernated`), and
  `pc = "blocked"` a worker waiting for a mutex it holds itself.
- In `WorkspaceFork`, each copy names the goroutine that makes it. `mine` are its
  `newModule` and `module` variables, `old` its `sourceModuleOldHibernationStatus`,
  `left` and `item` the place in the loops over PVCs, Secrets and ConfigMaps, `stamp`
  the timestamp in its pods' names. `busy` is what the module controller does for a
  Module (`decide` on the cached copy, `begin`, `finish`), `running` whether its
  workloads may be up, `wanted` what the user last asked of the source, `logged` the
  items whose error a loop reported, `outcome` whether the goroutine itself logged an error
  or returned without one. `setting` is how the sources are found and what may fail or be
  done to them. `create` may test the error another goroutine of the same call has just
  assigned (`Overwritten`), since they share the variable. `mishaps` counts what the properties make
  exceptions for: edits, deletions, restarts, timeouts, failed patches and clean-ups.
- In `WorkspaceController`, `setting` is the workspace's immutable part together with
  what may fail or be done to it, `secret` whether the Secret of an unmanaged workspace
  passes `validateWorkspaceSecretReference`. A write whose `Admitted` set is empty is
  refused, and the retry loop ends with an error (`writeFails`).
- In `CustomManager`, `pc`, `err` and `meta` are a worker's place in
  `NewModuleCustomManager` and the operation after it, its error and its `metaData`;
  `data` is the annotation; `pods`, `services` and `secrets` the objects in the operator's
  namespace, each with a generated name, pods and services with the label; `second` the
  clock the label is taken from; `held` and `installed` what the runner last returned
  and did. An answer is a state or nothing to store: an empty body and `{}` both leave the
  state stored before.
- In `ModuleAdmission`, `mods` are the stored specs, `placed` the place a release was
  installed at or found, `releases` what is in the clusters. `RenderHelmSpec` gives the
  set of places an operation may look at: none when rendering fails, several when it is
  random. Numbers are in tenths, so that truncation shows; `ToInt` is Go's `int(v)`, with
  `MaxInt` for the width of `int` and `Above` for what the build makes of a larger number
  (the smallest `int` on amd64, the largest on arm64). Limits are sets of at most one
  number, as `Min` and `Max` may be nil. `lost` and `touched` are
  history. `From` is `spec.from` of each workspace, which the webhook requires to exist when
  the workspace is created and to stay what it was, so that no workspace descends from
  itself (workspaces are not deleted in this model, whose name another could take).
  `forked` has the Modules `forkWorkspace` copied for each workspace: it copies a
  list of them once for a managed workspace, which is `ForkOnce` of `WorkspaceController`; an
  unmanaged one may be forked again.
- In `Forkspacer`, `late` remembers that `handleDeletion` stopped waiting.
- A version with phase `"gone"` is the object's absence (`NotFound`).

### Abstractions

Messages, events and logs are left out. The chart source, the values and the
outputs of a release are left out: they can fail before anything is installed, which
the fault `"helm"` covers (an installation that fails after it began is the fault
`"chart"`). Deployments, ReplicaSets and StatefulSets are one set of
workloads; a sleep that fails stops after some of them, a superset of the code's
three ordered loops. A failed Helm install may or may not have made the release.
Cron expressions are names; two different ones differ in their next time
unless the fault `"coincide"` is allowed. In `CustomManager` the controller around an
operation is the two steps `begin` and `end`, without cache lag; the content of the
runner's configuration is left out. In `ModuleAdmission` a Module's spec has one
configuration item and one template that matters, the namespace; an operation is one
step, and the clean-up of a failed installation belongs to it (its delay is in
`ModuleController`). `Forkspacer` leaves out forks and schedules; in
its run the installation of a chart may fail (the fault `"chart"`), other Helm calls do
not. In `WorkspaceFork`
a migration starts in any second, not tied to a clock; a Secret or ConfigMap of the
copy is found absent, mutable or immutable at will; both ends of the tar pipe are one
step that ends well or not; source and copy are in different clusters or namespaces.

## Runs

Every run ends within three minutes. "Faults" and "moves" are the constants of that name.
`CHECK_DEADLOCK` is off: a module or workspace that is gone, or ignored because it
failed, has nothing left to do.

### Properties that hold

| run | instance | shows |
|---|---|---|
| `module_faults` | every fault and move, installed or adopted, lag 2, one edit, one restart | `NoReleaseLeftSilently`: the finalizer is taken before anything is installed, so no interleaving of delete, conflict and restart loses a release without `uninstallModule` having reported it or found no workspace. `AdoptedReleaseKept`. `InstallNotRepeated`: no stale copy makes an installed module install again. `PhasesInOrder`: phases come in the order of `ModuleLife`, whatever fails. `Strengthened`, the invariant of the proofs |
| `module_live` | Helm failures, every move, lag 2, two edits, one restart, fair | `ReadyMeansRunning`, `SleepedMeansRestorable`: phases and replica counts agree, and a sleeped module's annotation has every count needed to wake it. `KeepsContract`: the application starts and stops only in the phases that announce it. `Strengthened`, whose last part needs these faults only. Scaling, patch and write failures are excluded: with them these do not hold, see the hazards. `TransitionsEnd`: five minutes at most in a transitional phase, deletion aside. `HibernationHappens`. `SettledDeletionEnds` |
| `workspace_faults` | managed and unmanaged, forked or not, two modules, four settings whose faults and moves together are all there are, lag 2, one edit, one restart | `NoOrphanEntry`: no cron entry outlives its workspace. `ForkOnce` (managed). `ReadyHasVCluster`: the clean-up goroutine of a failed install never removes the vcluster of a workspace shown as ready, if writes do not fail. `SleepReachesAll` (managed, patches succeed). `VClusterOutlivesModules` (no module is created late, none takes more than 60 seconds). `Inductive`, the invariant of the proofs |
| `workspace_live` | unmanaged without faults, and managed with a schedule from its source; two modules, two edits of any kind, malformed and equal schedules tried, Secret removed and put back; fair | `HibernationFollowed`. `DeletionEnds`: also when the webhooks refused to drop the finalizer because the Secret was gone first, once it is back. `ScheduleFollowed` (schedules switched on and off, not changed) |
| `fork_migration` | two PVCs and a Secret of each Module, lag 2, fair; four settings: one source found running, with every fault and one edit, deletion or restart; one found asleep, with either; two sources of one fork, migrated out of one namespace into one in the same second | `AtRest`: a volume is copied only while neither application runs. `PodsMine`, `NoPodLeft`: a migration neither uses nor deletes a pod it did not make, another migration's of the same name or its own last one, and leaves none behind on any error path. `SourceRestored`: without a mishap the source ends as its user wanted it, whatever fails of the items, pods and streams. `NothingDroppedSilently`: a goroutine that is done has logged an error or every item has arrived or was logged; it is silent only where no PVC is listed or where the copy failed or is deleted. `MigrationEnds`, `CopyWoken`. `ModulesKeepContract` |
| `custom_runner` | one Module with every fault, slept and resumed up to three times, or two that share the clock and one sleep or resume; two seconds, one mishap, fair | `RunnerAccountedFor`: a pod or service that exists is named by its Module's annotation or the worker at it, on every path on which no API call fails, until its uninstallation has ended without an error, and the Secret with the kubeconfig is there only while its runner starts. `CalledTheOwnRunner`: as long as no two runners start in the same second. `StateCarried`: a runner is given the state it returned last. `OperationsEnd`: every operation ends, or waits for ever for a pod that does not start or a runner that does not answer; nothing else keeps a worker |
| `module_admission` | two Modules and one that can only be a copy, eight definitions (integers with both limits, with a maximum only), twelve values (one that is no int), six namespace templates, one edit of any field, a fork into a vcluster | `FoundAgain`: no edit the webhook lets through moves the place an operation looks at, definitions and `randBase62` excepted. `ConfigRespected`: the value templates get is one the definition allows, fractions, limits there are, defaults and JSON types included; it is the number given, but for the fraction, if that is an int. `ReleaseSpared`: in the namespace `default` no Module takes another's release with it, unless users gave two the same name |
| `system` | one Module, four settings (managed with a failing vcluster, hibernated; deleted: managed and unmanaged with the wait for Modules running out, managed with failing lists), failing charts, lag 1, one edit, one restart, fair | `ControllersComposed`. `UninstalledWithItsWorkspace`: unless `handleDeletion` stopped waiting or a call failed. `ApplicationSleeps`: in a managed workspace that stays hibernated the application is down, also if its Module was installing when `sleepModules` came by. `WorkspaceGoes`: a workspace deleted in a settled phase goes, though its Module may never |

### Where code and text disagree

Each of these runs checks one property that a comment, log line or document of the
repository states, and TLC's trace shows the code breaking it; `findings` in
`PROJECT.json` quotes the line.

| run | shows |
|---|---|
| `fork_in_place` | a fork within one cluster: the copy has its source's release name and namespace, its installation is refused, and the clean-up uninstalls the source |
| `module_not_retried` | a module created before its workspace is ready is not installed later |
| `workspace_fork_lost` | a fork that found its source not ready is not retried |
| `workspace_schedule_edited` | editing the schedule blocks the worker for ever |

More is visible in the models and recorded as hazards, without a run:

- waking a workspace wakes none of its modules: `resumeModules` tests the wrong way round;
- a module deleted in a transitional phase with no worker left is never removed
  (`handleDeletion` comes before the five-minute check), and a workspace found installing
  after a restart stays so;
- two forks of one module: the first to end wakes the source while the second still
  copies it (two copies and `AtRest`); a source that waits to be woken passes for asleep
  (`SourceWakes` of `WorkspaceFork`);
- the goroutines of a fork share one `err` (`workspace_fork.go:67`): a copy that was made
  may be given up with another's error, and one that was not made be waited for;
- a migration that lists Secrets or ConfigMaps but no PVC does nothing and says nothing
  (`workspace_fork.go:164`), and one whose copy failed or is deleted ends without a log line;
- an unmanaged fork runs twice on a stale copy (`ForkOnce` without `Managed`); an
  unmanaged workspace read from a copy without a phase is shown hibernated and its
  application runs on (`ApplicationSleeps` and `SleepReachesAll` without their condition
  on managed workspaces);
- an install that took more than five minutes succeeds and the next `Reconcile`, still
  reading the old copy, marks the ready module failed;
- a module created while its workspace is being deleted loses the vcluster first (move
  `"late"`);
- two runners started in the same second answer each other's calls; an API error between
  the creation of a runner and the patch of the annotation leaves the runner behind; a pod that stays pending, or a runner that does not answer
  `http.Post`, keeps the Module's worker for ever;
- outside the namespace `default` the clean-up of a failed installation removes the
  namespace with every other release in it (`ReleaseSpared` without its condition);
- adoption puts the chart's own values in front of the Module's, unrendered: if they hold
  template braces, the Module can no longer be rendered and neither sleeps nor wakes;
- a number outside `int` is converted before it is compared with its limits: on amd64 one
  far above a maximum is accepted, as the smallest `int`, where no minimum is given;
- `multipleOptions` accepts no value from JSON at all, only its default;
- with `ENABLE_WEBHOOKS=false` no release name is generated and `GetReleaseName`
  dereferences nil; the models have the webhooks on.

### Bounds

`MaxLag` is 2 in every passing run of one controller: two versions behind is what the worker's own
consecutive writes (finalizer, phase, annotation) produce, or one of them and a user's
edit. Two
workloads of different size tell a wrong restored count from a right one and allow a
partial failure. Two modules tell "the first" from "all". One or two edits flip and
flip back; in `fork_migration` one mishap of any kind, and two PVCs that may want the
same pod name, since the first pod may still be terminating; two migrations beside each
other share the second, the namespaces and the error variable, and are asleep from the
start so that their product stays small; one restart can fall between any two steps, and after it nothing of the
worker's memory is left for a second to destroy. `forked` counts to 2, standing for
"more than once". In `system` the lag is 1: the product of both controllers' lags is what
matters there, one version behind each. Hibernating and deleting are in different settings, to keep the
product small; a workspace that is deleted may have been created asleep. In `custom_runner` one mishap is an API error, a
restart or a label shared by two runners, each of which the safety properties except;
three sleeps and resumes take a state through the annotation and back more than once;
`MaxRunners` follows from it (a second runner after a failed installation). In
`module_admission` the largest `int` is 7, above every limit, so that a number beyond it
is far above; one edit suffices because a property speaks of the fields edited since
the installation, whichever they are; three Modules are stored in all, so that a Module
may be copied, the copy deleted, and a second copy attempted. Forks of forks are left to the
proof; its invariant was checked with chains and pairs of forks, three Modules and
five names before it was proved.

### Fairness

Weak fairness on the worker as a whole (`Work`): controller-runtime keeps a goroutine
serving the queue. It is not assumed per branch, so a step that may fail may fail
every time. Weak fairness on `deliver` (watches reconnect), on the clock, on the
clean-up goroutine, on the workspace becoming ready in the module model, and on
modules going away and the source becoming ready in the workspace model, which are
what the other controller provides. `Forkspacer` assumes neither of these two: fairness
there is only of the two workers, the watches and the clock. In
`CustomManager`, on each worker except while it waits for a pod that may stay pending or
for a runner that may stay silent (`Unanswered`), on the timeout, and on the start of a
pod whose Secret can be mounted and that is not one of those. In `WorkspaceFork`, on each goroutine as a whole,
on the module controller's work for each Module, on watches and on the end of deleted
pods; its loops have 180 attempts, so a wait that cannot succeed is over some time. Users, cron jobs, faults and restarts are never
forced. A key whose `Reconcile` asked for a requeue stays queued, which is
`RequeueAfter` without its delay.

## Proofs

Eight modules hold theorems, each for every value of the constants: any set of workloads,
modules, copies, schedules, definitions and configuration values; every lag of the cache;
any number of edits, restarts, seconds and runners; and, unless a hypothesis says
otherwise, any set of faults and moves. The assumptions are the ones named in the
modules (`MaxLagAssumption`, `ConstantsAssumption`, `ConfigAssumption`, `IntAssumption`, `ForkAssumption`). They say
what kind of value each constant is, and TLC evaluates them on the runs' values: the limits
there are and the numbers of a configuration item are integers, a number above `int` becomes
its smallest or largest, the lists of PVCs, Secrets, ConfigMaps and
generated names are sequences, a Secret and a ConfigMap are different things, no workspace
is a fork, directly or not, of itself.

| module | theorem | states |
|---|---|---|
| `ModuleController_proofs` | `ReleaseAccountedFor` | `[]NoReleaseLeftSilently` |
| | `AdoptionIsSafe` | `[]AdoptedReleaseKept` |
| | `InstallsOnce` | `InstallNotRepeated` |
| | `InductiveInvariant`, `TypeCorrect` | `[]Inductive`, `[]TypeOK` |
| `ModuleContract_proofs` | `PhasesComeInOrder` | `PhasesInOrder` |
| | `ReadyRuns` | `[]ReadyMeansRunning`, if `Reliable` |
| | `SleepedIsRestorable` | `[]SleepedMeansRestorable`, if `Reliable` |
| | `ContractKept` | `KeepsContract`, the refinement of `ModuleLife`, if `Reliable` |
| | `StrengthenedInvariant`, `OrderInvariant` | `[]Strengthened`, `[](Inductive /\ InOrder)` |
| `WorkspaceController_proofs` | `NoCronJobLeft` | `[]NoOrphanEntry` |
| | `ForkedOnce` | `[]ForkOnce` |
| | `VClusterInPlace` | `[]ReadyHasVCluster` |
| | `WorkspaceSleepsWithItsModules` | `SleepReachesAll` |
| | `VClusterGoesLast` | `VClusterOutlivesModules` |
| | `InductiveInvariant`, `TypeCorrect` | `[]Inductive`, `[]TypeOK` |
| `WorkspaceFork_proofs` | `PodsNotShared` | `[]PodsMine` |
| | `PodsCleanedUp` | `[]NoPodLeft` |
| | `NothingDropped` | `[]NothingDroppedSilently` |
| | `ForkKeepsContract` | `ModulesKeepContract`, the refinement of `ModuleLife` |
| | `CopiesAtRest` | `[]AtRest`, if `OneForkEach` |
| | `SourcesRestored` | `[]SourceRestored`, if `OneForkEach` |
| | `MigrationsAccountedFor`, `ModulesInOrder` | `[]MigrationInvariant`, `[]ModulesInvariant` |
| | `ForksInOrder` | `[]ForkInvariant`, if `OneForkEach` |
| `CustomManager_proofs` | `RunnersNeverLost` | `[]RunnerAccountedFor` |
| | `OwnRunnerCalled` | `[]CalledTheOwnRunner` |
| | `StateGivenBack` | `[]StateCarried` |
| | `RunnersTracked` | `[]RunnerInvariant` |
| `ModuleAdmission_proofs` | `ConfigValid` | `[]ConfigRespected` |
| | `ReleaseFoundAgain` | `[]FoundAgain` |
| | `ReleasesApart` | `[]ReleaseSpared`, if `ForksApart` and `NamesApart` |
| | `AdmissionKept` | `[]AdmissionInvariant` |
| `Forkspacer_proofs` | `OperatorComposed` | `ControllersComposed` |
| | `ReleaseUninstalled` | `[]UninstalledWithItsWorkspace` |
| | `OperatorSafe` | `[]OperatorInvariant` |

`ApiObject_proofs` has the lemmas both controllers share: what a write, a watch event and
a relist do to the versions in flight. Every other module has one lemma per action,
over lemmas about the parts of the state the action leaves alone. None of the properties
is inductive alone.

**Module controller.** `NoReleaseLeftSilently` fails from a state in which a module
without finalizer has a release; so `CacheOrdered` says that a version with a phase has
the finalizer and that the finalizer is not lost between cache and server. That in turn
needs to know which phases the server may be in while the worker is at each label
(`WorkerConsistent`): the worker is the only writer of the phase, so `installing` stays
until it writes the next one. `ReleaseGuarded` ties the release to the phase and to
`outcome` while the finalizer is about to be dropped. `InstallNotRepeated` uses the part of
`CacheOrdered` that says a module past its installation has no version left in which it
is new: the status write that left `installing` was accepted, so the cache was current
then.

**Its contract.** The order of the phases rests on one fact about caches
(`CopiesInOrder`): `setPhase` writes the status only over the newest version, so every
copy is at most one status write behind, whatever `MaxLag` is, and the phase the worker
writes next follows the server's even when it was chosen on a stale copy
(`WorkerInOrder`). `CopiesTellTruth` says what any copy with the phase `ready` or `sleeped`
still tells of the release and the annotation; it is what lets the worker decide on such a
copy. `WorkerKnows` carries that through the operation, and `CleanupGuarded` says that
while a clean-up is pending no copy is left from which the worker would install, sleep
or resume. These three need `Reliable`: of the fault kinds only `"helm"` and
`"chart"`. With failing scalings, patches or status writes the conclusions are false, which
TLC shows at once.

**Workspace controller.** `VersionsOrdered` is its `CacheOrdered`, for a resource whose
deletion and finalizer users and webhooks meddle with; `WorkerConsistent` says, besides,
that a worker past `getRelatedModules` of a deletion has no cron entries left and that
entries exist only under the finalizer, which is `NoOrphanEntry`. `ForkGuarded`,
`VClusterGuarded`, `SleepProgress` and `DeletionProgress` add what each of the other
properties needs, under that property's own condition.

**Migrations.** `PodsOwned` says which goroutine holds which pod in which step, and that
no two hold the same although names are only unique per second; `Accounted` says of
every item of a list that it is still in the list, in work, arrived or reported. Both hold
for any number of goroutines of any number of forks. `NothingDropped` rests on
`OutcomesInvariant`, which says what a goroutine has left in the log where it is
(`Told`): on its way out (`Closing`) without a word of its own it has been through the
loops; silent, it had no PVC to copy or saw its copy failed or going (`Over`), and from
those phases a Module does not come back, which needs the order of the phases below.

**Modules of a fork.** The goroutines read Modules from the informer cache and look at the
phase alone. `ModuleInOrder` is what makes that enough: the phase of a cached version is
the server's or one status write behind it, and the phase fits what the worker is doing.
From it alone follows the contract of `ModuleLife`, with two forks of one source, deletions,
edits and restarts. Whether a Module the cache shows as `sleeped` stays asleep is another
matter: the controller may have decided to resume it on an older copy. `Lulled` says that
no version is left from which it would (each `sleeped` version has `hibernated` set, and
the worker is not at a resume), and `ForkInvariant` says at which labels of a goroutine
its copy and its source are untouched, lulled or down (`Held`). The patch of
`hibernateModule` makes an awake Module a lulled one, the controller keeps it so, and
only then does seeing it `sleeped` mean that it sleeps. A source is there as long as the fork works on it (`SourceServed`), or was
never there and nothing is done (`Missing`). On the way back, `old` is what
the user wanted because the source was untouched when `forkWorkspace` read it.
`OneForkEach` is needed: no two goroutines share a source, and no source waits to be woken
at the start. Without either half `AtRest` is false, as TLC shows with two copies of one
source or with a source found in the state `SourceWakes`; both are hazards of the code.

**Runners.** While no API call failed, the operator did not restart and no two runners share
a label (`mishaps = 0`), a Module has at most one runner and `Recorded` names it at each
step: the newest one made, the worker's or the annotation's. `LabelsApart` says that a
service leads to its own pod only. The proof made `RunnerAccountedFor` stronger: an annotation
counts only until the Module is gone.

**Admission.** `Rendered` says what the specification of an installed Module renders to
as long as the fields named in `touched` are the ones edited: the immutable fields fix the
place, and the definitions, which the webhook does not hold fixed, are the exception. The
lemma behind `ConfigValid` (`ConvertedNumber`) is about `int(v)`: it differs from `v` by a
fraction of `v`'s sign, or `v` is no `int` and it is the smallest or the largest one; in either
case it is this number that was compared with the limits there are.

**Copies and their releases.** Two Modules have the same generated release name only if forks
made one from the other or both from a third: copies of one lineage of workspaces. `ReleaseSpared`
needs them to be in different clusters, hence in different workspaces (`KinApart`), and
this is not inductive: a source whose copy is still there might be copied again.
`KinForked` says it cannot be. Take a Module and the chain of forks its workspace comes
from: wherever a Module of the same name is in a workspace of that chain, the next fork
of the chain has copied it. With it the copy a fork makes meets no kin: any of them in the destination, or
below it, would mean that the pair is in `forked`. A name a user's Module gets is new
(`NamesUsed`), and has no kin because no workspace descends from itself. The
theorem assumes that forks are managed workspaces, that the workspaces of a lineage lead to
different clusters (`ForksApart`), that generated names do not repeat and that
users do not give one (`NamesApart`). Without the second the run `fork_in_place` is the
counterexample; without the first an unmanaged workspace may be forked twice. The
constants of `module_admission` satisfy all of them.

**Both controllers.** `Forkspacer_proofs` instantiates the proof modules of the two
controllers with `Forkspacer`'s state and reuses their lemmas. That each controller's
step is a step, or a stutter, of the other's specification is circular at first sight:
what the workspace controller sees of the module controller's step follows from the module controller's
invariant, and the other way round. The induction breaks the circle: in a state
with both invariants the workspace side of the step is shown first (`WorkspaceSide`), its
invariant follows for the next state, and with that the module side (`ModuleSide`). For
`UninstalledWithItsWorkspace` the invariant adds the order of a deletion, from one end to
the other. A Module is marked only when every copy of the workspace shows the deletion
(`DeletionInTurn`), and its own copies show the mark before it is shown as uninstalling
(`CopiesInOrder`), so `uninstallModule` finds the workspace and finds it being
deleted. `handleDeletion` passes a Module only when it is gone (`ModulesFirst`), and a Module
is gone only when its release is (`ReleaseFirst`). A workspace removed before anything was
done for it is the other way to be gone; it was never ready, so nothing was installed
(`NothingBuilt`). The proof showed one condition the property lacked: a delete of the Module
that fails is only logged, and then the workspace goes without it.

### Only model-checked

- All liveness, which needs fairness and `ENABLED`: outside what the provers handle.
- Nothing else: every invariant and action property of a passing run is stated by a theorem.

## Plan

1. Two forks of one source in one passing run, with `AtRest` stated for what does hold.
2. Cron managers shared by several workspaces.

## Not modelled

`MergeHelmValues` merges values no property tells apart, and can only fail before an
installation. The recursion of `renderInterface` over maps and lists carries one string's
rendering to all of them. `RenderCustomSpec` feeds the runner's pod spec, which is
abstracted. The kubeconfig helpers, `cmd/main.go` apart from starting both controllers,
generated code, manifests, constants and file helpers hold no state of the system.
