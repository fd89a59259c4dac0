-------------------------- MODULE Forkspacer_proofs --------------------------
(* The two controllers compose, and a workspace takes its Module's release    *)
(* with it: proofs.  MP and WP are the controllers of Forkspacer once more,   *)
(* with what is proved of each of them.                                       *)
EXTENDS Forkspacer, TLAPS

MP == INSTANCE ModuleContract_proofs WITH
        Faults <- ModuleFaults, Moves <- {"delete", "hibernate", "workspace", "time"},
        ws <- WorkspaceFound

WP == INSTANCE WorkspaceController_proofs WITH
        Modules <- {TheModule}, Schedules <- {}, Autos <- {},
        objs <- wsObjs, queued <- wsQueued, pc <- wsPc, goal <- wsGoal, then <- wsThen,
        cleanup <- wsCleanup, edits <- wsEdits, mods <- ModuleFound, marked <- ModuleMarked

-----------------------------------------------------------------------------
(* The controllers of Forkspacer are the ones the proofs are about. *)

LEMMA SameModuleController ==
    /\ M!Init <=> MP!Init
    /\ M!Next <=> MP!Next
    /\ M!Work <=> MP!Work
    /\ M!deliver <=> MP!deliver
    /\ M!fiveMinutesPass <=> MP!fiveMinutesPass
    /\ M!cleanupFailedInstall <=> MP!cleanupFailedInstall
    /\ UNCHANGED M!vars <=> UNCHANGED MP!vars
  BY DEF
      M!Cached, MP!Cached, M!Server, MP!Server, M!CacheIsCurrent, MP!CacheIsCurrent,
      M!HasFinalizer, MP!HasFinalizer, M!Put, MP!Put, M!Patch, MP!Patch, M!worker, MP!worker,
      M!cluster, MP!cluster, M!environment, MP!environment, M!vars, MP!vars, M!Settled,
      MP!Settled, M!Transitional, MP!Transitional, M!NoHistory, MP!NoHistory, M!WorkspaceState,
      MP!WorkspaceState, M!WorkspaceShown, MP!WorkspaceShown, M!AllDown, MP!AllDown,
      M!WorkspaceReady, MP!WorkspaceReady, M!Init, MP!Init, M!Return, MP!Return, M!CallSetPhase,
      MP!CallSetPhase, M!GoTo, MP!GoTo, M!HibernationCase, MP!HibernationCase,
      M!handleHibernation, MP!handleHibernation, M!DeletionProceeds, MP!DeletionProceeds,
      M!handleDeletion, MP!handleDeletion, M!TimedOut, MP!TimedOut, M!Start, MP!Start, M!Waits,
      MP!Waits, M!Ignores, MP!Ignores, M!Reconcile, MP!Reconcile, M!WithPhase, MP!WithPhase,
      M!addFinalizer, MP!addFinalizer, M!setPhase, MP!setPhase, M!dropFinalizer,
      MP!dropFinalizer, M!writeFails, MP!writeFails, M!CannotReach, MP!CannotReach,
      M!InstallRelease, MP!InstallRelease, M!helmInstall, MP!helmInstall,
      M!adoptExistingHelmRelease, MP!adoptExistingHelmRelease, M!installModule,
      MP!installModule, M!patchManagerData, MP!patchManagerData, M!Scaled, MP!Scaled, M!Sleep,
      MP!Sleep, M!Present, MP!Present, M!sleepModule, MP!sleepModule, M!Resume, MP!Resume,
      M!ResumeFails, MP!ResumeFails, M!resumeModule, MP!resumeModule, M!RemoveRelease,
      MP!RemoveRelease, M!uninstallModule, MP!uninstallModule, M!cleanupFailedInstall,
      MP!cleanupFailedInstall, M!deliver, MP!deliver, M!setHibernated, MP!setHibernated,
      M!delete, MP!delete, M!workspaceReady, MP!workspaceReady, M!workspaceMoves,
      MP!workspaceMoves, M!fiveMinutesPass, MP!fiveMinutesPass, M!restart, MP!restart, M!Work,
      MP!Work, M!Environment, MP!Environment, M!Next, MP!Next

LEMMA SameWorkspaceController ==
    /\ W!Init <=> WP!Init
    /\ W!Next <=> WP!Next
    /\ UNCHANGED W!vars <=> UNCHANGED WP!vars
    /\ W!Server = WP!Server /\ W!Existing = WP!Existing
  BY DEF
      W!Cached, WP!Cached, W!Server, WP!Server, W!CacheIsCurrent, WP!CacheIsCurrent,
      W!HasFinalizer, WP!HasFinalizer, W!Put, WP!Put, W!Patch, WP!Patch, W!NoAuto, WP!NoAuto,
      W!worker, WP!worker, W!cluster, WP!cluster, W!source, WP!source, W!given, WP!given,
      W!environment, WP!environment, W!vars, WP!vars, W!Managed, WP!Managed, W!Forks, WP!Forks,
      W!Faults, WP!Faults, W!Moves, WP!Moves, W!Settled, WP!Settled, W!NoCopy, WP!NoCopy,
      W!Existing, WP!Existing, W!NoModules, WP!NoModules, W!NoEntries, WP!NoEntries, W!Parses,
      WP!Parses, W!validateSchedules, WP!validateSchedules, W!validateWorkspaceSpec,
      WP!validateWorkspaceSpec, W!Default, WP!Default, W!Admitted, WP!Admitted, W!Created,
      WP!Created, W!Init, WP!Init, W!GoTo, WP!GoTo, W!Return, WP!Return, W!CallSetPhase,
      WP!CallSetPhase, W!HibernatedAt, WP!HibernatedAt, W!handleHibernation,
      WP!handleHibernation, W!DeletionProceeds, WP!DeletionProceeds, W!Start, WP!Start, W!Waits,
      WP!Waits, W!Ignores, WP!Ignores, W!Reconcile, WP!Reconcile, W!initialise, WP!initialise,
      W!addFinalizer, WP!addFinalizer, W!setPhase, WP!setPhase, W!dropFinalizer,
      WP!dropFinalizer, W!Refused, WP!Refused, W!writeFails, WP!writeFails, W!installVCluster,
      WP!installVCluster, W!forkWorkspace, WP!forkWorkspace, W!fork, WP!fork, W!AddEntry,
      WP!AddEntry, W!Relocks, WP!Relocks, W!EntriesFor, WP!EntriesFor, W!handleAutoHibernation,
      WP!handleAutoHibernation, W!Selected, WP!Selected, W!getRelatedModules,
      WP!getRelatedModules, W!list, WP!list, W!Without, WP!Without, W!PatchModule,
      WP!PatchModule, W!patchModules, WP!patchModules, W!sleepModules, WP!sleepModules,
      W!resumeModules, WP!resumeModules, W!deleteModule, WP!deleteModule, W!awaitModule,
      WP!awaitModule, W!uninstallVCluster, WP!uninstallVCluster, W!deliver, WP!deliver, W!edit,
      WP!edit, W!setHibernated, WP!setHibernated, W!setAuto, WP!setAuto, W!cronFires,
      WP!cronFires, W!sleepCron, WP!sleepCron, W!resumeCron, WP!resumeCron, W!delete, WP!delete,
      W!secretMoves, WP!secretMoves, W!createModule, WP!createModule, W!moduleGone,
      WP!moduleGone, W!cleanupFailedInstall, WP!cleanupFailedInstall, W!sourceReady,
      WP!sourceReady, W!restart, WP!restart, W!Work, WP!Work, W!Environment, WP!Environment,
      W!Next, WP!Next

\* What the controllers assume of their constants.
LEMMA ModuleConstants == MP!ConstantsAssumption /\ MP!MaxLagAssumption
  BY ConstantsAssumption
  DEF MP!ConstantsAssumption, MP!MaxLagAssumption, MP!FaultKinds, MP!MoveKinds, M!FaultKinds

LEMMA WorkspaceConstants == WP!ConstantsAssumption /\ WP!MaxLagAssumption
  <1>1. W!Setting = WP!Setting
    BY DEF W!Setting, WP!Setting, W!AutoSetting, WP!AutoSetting, W!FaultKinds, WP!FaultKinds,
       W!MoveKinds, WP!MoveKinds
  <1>. QED BY <1>1, ConstantsAssumption DEF WP!ConstantsAssumption, WP!MaxLagAssumption

LEMMA ModuleKeeps ==
    ASSUME MP!Inductive, MP!InOrder, [MP!Next]_(MP!vars)
    PROVE  MP!Inductive' /\ MP!InOrder'
  BY MP!NextInductive, MP!NextInOrder, ModuleConstants

LEMMA WorkspaceKeeps ==
    ASSUME WP!Inductive, WP!DeletionInTurn, [WP!Next]_(WP!vars)
    PROVE  WP!Inductive' /\ WP!DeletionInTurn'
  BY WP!NextInductive, WP!NextInTurn, WorkspaceConstants

-----------------------------------------------------------------------------
(* Each controller is the other's environment. *)

\* The Module as the workspace controller finds it.
LEMMA ModuleSeen ==
    /\ MP!Server = Stored
    /\ WP!Existing = IF Stored.phase = "gone" THEN {} ELSE {TheModule}
    /\ ModuleMarked = IF Stored.deleting THEN {TheModule} ELSE {}
  BY DEF MP!Server, WP!Existing, Stored, ModuleFound, ModuleMarked

\* The workspace as the module controller finds it.
LEMMA WorkspaceSeen == WP!Inductive => WorkspaceFound \in MP!WorkspaceShown
  <1>. SUFFICES ASSUME WP!Inductive PROVE WorkspaceFound \in MP!WorkspaceShown
    OBVIOUS
  <1>1. wsObjs[1] \in WP!Version
    BY WP!Versions, WorkspaceConstants DEF WP!Inductive, WP!Cached
  <1>2. wsObjs[1].deleting \in BOOLEAN
    BY <1>1 DEF WP!Version
  <1>. QED BY <1>2 DEF WorkspaceFound, MP!WorkspaceShown, MP!WorkspaceState

\* The module controller, its cache, its clock and its clean-up.
LEMMA ModuleStepSeen ==
    ASSUME MP!Inductive, MP!InOrder, UNCHANGED workspaceVars,
           M!Work \/ M!deliver \/ M!fiveMinutesPass \/ M!cleanupFailedInstall
    PROVE  UNCHANGED WP!vars \/ WP!moduleGone
  <1>1. /\ UNCHANGED MP!environment
        /\ MP!Server'.hibernated = MP!Server.hibernated /\ MP!Server'.deleting = MP!Server.deleting
        /\ MP!Server.phase = "gone" => MP!Server'.phase = "gone"
        /\ MP!Server'.phase = "gone" /\ MP!Server.phase # "gone" => MP!Server.deleting
    BY SameModuleController, MP!WorkSeen, MP!QuietSeen, ModuleConstants
  <1>2. /\ UNCHANGED crashes /\ Stored'.hibernated = Stored.hibernated
        /\ Stored'.deleting = Stored.deleting
        /\ Stored.phase = "gone" => Stored'.phase = "gone"
        /\ Stored'.phase = "gone" /\ Stored.phase # "gone" => Stored.deleting
    BY <1>1 DEF MP!environment, MP!Server, Stored
  <1>3. UNCHANGED ModuleMarked
    BY <1>2 DEF ModuleMarked
  <1>4. CASE (Stored.phase = "gone") <=> (Stored'.phase = "gone")
    <2>1. UNCHANGED ModuleFound
      BY <1>2, <1>4 DEF ModuleFound
    <2>. QED BY <1>2, <1>3, <2>1 DEF workspaceVars, WP!vars, WP!worker, WP!cluster, WP!source,
                WP!given, WP!environment
  <1>5. CASE Stored.phase # "gone" /\ Stored'.phase = "gone"
    <2>1. TheModule \in WP!Existing \cap ModuleMarked
      BY <1>2, <1>5, ModuleSeen
    <2>2. ModuleFound' = [ModuleFound EXCEPT ![TheModule] = "absent"]
      BY <1>5 DEF ModuleFound
    <2>. QED BY <1>2, <1>3, <2>1, <2>2 DEF WP!moduleGone, workspaceVars, WP!worker, WP!source,
                WP!given, WP!environment
  <1>. QED BY <1>2, <1>4, <1>5

LEMMA WorkspaceSide ==
    ASSUME MP!Inductive, MP!InOrder, [Next]_vars
    PROVE  [WP!Next]_(WP!vars)
  <1>1. CASE moduleWork \/ moduleWatch \/ moduleClock \/ moduleCleanup
    BY <1>1, ModuleStepSeen DEF moduleWork, moduleWatch, moduleClock, moduleCleanup, WP!Next,
       WP!Environment
  <1>2. CASE workspaceWork \/ workspaceWatch \/ workspaceCleanup \/ user \/ restart
    <2>1. W!Next
      BY <1>2 DEF workspaceWork, patchesModule, deletesModule, workspaceWatch, workspaceCleanup, user,
         restart, W!Next, W!Work, W!Environment
    <2>. QED BY <2>1, SameWorkspaceController
  <1>3. CASE UNCHANGED vars
    BY <1>3 DEF vars, moduleVars, workspaceVars, WP!vars, WP!worker, WP!cluster, WP!source,
       WP!given, WP!environment, ModuleFound, ModuleMarked, Stored
  <1>. QED BY <1>1, <1>2, <1>3 DEF Next

\* Only a restart is counted.
LEMMA CrashesCounted ==
    ASSUME W!Work \/ W!deliver \/ W!cleanupFailedInstall \/ W!setHibernated \/ W!delete
    PROVE  UNCHANGED crashes
  BY DEF W!Work, W!Reconcile, W!addFinalizer, W!setPhase, W!dropFinalizer, W!writeFails,
     W!installVCluster, W!fork, W!handleAutoHibernation, W!list, W!getRelatedModules,
     W!sleepModules, W!resumeModules, W!patchModules, W!deleteModule, W!awaitModule,
     W!uninstallVCluster, W!deliver, W!cleanupFailedInstall, W!setHibernated, W!edit, W!delete,
     W!environment

LEMMA ModuleSide ==
    ASSUME WP!Inductive', [Next]_vars
    PROVE  [MP!Next]_(MP!vars)
  <1>1. CASE moduleWork \/ moduleWatch \/ moduleClock \/ moduleCleanup \/ patchesModule
             \/ deletesModule \/ restart
    <2>1. M!Next
      BY <1>1 DEF moduleWork, moduleWatch, moduleClock, moduleCleanup, patchesModule, deletesModule,
         restart, M!Next, M!Environment
    <2>. QED BY <2>1, SameModuleController
  <1>2. ASSUME UNCHANGED moduleVars,
               W!Work \/ W!deliver \/ W!cleanupFailedInstall \/ W!setHibernated \/ W!delete
        PROVE  MP!workspaceMoves
    <2>1. (WorkspaceFound \in MP!WorkspaceShown)'
      BY WorkspaceSeen, PTL
    <2>2. UNCHANGED crashes
      BY <1>2, CrashesCounted
    <2>. QED BY <1>2, <2>1, <2>2 DEF MP!workspaceMoves, moduleVars, MP!worker, MP!cluster
  <1>3. CASE workspaceWork \/ workspaceWatch \/ workspaceCleanup \/ user
    BY <1>1, <1>2, <1>3 DEF workspaceWork, workspaceWatch, workspaceCleanup, user, MP!Next,
       MP!Environment
  <1>4. CASE UNCHANGED vars
    BY <1>4 DEF vars, moduleVars, workspaceVars, MP!vars, MP!worker, MP!cluster, MP!environment,
       WorkspaceFound
  <1>. QED BY <1>1, <1>3, <1>4 DEF Next

LEMMA BothKeep ==
    ASSUME MP!Inductive, MP!InOrder, WP!Inductive, WP!DeletionInTurn, [Next]_vars
    PROVE  /\ [MP!Next]_(MP!vars) /\ MP!Inductive' /\ MP!InOrder'
           /\ [WP!Next]_(WP!vars) /\ WP!Inductive' /\ WP!DeletionInTurn'
  <1>1. [WP!Next]_(WP!vars)
    BY WorkspaceSide
  <1>2. WP!Inductive' /\ WP!DeletionInTurn'
    BY <1>1, WorkspaceKeeps
  <1>3. [MP!Next]_(MP!vars)
    BY <1>2, ModuleSide
  <1>. QED BY <1>1, <1>2, <1>3, ModuleKeeps

-----------------------------------------------------------------------------
(* The Module's release goes before its workspace does. *)

Reliable == ~late /\ "patch" \notin setting.faults /\ "helm" \notin ModuleFaults

\* A Module in a workspace nothing was done for was not installed either.
NothingBuilt == WP!Untouched => Stored.phase = "gone" \/ ~deployed \/ adopted

ReleaseGoesFirst == WP!ModulesFirst /\ MP!ReleaseFirst /\ NothingBuilt

\* Once handleDeletion has given up a Module, that is remembered.
LEMMA PatientStep ==
    ASSUME [Next]_vars, ~late'
    PROVE  /\ ~late
           /\ wsPc = "wait" /\ wsPc' = "delete" => WP!Existing = {}
  <1>1. CASE UNCHANGED moduleVars /\ W!Work /\ late' = (late \/ (wsPc = "wait" /\ wsPc' = "delete" /\ W!Existing # {}))
    BY <1>1, SameWorkspaceController
  <1>2. CASE moduleWork \/ moduleWatch \/ moduleClock \/ moduleCleanup \/ UNCHANGED vars
    BY <1>2 DEF moduleWork, moduleWatch, moduleClock, moduleCleanup, vars, workspaceVars
  <1>3. CASE patchesModule \/ deletesModule
    BY <1>3 DEF patchesModule, deletesModule, W!sleepModules, W!patchModules, W!deleteModule
  <1>4. CASE workspaceWatch \/ workspaceCleanup \/ user
    <2>1. UNCHANGED wsPc
      BY <1>4 DEF workspaceWatch, workspaceCleanup, user, W!deliver, W!cleanupFailedInstall,
         W!setHibernated, W!edit, W!delete, W!worker
    <2>. QED BY <1>4, <2>1 DEF workspaceWatch, workspaceCleanup, user
  <1>5. CASE restart
    <2>1. wsPc' = "idle"
      BY <1>5 DEF restart, W!restart
    <2>. QED BY <1>5, <2>1 DEF restart
  <1>. QED BY <1>1, <1>2, <1>3, <1>4, <1>5 DEF Next, workspaceWork

\* uninstallModule finds a workspace that is being deleted.
LEMMA FoundDeleting ==
    ASSUME MP!Inductive, MP!InOrder, WP!Inductive, WP!DeletionInTurn, WP!ModulesFirst,
           pc = "uninstall"
    PROVE  WorkspaceFound.phase # "absent" /\ WorkspaceFound.deleting
  <1>1. Stored.phase = "uninstalling" /\ Stored.deleting
    <2>1. MP!Server.phase = "uninstalling" /\ MP!Server \in MP!InFlight
      BY MP!Versions, ModuleConstants DEF MP!Inductive, MP!WorkerConsistent
    <2>. QED BY <2>1, ModuleSeen DEF MP!InOrder, MP!CopiesInOrder
  <1>2. WP!Cached \in WP!InFlight /\ WP!Server \in WP!InFlight
    BY WP!Versions, WorkspaceConstants DEF WP!Inductive
  <1>3. WP!Cached.deleting
    BY <1>1, <1>2, ModuleSeen DEF WP!DeletionInTurn
  <1>4. ~WP!Untouched
    BY <1>1, ModuleSeen DEF WP!ModulesFirst
  <1>5. WP!Server.phase # "gone"
    BY <1>1, <1>4, ModuleSeen DEF WP!ModulesFirst
  <1>6. WP!Cached.phase # "gone"
    BY <1>2, <1>5 DEF WP!Inductive, WP!VersionsOrdered
  <1>. QED BY <1>3, <1>6 DEF WorkspaceFound, WP!Cached

LEMMA NextReleaseGoesFirst ==
    ASSUME MP!Inductive, MP!InOrder, WP!Inductive, WP!DeletionInTurn, ReleaseGoesFirst, Reliable,
           [Next]_vars, ~late'
    PROVE  ReleaseGoesFirst'
  <1>1. /\ [MP!Next]_(MP!vars) /\ MP!Inductive' /\ MP!InOrder'
        /\ [WP!Next]_(WP!vars) /\ WP!Inductive' /\ WP!DeletionInTurn'
    BY BothKeep
  <1>2. Stored.phase = "gone" => Stored'.phase = "gone"
    <2>1. MP!Server.phase = "gone" => MP!Server'.phase = "gone"
      BY <1>1, MP!GoneForGood, ModuleConstants
    <2>. QED BY <2>1 DEF MP!Server, Stored
  <1>3. /\ WP!Existing = IF Stored.phase = "gone" THEN {} ELSE {TheModule}
        /\ WP!Existing' = IF Stored'.phase = "gone" THEN {} ELSE {TheModule}
    BY DEF WP!Existing, ModuleFound
  <1>4. WP!ModulesFirst' /\ (WP!Untouched' => WP!Untouched \/ WP!Existing' = {})
    <2>1. WP!Existing' \subseteq WP!Existing
      BY <1>2, <1>3
    <2>2. wsPc = "wait" /\ wsPc' = "delete" => WP!Existing = {}
      BY PatientStep
    <2>3. "patch" \notin WP!Faults
      BY DEF Reliable, WP!Faults
    <2>. QED BY <1>1, <2>1, <2>2, <2>3, WP!NextModulesFirst, WorkspaceConstants DEF ReleaseGoesFirst
  <1>5. MP!ReleaseFirst'
    <2>1. pc = "uninstall" => (WorkspaceFound.phase # "absent" /\ WorkspaceFound.deleting) \/ ~deployed \/ adopted
      BY FoundDeleting DEF ReleaseGoesFirst
    <2>2. "helm" \notin ModuleFaults
      BY DEF Reliable
    <2>. QED BY <1>1, <2>1, <2>2, MP!NextReleaseFirst, ModuleConstants DEF ReleaseGoesFirst
  <1>6. NothingBuilt'
    <2>. SUFFICES ASSUME WP!Untouched', Stored'.phase # "gone", deployed', ~adopted' PROVE FALSE
      BY DEF NothingBuilt
    <2>1. WP!Untouched /\ ~adopted /\ Stored.phase # "gone"
      BY <1>1, <1>2, <1>3, <1>4, MP!AdoptedKept, ModuleConstants
    <2>2. ~deployed
      BY <2>1 DEF ReleaseGoesFirst, NothingBuilt
    <2>3. WorkspaceFound.phase = "ready"
      BY <1>1, <2>2, MP!ReleaseMade, ModuleConstants
    <2>4. WP!Cached \in WP!InFlight
      BY WP!Versions, WorkspaceConstants DEF WP!Inductive
    <2>5. WP!Cached.phase \in {"", "gone"}
      BY <2>1, <2>4 DEF WP!Untouched
    <2>. QED BY <2>3, <2>5 DEF WorkspaceFound, WP!Cached
  <1>. QED BY <1>4, <1>5, <1>6 DEF ReleaseGoesFirst

-----------------------------------------------------------------------------
(* The theorems *)

\* What each controller is proved to keep, and the order between them.
OperatorInvariant ==
    /\ MP!Inductive /\ MP!InOrder
    /\ WP!Inductive /\ WP!DeletionInTurn
    /\ Reliable => ReleaseGoesFirst

LEMMA InitOperator == Init => OperatorInvariant
  <1>. SUFFICES ASSUME Init PROVE OperatorInvariant
    OBVIOUS
  <1>1. MP!Init /\ WP!Init
    BY SameModuleController, SameWorkspaceController DEF Init
  <1>2. MP!Inductive /\ MP!InOrder
    BY <1>1, MP!InitInductive, MP!InitInOrder, ModuleConstants
  <1>3. WP!Inductive /\ WP!DeletionInTurn /\ WP!ModulesFirst
    BY <1>1, WP!InitInductive, WP!InitInTurn, WP!InitModulesFirst, WorkspaceConstants
  <1>4. pc = "idle" /\ MP!Server.phase = "" /\ (~deployed \/ adopted)
    BY <1>1, MP!InitIsNew, ModuleConstants DEF MP!Init
  <1>. QED BY <1>2, <1>3, <1>4 DEF OperatorInvariant, ReleaseGoesFirst, MP!ReleaseFirst, NothingBuilt

LEMMA NextOperator == OperatorInvariant /\ [Next]_vars => OperatorInvariant'
  <1>. SUFFICES ASSUME OperatorInvariant, [Next]_vars PROVE OperatorInvariant'
    OBVIOUS
  <1>1. /\ MP!Inductive' /\ MP!InOrder' /\ WP!Inductive' /\ WP!DeletionInTurn'
        /\ [WP!Next]_(WP!vars)
    BY BothKeep DEF OperatorInvariant
  <1>2. UNCHANGED setting
    BY <1>1, WP!SettingKept, WorkspaceConstants
  <1>3. Reliable' => Reliable
    BY <1>2, PatientStep DEF Reliable
  <1>4. Reliable' => ReleaseGoesFirst'
    BY <1>3, NextReleaseGoesFirst DEF OperatorInvariant, Reliable
  <1>. QED BY <1>1, <1>4 DEF OperatorInvariant

\* The invariants of both controllers hold of them in the operator, where each is the
\* other's environment.
THEOREM OperatorSafe == Spec => []OperatorInvariant
  BY InitOperator, NextOperator, PTL DEF Spec

\* ControllersComposed: the operator with a workspace and its Module is an instance of
\* both controllers' specifications, so what is proved of them holds of it.
THEOREM OperatorComposed == Spec => ControllersComposed
  <1>1. OperatorInvariant /\ [Next]_vars => [M!Next]_(M!vars) /\ [W!Next]_(W!vars)
    BY BothKeep, SameModuleController, SameWorkspaceController DEF OperatorInvariant
  <1>2. Init => M!Init /\ W!Init
    BY DEF Init
  <1>. QED BY <1>1, <1>2, OperatorSafe, PTL DEF Spec, ControllersComposed, M!Spec, W!Spec

\* UninstalledWithItsWorkspace: a workspace that is gone has left no release of its
\* Module behind, unless handleDeletion gave up waiting or a call failed.
THEOREM ReleaseUninstalled == Spec => []UninstalledWithItsWorkspace
  <1>1. OperatorInvariant => UninstalledWithItsWorkspace
    <2>. SUFFICES ASSUME OperatorInvariant, Reliable, WP!Server.phase = "gone"
                  PROVE  ~deployed \/ adopted
      BY SameWorkspaceController DEF UninstalledWithItsWorkspace, Reliable, W!Gone
    <2>1. ReleaseGoesFirst
      BY DEF OperatorInvariant
    <2>2. Stored.phase = "gone" \/ WP!Untouched
      BY <2>1, ModuleSeen DEF ReleaseGoesFirst, WP!ModulesFirst
    <2>3. MP!Server = Stored
      BY ModuleSeen
    <2>. QED BY <2>1, <2>2, <2>3 DEF ReleaseGoesFirst, MP!ReleaseFirst, NothingBuilt
  <1>. QED BY <1>1, OperatorSafe, PTL
=============================================================================
