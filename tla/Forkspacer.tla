----------------------------- MODULE Forkspacer -----------------------------
(***************************************************************************)
(* The operator with one workspace and one Module in it: WorkspaceController *)
(* and ModuleController side by side.  What each of them assumes of its    *)
(* environment is here what the other one does.  The workspace controller  *)
(* patches and deletes the Module through the API server; the module       *)
(* controller reads the workspace from the cache the two share.  Both run  *)
(* in one process, and restart together.                                   *)
(***************************************************************************)
EXTENDS Naturals, Sequences

CONSTANTS
    Workloads, Replicas, ModuleFaults,   \* of ModuleController
    Settings,                            \* of WorkspaceController
    Adoptions,                           \* whether the Module adopts its release
    MaxLag, MaxEdits, MaxCrashes         \* of both

\* The Module, and its controller.
VARIABLES objs, queued, pc, goal, then, meta, outcome, deployed, live, cleanup, adopted, edits

\* The workspace, and its controller.
VARIABLES setting, secret, wsObjs, wsQueued, wsPc, wsGoal, wsThen, local, listed, awaited,
          cron, vcluster, wsCleanup, srcReady, forked, wsEdits

VARIABLES
    crashes,   \* restarts so far
    late       \* handleDeletion went on without waiting for the Module any longer

moduleVars == <<objs, queued, pc, goal, then, meta, outcome, deployed, live, cleanup, adopted, edits>>
workspaceVars == <<setting, secret, wsObjs, wsQueued, wsPc, wsGoal, wsThen, local, listed, awaited,
                   cron, vcluster, wsCleanup, srcReady, forked, wsEdits>>
vars == <<moduleVars, workspaceVars, crashes, late>>

-----------------------------------------------------------------------------
(* How each controller sees the other's resource *)

TheModule == "app"
Stored == objs[Len(objs)]

\* getRelatedModules: the Module as the workspace controller finds it.
ModuleFound ==
    [m \in {TheModule} |-> IF Stored.phase = "gone" THEN "absent"
                           ELSE IF Stored.hibernated THEN "hibernated" ELSE "awake"]
ModuleMarked == IF Stored.deleting THEN {TheModule} ELSE {}

\* getWorkspace: the workspace as the module controller finds it, in the cache.
WorkspaceFound ==
    LET w == wsObjs[1] IN
    [phase |-> CASE w.phase = "gone" -> "absent"
                 [] w.phase \in {"ready", "hibernated"} -> w.phase
                 [] OTHER -> "unready",
     deleting |-> w.deleting /\ w.phase # "gone"]

M == INSTANCE ModuleController WITH
        Faults <- ModuleFaults, Moves <- {"delete", "hibernate", "workspace", "time"},
        ws <- WorkspaceFound

W == INSTANCE WorkspaceController WITH
        Modules <- {TheModule}, Schedules <- {}, Autos <- {},
        objs <- wsObjs, queued <- wsQueued, pc <- wsPc, goal <- wsGoal, then <- wsThen,
        cleanup <- wsCleanup, edits <- wsEdits, mods <- ModuleFound, marked <- ModuleMarked

ASSUME ConstantsAssumption ==
    /\ Replicas \in [Workloads -> Nat] /\ ModuleFaults \subseteq M!FaultKinds
    /\ Settings \subseteq W!Setting /\ Adoptions \subseteq BOOLEAN
    /\ MaxLag \in Nat \ {0} /\ MaxEdits \in Nat /\ MaxCrashes \in Nat

NewWorkspaces == {<<[W!NoCopy EXCEPT !.phase = "", !.hibernated = h]>> : h \in BOOLEAN}

Init ==
    /\ wsObjs \in NewWorkspaces /\ adopted \in Adoptions
    /\ M!Init /\ W!Init
    /\ late = FALSE

-----------------------------------------------------------------------------
(* Steps *)

\* The module controller at work; the workspace is only read.
moduleWork == UNCHANGED workspaceVars /\ M!Work /\ UNCHANGED late
moduleWatch == UNCHANGED workspaceVars /\ M!deliver /\ UNCHANGED late
moduleClock == UNCHANGED workspaceVars /\ M!fiveMinutesPass /\ UNCHANGED late
moduleCleanup == UNCHANGED workspaceVars /\ M!cleanupFailedInstall /\ UNCHANGED late

\* sleepModules patches the Module (the patches of resumeModules are empty),
patchesModule ==
    /\ UNCHANGED wsObjs
    /\ M!setHibernated
    /\ W!sleepModules
    /\ UNCHANGED late

\* A variant that takes the Module's finalizer away as well.
deletesModuleForced ==
    /\ W!Existing # {} /\ Len(objs) <= MaxLag
    /\ objs' = Append(objs, [Stored EXCEPT !.deleting = TRUE, !.phase = "gone", !.finalizers = {}])
    /\ UNCHANGED <<wsObjs, queued, pc, goal, then, meta, outcome, deployed, live, cleanup, adopted, edits>>
    /\ W!deleteModule
    /\ UNCHANGED late

\* ... and handleDeletion deletes it.
deletesModule ==
    /\ UNCHANGED wsObjs
    /\ M!delete
    /\ W!deleteModule
    /\ UNCHANGED late

\* What the workspace controller does without a write of the Module.
workspaceWork ==
    \/ patchesModule \/ deletesModule
    \/ /\ UNCHANGED moduleVars
       /\ W!Work
       /\ late' = (late \/ (wsPc = "wait" /\ wsPc' = "delete" /\ W!Existing # {}))

workspaceWatch == UNCHANGED moduleVars /\ W!deliver /\ UNCHANGED late

\* A failed installation of the vcluster is cleaned up; the user acts on the workspace.
workspaceCleanup == UNCHANGED moduleVars /\ W!cleanupFailedInstall /\ UNCHANGED late
user == UNCHANGED moduleVars /\ (W!setHibernated \/ W!delete) /\ UNCHANGED late

restart ==
    /\ wsObjs' = <<W!Server>>
    /\ M!restart /\ W!restart
    /\ UNCHANGED late

Next ==
    \/ moduleWork \/ moduleWatch \/ moduleClock \/ moduleCleanup
    \/ workspaceWork \/ workspaceWatch \/ workspaceCleanup \/ user \/ restart

Spec == Init /\ [][Next]_vars

\* The fairness of the two controllers; the clean-up goroutines need none here.  That a
\* Module being deleted goes away is not assumed: handleDeletion stops waiting for it
\* after 60 seconds.
FairSpec ==
    /\ Spec
    /\ WF_vars(moduleWork) /\ WF_vars(moduleWatch) /\ WF_vars(moduleClock)
    /\ WF_vars(workspaceWork) /\ WF_vars(workspaceWatch)

-----------------------------------------------------------------------------
(* Properties *)

\* ControllersComposed: each controller's environment behaves as its specification
\* assumes, so what is proved of every ModuleController holds in the whole operator:
\* the workspace controller writes a Module only as a user may, and the module
\* controller only removes Modules that are marked (workspace_controller.go handleDeletion).
ControllersComposed == M!Spec /\ W!Spec

\* UninstalledWithItsWorkspace: when a workspace is gone, so is the release of its
\* Module, if handleDeletion did not give up waiting for it and neither the deletion of
\* the Module nor a Helm call failed: uninstallModule finds a workspace that is being
\* deleted, in whatever phase (module_operations.go uninstallModule,
\* workspace_controller.go handleDeletion).
UninstalledWithItsWorkspace ==
    W!Gone /\ ~late /\ "patch" \notin setting.faults /\ "helm" \notin ModuleFaults
        => ~deployed \/ adopted

\* ApplicationSleeps: in a managed workspace that stays hibernated the application is
\* scaled down for good, if its Module did not fail, though the Module may be in the
\* middle of its installation when sleepModules comes by: after "ready" it looks again
\* (module_controller.go handleHibernation).  An unmanaged workspace can get the phase
\* hibernated without sleepModules, by a copy of it from before it had a phase.
ApplicationSleeps ==
    setting.managed /\ <>[](W!Server.phase = "hibernated" /\ ~W!Server.deleting)
        => <>[](live = M!AllDown \/ Stored.phase = "failed")

\* WorkspaceGoes: a workspace that is deleted when it is ready, hibernated or failed
\* goes away though its Module may never (a Module deleted while it is installing
\* stays), since handleDeletion waits at most 60 seconds for each; if the Modules
\* can be listed.  (After a restart in the phases before, it stays.)
WorkspaceGoes ==
    "list" \notin setting.faults =>
        (W!Server.deleting /\ W!Server.phase \in W!Settled ~> W!Gone)
=============================================================================
