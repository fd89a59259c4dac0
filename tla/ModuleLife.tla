----------------------------- MODULE ModuleLife -----------------------------
(***************************************************************************)
(* What a Module promises to whoever looks at it: the order of its phases  *)
(* and what a phase says about the application behind it.  Nothing here    *)
(* knows of workers, caches, Helm or retries.  ModuleController implements *)
(* it in detail; WorkspaceFork relies on it for the Modules it copies.     *)
(***************************************************************************)
CONSTANTS
    Phases        \* status.phase, "" and the absent Module's "gone" included

VARIABLES
    phase,        \* status.phase of the Module
    running       \* some workload of its application has replicas

life == <<phase, running>>

\* The phases a status write may lead to.  Nothing leads back to the installation;
\* a Module is deleted from where a worker saw it settled; one that failed is left
\* by its deletion, or by what a worker had already decided on an older copy.
After(p) ==
    CASE p = "gone"         -> {""}
      [] p = ""             -> {"installing", "gone"}
      [] p = "installing"   -> {"ready", "failed"}
      [] p = "ready"        -> {"sleeping", "uninstalling", "failed"}
      [] p = "sleeping"     -> {"sleeped", "uninstalling", "failed"}
      [] p = "sleeped"      -> {"resuming", "uninstalling", "failed"}
      [] p = "resuming"     -> {"ready", "uninstalling", "failed"}
      [] p = "failed"       -> {"sleeping", "resuming", "uninstalling"}
      [] p = "uninstalling" -> {"gone"}

PhaseStep == phase' \in After(phase)

\* Applications start while their Module is installed or resumed, never in a phase
\* in which the user sees it settled,
Starts == ~running /\ running' /\ phase' \in {"installing", "resuming"}

\* and stop when it is put to sleep, removed, or its installation has failed.
Stops == running /\ ~running' /\ phase' \notin {"", "ready", "resuming"}

LifeInit == phase \in Phases /\ (phase = "sleeped" => ~running)

LifeNext ==
    /\ UNCHANGED phase \/ PhaseStep
    /\ phase' = "sleeped" => ~running'
    /\ UNCHANGED running \/ Starts \/ Stops

PhaseSpec == phase \in Phases /\ [][PhaseStep]_phase

LifeSpec == LifeInit /\ [][LifeNext]_life
=============================================================================
