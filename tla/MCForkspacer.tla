---------------------------- MODULE MCForkspacer ----------------------------
(* Small instances of Forkspacer. *)
EXTENDS Forkspacer

MCWorkloads == {"api"}
MCReplicas == [w \in MCWorkloads |-> 2]

\* No spec.autoHibernation: NoAuto of WorkspaceController.
Unscheduled == [mode |-> "nil", sleep |-> "none", wake |-> "none"]

With(managed, faults, moves) ==
    [managed |-> managed, forks |-> FALSE, auto |-> Unscheduled,
     faults |-> faults, moves |-> moves]

\* A workspace whose vcluster may fail, put to sleep and woken; three that are deleted, and
\* may be created asleep: two, with and without a vcluster, that may stop waiting for their
\* Module, and one whose Modules may not be listed (it fails after they were installed).
MCSettings == {With(TRUE, {"vcluster"}, {"hibernate"}), With(TRUE, {"timeout"}, {"delete"}),
               With(FALSE, {"timeout"}, {"delete"}), With(TRUE, {"list"}, {"delete"})}
=============================================================================
