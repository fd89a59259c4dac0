----------------------- MODULE MCWorkspaceController -----------------------
(* Small instances of WorkspaceController. *)
EXTENDS WorkspaceController

MCModules == {"api", "db"}
MCSchedules == {"daily", "weekdays", "morning", "malformed"}

Disabled == [mode |-> "off", sleep |-> "none", wake |-> "none"]
Enabled(s, w) == [mode |-> "on", sleep |-> s, wake |-> w]

MCNoAuto == {NoAuto}
\* One schedule, switched on and off.
MCToggle == {NoAuto, Disabled, Enabled("daily", "morning"), Enabled("daily", "none"),
             Enabled("daily", "daily"), Enabled("malformed", "none")}
\* The schedule is edited.
MCEdited == {Disabled, Enabled("daily", "morning"), Enabled("weekdays", "none")}
MCTwoSchedules == {Enabled("daily", "none"), Enabled("weekdays", "none")}

With(managed, forks, auto, faults, moves) ==
    [managed |-> managed, forks |-> forks, auto |-> auto, faults |-> faults, moves |-> moves]

Unmanaged(forks, moves) == With(FALSE, forks, NoAuto, {}, moves)

\* Settings with few faults, because of what the properties leave out, and with all.
MCFaults ==
    {With(TRUE, TRUE, NoAuto, {"list", "vcluster", "source"}, {"hibernate", "auto", "delete"}),
     With(TRUE, TRUE, Enabled("daily", "none"), {"write", "vcluster", "source", "coincide"},
          {"auto", "cron", "delete"}),
     With(TRUE, FALSE, NoAuto, {"write", "list", "patch", "timeout"}, {"create", "late", "delete"}),
     With(FALSE, TRUE, Enabled("daily", "none"), {"list", "patch"}, {"hibernate", "delete", "secret"})}

MCLive ==
    {Unmanaged(FALSE, {"hibernate", "auto", "delete", "secret"}),
     With(TRUE, TRUE, Enabled("daily", "none"), {}, {"hibernate", "delete"})}

MCForks == {Unmanaged(TRUE, {})}
MCEdits == {Unmanaged(FALSE, {"auto", "cron"})}
=============================================================================
