---------------------------- MODULE MCAutomation ----------------------------
(***************************************************************************)
(* Instances of Automation for TLC.                                        *)
(***************************************************************************)
EXTENDS Automation, TLC

Off == [enabled |-> FALSE, optIn |-> FALSE, dryRun |-> TRUE]
DryRun == [enabled |-> TRUE, optIn |-> TRUE, dryRun |-> TRUE]
LiveRun == [enabled |-> TRUE, optIn |-> TRUE, dryRun |-> FALSE]

Configuration(policy, mode0, health0) ==
    [signals |-> [s \in Signals |-> IF s = 1 THEN "active" ELSE "future"],
     policies |-> [p \in Policies |-> policy],
     control |-> TRUE, killSwitch |-> TRUE, mode |-> mode0, health |-> health0]

\* The modes, a dry run, degraded health, a database without health events.
Modes == {Configuration(LiveRun, "live", "healthy"),
          Configuration(DryRun, "live", "healthy"),
          Configuration(LiveRun, "live", "degraded"),
          Configuration(LiveRun, "paper", "healthy"),
          Configuration(Off, "disabled", "none")}

\* Ready to trade.
Trading == {Configuration(LiveRun, "live", "healthy")}

\* Switching a policy off is one way of matching none, which is open anyway.
EnabledSettings == {DryRun, LiveRun}
LiveSettings == {Off, LiveRun}
AllSettings == {Off, DryRun, LiveRun}
=============================================================================
