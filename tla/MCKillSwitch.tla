---------------------------- MODULE MCKillSwitch ----------------------------
(* A small instance of KillSwitch: two tasks and a registry of two entries, so *)
(* that the kill of a second task evicts, and one message for every way _apply *)
(* can accept or refuse one.                                                   *)
EXTENDS KillSwitch

CONSTANTS agent, otherAgent, tenant, otherTenant, task1, task2, none

Msg(scope, t, a, k) == [scope |-> scope, tenant |-> t, agent |-> a, task |-> k]

\* Kills of ours: two tasks' kills fill and overflow the registry.
TaskKills == {Msg("task", tenant, agent, task1), Msg("single", none, agent, task2)}

MCMessages ==
    TaskKills \cup
    {Msg("tenant", tenant, none, none), Msg("agent", none, agent, none),
     Msg("agent", otherTenant, agent, none), Msg("task", tenant, otherAgent, task1)}

\* One kill that concerns the agent and one that does not.
MCFewMessages == {Msg("task", tenant, agent, task1), Msg("agent", tenant, otherAgent, none)}

=============================================================================
