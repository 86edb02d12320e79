--------------------------- MODULE MCGovernedAgent ---------------------------
(* A small instance of GovernedAgent: a call that preflights and one of an     *)
(* async function that does not, in a task that no kill names; the kill of     *)
(* another task of the agent, which fills a registry of one entry, and one     *)
(* that another tenant meant for an agent of the same name.                    *)
EXTENDS GovernedAgent

CONSTANTS agent, tenant, otherTenant, task, none, high, lowAsync

Msg(scope, t, a, k) == [scope |-> scope, tenant |-> t, agent |-> a, task |-> k]

MCMessages == {Msg("single", none, agent, task), Msg("agent", otherTenant, agent, none)}

MCCalls == {high, lowAsync}
MCHighRisk == {high}
MCAsync == {lowAsync}

=============================================================================
