---------------------------- MODULE GovernedAgent ----------------------------
(***************************************************************************)
(* A kill on its way to the calls it is to stop: the subscriber of         *)
(* KillSwitch and the calls of GovernedCall in one process.  GovernedCall  *)
(* alone takes the kill switch for RevocationCache; here the calls ask the *)
(* subscriber itself (client.is_revoked, client.is_kill_switch_healthy),   *)
(* whose thread, connection and stop() move between any two steps of a     *)
(* call.                                                                   *)
(*                                                                         *)
(* The subscriber's state and actions have the names of KillSwitch, those  *)
(* of the calls are the instance Gov.                                      *)
(***************************************************************************)
EXTENDS KillSwitch

CONSTANTS
    Calls, HighRisk, Async, Approvals, Nobody,  \* as in GovernedCall
    Task            \* the task the calls belong to

VARIABLES
    failMode, ksFailMode, callPc, result, cancelled, approval, grant, failOpen,
    audit, status, holder, verdict, ran, doomed, degraded,  \* as in GovernedCall
    killed          \* history: a kill had been applied when the call began

callVars == <<failMode, ksFailMode, callPc, result, cancelled, approval, grant,
              failOpen, audit, status, holder, verdict, ran, doomed, degraded, killed>>
agentVars == <<vars, callVars>>

\* A call asks whether the agent or its task is revoked, and whether the
\* subscriber is connected.
Gov == INSTANCE GovernedCall
           WITH revoked <- IsRevoked(Task), healthy <- connected, pc <- callPc

\* A kill that concerns the agent has been handed to _apply.
KillApplied == \E m \in received : Concerns(m)

\* The client starts its subscriber, and no call has begun.
AgentInit == Init /\ Gov!Init /\ killed = [c \in Calls |-> FALSE]

\* The subscriber's thread, the caller of stop(), Redis and the network.
SubscriberStep == Next /\ UNCHANGED callVars

Begin(c) == /\ UNCHANGED vars
            /\ Gov!Start(c)
            /\ killed' = [killed EXCEPT ![c] = KillApplied]

\* A call is refused for want of a task, goes on, or loses its coroutine.
Proceed(c) == /\ UNCHANGED <<vars, killed>>
              /\ Gov!StartWithoutTask(c) \/ Gov!Continue(c) \/ Gov!Cancel(c)

\* A human decides on an approval.
Decision(a) == UNCHANGED <<vars, killed>> /\ Gov!Decide(a)

AgentNext == \/ SubscriberStep
             \/ \E c \in Calls : Begin(c) \/ Proceed(c)
             \/ \E a \in Approvals : Decision(a)

AgentSpec == AgentInit /\ [][AgentNext]_agentVars

(***************************************************************************)
(* Properties.                                                             *)
(***************************************************************************)

\* A call that began after a kill of the agent was applied never enters its
\* function, whatever the subscriber has since received, evicted or lost, and
\* whichever task the kill named.
KilledNeverRuns == \A c \in Calls : killed[c] => ~ran[c]

\* The audit trail blames a kill only if there was one: no call is denied as
\* revoked for another agent's or tenant's kill, a lost connection or a stop().
RevokedOnlyByKill ==
    \A c \in Calls : \A i \in 1..Len(audit[c]) :
        audit[c][i].reason = "agent_revoked" => KillApplied

\* In the strict kill-switch mode no function is entered before the subscriber
\* has been connected once: not while it starts, nor ever if it cannot start.
StrictAwaitsSubscription ==
    ksFailMode = "closed" => \A c \in Calls : ran[c] => everConnected

\* The calls behave as GovernedCall says although it is the subscriber they ask,
\* so what is shown there of RevocationCache's readers holds in this process.
ImplementsCalls == Gov!Spec

=============================================================================
