-------------------------- MODULE RevocationCache --------------------------
(***************************************************************************)
(* What the kill switch promises its readers: the two questions a governed *)
(* call may ask the client, client.is_revoked and                          *)
(* client.is_kill_switch_healthy, and how their answers may change between *)
(* two questions.                                                          *)
(*                                                                         *)
(* A kill is permanent for the life of the client and stops every task of  *)
(* the agent at once; health may come and go.  KillSwitch implements this  *)
(* module and GovernedCall reads it.                                       *)
(***************************************************************************)

VARIABLES
    revoked,    \* is_revoked(client.agent_id, t), the same for every task t
    healthy     \* is_kill_switch_healthy()

cacheVars == <<revoked, healthy>>

CacheTypeOK == revoked \in BOOLEAN /\ healthy \in BOOLEAN

CacheInit == revoked = FALSE /\ healthy \in BOOLEAN

\* A kill-switch message that concerns the agent has been applied.
Kill == /\ ~revoked
        /\ revoked' = TRUE
        /\ UNCHANGED healthy

\* The subscriber connected, lost its connection, or was stopped.
HealthChange == /\ healthy' = ~healthy
                /\ UNCHANGED revoked

CacheNext == Kill \/ HealthChange

CacheSpec == CacheInit /\ [][CacheNext]_cacheVars

=============================================================================
