----------------------------- MODULE KillSwitch -----------------------------
(***************************************************************************)
(* The Redis kill-switch subscriber (_RevocationSubscriber): one daemon    *)
(* thread that subscribes to the tenant's channel and keeps a bounded      *)
(* registry of revoked keys, the thread that calls stop(), and the Redis   *)
(* server the connection leads to.                                         *)
(*                                                                         *)
(* Abstracted: denial reasons, the reconnect backoff's duration, the       *)
(* diagnostics' text, and the payload's encoding (a message that fails to  *)
(* parse is swallowed like one whose scope is unknown).                    *)
(***************************************************************************)
EXTENDS Naturals, Sequences, Functions

CONSTANTS
    Agent, Tenant,  \* the client's own agent_id and tenant_id
    Absent,         \* a field the message omits (or an id never configured)
    Messages,       \* the kill-switch messages that may be published
    RevokedMax,     \* _REVOKED_MAX: capacity of the registry
    WireMax,        \* bound: messages delivered to the socket and not yet read
    DropsMax        \* bound: times the connection is lost

ASSUME ConfigAssumption ==
    /\ Agent # Absent /\ Tenant # Absent
    /\ RevokedMax \in Nat \ {0}
    /\ WireMax \in Nat /\ DropsMax \in Nat

\* The fields of RevocationPayload that _apply looks at.
ASSUME MessagesAssumption ==
    \A m \in Messages :
        /\ DOMAIN m = {"scope", "tenant", "agent", "task"}
        /\ m.scope \in {"tenant", "agent", "task", "single", "other"}

Keys == {Agent} \cup {m.task : m \in Messages}

VARIABLES
    registry,       \* _revoked: the keys, oldest first
    connected,      \* the _connected event
    everConnected,  \* _ever_connected
    stop,           \* the _stop event
    pc,             \* where the subscriber thread is in _run
    stopPc,         \* where the caller of stop() is
    link,           \* the connection as the server and the network see it
    wire,           \* messages the socket has received and nobody has read
    drops,          \* how often the connection was lost
    received        \* history: messages handed to _apply

threadVars == <<registry, everConnected, pc, received>>
vars == <<registry, connected, everConnected, stop, pc, stopPc, link, wire,
          drops, received>>

(***************************************************************************)
(* The registry.                                                           *)
(***************************************************************************)

\* Mutant: one entry too many.
EvictTooLate(reg) == IF Len(reg) <= RevokedMax + 1 THEN reg
                     ELSE SubSeq(reg, Len(reg) - RevokedMax, Len(reg))

\* The registry with its oldest entries evicted down to its capacity.
Evict(reg) == IF Len(reg) <= RevokedMax THEN reg
              ELSE SubSeq(reg, Len(reg) - RevokedMax + 1, Len(reg))

\* Updating an entry leaves it where it is in the order of insertion.
SetRevoked(reg, key) == IF key \in Range(reg) THEN reg ELSE Evict(Append(reg, key))

\* Mutant: a message without a tenant is not accepted.
TenantExact(m) == m.tenant = Tenant

\* Mutant: the tenant guard is left to the channel's name.
AnyTenant(m) == TRUE

TenantOk(m) == m.tenant \in {Absent, Tenant}

RevokeTask(reg, m) == IF m.task = Absent THEN reg ELSE SetRevoked(reg, m.task)

\* Mutant: the agent first, then its task.
RevokeAgentAndTask(reg, m) == RevokeTask(SetRevoked(reg, Agent), m)

\* The task first, then its agent.
RevokeTaskAndAgent(reg, m) == SetRevoked(RevokeTask(reg, m), Agent)

\* Mutant: tasks of other agents are recorded too.
ApplyToAnyAgent(reg, m) ==
    CASE m.scope = "tenant" /\ m.tenant = Tenant -> SetRevoked(reg, Agent)
      [] m.scope = "agent" /\ m.agent = Agent /\ TenantOk(m) -> SetRevoked(reg, Agent)
      [] m.scope \in {"task", "single"} /\ TenantOk(m) -> RevokeTask(reg, m)
      [] OTHER -> reg

Apply(reg, m) ==
    CASE m.scope = "tenant" /\ m.tenant = Tenant -> SetRevoked(reg, Agent)
      [] m.scope = "agent" /\ m.agent = Agent /\ TenantOk(m) -> SetRevoked(reg, Agent)
      [] m.scope \in {"task", "single"} /\ m.agent = Agent /\ TenantOk(m)
            -> RevokeTaskAndAgent(reg, m)
      [] OTHER -> reg

IsRevoked(task) == Agent \in Range(registry) \/ (task # Absent /\ task \in Range(registry))

(***************************************************************************)
(* The subscriber thread, _run.                                            *)
(***************************************************************************)

Init == /\ registry = <<>>
        /\ connected = FALSE /\ everConnected = FALSE /\ stop = FALSE
        /\ pc = "import" /\ stopPc = "idle"
        /\ link = "none" /\ wire = <<>> /\ drops = 0
        /\ received = {}

\* The redis package may be missing: the thread ends at once.
ImportRedis == /\ pc = "import"
               /\ pc' \in {"top", "exited"}
               /\ UNCHANGED <<registry, connected, everConnected, stop, stopPc,
                              link, wire, received, drops>>

TopCheck == /\ pc = "top"
            /\ pc' = IF stop THEN "exited" ELSE "connect"
            /\ UNCHANGED <<registry, connected, everConnected, stop, stopPc,
                           link, wire, received, drops>>

\* Mutant: the registry starts afresh with every connection.
ConnectAfresh == /\ pc = "connect"
                 /\ link' = "pending" /\ wire' = <<>>
                 /\ registry' = <<>>
                 /\ pc' = "subscribed"
                 /\ UNCHANGED <<connected, everConnected, stop, stopPc,
                                received, drops>>

\* subscribe() sends the command and does not wait for the server's answer.
Connect == /\ pc = "connect"
           /\ link' = "pending" /\ wire' = <<>>
           /\ pc' = "subscribed"
           /\ UNCHANGED <<registry, connected, everConnected, stop, stopPc,
                          received, drops>>

SetConnected == /\ pc = "subscribed"
                /\ everConnected' = TRUE
                /\ connected' = TRUE
                /\ pc' = "listen"
                /\ UNCHANGED <<registry, stop, stopPc, link, wire, received, drops>>

\* Mutant: an exception ends the thread.
RaiseForGood == /\ connected' = FALSE
                /\ link' = "none" /\ wire' = <<>>
                /\ pc' = "exited"
                /\ UNCHANGED <<registry, everConnected, stop, stopPc, received, drops>>

\* The exception handler: connected is cleared, the connection abandoned.
Raise == /\ connected' = FALSE
         /\ link' = "none" /\ wire' = <<>>
         /\ pc' = IF stop THEN "exited" ELSE "backoff"
         /\ UNCHANGED <<registry, everConnected, stop, stopPc, received, drops>>

ConnectFails == pc = "connect" /\ Raise

ListenCheck == /\ pc = "listen" /\ ~stop
               /\ pc' = "read"
               /\ UNCHANGED <<registry, connected, everConnected, stop, stopPc,
                              link, wire, received, drops>>

\* Mutant: the read loop is left with connected still set.
LeaveLoopConnected == /\ pc = "listen" /\ stop
                      /\ link' = "none" /\ wire' = <<>>
                      /\ pc' = "exited"
                      /\ UNCHANGED <<registry, connected, everConnected, stop, stopPc,
                                     received, drops>>

LeaveLoop == /\ pc = "listen" /\ stop
             /\ connected' = FALSE
             /\ link' = "none" /\ wire' = <<>>
             /\ pc' = "exited"
             /\ UNCHANGED <<registry, everConnected, stop, stopPc, received, drops>>

\* Mutant: a message read is not applied.
ReadAndForget == /\ pc = "read" /\ wire # <<>>
                 /\ wire' = Tail(wire)
                 /\ pc' = "listen"
                 /\ UNCHANGED <<registry, connected, everConnected, stop, stopPc, link,
                                received, drops>>

ReadMessage == /\ pc = "read" /\ wire # <<>>
               /\ registry' = Apply(registry, Head(wire))
               /\ received' = received \cup {Head(wire)}
               /\ wire' = Tail(wire)
               /\ pc' = "listen"
               /\ UNCHANGED <<connected, everConnected, stop, stopPc, link, drops>>

ReadNothing == /\ pc = "read" /\ wire = <<>> /\ link # "closed"
               /\ pc' = "listen"
               /\ UNCHANGED <<registry, connected, everConnected, stop, stopPc,
                              link, wire, received, drops>>

\* Only a connection whose end has reached this host, or that stopped in the middle
\* of a message (the socket's timeout then raises), makes the read fail: get_message
\* writes nothing, so it cannot notice a peer that fell silent between messages.
ReadRaises == pc = "read" /\ link = "closed" /\ Raise

\* stop() ends the wait early.
BackoffEnds == /\ pc = "backoff"
               /\ pc' = "top"
               /\ UNCHANGED <<registry, connected, everConnected, stop, stopPc,
                              link, wire, received, drops>>

Thread == \/ ImportRedis \/ TopCheck \/ Connect \/ SetConnected \/ ConnectFails
          \/ ListenCheck \/ LeaveLoop \/ ReadMessage \/ ReadNothing
          \/ ReadRaises \/ BackoffEnds

(***************************************************************************)
(* The caller of stop(): client.close(), which may be called again.        *)
(***************************************************************************)

StopSet == /\ stopPc \in {"idle", "stopped"}
           /\ stop' = TRUE
           /\ stopPc' = "joining"
           /\ UNCHANGED <<threadVars, connected, link, wire, drops>>

\* Mutant: the flag is left for the thread to clear.
StopReturnsOnly == /\ stopPc = "joining"
                   /\ stopPc' = "stopped"
                   /\ UNCHANGED <<threadVars, connected, stop, link, wire, drops>>

\* The join ends when the thread does, or after two seconds whatever it is doing.
StopReturns == /\ stopPc = "joining"
               /\ connected' = FALSE
               /\ stopPc' = "stopped"
               /\ UNCHANGED <<threadVars, stop, link, wire, drops>>

(***************************************************************************)
(* The Redis server, its publishers, and the network.                      *)
(***************************************************************************)

\* A message that means to stop this agent, by the scopes _apply documents.
Concerns(m) == \/ m.scope = "tenant" /\ m.tenant = Tenant
               \/ /\ m.scope \in {"agent", "task", "single"}
                  /\ m.agent = Agent /\ m.tenant \in {Absent, Tenant}

\* Pub/sub keeps nothing for a subscriber that is not there.
Publish(m) == /\ IF link = "up"
                 THEN Len(wire) < WireMax /\ wire' = Append(wire, m)
                 ELSE UNCHANGED wire
              /\ UNCHANGED <<threadVars, connected, stop, stopPc, link, drops>>

ServerSubscribes == /\ link = "pending"
                    /\ link' = "up"
                    /\ UNCHANGED <<threadVars, connected, stop, stopPc, wire, drops>>

\* The connection is lost: in a way the next read notices ("closed": reset, the
\* server refused the subscription, or a message arrived in part and the rest does
\* not come) or not ("silent").  What was on its way may be lost from any point on.
Drop == /\ link \in {"pending", "up"}
        /\ drops < DropsMax
        /\ drops' = drops + 1
        /\ link' \in {"closed", "silent"}
        /\ \E n \in 0..Len(wire) : wire' = SubSeq(wire, 1, n)
        /\ UNCHANGED <<threadVars, connected, stop, stopPc>>

Environment == ServerSubscribes \/ Drop \/ \E m \in Messages : Publish(m)

Next == Thread \/ StopSet \/ StopReturns \/ Environment

Spec == Init /\ [][Next]_vars

\* The daemon thread keeps running (every wait in it has a timeout), a call of
\* stop() returns, Redis answers a SUBSCRIBE, and a server that accepts
\* connections again and again is reached in the end.
Fairness == /\ WF_vars(Thread)
            /\ WF_vars(StopReturns)
            /\ WF_vars(ServerSubscribes)
            /\ SF_vars(Connect)

LiveSpec == Spec /\ Fairness

(***************************************************************************)
(* Properties.                                                             *)
(***************************************************************************)

\* The variables have their types, and the registry never outgrows its cap.
TypeOK == /\ registry \in Seq(Keys) /\ Len(registry) <= RevokedMax
          /\ connected \in BOOLEAN /\ everConnected \in BOOLEAN /\ stop \in BOOLEAN
          /\ pc \in {"import", "top", "connect", "subscribed", "listen", "read",
                     "backoff", "exited"}
          /\ stopPc \in {"idle", "joining", "stopped"}
          /\ link \in {"none", "pending", "up", "closed", "silent"}
          /\ wire \in Seq(Messages) /\ Len(wire) <= WireMax
          /\ drops \in 0..DropsMax
          /\ received \subseteq Messages

\* Every kill handed to _apply stops the agent, whatever task asks, for as long
\* as the client lives: no later message may evict the entry that enforces it.
KillsEnforced == \A m \in received : Concerns(m) => \A t \in Keys : IsRevoked(t)

\* Nothing but a kill of this agent revokes it, and a task is in the registry
\* only because a kill named it: other agents and tenants cannot stop us.
OnlyOwnKills ==
    \A key \in Range(registry) :
        \E m \in received : Concerns(m) /\ (key = Agent \/ key = m.task)

\* healthy() follows the read loop: no way out of the loop, by exception, stop()
\* or a connection that was never made, leaves it True, and while the loop runs
\* only a stop() makes it False.
HealthTracksLoop ==
    /\ connected => pc \in {"listen", "read"} /\ link # "none"
    /\ pc \in {"listen", "read"} /\ ~stop => connected

\* A subscriber may be healthy although stop() has returned, when the join timed
\* out before the thread set its flag; but its very next step then clears it.
StoppedNearlyDown == stopPc = "stopped" /\ connected => pc = "listen" /\ stop

\* No step of any thread makes is_revoked answer False where it answered True.
RevocationSticky == [][\A t \in Keys : IsRevoked(t) => IsRevoked(t)']_vars

\* The subscriber keeps the promise GovernedCall relies on: revoked once,
\* revoked for every task and for ever, over any loss and reconnection.
Cache == INSTANCE RevocationCache
            WITH revoked <- Agent \in Range(registry), healthy <- connected
ImplementsCache == Cache!CacheSpec

\* A kill that reached the socket is enforced, unless the connection is lost or
\* the client closed before the thread gets to read it.
DeliveredKillEnforced ==
    \A m \in {msg \in Messages : Concerns(msg)} :
        m \in Range(wire) ~> \/ Agent \in Range(registry)
                             \/ link # "up" \/ stop

\* After a connection loss this host notices, the subscription comes back,
\* unless the client closes or the connection is lost again without notice.
Resubscribes == link = "closed" ~> link \in {"up", "silent"} \/ stop

\* However stop(), its join timeout and the thread race, a stopped subscriber
\* ends up not healthy and stays so.
StoppedStaysDown == stop ~> [](~connected)

(***************************************************************************)
(* What the documentation says and the code does not do.                   *)
(***************************************************************************)

\* healthy() is "True only while currently connected AND subscribed to the
\* revocation channel" (healthy's docstring).
HealthyMeansSubscribed == connected => link = "up"

\* "a stopped subscriber is not healthy by definition" (stop).
StoppedNotHealthy == stopPc = "stopped" => ~connected

=============================================================================
