-------------------------- MODULE KillSwitchProofs --------------------------
(***************************************************************************)
(* Theorems about KillSwitch, for every set of messages and every capacity *)
(* of the registry.  The argument: SetRevoked keeps the registry within    *)
(* its capacity and leaves the key it was given in it; so Apply, which     *)
(* adds the agent last, leaves the agent in the registry whenever it adds  *)
(* anything.  Invariant is inductive: whatever is in the registry got      *)
(* there with a kill of ours, so the agent is there too.                   *)
(***************************************************************************)
EXTENDS KillSwitch, Integers, SequenceTheorems, TLAPS

(***************************************************************************)
(* The registry.                                                           *)
(***************************************************************************)

\* The empty registry, and the socket with nothing to read.
LEMMA EmptySequence ==
    /\ \A S : <<>> \in Seq(S)
    /\ Len(<<>>) = 0
    /\ Range(<<>>) = {}
<1>1. \A S : <<>> \in Seq(S)
    BY EmptySeq
<1>2. Len(<<>>) = 0
    OBVIOUS
<1>3. Range(<<>>) = {}
    <2>1. <<>> \in Seq({})
        BY <1>1
    <2>2. Range(<<>>) \in SUBSET {}
        BY <2>1, RangeOfSeq
    <2> QED
        BY <2>2
<1> QED
    BY <1>1, <1>2, <1>3

\* Adding a key (SetRevoked, _set_revoked) leaves a registry within its
\* capacity, which holds the key and nothing that was not there before.
LEMMA SetRevokedProperties ==
    ASSUME NEW reg \in Seq(Keys), Len(reg) <= RevokedMax, NEW key \in Keys
    PROVE  /\ SetRevoked(reg, key) \in Seq(Keys)
           /\ Len(SetRevoked(reg, key)) <= RevokedMax
           /\ key \in Range(SetRevoked(reg, key))
           /\ Range(SetRevoked(reg, key)) \subseteq Range(reg) \cup {key}
<1>1. CASE key \in Range(reg)
    BY <1>1 DEF SetRevoked
<1>2. CASE key \notin Range(reg)
    <2> DEFINE long == Append(reg, key)
               first == Len(long) - RevokedMax + 1
               short == SubSeq(long, first, Len(long))
    <2>1. /\ long \in Seq(Keys) /\ Len(long) = Len(reg) + 1 /\ Len(reg) \in Nat
          /\ \A i \in 1..Len(reg) : long[i] = reg[i]
          /\ long[Len(long)] = key
        BY AppendProperties, LenProperties
    <2>2. RevokedMax \in Nat \ {0}
        BY ConfigAssumption
    <2>3. Range(reg) = {reg[i] : i \in 1..Len(reg)}
        BY RangeEquality
    <2>4. \A i \in 1..Len(long) : long[i] \in Range(reg) \cup {key}
        BY <2>1, <2>3
    <2>5. SetRevoked(reg, key) = IF Len(long) <= RevokedMax THEN long ELSE short
        BY <1>2 DEF SetRevoked, Evict
    <2>6. CASE Len(long) <= RevokedMax
        <3>1. Range(long) = {long[i] : i \in 1..Len(long)}
            BY <2>1, RangeEquality
        <3>2. Len(long) \in 1..Len(long)
            BY <2>1
        <3> QED
            BY <2>1, <2>4, <2>5, <2>6, <3>1, <3>2
    <2>7. CASE Len(long) > RevokedMax
        <3>1. first \in 1..Len(long) /\ first \in Int /\ Len(long) \in Int
            BY <2>1, <2>2, <2>7
        <3>2. \A i \in first..Len(long) : long[i] \in Keys
            BY <2>1, <3>1, ElementOfSeq
        <3>3. /\ short \in Seq(Keys)
              /\ Len(short) = IF first <= Len(long) THEN Len(long) - first + 1 ELSE 0
              /\ \A i \in 1..Len(long) - first + 1 : short[i] = long[first + i - 1]
            <4> HIDE DEF long, first
            <4> QED
                BY <3>1, <3>2, SubSeqProperties
        <3>4. Len(short) = RevokedMax
            BY <2>1, <2>2, <3>1, <3>3
        <3>5. \A i \in 1..RevokedMax : short[i] = long[first + i - 1] /\ first + i - 1 \in 1..Len(long)
            BY <2>1, <2>2, <3>1, <3>3
        <3>6. Range(short) = {short[i] : i \in 1..RevokedMax}
            BY <3>3, <3>4, RangeEquality
        <3>7. short[RevokedMax] = key /\ RevokedMax \in 1..RevokedMax
            BY <2>1, <2>2, <3>5
        <3>8. SetRevoked(reg, key) = short
            <4>1. Len(long) \in Int /\ RevokedMax \in Int
                BY <2>1, <2>2
            <4> HIDE DEF long, short
            <4> QED
                BY <2>5, <2>7, <4>1
        <3>9. key \in Range(short)
            BY <3>6, <3>7
        <3>10. Range(short) \subseteq Range(reg) \cup {key}
            BY <2>4, <3>5, <3>6
        <3>11. Len(short) <= RevokedMax
            BY <2>2, <3>4
        <3> HIDE DEF short
        <3> QED
            BY <3>3, <3>8, <3>9, <3>10, <3>11
    <2> QED
        BY <2>1, <2>2, <2>6, <2>7
<1> QED
    BY <1>1, <1>2

\* Applying a message (Apply, _apply) adds the agent last: a kill of ours leaves
\* it in the registry, evictions notwithstanding, and nothing else adds a key.
LEMMA ApplyProperties ==
    ASSUME NEW reg \in Seq(Keys), Len(reg) <= RevokedMax, NEW m \in Messages
    PROVE  /\ Apply(reg, m) \in Seq(Keys)
           /\ Len(Apply(reg, m)) <= RevokedMax
           /\ Concerns(m) => /\ Agent \in Range(Apply(reg, m))
                             /\ Range(Apply(reg, m)) \subseteq Range(reg) \cup {Agent, m.task}
           /\ ~Concerns(m) => Apply(reg, m) = reg
<1>1. Agent \in Keys /\ m.task \in Keys
    BY DEF Keys
<1> DEFINE mid == RevokeTask(reg, m)
<1>2. /\ mid \in Seq(Keys) /\ Len(mid) <= RevokedMax
      /\ Range(mid) \subseteq Range(reg) \cup {m.task}
    BY <1>1, SetRevokedProperties DEF RevokeTask
<1>3. /\ RevokeTaskAndAgent(reg, m) \in Seq(Keys)
      /\ Len(RevokeTaskAndAgent(reg, m)) <= RevokedMax
      /\ Agent \in Range(RevokeTaskAndAgent(reg, m))
      /\ Range(RevokeTaskAndAgent(reg, m)) \subseteq Range(mid) \cup {Agent}
    <2> HIDE DEF mid
    <2> RevokeTaskAndAgent(reg, m) = SetRevoked(mid, Agent)
        BY DEF RevokeTaskAndAgent, mid
    <2> QED
        BY <1>1, <1>2, SetRevokedProperties
<1>4. /\ SetRevoked(reg, Agent) \in Seq(Keys)
      /\ Len(SetRevoked(reg, Agent)) <= RevokedMax
      /\ Agent \in Range(SetRevoked(reg, Agent))
      /\ Range(SetRevoked(reg, Agent)) \subseteq Range(reg) \cup {Agent}
    BY <1>1, SetRevokedProperties
<1>5. CASE m.scope \in {"tenant", "agent"}
    BY <1>4, <1>5 DEF Apply, Concerns, TenantOk
<1>6. CASE m.scope \in {"task", "single"}
    BY <1>2, <1>3, <1>6 DEF Apply, Concerns, TenantOk
<1>7. CASE m.scope \notin {"tenant", "agent", "task", "single"}
    BY <1>7 DEF Apply, Concerns
<1> QED
    BY <1>5, <1>6, <1>7

(***************************************************************************)
(* The inductive invariant.                                                *)
(***************************************************************************)

Invariant == TypeOK /\ KillsEnforced /\ OnlyOwnKills

\* Whatever is revoked, the agent is (the registry's content has no other cause).
LEMMA AgentRevoked ==
    ASSUME Invariant
    PROVE  /\ \A key \in Range(registry) : Agent \in Range(registry)
           /\ \A t \in Keys : IsRevoked(t) <=> Agent \in Range(registry)
           /\ \A m \in received : Concerns(m) => Agent \in Range(registry)
<1>1. Agent \in Keys
    BY DEF Keys
<1>2. \A m \in received : Concerns(m) => Agent \in Range(registry)
    BY <1>1 DEF Invariant, KillsEnforced, IsRevoked
<1>3. \A key \in Range(registry) : Agent \in Range(registry)
    BY <1>2 DEF Invariant, OnlyOwnKills
<1>4. \A t \in Keys : IsRevoked(t) <=> Agent \in Range(registry)
    BY <1>3 DEF IsRevoked
<1> QED
    BY <1>2, <1>3, <1>4

\* The subscriber starts with an empty registry and nothing received.
LEMMA InvariantInitially == Init => Invariant
<1> SUFFICES ASSUME Init PROVE Invariant
    OBVIOUS
<1>1. Range(registry) = {}
    BY EmptySequence DEF Init
<1>2. TypeOK
    <2>1. registry \in Seq(Keys) /\ wire \in Seq(Messages) /\ Len(registry) = 0 /\ Len(wire) = 0
        BY EmptySequence DEF Init
    <2>2. drops \in 0..DropsMax /\ 0 <= RevokedMax /\ 0 <= WireMax
        BY ConfigAssumption DEF Init
    <2> QED
        BY <2>1, <2>2 DEF Init, TypeOK
<1> QED
    BY <1>1, <1>2 DEF Init, Invariant, KillsEnforced, OnlyOwnKills

\* The safety half reads only the registry and what was received.
LEMMA RegistryUntouched ==
    ASSUME Invariant, UNCHANGED <<registry, received>>
    PROVE  KillsEnforced' /\ OnlyOwnKills'
BY DEF Invariant, KillsEnforced, OnlyOwnKills, IsRevoked

\* Reading a message keeps the invariant: the one step that writes the registry.
LEMMA ReadMessageInvariant ==
    ASSUME Invariant, ReadMessage
    PROVE  Invariant'
<1> DEFINE m == Head(wire)
<1>1. /\ m \in Messages /\ Tail(wire) \in Seq(Messages)
      /\ Len(Tail(wire)) = Len(wire) - 1 /\ Len(wire) \in Nat
    BY HeadTailProperties, LenProperties DEF ReadMessage, Invariant, TypeOK
<1>2. registry \in Seq(Keys) /\ Len(registry) <= RevokedMax
    BY DEF Invariant, TypeOK
<1>3. registry' = Apply(registry, m) /\ received' = received \cup {m}
    BY DEF ReadMessage
<1> HIDE DEF m
<1>4. TypeOK'
    <2>1. registry' \in Seq(Keys) /\ Len(registry') <= RevokedMax
        BY <1>1, <1>2, <1>3, ApplyProperties
    <2>2. wire' \in Seq(Messages) /\ Len(wire') <= WireMax
        BY <1>1, ConfigAssumption DEF ReadMessage, Invariant, TypeOK
    <2> QED
        BY <1>1, <1>3, <2>1, <2>2 DEF ReadMessage, Invariant, TypeOK
<1>5. CASE Concerns(m)
    <2>1. /\ Agent \in Range(registry')
          /\ Range(registry') \subseteq Range(registry) \cup {Agent, m.task}
        BY <1>1, <1>2, <1>3, <1>5, ApplyProperties
    <2>2. KillsEnforced'
        BY <2>1 DEF KillsEnforced, IsRevoked
    <2>3. OnlyOwnKills'
        BY <1>3, <1>5, <2>1 DEF Invariant, OnlyOwnKills
    <2> QED
        BY <1>4, <2>2, <2>3 DEF Invariant
<1>6. CASE ~Concerns(m)
    <2>1. registry' = registry
        BY <1>1, <1>2, <1>3, <1>6, ApplyProperties
    <2>2. KillsEnforced'
        BY <1>3, <1>6, <2>1 DEF Invariant, KillsEnforced, IsRevoked
    <2>3. OnlyOwnKills'
        BY <1>3, <2>1 DEF Invariant, OnlyOwnKills
    <2> QED
        BY <1>4, <2>2, <2>3 DEF Invariant
<1> QED
    BY <1>5, <1>6

\* A connection that starts or ends leaves nothing to read.
LEMMA EmptyWire == <<>> \in Seq(Messages) /\ Len(<<>>) <= WireMax
BY EmptySequence, ConfigAssumption

\* Every step keeps the invariant.
LEMMA InvariantPreserved == Invariant /\ [Next]_vars => Invariant'
<1> SUFFICES ASSUME Invariant, [Next]_vars PROVE Invariant'
    OBVIOUS
<1> USE DEF Invariant
<1>1. CASE ReadMessage
    BY <1>1, ReadMessageInvariant
<1>2. CASE ImportRedis \/ TopCheck \/ SetConnected \/ ListenCheck \/ ReadNothing \/ BackoffEnds
    BY <1>2, RegistryUntouched
       DEF ImportRedis, TopCheck, SetConnected, ListenCheck, ReadNothing, BackoffEnds,
           TypeOK
<1>3. CASE Connect \/ LeaveLoop
    <2>1. wire' = <<>> /\ UNCHANGED <<registry, received>>
        BY <1>3 DEF Connect, LeaveLoop
    <2>2. wire' \in Seq(Messages) /\ Len(wire') <= WireMax
        BY <2>1, EmptyWire
    <2> QED
        BY <1>3, <2>1, <2>2, RegistryUntouched DEF Connect, LeaveLoop, TypeOK
<1>4. CASE ConnectFails \/ ReadRaises
    <2>1. wire' = <<>> /\ UNCHANGED <<registry, received>>
        BY <1>4 DEF ConnectFails, ReadRaises, Raise
    <2>2. wire' \in Seq(Messages) /\ Len(wire') <= WireMax
        BY <2>1, EmptyWire
    <2> QED
        BY <1>4, <2>1, <2>2, RegistryUntouched
           DEF ConnectFails, ReadRaises, Raise, TypeOK
<1>5. CASE StopSet \/ StopReturns
    BY <1>5, RegistryUntouched DEF StopSet, StopReturns, threadVars, TypeOK
<1>6. ASSUME NEW m \in Messages, Publish(m) PROVE Invariant'
    <2>1. UNCHANGED <<threadVars, connected, stop, stopPc, link, drops>>
        BY <1>6 DEF Publish
    <2>2. wire' \in Seq(Messages) /\ Len(wire') <= WireMax
        <3>1. CASE link = "up"
            <4>1. wire \in Seq(Messages) /\ Len(wire) \in Nat
                BY LenProperties DEF TypeOK
            <4>2. wire' = Append(wire, m) /\ Len(wire) < WireMax
                BY <1>6, <3>1 DEF Publish
            <4>3. wire' \in Seq(Messages) /\ Len(wire') = Len(wire) + 1
                BY <4>1, <4>2, AppendProperties
            <4> QED
                BY <4>1, <4>2, <4>3, ConfigAssumption
        <3>2. CASE link # "up"
            BY <1>6, <3>2 DEF Publish, TypeOK
        <3> QED
            BY <3>1, <3>2
    <2> QED
        BY <2>1, <2>2, RegistryUntouched DEF threadVars, TypeOK
<1>7. CASE ServerSubscribes
    BY <1>7, RegistryUntouched DEF ServerSubscribes, threadVars, TypeOK
<1>8. CASE Drop
    <2>1. PICK n \in 0..Len(wire) : wire' = SubSeq(wire, 1, n)
        BY <1>8 DEF Drop
    <2>2. wire \in Seq(Messages) /\ Len(wire) \in Nat /\ n \in Int
        BY <2>1, LenProperties DEF TypeOK
    <2>3. \A i \in 1..n : wire[i] \in Messages
        BY <2>2, ElementOfSeq
    <2>4. wire' \in Seq(Messages) /\ Len(wire') = IF 1 <= n THEN n - 1 + 1 ELSE 0
        BY <2>1, <2>2, <2>3, SubSeqProperties
    <2>5. Len(wire') <= WireMax
        BY <2>1, <2>2, <2>4, ConfigAssumption DEF TypeOK
    <2>6. drops' \in 0..DropsMax
        BY <1>8, ConfigAssumption DEF Drop, TypeOK
    <2> QED
        BY <1>8, <2>4, <2>5, <2>6, RegistryUntouched DEF Drop, threadVars, TypeOK
<1>9. CASE UNCHANGED vars
    BY <1>9, RegistryUntouched DEF vars, TypeOK
<1> QED
    BY <1>1, <1>2, <1>3, <1>4, <1>5, <1>6, <1>7, <1>8, <1>9
       DEF Next, Thread, Environment

(***************************************************************************)
(* The theorems.                                                           *)
(***************************************************************************)

\* Every reachable state satisfies the invariant.
THEOREM InvariantHolds == Spec => []Invariant
BY InvariantInitially, InvariantPreserved, PTL DEF Spec

\* The variables keep their types and the registry its cap (_REVOKED_MAX).
THEOREM TypeCorrect == Spec => []TypeOK
<1>1. Invariant => TypeOK
    BY DEF Invariant
<1> QED
    BY <1>1, InvariantHolds, PTL

\* A kill handed to _apply is enforced from then on, however many more follow.
THEOREM KillsStayEnforced == Spec => []KillsEnforced
<1>1. Invariant => KillsEnforced
    BY DEF Invariant
<1> QED
    BY <1>1, InvariantHolds, PTL

\* No other agent's or tenant's kill revokes this agent or one of its tasks.
THEOREM OnlyOwnKillsRevoke == Spec => []OnlyOwnKills
<1>1. Invariant => OnlyOwnKills
    BY DEF Invariant
<1> QED
    BY <1>1, InvariantHolds, PTL

\* A step leaves the agent revoked if it was; only reading a message revokes it.
LEMMA AgentStaysRevoked ==
    ASSUME Invariant, [Next]_vars
    PROVE  Agent \in Range(registry) => Agent \in Range(registry')
<1>1. CASE ReadMessage
    <2>1. Invariant'
        BY InvariantPreserved
    <2>2. SUFFICES ASSUME Agent \in Range(registry) PROVE Agent \in Range(registry')
        OBVIOUS
    <2>3. PICK m \in received : Concerns(m)
        BY <2>2 DEF Invariant, OnlyOwnKills
    <2>4. m \in received'
        BY <1>1, <2>3 DEF ReadMessage
    <2>5. Agent \in Keys
        BY DEF Keys
    <2> QED
        BY <2>1, <2>3, <2>4, <2>5 DEF Invariant, KillsEnforced, IsRevoked
<1>2. CASE ~ReadMessage
    BY <1>2 DEF Next, Thread, Environment, ImportRedis, TopCheck, Connect, SetConnected,
                ConnectFails, ListenCheck, LeaveLoop, ReadNothing, ReadRaises, BackoffEnds,
                Raise, StopSet, StopReturns, ServerSubscribes, Drop, Publish,
                threadVars, vars
<1> QED
    BY <1>1, <1>2

\* is_revoked never goes back from True to False, for any task.
THEOREM RevocationIsSticky == Spec => RevocationSticky
<1>1. ASSUME Invariant, [Next]_vars
      PROVE  [\A t \in Keys : IsRevoked(t) => IsRevoked(t)']_vars
    <2>1. ASSUME NEW t \in Keys, IsRevoked(t) PROVE IsRevoked(t)'
        <3>1. Agent \in Range(registry)
            BY <1>1, <2>1, AgentRevoked
        <3>2. Agent \in Range(registry')
            BY <1>1, <3>1, AgentStaysRevoked
        <3> QED
            BY <3>2 DEF IsRevoked
    <2> QED
        BY <2>1
<1> QED
    BY <1>1, InvariantHolds, PTL DEF Spec, RevocationSticky

(***************************************************************************)
(* What healthy() answers.                                                 *)
(***************************************************************************)

\* The thread has a connection from subscribe() to the end of its loop, and the
\* stop event is set before stop() does anything else.
HealthInvariant ==
    /\ HealthTracksLoop
    /\ StoppedNearlyDown
    /\ pc \in {"subscribed", "listen", "read"} => link # "none"
    /\ stopPc # "idle" => stop

LEMMA HealthInvariantPreserved == HealthInvariant /\ [Next]_vars => HealthInvariant'
<1> SUFFICES ASSUME HealthInvariant, [Next]_vars PROVE HealthInvariant'
    OBVIOUS
<1> USE DEF HealthInvariant, HealthTracksLoop, StoppedNearlyDown
<1>1. CASE ImportRedis \/ TopCheck \/ Connect \/ SetConnected \/ ListenCheck
    BY <1>1 DEF ImportRedis, TopCheck, Connect, SetConnected, ListenCheck
<1>2. CASE LeaveLoop \/ ConnectFails \/ ReadRaises
    BY <1>2 DEF LeaveLoop, ConnectFails, ReadRaises, Raise
<1>3. CASE ReadMessage \/ ReadNothing \/ BackoffEnds
    BY <1>3 DEF ReadMessage, ReadNothing, BackoffEnds
<1>4. CASE StopSet \/ StopReturns
    BY <1>4 DEF StopSet, StopReturns, threadVars
<1>5. CASE Environment
    BY <1>5 DEF Environment, ServerSubscribes, Drop, Publish, threadVars
<1>6. CASE UNCHANGED vars
    BY <1>6 DEF vars
<1> QED
    BY <1>1, <1>2, <1>3, <1>4, <1>5, <1>6 DEF Next, Thread

\* Every reachable state satisfies it.
LEMMA HealthInvariantHolds == Spec => []HealthInvariant
<1>1. Init => HealthInvariant
    BY DEF Init, HealthInvariant, HealthTracksLoop, StoppedNearlyDown
<1> QED
    BY <1>1, HealthInvariantPreserved, PTL DEF Spec

\* healthy() is True only in the read loop of a connection that was made, and
\* there it is False only after a stop(): for every number of losses and stops.
THEOREM HealthFollowsLoop == Spec => []HealthTracksLoop
<1>1. HealthInvariant => HealthTracksLoop
    BY DEF HealthInvariant
<1> QED
    BY <1>1, HealthInvariantHolds, PTL

\* A subscriber still healthy after stop() returned is about to leave its loop.
THEOREM StoppedIsNearlyDown == Spec => []StoppedNearlyDown
<1>1. HealthInvariant => StoppedNearlyDown
    BY DEF HealthInvariant
<1> QED
    BY <1>1, HealthInvariantHolds, PTL

(***************************************************************************)
(* The refinement.                                                         *)
(***************************************************************************)

\* Step simulation: each step of the subscriber is a step of RevocationCache
\* under the refinement mapping, or leaves its variables alone.
LEMMA StepSimulation ==
    ASSUME Invariant, Invariant', [Next]_vars
    PROVE  [Cache!CacheNext]_(Cache!cacheVars)
<1> DEFINE revokedNow == Agent \in Range(registry)
<1>1. CASE ReadMessage
    <2>1. connected' = connected
        BY <1>1 DEF ReadMessage
    <2>2. revokedNow => revokedNow'
        BY AgentStaysRevoked
    <2> QED
        BY <2>1, <2>2 DEF Cache!CacheNext, Cache!Kill, Cache!cacheVars
<1>2. CASE ~ReadMessage
    <2>1. registry' = registry
        BY <1>2 DEF Next, Thread, Environment, ImportRedis, TopCheck, Connect, SetConnected,
                ConnectFails, ListenCheck, LeaveLoop, ReadNothing, ReadRaises, BackoffEnds,
                Raise, StopSet, StopReturns, ServerSubscribes, Drop, Publish,
                threadVars, vars
    <2>2. connected \in BOOLEAN /\ connected' \in BOOLEAN
        BY DEF Invariant, TypeOK
    <2> QED
        BY <2>1, <2>2 DEF Cache!CacheNext, Cache!HealthChange, Cache!cacheVars
<1> QED
    BY <1>1, <1>2

\* The subscriber implements the cache that a governed call reads: revoked once,
\* revoked for good, over every loss and reconnection.
THEOREM ImplementsRevocationCache == Spec => ImplementsCache
<1>1. Init => Cache!CacheInit
    <2> SUFFICES ASSUME Init PROVE Cache!CacheInit
        OBVIOUS
    <2>1. Range(registry) = {}
        BY EmptySequence DEF Init
    <2>2. (Agent \in Range(registry)) = FALSE
        BY <2>1
    <2>3. connected \in BOOLEAN
        BY DEF Init
    <2> QED
        BY <2>2, <2>3 DEF Cache!CacheInit
<1>2. Invariant /\ Invariant' /\ [Next]_vars => [Cache!CacheNext]_(Cache!cacheVars)
    BY StepSimulation
<1> QED
    BY <1>1, <1>2, InvariantHolds, PTL DEF Spec, ImplementsCache, Cache!CacheSpec

=============================================================================
