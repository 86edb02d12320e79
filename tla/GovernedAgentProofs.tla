------------------------- MODULE GovernedAgentProofs -------------------------
(***************************************************************************)
(* Theorems about GovernedAgent, for every set of calls, messages and      *)
(* approvals, every capacity of the registry and any task.  What the       *)
(* subscriber keeps is taken from KillSwitchProofs: its invariant makes    *)
(* the answer to a call depend on nothing but whether a kill of the agent  *)
(* has been applied.  The calls are followed along their program counter,  *)
(* as far as the answers decide how they go on (Advance).                  *)
(***************************************************************************)
EXTENDS GovernedAgent, KillSwitchProofs

(***************************************************************************)
(* The subscriber's answer.                                                *)
(***************************************************************************)

\* is_revoked says yes to the calls, whatever their task, exactly if a kill of
\* the agent has been applied.
LEMMA AnswerIsKill == ASSUME Invariant PROVE IsRevoked(Task) <=> KillApplied
<1>1. IsRevoked(Task) <=> Agent \in Range(registry)
    BY AgentRevoked DEF IsRevoked
<1>2. KillApplied => Agent \in Range(registry)
    BY AgentRevoked DEF KillApplied
<1>3. Agent \in Range(registry) => KillApplied
    BY DEF Invariant, OnlyOwnKills, KillApplied
<1> QED
    BY <1>1, <1>2, <1>3

\* A step of the process is a step of the subscriber, or leaves it alone.
LEMMA SubscriberSteps == [AgentNext]_agentVars => [Next]_vars
BY DEF AgentNext, SubscriberStep, Begin, Proceed, Decision, agentVars

\* What is shown of the subscriber in KillSwitchProofs holds in the process: the
\* calls only ask it.
LEMMA SubscriberUnaffected == AgentSpec => Spec
<1>1. AgentInit => Init
    BY DEF AgentInit
<1> QED
    BY <1>1, SubscriberSteps, PTL DEF AgentSpec, Spec

LEMMA SubscriberHolds == AgentSpec => []Invariant
BY SubscriberUnaffected, InvariantHolds, PTL

(***************************************************************************)
(* The calls behave as GovernedCall says.                                  *)
(***************************************************************************)

\* What the calls are told is what RevocationCache stands for, in every state.
LEMMA AnswerIsCache == Invariant => IsRevoked(Task) = (Agent \in Range(registry))
<1> SUFFICES ASSUME Invariant PROVE IsRevoked(Task) = (Agent \in Range(registry))
    OBVIOUS
<1>1. Task \in Range(registry) => Agent \in Range(registry)
    BY AgentRevoked
<1> QED
    BY <1>1 DEF IsRevoked

\* A step of the subscriber is to the calls a step of RevocationCache, or none.
LEMMA SubscriberSimulation ==
    ASSUME SubscriberStep, [Cache!CacheNext]_(Cache!cacheVars),
           IsRevoked(Task) = (Agent \in Range(registry)),
           IsRevoked(Task)' = (Agent \in Range(registry'))
    PROVE  [Gov!Next]_(Gov!vars)
<1>1. UNCHANGED callVars
    BY DEF SubscriberStep
<1>2. CASE Cache!Kill
    <2>1. Gov!Cache!Kill
        BY <1>2 DEF Cache!Kill, Gov!Cache!Kill
    <2> QED
        BY <1>1, <2>1 DEF Gov!Cache!CacheNext, Gov!KillSwitchChanges, Gov!configVars,
                          Gov!wrapperVars, Gov!serverVars, callVars, Gov!Next
<1>3. CASE Cache!HealthChange
    <2>1. Gov!Cache!HealthChange
        BY <1>3 DEF Cache!HealthChange, Gov!Cache!HealthChange
    <2> QED
        BY <1>1, <2>1 DEF Gov!Cache!CacheNext, Gov!KillSwitchChanges, Gov!configVars,
                          Gov!wrapperVars, Gov!serverVars, callVars, Gov!Next
<1>4. CASE UNCHANGED Cache!cacheVars
    <2>1. IsRevoked(Task)' = IsRevoked(Task) /\ connected' = connected
        BY <1>4 DEF Cache!cacheVars
    <2> QED
        BY <1>1, <2>1 DEF Gov!vars, callVars
<1> QED
    BY <1>2, <1>3, <1>4 DEF Cache!CacheNext

\* The calls of the process behave as GovernedCall says, with the subscriber in
\* the place of RevocationCache.
THEOREM CallsImplemented == AgentSpec => ImplementsCalls
<1>1. AgentInit => Gov!Init
    BY DEF AgentInit
<1>2. Invariant' => (IsRevoked(Task) = (Agent \in Range(registry)))'
    BY AnswerIsCache, PTL
<1>3. Invariant /\ Invariant' /\ [AgentNext]_agentVars => [Gov!Next]_(Gov!vars)
    <2> SUFFICES ASSUME Invariant, Invariant', [AgentNext]_agentVars
                 PROVE  [Gov!Next]_(Gov!vars)
        OBVIOUS
    <2>1. CASE SubscriberStep
        <3>1. [Cache!CacheNext]_(Cache!cacheVars)
            BY <2>1, StepSimulation DEF SubscriberStep
        <3>2. IsRevoked(Task)' = (Agent \in Range(registry'))
            BY <1>2
        <3> QED
            BY <2>1, <3>1, <3>2, AnswerIsCache, SubscriberSimulation
    <2>2. ASSUME NEW c \in Calls, Begin(c) \/ Proceed(c) PROVE Gov!Next
        BY <2>2 DEF Begin, Proceed, Gov!Next
    <2>3. ASSUME NEW a \in Approvals, Decision(a) PROVE Gov!Next
        BY <2>3 DEF Decision, Gov!Next
    <2>4. CASE UNCHANGED agentVars
        BY <2>4 DEF agentVars, vars, callVars, Gov!vars, IsRevoked
    <2> QED
        BY <2>1, <2>2, <2>3, <2>4 DEF AgentNext
<1> QED
    BY <1>1, <1>3, SubscriberHolds, PTL DEF AgentSpec, ImplementsCalls, Gov!Spec

(***************************************************************************)
(* What a step does to its call.                                           *)
(***************************************************************************)

\* The steps a call reaches only past the revocation check and the gate.
Passed == {"verify", "preflight", "poll", "wait", "redeem", "running"}

\* Where a call may be.
Steps == Passed \cup {"idle", "queued", "revocation", "health", "done"}

\* The calls' variables as far as the proof looks at them.
Shapes == /\ callPc \in [Calls -> Steps]
          /\ ran \in [Calls -> BOOLEAN]
          /\ killed \in [Calls -> BOOLEAN]
          /\ audit = [c \in Calls |-> audit[c]]
          /\ \A c \in Calls : audit[c] \in Seq(Range(audit[c]))

\* The call c goes to one of the steps.
MovesTo(c, steps) == /\ callPc' \in [Calls -> Steps]
                     /\ callPc'[c] \in steps
                     /\ \A d \in Calls \ {c} : callPc'[d] = callPc[d]

\* The function may be entered, of the call c alone.
MayRun(c) == /\ ran' \in [Calls -> BOOLEAN]
             /\ \A d \in Calls \ {c} : ran'[d] = ran[d]

\* The call c may log an event, which blames a kill only if blame is true.
MayLog(c, blame) ==
    /\ audit' = [d \in Calls |-> audit'[d]]
    /\ \A d \in Calls : audit'[d] \in Seq(Range(audit'[d]))
    /\ \A d \in Calls \ {c} : audit'[d] = audit[d]
    /\ \A i \in 1..Len(audit'[c]) :
          audit'[c][i].reason = "agent_revoked" =>
             \/ i \in 1..Len(audit[c]) /\ audit'[c][i] = audit[c][i]
             \/ blame

\* A step of the call c: how far the answers of the kill switch decide it.
Advance(c) ==
    /\ MayLog(c, IsRevoked(Task))
    /\ MayRun(c)
    /\ \/ callPc[c] \in Passed /\ MovesTo(c, Passed \cup {"done"})
       \/ /\ ran' = ran
          /\ \/ callPc[c] = "idle" /\ MovesTo(c, {"queued", "revocation", "done"})
             \/ callPc[c] = "queued" /\ MovesTo(c, {"revocation", "done"})
             \/ callPc[c] = "revocation" /\ MovesTo(c, {"revocation", "done"})
             \/ /\ callPc[c] = "revocation" /\ ~IsRevoked(Task)
                /\ MovesTo(c, {"health"})
             \/ callPc[c] = "health" /\ MovesTo(c, {"health", "done"})
             \/ /\ callPc[c] = "health" /\ (ksFailMode = "closed" => connected)
                /\ MovesTo(c, {"verify"})

\* An event more leaves a sequence, which differs from the old one at its end.
LEMMA AppendOwnRange ==
    ASSUME NEW s, s \in Seq(Range(s)), NEW e
    PROVE  /\ Append(s, e) \in Seq(Range(Append(s, e)))
           /\ \A i \in 1..Len(Append(s, e)) :
                \/ i \in 1..Len(s) /\ Append(s, e)[i] = s[i]
                \/ Append(s, e)[i] = e
<1> DEFINE S == Range(s) \cup {e}
           t == Append(s, e)
<1>1. s \in Seq(S)
    BY SeqMonotonic
<1>2. /\ t \in Seq(S) /\ Len(t) = Len(s) + 1 /\ Len(s) \in Nat
      /\ \A i \in 1..Len(s) : t[i] = s[i]
      /\ t[Len(t)] = e
    <2> e \in S
        OBVIOUS
    <2> HIDE DEF S
    <2> QED
        BY <1>1, AppendProperties, LenProperties
<1>3. \A i \in 1..Len(t) : (i \in 1..Len(s) /\ t[i] = s[i]) \/ t[i] = e
    BY <1>2
<1>4. t \in Seq(Range(t))
    <2> HIDE DEF S, t
    <2>1. Range(t) = {t[i] : i \in 1..Len(t)}
        BY <1>2, RangeEquality
    <2>2. \A i \in 1..Len(t) : t[i] \in Range(t)
        BY <2>1
    <2>3. t = [i \in 1..Len(t) |-> t[i]] /\ Len(t) \in Nat
        BY <1>2, LenProperties
    <2> QED
        BY <2>2, <2>3, SeqDef
<1> QED
    BY <1>3, <1>4

\* How the parts a step of GovernedCall is built from move its call.
LEMMA Moved ==
    ASSUME Shapes, NEW c \in Calls, NEW step \in Steps,
           callPc' = [callPc EXCEPT ![c] = step]
    PROVE  MovesTo(c, {step})
BY DEF Shapes, MovesTo

LEMMA Ended ==
    ASSUME Shapes, NEW c \in Calls, NEW how, Gov!End(c, how)
    PROVE  MovesTo(c, {"done"})
BY Moved DEF Gov!End, Steps

LEMMA WentOn ==
    ASSUME Shapes, NEW c \in Calls, NEW next \in Steps, Gov!GoOn(c, next)
    PROVE  MovesTo(c, {next}) /\ audit' = audit /\ ran' = ran
BY Moved DEF Gov!GoOn

LEMMA Entered ==
    ASSUME Shapes, NEW c \in Calls, Gov!Enter(c)
    PROVE  MovesTo(c, {"running"}) /\ audit' = audit /\ MayRun(c)
<1>1. MovesTo(c, {"running"})
    BY Moved DEF Gov!Enter, Steps, Passed
<1> QED
    BY <1>1 DEF Gov!Enter, Shapes, MayRun

LEMMA Discarded ==
    ASSUME Shapes, NEW c \in Calls, Gov!Discard(c)
    PROVE  MovesTo(c, {"done"}) /\ audit' = audit /\ ran' = ran
BY Moved DEF Gov!Discard, Steps

\* A step that logs nothing may be said to have logged, and one that runs
\* nothing to have run.
LEMMA NothingLogged ==
    ASSUME Shapes, NEW c \in Calls, NEW blame
    PROVE  /\ audit' = audit => MayLog(c, blame)
           /\ ran' = ran => MayRun(c)
BY DEF Shapes, MayLog, MayRun

\* An event blames a kill only if its reason does.
LEMMA OneLogged ==
    ASSUME Shapes, NEW c \in Calls, NEW event, Gov!Log(c, event), NEW blame,
           event.reason = "agent_revoked" => blame
    PROVE  MayLog(c, blame)
<1>1. audit' = [audit EXCEPT ![c] = Append(audit[c], event)]
    BY DEF Gov!Log
<1>2. /\ audit' = [d \in Calls |-> audit'[d]]
      /\ audit'[c] = Append(audit[c], event)
      /\ \A d \in Calls \ {c} : audit'[d] = audit[d]
    BY <1>1 DEF Shapes
<1>3. audit[c] \in Seq(Range(audit[c]))
    BY DEF Shapes
<1>4. /\ audit'[c] \in Seq(Range(audit'[c]))
      /\ \A i \in 1..Len(audit'[c]) :
           (i \in 1..Len(audit[c]) /\ audit'[c][i] = audit[c][i]) \/ audit'[c][i] = event
    BY <1>2, <1>3, AppendOwnRange
<1>5. \A d \in Calls : audit'[d] \in Seq(Range(audit'[d]))
    BY <1>2, <1>4 DEF Shapes
<1> QED
    BY <1>2, <1>4, <1>5 DEF MayLog

\* A denied call is done, and its event gives the reason.
LEMMA Denied ==
    ASSUME Shapes, NEW c \in Calls, NEW reason, Gov!Deny(c, reason), NEW blame,
           reason = "agent_revoked" => blame
    PROVE  MayLog(c, blame) /\ MovesTo(c, {"done"}) /\ ran' = ran
<1>1. Gov!Log(c, Gov!Denial(reason)) /\ Gov!End(c, "denied") /\ ran' = ran
    BY DEF Gov!Deny
<1>2. Gov!Denial(reason).reason = reason
    BY DEF Gov!Denial
<1> QED
    BY <1>1, <1>2, Ended, OneLogged

(***************************************************************************)
(* The inductive invariant.                                                *)
(***************************************************************************)

\* A call that began after a kill gets no further than the revocation check.
Stopped == \A c \in Calls :
    /\ callPc[c] = "idle" => ~ran[c]
    /\ killed[c] => /\ KillApplied /\ ~ran[c]
                    /\ callPc[c] \in {"queued", "revocation", "done"}

\* In the strict mode a call passes the gate only when the subscriber has been
\* connected.
Awaited == /\ connected => everConnected
           /\ ksFailMode = "closed" =>
                \A c \in Calls : ran[c] \/ callPc[c] \in Passed => everConnected

AgentInvariant == Invariant /\ Shapes /\ Stopped /\ RevokedOnlyByKill /\ Awaited

(***************************************************************************)
(* Every step of a call is an Advance.                                     *)
(***************************************************************************)

LEMMA BeginAdvances ==
    ASSUME Shapes, NEW c \in Calls, Gov!Start(c) \/ Gov!StartWithoutTask(c)
    PROVE  Advance(c) /\ ksFailMode' = ksFailMode
<1>1. CASE Gov!Start(c)
    <2>1. PICK step \in {"queued", "revocation"} : Gov!GoOn(c, step)
        BY <1>1 DEF Gov!Start
    <2>2. MovesTo(c, {step}) /\ audit' = audit /\ ran' = ran
        BY <2>1, WentOn DEF Steps
    <2>3. MovesTo(c, {"queued", "revocation", "done"})
        BY <2>1, <2>2 DEF MovesTo
    <2>4. callPc[c] = "idle" /\ ksFailMode' = ksFailMode
        BY <1>1 DEF Gov!Start, Gov!configVars
    <2> QED
        BY <2>2, <2>3, <2>4, NothingLogged DEF Advance
<1>2. CASE Gov!StartWithoutTask(c)
    <2>1. callPc[c] = "idle" /\ MovesTo(c, {"queued", "revocation", "done"})
        BY <1>2, Ended DEF Gov!StartWithoutTask, MovesTo
    <2>2. audit' = audit /\ ran' = ran /\ ksFailMode' = ksFailMode
        BY <1>2 DEF Gov!StartWithoutTask, Gov!configVars
    <2> QED
        BY <2>1, <2>2, NothingLogged DEF Advance
<1> QED
    BY <1>1, <1>2

LEMMA ChecksAdvance ==
    ASSUME Shapes, NEW c \in Calls,
           Gov!Dequeue(c) \/ Gov!CheckRevocation(c) \/ Gov!CheckHealth(c)
    PROVE  Advance(c) /\ ksFailMode' = ksFailMode
<1>1. CASE Gov!Dequeue(c)
    <2>1. callPc[c] = "queued" /\ Gov!GoOn(c, "revocation") /\ ksFailMode' = ksFailMode
        BY <1>1 DEF Gov!Dequeue, Gov!configVars
    <2>2. MovesTo(c, {"revocation"}) /\ audit' = audit /\ ran' = ran
        BY <2>1, WentOn DEF Steps
    <2>3. MovesTo(c, {"revocation", "done"})
        BY <2>2 DEF MovesTo
    <2> QED
        BY <2>1, <2>2, <2>3, NothingLogged DEF Advance
<1>2. CASE Gov!CheckRevocation(c)
    <2>1. callPc[c] = "revocation" /\ ksFailMode' = ksFailMode
        BY <1>2 DEF Gov!CheckRevocation, Gov!configVars
    <2>2. CASE IsRevoked(Task)
        <3>1. Gov!Deny(c, "agent_revoked")
            BY <1>2, <2>2 DEF Gov!CheckRevocation
        <3>2. MayLog(c, IsRevoked(Task)) /\ MovesTo(c, {"done"}) /\ ran' = ran
            BY <2>2, <3>1, Denied
        <3> QED
            BY <2>1, <3>2, NothingLogged DEF Advance, MovesTo
    <2>3. CASE ~IsRevoked(Task)
        <3>1. Gov!GoOn(c, "health")
            BY <1>2, <2>3 DEF Gov!CheckRevocation
        <3>2. MovesTo(c, {"health"}) /\ audit' = audit /\ ran' = ran
            BY <3>1, WentOn DEF Steps, Passed
        <3> QED
            BY <2>1, <2>3, <3>2, NothingLogged DEF Advance
    <2> QED
        BY <2>2, <2>3
<1>3. CASE Gov!CheckHealth(c)
    <2>1. callPc[c] = "health" /\ ksFailMode' = ksFailMode
        BY <1>3 DEF Gov!CheckHealth, Gov!configVars
    <2>2. CASE ksFailMode = "closed" /\ ~connected
        <3>1. Gov!Deny(c, "kill_switch_degraded")
            BY <1>3, <2>2 DEF Gov!CheckHealth
        <3>2. MayLog(c, IsRevoked(Task)) /\ MovesTo(c, {"done"}) /\ ran' = ran
            BY <3>1, Denied
        <3> QED
            BY <2>1, <3>2, NothingLogged DEF Advance, MovesTo
    <2>3. CASE ~(ksFailMode = "closed" /\ ~connected)
        <3>1. Gov!GoOn(c, "verify")
            BY <1>3, <2>3 DEF Gov!CheckHealth
        <3>2. MovesTo(c, {"verify"}) /\ audit' = audit /\ ran' = ran
            BY <3>1, WentOn DEF Steps, Passed
        <3> QED
            BY <2>1, <2>3, <3>2, NothingLogged DEF Advance
    <2> QED
        BY <2>2, <2>3
<1> QED
    BY <1>1, <1>2, <1>3

\* Past the gate the answers of the kill switch decide nothing any more: a call
\* may run, and end, and no event blames a kill.
LEMMA PassedAdvances ==
    ASSUME NEW c \in Calls, callPc[c] \in Passed, MayLog(c, FALSE), MayRun(c),
           MovesTo(c, Passed \cup {"done"})
    PROVE  Advance(c)
BY DEF Advance, MayLog

\* The ways a step past the gate may go on.
LEMMA WaysOn ==
    ASSUME Shapes, NEW c \in Calls
    PROVE  /\ \A next \in Passed : Gov!GoOn(c, next) =>
                 MayLog(c, FALSE) /\ MayRun(c) /\ MovesTo(c, Passed \cup {"done"})
           /\ \A reason : reason # "agent_revoked" /\ Gov!Deny(c, reason) =>
                 MayLog(c, FALSE) /\ MayRun(c) /\ MovesTo(c, Passed \cup {"done"})
           /\ Gov!Enter(c) \/ Gov!Discard(c) \/ Gov!Granted(c) =>
                 MayLog(c, FALSE) /\ MayRun(c) /\ MovesTo(c, Passed \cup {"done"})
           /\ \A how : Gov!End(c, how) => MovesTo(c, Passed \cup {"done"})
<1>1. ASSUME NEW next \in Passed, Gov!GoOn(c, next)
      PROVE  MayLog(c, FALSE) /\ MayRun(c) /\ MovesTo(c, Passed \cup {"done"})
    <2>1. MovesTo(c, {next}) /\ audit' = audit /\ ran' = ran
        BY <1>1, WentOn DEF Steps
    <2> QED
        BY <2>1, NothingLogged DEF MovesTo
<1>2. ASSUME NEW reason, reason # "agent_revoked", Gov!Deny(c, reason)
      PROVE  MayLog(c, FALSE) /\ MayRun(c) /\ MovesTo(c, Passed \cup {"done"})
    <2>1. MayLog(c, FALSE) /\ MovesTo(c, {"done"}) /\ ran' = ran
        BY <1>2, Denied
    <2> QED
        BY <2>1, NothingLogged DEF MovesTo
<1>3. ASSUME Gov!Enter(c)
      PROVE  MayLog(c, FALSE) /\ MayRun(c) /\ MovesTo(c, Passed \cup {"done"})
    <2>1. MovesTo(c, {"running"}) /\ audit' = audit /\ MayRun(c)
        BY <1>3, Entered
    <2> QED
        BY <2>1, NothingLogged DEF MovesTo, Passed
<1>4. ASSUME Gov!Discard(c)
      PROVE  MayLog(c, FALSE) /\ MayRun(c) /\ MovesTo(c, Passed \cup {"done"})
    <2>1. MovesTo(c, {"done"}) /\ audit' = audit /\ ran' = ran
        BY <1>4, Discarded
    <2> QED
        BY <2>1, NothingLogged DEF MovesTo
<1>5. Gov!Granted(c) => Gov!Enter(c) \/ Gov!Discard(c)
    BY DEF Gov!Granted
<1>6. ASSUME NEW how, Gov!End(c, how) PROVE MovesTo(c, Passed \cup {"done"})
    BY <1>6, Ended DEF MovesTo
<1> QED
    BY <1>1, <1>2, <1>3, <1>4, <1>5, <1>6

LEMMA VerifyAdvances ==
    ASSUME Shapes, NEW c \in Calls,
           Gov!VerifyDenies(c) \/ Gov!VerifyAborts(c) \/ Gov!VerifyAccepts(c)
    PROVE  Advance(c) /\ ksFailMode' = ksFailMode
<1>1. callPc[c] \in Passed /\ ksFailMode' = ksFailMode
    BY DEF Gov!VerifyDenies, Gov!VerifyAborts, Gov!VerifyAccepts, Gov!configVars, Passed
<1>2. CASE Gov!VerifyAborts(c)
    <2>1. PICK how : Gov!End(c, how) /\ audit' = audit /\ ran' = ran
        BY <1>2 DEF Gov!VerifyAborts
    <2> QED
        BY <1>1, <2>1, WaysOn, NothingLogged, PassedAdvances
<1>3. CASE Gov!VerifyDenies(c) \/ Gov!VerifyAccepts(c)
    <2>1. Gov!Deny(c, "local_verify") \/ Gov!GoOn(c, "preflight") \/ Gov!Granted(c)
        BY <1>3 DEF Gov!VerifyDenies, Gov!VerifyAccepts
    <2>2. "preflight" \in Passed /\ "local_verify" # "agent_revoked"
        BY DEF Passed
    <2> QED
        BY <1>1, <2>1, <2>2, WaysOn, PassedAdvances
<1> QED
    BY <1>2, <1>3

LEMMA PreflightAdvances ==
    ASSUME Shapes, NEW c \in Calls,
           \/ Gov!PreflightAllows(c) \/ Gov!PreflightDenies(c)
           \/ Gov!PreflightNeedsApproval(c) \/ Gov!PreflightFails(c)
           \/ Gov!PreflightCrashes(c)
    PROVE  Advance(c) /\ ksFailMode' = ksFailMode
<1>1. \E v : Gov!Answered(c, v)
    BY DEF Gov!PreflightAllows, Gov!PreflightDenies, Gov!PreflightNeedsApproval,
           Gov!PreflightFails, Gov!PreflightCrashes
<1>2. callPc[c] \in Passed /\ ksFailMode' = ksFailMode
    BY <1>1 DEF Gov!Answered, Gov!configVars, Passed
<1>3. CASE Gov!PreflightAllows(c) \/ Gov!PreflightFails(c)
    <2>1. Gov!Deny(c, "sigil_unreachable") \/ Gov!Granted(c)
        BY <1>3 DEF Gov!PreflightAllows, Gov!PreflightFails
    <2> QED
        BY <1>2, <2>1, WaysOn, PassedAdvances
<1>4. CASE Gov!PreflightDenies(c)
    <2>1. PICK reason \in {"policy_deny", "unknown_verdict", "approval_service_unavailable"} :
              Gov!Deny(c, reason)
        BY <1>4 DEF Gov!PreflightDenies
    <2> QED
        BY <1>2, <2>1, WaysOn, PassedAdvances
<1>5. CASE Gov!PreflightNeedsApproval(c)
    <2>1. Gov!Discard(c) \/ Gov!GoOn(c, "poll")
        BY <1>5 DEF Gov!PreflightNeedsApproval
    <2>2. "poll" \in Passed
        BY DEF Passed
    <2> QED
        BY <1>2, <2>1, <2>2, WaysOn, PassedAdvances
<1>6. CASE Gov!PreflightCrashes(c)
    <2>1. Gov!End(c, "crashed") /\ audit' = audit /\ ran' = ran
        BY <1>6 DEF Gov!PreflightCrashes
    <2> QED
        BY <1>2, <2>1, WaysOn, NothingLogged, PassedAdvances
<1> QED
    BY <1>3, <1>4, <1>5, <1>6

LEMMA ApprovalAdvances ==
    ASSUME Shapes, NEW c \in Calls, Gov!Approval(c)
    PROVE  Advance(c) /\ ksFailMode' = ksFailMode
<1>1. CASE Gov!PollFails(c) \/ Gov!PollPending(c) \/ Gov!PollTimeout(c)
           \/ Gov!PollResolved(c) \/ Gov!PollAgain(c)
    <2>1. callPc[c] \in Passed /\ ksFailMode' = ksFailMode
        BY <1>1 DEF Gov!PollFails, Gov!PollPending, Gov!PollTimeout, Gov!PollResolved,
                    Gov!PollAgain, Gov!PollUnchanged, Gov!configVars, Passed
    <2>2. \/ \E reason \in {"approval_service_unavailable", "approval_timeout",
                            "approval_rejected", "approval_expired"} : Gov!Deny(c, reason)
          \/ \E next \in {"wait", "redeem", "poll"} : Gov!GoOn(c, next)
        BY <1>1 DEF Gov!PollFails, Gov!PollPending, Gov!PollTimeout, Gov!PollResolved,
                    Gov!PollAgain
    <2>3. {"wait", "redeem", "poll"} \subseteq Passed
        BY DEF Passed
    <2> QED
        BY <2>1, <2>2, <2>3, WaysOn, PassedAdvances
<1>2. CASE Gov!RedeemGrants(c) \/ Gov!RedeemAnswerLost(c) \/ Gov!RedeemReplayed(c)
           \/ Gov!RedeemFails(c)
    <2>1. callPc[c] \in Passed /\ ksFailMode' = ksFailMode
        BY <1>2 DEF Gov!RedeemGrants, Gov!RedeemAnswerLost, Gov!RedeemReplayed,
                    Gov!RedeemFails, Gov!RedeemUnchanged, Gov!configVars, Passed
    <2>2. \/ Gov!Enter(c) \/ Gov!Discard(c)
          \/ \E reason \in {"approval_token_unavailable", "approval_replayed"} :
                Gov!Deny(c, reason)
        BY <1>2 DEF Gov!RedeemGrants, Gov!RedeemAnswerLost, Gov!RedeemReplayed,
                    Gov!RedeemFails, Gov!RedeemDenied
    <2> QED
        BY <2>1, <2>2, WaysOn, PassedAdvances
<1> QED
    BY <1>1, <1>2 DEF Gov!Approval

LEMMA FinishAdvances ==
    ASSUME Shapes, NEW c \in Calls, Gov!Finish(c)
    PROVE  Advance(c) /\ ksFailMode' = ksFailMode
<1>1. callPc[c] \in Passed /\ ran' = ran /\ ksFailMode' = ksFailMode
    BY DEF Gov!Finish, Gov!configVars, Passed
<1>2. \E event, how : event.reason = "none" /\ Gov!Log(c, event) /\ Gov!End(c, how)
    BY DEF Gov!Finish, Gov!Report
<1>3. MayLog(c, FALSE) /\ MovesTo(c, Passed \cup {"done"})
    BY <1>2, OneLogged, WaysOn
<1> QED
    BY <1>1, <1>3, NothingLogged, PassedAdvances

\* A cancelled coroutine leaves its call where it is, or done.
LEMMA CancelAdvances ==
    ASSUME Shapes, NEW c \in Calls, Gov!Cancel(c)
    PROVE  Advance(c) /\ ksFailMode' = ksFailMode
<1>1. audit' = audit /\ ran' = ran /\ ksFailMode' = ksFailMode
    BY DEF Gov!Cancel, Gov!configVars
<1>2. MayLog(c, IsRevoked(Task)) /\ MayRun(c)
    BY <1>1, NothingLogged
<1>3. CASE callPc[c] \in {"queued", "poll", "wait", "redeem"}
           /\ callPc' = [callPc EXCEPT ![c] = "done"]
    <2>1. MovesTo(c, {"done"})
        BY <1>3, Moved DEF Steps
    <2> QED
        BY <1>1, <1>2, <1>3, <2>1 DEF Advance, MovesTo, Passed
<1>4. CASE callPc[c] \in {"revocation", "health", "verify", "preflight", "redeem"}
           /\ callPc' = callPc
    <2>1. MovesTo(c, {callPc[c]})
        BY <1>4 DEF Shapes, MovesTo
    <2> QED
        BY <1>1, <1>2, <1>4, <2>1 DEF Advance, MovesTo, Passed
<1> QED
    BY <1>3, <1>4 DEF Gov!Cancel

\* Whatever a call that has begun does next is an Advance.
LEMMA ProceedAdvances ==
    ASSUME Shapes, NEW c \in Calls, Proceed(c)
    PROVE  Advance(c) /\ ksFailMode' = ksFailMode
BY BeginAdvances, ChecksAdvance, VerifyAdvances, PreflightAdvances, ApprovalAdvances,
   FinishAdvances, CancelAdvances DEF Proceed, Gov!Continue, Gov!Governance

(***************************************************************************)
(* The invariant is kept.                                                  *)
(***************************************************************************)

\* What the proof reads of the subscriber only grows.
LEMMA KillsStay ==
    ASSUME Invariant, [Next]_vars
    PROVE  /\ KillApplied => KillApplied'
           /\ everConnected => everConnected'
           /\ (connected => everConnected) => (connected' => everConnected')
BY DEF Next, Thread, Environment, ImportRedis, TopCheck, Connect, SetConnected,
       ConnectFails, ListenCheck, LeaveLoop, ReadMessage, ReadNothing, ReadRaises,
       BackoffEnds, Raise, StopSet, StopReturns, ServerSubscribes, Drop, Publish,
       threadVars, vars, KillApplied

LEMMA AgentInvariantInitially == AgentInit => AgentInvariant
<1> SUFFICES ASSUME AgentInit PROVE AgentInvariant
    OBVIOUS
<1>1. Invariant
    BY InvariantInitially DEF AgentInit
<1>2. /\ callPc = [c \in Calls |-> "idle"] /\ ran = [c \in Calls |-> FALSE]
      /\ killed = [c \in Calls |-> FALSE] /\ audit = [c \in Calls |-> <<>>]
    BY DEF AgentInit, Gov!Init
<1>3. Shapes
    <2>1. \A c \in Calls : audit[c] \in Seq(Range(audit[c]))
        BY <1>2, EmptySequence
    <2>2. /\ callPc \in [Calls -> Steps] /\ ran \in [Calls -> BOOLEAN]
          /\ killed \in [Calls -> BOOLEAN] /\ audit = [c \in Calls |-> audit[c]]
        BY <1>2 DEF Steps
    <2> QED
        BY <2>1, <2>2 DEF Shapes
<1>4. Stopped /\ RevokedOnlyByKill
    BY <1>2, EmptySequence DEF Stopped, RevokedOnlyByKill
<1>5. Awaited
    BY <1>2 DEF Awaited, Passed, AgentInit, Init
<1> QED
    BY <1>1, <1>3, <1>4, <1>5 DEF AgentInvariant

\* The subscriber's steps leave the calls alone, and what it knows only grows.
LEMMA SubscriberKeeps ==
    ASSUME AgentInvariant, [Next]_vars, UNCHANGED callVars
    PROVE  AgentInvariant'
<1> USE DEF AgentInvariant
<1>1. Invariant'
    BY InvariantPreserved
<1>2. Shapes'
    BY DEF callVars, Shapes
<1>3. Stopped'
    BY KillsStay DEF callVars, Stopped
<1>4. RevokedOnlyByKill'
    BY KillsStay DEF callVars, RevokedOnlyByKill
<1>5. Awaited'
    BY KillsStay DEF callVars, Awaited
<1> QED
    BY <1>1, <1>2, <1>3, <1>4, <1>5

\* A step of a call that leaves the subscriber alone: a call that began after a
\* kill is still in time for the check, which the kill fails.
LEMMA AdvanceKeeps ==
    ASSUME AgentInvariant, NEW c \in Calls, Advance(c), UNCHANGED vars,
           ksFailMode' = ksFailMode, killed' \in [Calls -> BOOLEAN],
           \A d \in Calls \ {c} : killed'[d] = killed[d],
           killed'[c] => killed[c] \/ (callPc[c] = "idle" /\ KillApplied)
    PROVE  AgentInvariant'
<1> USE DEF AgentInvariant
<1>1. Invariant'
    BY InvariantPreserved
<1>2. KillApplied' = KillApplied /\ everConnected' = everConnected /\ connected' = connected
    BY DEF KillApplied, vars
<1>3. /\ MayLog(c, IsRevoked(Task)) /\ MayRun(c)
      /\ callPc' \in [Calls -> Steps] /\ \A d \in Calls \ {c} : callPc'[d] = callPc[d]
    BY DEF Advance, MovesTo
<1>4. Shapes'
    BY <1>3 DEF Shapes, MayLog, MayRun
<1>5. Stopped'
    <2>1. ASSUME NEW d \in Calls \ {c}
          PROVE  /\ callPc'[d] = "idle" => ~ran'[d]
                 /\ killed'[d] => /\ KillApplied' /\ ~ran'[d]
                                  /\ callPc'[d] \in {"queued", "revocation", "done"}
        BY <1>2, <1>3 DEF Stopped, MayRun
    <2>2. callPc'[c] = "idle" => ~ran'[c]
        BY DEF Advance, MovesTo, Passed, Stopped
    <2>3. killed'[c] => /\ KillApplied' /\ ~ran'[c]
                       /\ callPc'[c] \in {"queued", "revocation", "done"}
        BY <1>2, AnswerIsKill DEF Advance, MovesTo, Passed, Stopped
    <2> QED
        BY <2>1, <2>2, <2>3 DEF Stopped
<1>6. RevokedOnlyByKill'
    BY <1>2, <1>3, AnswerIsKill DEF RevokedOnlyByKill, MayLog
<1>7. Awaited'
    <2>1. ASSUME ksFailMode = "closed", ran'[c] \/ callPc'[c] \in Passed
          PROVE  everConnected
        BY <2>1 DEF Advance, MovesTo, Passed, Awaited
    <2>2. ASSUME ksFailMode = "closed", NEW d \in Calls, ran'[d] \/ callPc'[d] \in Passed
          PROVE  everConnected
        BY <1>3, <2>1, <2>2 DEF Awaited, MayRun
    <2> QED
        BY <1>2, <2>2 DEF Awaited
<1> QED
    BY <1>1, <1>4, <1>5, <1>6, <1>7

LEMMA AgentInvariantPreserved == AgentInvariant /\ [AgentNext]_agentVars => AgentInvariant'
<1> SUFFICES ASSUME AgentInvariant, [AgentNext]_agentVars PROVE AgentInvariant'
    OBVIOUS
<1>1. CASE SubscriberStep
    BY <1>1, SubscriberKeeps DEF SubscriberStep
<1>2. ASSUME NEW c \in Calls, Begin(c) PROVE AgentInvariant'
    <2>1. Shapes
        BY DEF AgentInvariant
    <2>2. Advance(c) /\ ksFailMode' = ksFailMode
        BY <1>2, <2>1, BeginAdvances DEF Begin
    <2>3. callPc[c] = "idle" /\ UNCHANGED vars /\ killed' = [killed EXCEPT ![c] = KillApplied]
        BY <1>2 DEF Begin, Gov!Start
    <2>4. /\ killed' \in [Calls -> BOOLEAN]
          /\ \A d \in Calls \ {c} : killed'[d] = killed[d]
          /\ killed'[c] => KillApplied
        BY <2>1, <2>3 DEF Shapes, KillApplied
    <2> QED
        BY <2>2, <2>3, <2>4, AdvanceKeeps
<1>3. ASSUME NEW c \in Calls, Proceed(c) PROVE AgentInvariant'
    <2>1. Shapes
        BY DEF AgentInvariant
    <2>2. Advance(c) /\ ksFailMode' = ksFailMode
        BY <1>3, <2>1, ProceedAdvances
    <2>3. UNCHANGED vars /\ killed' = killed
        BY <1>3 DEF Proceed
    <2>4. /\ killed' \in [Calls -> BOOLEAN]
          /\ \A d \in Calls \ {c} : killed'[d] = killed[d]
          /\ killed'[c] => killed[c] \/ (callPc[c] = "idle" /\ KillApplied)
        BY <2>1, <2>3 DEF Shapes
    <2>5. UNCHANGED vars
        BY <2>3
    <2> QED
        BY <2>2, <2>4, <2>5, AdvanceKeeps
<1>4. ASSUME NEW a \in Approvals, Decision(a) PROVE AgentInvariant'
    <2>1. UNCHANGED <<vars, killed, callPc, ran, audit, ksFailMode>>
        BY <1>4 DEF Decision, Gov!Decide, Gov!configVars
    <2>2. Invariant'
        BY <2>1, InvariantPreserved DEF AgentInvariant
    <2>3. KillApplied' = KillApplied /\ everConnected' = everConnected /\ connected' = connected
        BY <2>1 DEF KillApplied, vars
    <2> QED
        BY <2>1, <2>2, <2>3 DEF AgentInvariant, Shapes, Stopped, RevokedOnlyByKill, Awaited
<1>5. CASE UNCHANGED agentVars
    <2>1. vars' = vars /\ callVars' = callVars
        BY <1>5 DEF agentVars
    <2> QED
        BY <2>1, SubscriberKeeps
<1> QED
    BY <1>1, <1>2, <1>3, <1>4, <1>5 DEF AgentNext

THEOREM AgentInvariantHolds == AgentSpec => []AgentInvariant
BY AgentInvariantInitially, AgentInvariantPreserved, PTL DEF AgentSpec

\* A call that began after a kill of the agent was applied never enters its
\* function: not after evictions, a lost connection, a stop() or its cancellation,
\* and whatever task the kill named.
THEOREM KilledCallsNeverRun == AgentSpec => []KilledNeverRuns
<1>1. AgentInvariant => KilledNeverRuns
    BY DEF AgentInvariant, Stopped, KilledNeverRuns
<1> QED
    BY <1>1, AgentInvariantHolds, PTL

\* No event blames a kill that this agent has not received.
THEOREM OnlyKillsAreBlamed == AgentSpec => []RevokedOnlyByKill
<1>1. AgentInvariant => RevokedOnlyByKill
    BY DEF AgentInvariant
<1> QED
    BY <1>1, AgentInvariantHolds, PTL

\* In the strict mode no function is entered before the first subscription.
THEOREM StrictModeWaits == AgentSpec => []StrictAwaitsSubscription
<1>1. AgentInvariant => StrictAwaitsSubscription
    BY DEF AgentInvariant, Awaited, StrictAwaitsSubscription
<1> QED
    BY <1>1, AgentInvariantHolds, PTL

=============================================================================
