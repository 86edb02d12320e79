------------------------- MODULE GovernedCallProofs -------------------------
(***************************************************************************)
(* Theorems about GovernedCall, for every set of calls and approvals.  The *)
(* argument follows a call along its program counter: what the preflight   *)
(* answered and what was checked is fixed before the call can come to the  *)
(* step that enters the function, and what makes the entry legitimate (a   *)
(* consumed, approved approval; a call that was not doomed) is never taken *)
(* back by a step of another call, of a human or of the kill switch.       *)
(* The event a call records is written by its last step, from what was     *)
(* fixed before (Trail, Consumed).                                         *)
(***************************************************************************)
EXTENDS GovernedCall, SequenceTheorems, TLAPS

(***************************************************************************)
(* Types.                                                                  *)
(***************************************************************************)

\* The events a call records are audit events.
LEMMA DenialType == \A reason \in Reasons : Denial(reason) \in Events
BY DEF Denial, Events

LEMMA ReportType ==
    ASSUME TypeOK, NEW c \in Calls, NEW outcome \in {"allowed", "error"}
    PROVE  Report(c, outcome) \in Events
BY DEF Report, Events, TypeOK

\* Recording an event keeps the trail a sequence of events.
LEMMA LogType ==
    ASSUME TypeOK, NEW c \in Calls, NEW event \in Events, Log(c, event)
    PROVE  audit' \in [Calls -> Seq(Events)]
<1>1. Append(audit[c], event) \in Seq(Events)
    BY AppendProperties DEF TypeOK
<1> QED
    BY <1>1 DEF Log, TypeOK

OutcomesOK == /\ pc' \in [Calls -> {"idle", "queued", "revocation", "health", "verify",
                               "preflight", "poll", "wait", "redeem", "running", "done"}]
              /\ result' \in [Calls -> {"none", "no_task", "no_token", "denied", "crashed", "cancelled",
                                        "returned", "raised"}]
              /\ audit' \in [Calls -> Seq(Events)]
              /\ ran' \in [Calls -> BOOLEAN]

\* Each way a step of a call may end keeps the types of what it writes.
LEMMA EndType ==
    ASSUME TypeOK, NEW c \in Calls
    PROVE  /\ \A reason \in Reasons : Deny(c, reason) => OutcomesOK
           /\ \A next \in {"queued", "revocation", "health", "verify", "preflight",
                           "poll", "wait", "redeem"} : GoOn(c, next) => OutcomesOK
           /\ Enter(c) => OutcomesOK
           /\ Discard(c) => OutcomesOK
           /\ Granted(c) => OutcomesOK
<1>1. ASSUME NEW reason \in Reasons, Deny(c, reason) PROVE OutcomesOK
    <2>1. audit' \in [Calls -> Seq(Events)]
        BY <1>1, DenialType, LogType DEF Deny
    <2> QED
        BY <1>1, <2>1 DEF Deny, End, TypeOK, OutcomesOK
<1>2. ASSUME NEW next \in {"queued", "revocation", "health", "verify", "preflight",
                           "poll", "wait", "redeem"},
             GoOn(c, next)
      PROVE  OutcomesOK
    BY <1>2 DEF GoOn, TypeOK, OutcomesOK
<1>3. ASSUME Enter(c) PROVE OutcomesOK
    BY <1>3 DEF Enter, TypeOK, OutcomesOK
<1>4. ASSUME Discard(c) PROVE OutcomesOK
    BY <1>4 DEF Discard, TypeOK, OutcomesOK
<1> QED
    BY <1>1, <1>2, <1>3, <1>4 DEF Granted

\* The initial state has the right types.
LEMMA TypeInitially == Init => TypeOK
<1> SUFFICES ASSUME Init PROVE TypeOK
    OBVIOUS
<1>1. <<>> \in Seq(Events)
    BY EmptySeq
<1>2. audit \in [Calls -> Seq(Events)]
    BY <1>1 DEF Init
<1> QED
    BY <1>2 DEF Init, TypeOK, Cache!CacheInit, Cache!CacheTypeOK

\* The checks before the preflight keep the types.
LEMMA ChecksType ==
    ASSUME TypeOK, NEW c \in Calls,
           StartWithoutTask(c) \/ Start(c) \/ Dequeue(c) \/ CheckRevocation(c)
               \/ CheckHealth(c) \/ VerifyDenies(c) \/ VerifyAborts(c) \/ VerifyAccepts(c)
    PROVE  TypeOK'
<1> USE DEF TypeOK, Cache!CacheTypeOK, cacheVars, configVars, wrapperVars, serverVars
<1>1. CASE StartWithoutTask(c)
    BY <1>1 DEF StartWithoutTask, End
<1>2. CASE Start(c)
    BY <1>2, EndType DEF Start, OutcomesOK
<1>3. CASE Dequeue(c)
    BY <1>3, EndType DEF Dequeue, OutcomesOK
<1>4. CASE CheckRevocation(c)
    <2>1. OutcomesOK
        BY <1>4, EndType DEF CheckRevocation, Reasons
    <2> QED
        BY <1>4, <2>1 DEF CheckRevocation, OutcomesOK
<1>5. CASE CheckHealth(c)
    <2>1. OutcomesOK
        BY <1>5, EndType DEF CheckHealth, Reasons
    <2> QED
        BY <1>5, <2>1 DEF CheckHealth, OutcomesOK
<1>6. CASE VerifyDenies(c)
    <2>1. OutcomesOK
        BY <1>6, EndType DEF VerifyDenies, Reasons
    <2> QED
        BY <1>6, <2>1 DEF VerifyDenies, OutcomesOK
<1>7. CASE VerifyAccepts(c)
    <2>1. OutcomesOK
        BY <1>7, EndType DEF VerifyAccepts
    <2> QED
        BY <1>7, <2>1 DEF VerifyAccepts, OutcomesOK
<1>8. CASE VerifyAborts(c)
    BY <1>8 DEF VerifyAborts, End
<1> QED
    BY <1>1, <1>2, <1>3, <1>4, <1>5, <1>6, <1>7, <1>8

\* Every answer of the preflight keeps the types.
LEMMA PreflightType ==
    ASSUME TypeOK, NEW c \in Calls,
           PreflightAllows(c) \/ PreflightDenies(c) \/ PreflightNeedsApproval(c)
               \/ PreflightFails(c) \/ PreflightCrashes(c)
    PROVE  TypeOK'
<1> USE DEF TypeOK, Cache!CacheTypeOK, cacheVars, configVars, wrapperVars, serverVars, Answered
<1>1. CASE PreflightAllows(c)
    <2>1. OutcomesOK
        BY <1>1, EndType DEF PreflightAllows
    <2> QED
        BY <1>1, <2>1 DEF PreflightAllows, OutcomesOK
<1>2. CASE PreflightDenies(c)
    <2>1. OutcomesOK
        BY <1>2, EndType DEF PreflightDenies, Reasons
    <2> QED
        BY <1>2, <2>1 DEF PreflightDenies, OutcomesOK
<1>3. CASE PreflightNeedsApproval(c)
    <2>1. OutcomesOK
        BY <1>3, EndType DEF PreflightNeedsApproval
    <2>2. PICK a \in Approvals :
              /\ status' = [status EXCEPT ![a] = IF @ = "absent" THEN "pending" ELSE @]
              /\ approval' = [approval EXCEPT ![c] = a]
        BY <1>3 DEF PreflightNeedsApproval
    <2> QED
        BY <1>3, <2>1, <2>2 DEF PreflightNeedsApproval, OutcomesOK
<1>4. CASE PreflightFails(c)
    <2>1. OutcomesOK
        BY <1>4, EndType DEF PreflightFails, Reasons
    <2> QED
        BY <1>4, <2>1 DEF PreflightFails, OutcomesOK
<1>5. CASE PreflightCrashes(c)
    BY <1>5 DEF PreflightCrashes, End
<1> QED
    BY <1>1, <1>2, <1>3, <1>4, <1>5

\* Waiting for an approval keeps the types.
LEMMA PollType ==
    ASSUME TypeOK, NEW c \in Calls,
           PollFails(c) \/ PollPending(c) \/ PollTimeout(c) \/ PollResolved(c) \/ PollAgain(c)
    PROVE  TypeOK'
<1>1. OutcomesOK
    BY EndType DEF PollFails, PollPending, PollTimeout, PollResolved, PollAgain, Reasons
<1>2. PollUnchanged
    BY DEF PollFails, PollPending, PollTimeout, PollResolved, PollAgain
<1> QED
    BY <1>1, <1>2 DEF OutcomesOK, PollUnchanged, TypeOK, Cache!CacheTypeOK, cacheVars,
                      configVars, wrapperVars, serverVars

\* Redeeming an approval keeps the types.
LEMMA RedeemType ==
    ASSUME TypeOK, NEW c \in Calls, approval[c] \in Approvals,
           RedeemGrants(c) \/ RedeemAnswerLost(c) \/ RedeemReplayed(c) \/ RedeemFails(c)
    PROVE  TypeOK'
<1>1. OutcomesOK
    BY EndType DEF RedeemGrants, RedeemAnswerLost, RedeemReplayed, RedeemFails, RedeemDenied,
                   Reasons
<1>2. RedeemUnchanged
    BY DEF RedeemGrants, RedeemAnswerLost, RedeemReplayed, RedeemFails
<1>3. holder' \in [Approvals -> Calls \cup {Nobody}]
    BY DEF RedeemGrants, RedeemAnswerLost, RedeemReplayed, RedeemFails, TypeOK
<1>4. grant' \in [Calls -> Approvals \cup {Nobody}]
    BY DEF RedeemGrants, RedeemAnswerLost, RedeemReplayed, RedeemFails, TypeOK
<1> QED
    BY <1>1, <1>2, <1>3, <1>4 DEF OutcomesOK, RedeemUnchanged, TypeOK, Cache!CacheTypeOK,
                      cacheVars, configVars, wrapperVars

\* Running to the end, a cancellation, a decision and the kill switch keep the types.
LEMMA OtherTypes ==
    ASSUME TypeOK,
           \/ \E c \in Calls : Finish(c) \/ Cancel(c)
           \/ \E a \in Approvals : Decide(a)
           \/ KillSwitchChanges
           \/ UNCHANGED vars
    PROVE  TypeOK'
<1>1. ASSUME NEW c \in Calls, Finish(c) PROVE TypeOK'
    <2>1. audit' \in [Calls -> Seq(Events)]
        BY <1>1, ReportType, LogType DEF Finish
    <2> QED
        BY <1>1, <2>1 DEF Finish, End, TypeOK, Cache!CacheTypeOK, cacheVars, configVars,
                          wrapperVars, serverVars
<1>2. ASSUME NEW c \in Calls, Cancel(c) PROVE TypeOK'
    BY <1>2 DEF Cancel, TypeOK, Cache!CacheTypeOK, cacheVars, configVars, serverVars
<1>3. ASSUME NEW a \in Approvals, Decide(a) PROVE TypeOK'
    BY <1>3 DEF Decide, TypeOK, Cache!CacheTypeOK, cacheVars, configVars, wrapperVars
<1>4. CASE KillSwitchChanges
    BY <1>4 DEF KillSwitchChanges, TypeOK, Cache!CacheTypeOK, Cache!CacheNext, Cache!Kill,
                Cache!HealthChange, configVars, wrapperVars, serverVars
<1>5. CASE UNCHANGED vars
    BY <1>5 DEF vars, TypeOK, Cache!CacheTypeOK
<1> QED
    BY <1>1, <1>2, <1>3, <1>4, <1>5

(***************************************************************************)
(* The inductive invariant, one part for each thing a call carries along.  *)
(***************************************************************************)

\* Until the preflight has answered, nothing is known, held or executed.
Undecided(c) == pc[c] \in {"idle", "queued", "revocation", "health", "verify", "preflight"}
                    => verdict[c] = "none" /\ approval[c] = Nobody /\ ~ran[c]

\* A call that waits does so for the approval the preflight named, and redeems
\* it only once it is approved.
Waiting(c) == /\ pc[c] \in {"poll", "wait", "redeem"}
                    => verdict[c] = "approve" /\ approval[c] \in Approvals /\ ~ran[c]
              /\ pc[c] = "redeem" => status[approval[c]] = "approved"

\* What a function that was entered ran on.
Entered(c) == ran[c] => /\ pc[c] \in {"running", "done"}
                        /\ verdict[c] \in {"none", "allow", "approve", "unreachable"}
                        /\ verdict[c] = "none" => c \notin HighRisk
                        /\ verdict[c] = "unreachable" => failMode = "open"
                        /\ verdict[c] = "approve" <=> approval[c] # Nobody
                        /\ approval[c] # Nobody => /\ status[approval[c]] = "approved"
                                                   /\ holder[approval[c]] = c

\* A doomed call does not pass the revocation check, nor one that found the kill
\* switch down the health check of the strict mode.
Checked(c) ==
    /\ doomed[c] => /\ revoked /\ ~ran[c]
                    /\ pc[c] \in {"queued", "revocation", "done"}
    /\ degraded[c] /\ ksFailMode = "closed" => pc[c] = "done" /\ ~ran[c]

CallInv(c) == Undecided(c) /\ Waiting(c) /\ Entered(c) /\ Checked(c)

Invariant == TypeOK /\ \A c \in Calls : CallInv(c)

\* No call has begun in the initial state.
LEMMA InvariantInitially == Init => Invariant
BY TypeInitially, NobodyAssumption
   DEF Init, Invariant, CallInv, Undecided, Waiting, Entered, Checked

\* The variables CallInv(d) reads that a step of another call may write are the
\* approvals' status and holder: they only move forward.
Forward == /\ revoked => revoked'
           /\ \A a \in Approvals : /\ status[a] = "approved" => status'[a] = "approved"
                                   /\ holder[a] # Nobody => holder'[a] = holder[a]
           /\ UNCHANGED configVars

Untouched(d) == /\ pc'[d] = pc[d] /\ verdict'[d] = verdict[d] /\ approval'[d] = approval[d]
                /\ ran'[d] = ran[d] /\ doomed'[d] = doomed[d] /\ degraded'[d] = degraded[d]

\* A step that moves the world forward keeps what holds of the calls it leaves alone.
LEMMA OthersKeep ==
    ASSUME TypeOK, Forward, NEW d \in Calls, CallInv(d), Untouched(d)
    PROVE  CallInv(d)'
<1>1. approval[d] \in Approvals \cup {Nobody}
    BY DEF TypeOK
<1>2. Undecided(d)'
    BY DEF Untouched, CallInv, Undecided
<1>3. Waiting(d)'
    BY DEF Untouched, CallInv, Waiting, Forward
<1>4. Entered(d)'
    BY <1>1, NobodyAssumption DEF Untouched, CallInv, Entered, Forward, configVars
<1>5. Checked(d)'
    BY DEF Untouched, CallInv, Checked, Forward, configVars
<1> QED
    BY <1>2, <1>3, <1>4, <1>5 DEF CallInv

\* A step of one call moves the world forward and leaves the others alone.
OnlyCall(c) == Forward /\ \A d \in Calls \ {c} : Untouched(d)

\* The ways a step may end write nothing of another call.
LEMMA OutcomeFrame ==
    ASSUME TypeOK, NEW c \in Calls, NEW d \in Calls \ {c}
    PROVE  /\ \A reason : Deny(c, reason) => pc'[d] = pc[d] /\ ran'[d] = ran[d]
           /\ \A next : GoOn(c, next) => pc'[d] = pc[d] /\ ran'[d] = ran[d]
           /\ Enter(c) => pc'[d] = pc[d] /\ ran'[d] = ran[d]
           /\ Discard(c) => pc'[d] = pc[d] /\ ran'[d] = ran[d]
           /\ Granted(c) => pc'[d] = pc[d] /\ ran'[d] = ran[d]
BY DEF TypeOK, Deny, End, GoOn, Enter, Discard, Granted

\* The steps before the preflight: each check passed is passed for good.
LEMMA ChecksKeep ==
    ASSUME Invariant, NEW c \in Calls,
           StartWithoutTask(c) \/ Start(c) \/ Dequeue(c) \/ CheckRevocation(c)
               \/ CheckHealth(c) \/ VerifyDenies(c) \/ VerifyAborts(c) \/ VerifyAccepts(c)
    PROVE  CallInv(c)' /\ OnlyCall(c)
<1> USE DEF TypeOK, Invariant, CallInv, Undecided, Waiting, Entered, Checked, OnlyCall, Forward,
            Untouched, cacheVars, configVars, wrapperVars, serverVars, GoOn, Deny, End
<1>1. CASE StartWithoutTask(c)
    BY <1>1 DEF StartWithoutTask
<1>2. CASE Start(c)
    BY <1>2 DEF Start
<1>3. CASE Dequeue(c)
    BY <1>3 DEF Dequeue
<1>4. CASE CheckRevocation(c)
    BY <1>4 DEF CheckRevocation
<1>5. CASE CheckHealth(c)
    BY <1>5 DEF CheckHealth
<1>6. CASE VerifyDenies(c)
    BY <1>6 DEF VerifyDenies
<1>7. CASE VerifyAccepts(c)
    <2>1. CASE c \in HighRisk
        BY <1>7, <2>1 DEF VerifyAccepts
    <2>2. CASE c \notin HighRisk
        <3>1. CASE cancelled[c]
            BY <1>7, <2>2, <3>1 DEF VerifyAccepts, Granted, Discard
        <3>2. CASE ~cancelled[c]
            BY <1>7, <2>2, <3>2 DEF VerifyAccepts, Granted, Enter
        <3> QED
            BY <3>1, <3>2
    <2> QED
        BY <2>1, <2>2
<1>8. CASE VerifyAborts(c)
    BY <1>8 DEF VerifyAborts
<1> QED
    BY <1>1, <1>2, <1>3, <1>4, <1>5, <1>6, <1>7, <1>8

\* The preflight: a call enters on "allow", or fails open where it may.
LEMMA PreflightKeeps ==
    ASSUME Invariant, NEW c \in Calls,
           PreflightAllows(c) \/ PreflightDenies(c) \/ PreflightNeedsApproval(c)
               \/ PreflightFails(c) \/ PreflightCrashes(c)
    PROVE  CallInv(c)' /\ OnlyCall(c)
<1> USE DEF TypeOK, Invariant, CallInv, Undecided, Waiting, Entered, Checked, OnlyCall, Forward,
            Untouched, cacheVars, configVars, wrapperVars, serverVars, GoOn, Deny, End,
            Granted, Discard, Enter, Answered
<1>1. CASE PreflightAllows(c)
    BY <1>1 DEF PreflightAllows
<1>2. CASE PreflightDenies(c)
    BY <1>2 DEF PreflightDenies
<1>3. CASE PreflightNeedsApproval(c)
    <2>1. PICK a \in Approvals :
              /\ status' = [status EXCEPT ![a] = IF @ = "absent" THEN "pending" ELSE @]
              /\ approval' = [approval EXCEPT ![c] = a]
              /\ Answered(c, "approve")
              /\ IF cancelled[c] THEN Discard(c) ELSE GoOn(c, "poll")
              /\ UNCHANGED <<failOpen, holder>>
        BY <1>3 DEF PreflightNeedsApproval
    <2> QED
        BY <2>1, NobodyAssumption
<1>4. CASE PreflightFails(c)
    BY <1>4 DEF PreflightFails
<1>5. CASE PreflightCrashes(c)
    BY <1>5 DEF PreflightCrashes
<1> QED
    BY <1>1, <1>2, <1>3, <1>4, <1>5

\* Polling: only an approved approval leads to its redemption.
LEMMA PollKeeps ==
    ASSUME Invariant, NEW c \in Calls,
           PollFails(c) \/ PollPending(c) \/ PollTimeout(c) \/ PollResolved(c) \/ PollAgain(c)
    PROVE  CallInv(c)' /\ OnlyCall(c)
BY DEF TypeOK, Invariant, CallInv, Undecided, Waiting, Entered, Checked, OnlyCall, Forward,
       Untouched, PollUnchanged, cacheVars, configVars, wrapperVars, serverVars, GoOn, Deny,
       End, PollFails, PollPending, PollTimeout, PollResolved, PollAgain

\* Redeeming: a call enters only on an approval that it consumed itself.
LEMMA RedeemKeeps ==
    ASSUME Invariant, NEW c \in Calls,
           RedeemGrants(c) \/ RedeemAnswerLost(c) \/ RedeemReplayed(c) \/ RedeemFails(c)
    PROVE  CallInv(c)' /\ OnlyCall(c)
<1> USE DEF TypeOK, Invariant, CallInv, Undecided, Waiting, Entered, Checked, OnlyCall, Forward,
            Untouched, RedeemUnchanged, RedeemDenied, cacheVars, configVars, wrapperVars,
            Deny, End, Discard, Enter
<1>1. CASE RedeemGrants(c)
    BY <1>1, NobodyAssumption DEF RedeemGrants
<1>2. CASE RedeemAnswerLost(c)
    BY <1>2, NobodyAssumption DEF RedeemAnswerLost
<1>3. CASE RedeemReplayed(c)
    BY <1>3 DEF RedeemReplayed
<1>4. CASE RedeemFails(c)
    BY <1>4 DEF RedeemFails
<1> QED
    BY <1>1, <1>2, <1>3, <1>4

\* Ending the function, or cancelling the coroutine, decides nothing any more.
LEMMA EndsKeep ==
    ASSUME Invariant, NEW c \in Calls, Finish(c) \/ Cancel(c)
    PROVE  CallInv(c)' /\ OnlyCall(c)
<1> USE DEF TypeOK, Invariant, CallInv, Undecided, Waiting, Entered, Checked, OnlyCall, Forward,
            Untouched, cacheVars, configVars, wrapperVars, serverVars
<1>1. CASE Finish(c)
    BY <1>1 DEF Finish, Log, End
<1>2. CASE Cancel(c)
    BY <1>2 DEF Cancel
<1> QED
    BY <1>1, <1>2

\* A decision and the kill switch move the world forward and touch no call.
LEMMA WorldKeeps ==
    ASSUME Invariant,
           (\E a \in Approvals : Decide(a)) \/ KillSwitchChanges \/ UNCHANGED vars
    PROVE  Forward /\ \A d \in Calls : Untouched(d)
<1>1. ASSUME NEW a \in Approvals, Decide(a) PROVE Forward /\ \A d \in Calls : Untouched(d)
    BY <1>1 DEF Decide, Invariant, TypeOK, Forward, Untouched, cacheVars, configVars, wrapperVars
<1>2. CASE KillSwitchChanges
    BY <1>2 DEF KillSwitchChanges, Cache!CacheNext, Cache!Kill, Cache!HealthChange, Forward,
                Untouched, configVars, wrapperVars, serverVars
<1>3. CASE UNCHANGED vars
    BY <1>3 DEF vars, Forward, Untouched, configVars
<1> QED
    BY <1>1, <1>2, <1>3

\* Every step keeps the types.
LEMMA TypePreserved == Invariant /\ [Next]_vars => TypeOK'
<1> SUFFICES ASSUME Invariant, [Next]_vars PROVE TypeOK'
    OBVIOUS
<1>1. ASSUME NEW c \in Calls, Approval(c) PROVE TypeOK'
    <2>1. CASE pc[c] = "redeem"
        <3>1. approval[c] \in Approvals
            BY <2>1 DEF Invariant, CallInv, Waiting
        <3> QED
            BY <1>1, <3>1, PollType, RedeemType DEF Approval, Invariant
    <2>2. CASE pc[c] # "redeem"
        BY <1>1, <2>2, PollType
           DEF Approval, Invariant, RedeemGrants, RedeemAnswerLost, RedeemReplayed, RedeemFails
    <2> QED
        BY <2>1, <2>2
<1>2. ASSUME NEW c \in Calls, Governance(c) PROVE TypeOK'
    BY <1>2, ChecksType, PreflightType DEF Governance, Invariant
<1>3. ASSUME NEW c \in Calls, StartWithoutTask(c) \/ Start(c) PROVE TypeOK'
    BY <1>3, ChecksType DEF Invariant
<1> QED
    BY <1>1, <1>2, <1>3, OtherTypes DEF Next, Continue, Invariant

\* Every step keeps the invariant.
LEMMA InvariantPreserved == Invariant /\ [Next]_vars => Invariant'
<1> SUFFICES ASSUME Invariant, [Next]_vars PROVE Invariant'
    OBVIOUS
<1>1. ASSUME NEW c \in Calls,
             StartWithoutTask(c) \/ Start(c) \/ Continue(c) \/ Cancel(c)
      PROVE  \A d \in Calls : CallInv(d)'
    <2>1. CallInv(c)' /\ OnlyCall(c)
        BY <1>1, ChecksKeep, PreflightKeeps, PollKeeps, RedeemKeeps, EndsKeep
           DEF Continue, Governance, Approval
    <2>2. ASSUME NEW d \in Calls \ {c} PROVE CallInv(d)'
        BY <2>1, OthersKeep DEF OnlyCall, Invariant
    <2> QED
        BY <2>1, <2>2
<1>2. CASE (\E a \in Approvals : Decide(a)) \/ KillSwitchChanges \/ UNCHANGED vars
    <2>1. Forward /\ \A d \in Calls : Untouched(d)
        BY <1>2, WorldKeeps
    <2> QED
        BY <2>1, OthersKeep, TypePreserved DEF Invariant
<1> QED
    BY <1>1, <1>2, TypePreserved DEF Next, Invariant

(***************************************************************************)
(* The theorems.                                                           *)
(***************************************************************************)

\* Every reachable state satisfies the invariant.
THEOREM InvariantHolds == Spec => []Invariant
BY InvariantInitially, InvariantPreserved, PTL DEF Spec

\* The variables keep their types.
THEOREM TypeCorrect == Spec => []TypeOK
<1>1. Invariant => TypeOK
    BY DEF Invariant
<1> QED
    BY <1>1, InvariantHolds, PTL

\* A high-risk function is entered only with an "allow", with an approved
\* approval that its own call consumed, or where failing open was configured.
THEOREM ExecutionIsGated == Spec => []GatedExecution
<1>1. Invariant => GatedExecution
    <2> SUFFICES ASSUME Invariant, NEW c \in HighRisk, ran[c]
                 PROVE  \/ verdict[c] = "allow"
                        \/ /\ verdict[c] = "approve" /\ approval[c] # Nobody
                           /\ status[approval[c]] = "approved" /\ holder[approval[c]] = c
                        \/ verdict[c] = "unreachable" /\ failMode = "open"
        BY DEF GatedExecution
    <2>1. c \in Calls
        BY CallsAssumption
    <2> QED
        BY <2>1 DEF Invariant, CallInv, Entered
<1> QED
    BY <1>1, InvariantHolds, PTL

\* However many calls wait for one approval, at most one of them runs on it.
THEOREM ApprovalRunsOnce == Spec => []OneRunPerApproval
<1>1. Invariant => OneRunPerApproval
    BY DEF Invariant, CallInv, Entered, OneRunPerApproval
<1> QED
    BY <1>1, InvariantHolds, PTL

\* No call that began after the kill runs, nor, in the strict mode, one that
\* found the kill switch down.
THEOREM KillSwitchGates == Spec => []KillSwitchGate
<1>1. Invariant => KillSwitchGate
    BY DEF Invariant, TypeOK, CallInv, Checked, KillSwitchGate
<1> QED
    BY <1>1, InvariantHolds, PTL

(***************************************************************************)
(* The audit trail.  A call records nothing before it is done, one event   *)
(* when it ends, and whatever it consumed by then is named in that event.  *)
(***************************************************************************)

\* The event tells how the call ended.
Truthful(c, event) ==
    /\ event.outcome = "denied" <=> ~ran[c]
    /\ ran[c] => event.failOpen = (verdict[c] = "unreachable") /\ event.grant = approval[c]
    /\ event.reason = "approval_replayed" =>
           approval[c] \in Approvals /\ holder[approval[c]] \in Calls \ {c}

Before(c) == pc[c] \notin {"running", "done"}

Trail(c) ==
    /\ pc[c] # "done" => audit[c] = <<>> /\ result[c] \in {"none", "cancelled"}
    /\ cancelled[c] => result[c] = "cancelled" /\ ~ran[c]
    /\ Before(c) => ~ran[c] /\ grant[c] = Nobody /\ failOpen[c] = FALSE
    /\ ran[c] => grant[c] = approval[c] /\ failOpen[c] = (verdict[c] = "unreachable")
    /\ pc[c] = "running" => ran[c]
    /\ pc[c] = "done" /\ (ran[c] \/ result[c] = "denied") => audit[c] # <<>>
    /\ audit[c] # <<>> => audit[c] = <<audit[c][1]>> /\ Truthful(c, audit[c][1])

\* What a call consumed is its approval, and it does not go back from there.
Consumed(c) ==
    \A a \in Approvals : holder[a] = c =>
        /\ a = approval[c] /\ ~Before(c)
        /\ pc[c] = "running" => ran[c]
        /\ pc[c] = "done" /\ ~cancelled[c] =>
               /\ audit[c] # <<>>
               /\ audit[c][1].grant = a \/ audit[c][1].reason = "approval_token_unavailable"

TrailInv == \A c \in Calls : Trail(c) /\ Consumed(c)

\* The first event of a trail is the trail.
LEMMA FirstEvent ==
    ASSUME TypeOK, NEW c \in Calls, audit[c] = <<>>, NEW event, Log(c, event)
    PROVE  audit'[c] = <<event>> /\ audit'[c][1] = event /\ audit'[c] # <<>>
<1>1. audit' = [audit EXCEPT ![c] = <<event>>]
    BY DEF Log
<1>2. audit'[c] = <<event>>
    BY <1>1 DEF TypeOK
<1> QED
    BY <1>2

LEMMA TrailInitially == Init => TrailInv
<1> SUFFICES ASSUME Init, NEW c \in Calls
             PROVE  Trail(c) /\ Consumed(c)
    BY DEF TrailInv
<1>1. /\ pc[c] = "idle" /\ audit[c] = <<>> /\ result[c] = "none" /\ cancelled[c] = FALSE
      /\ ran[c] = FALSE /\ grant[c] = Nobody /\ failOpen[c] = FALSE
      /\ \A a \in Approvals : holder[a] # c
    BY NobodyAssumption DEF Init
<1> QED
    BY <1>1 DEF Trail, Consumed, Before

\* The call is denied: it leaves one event, and what it consumed was not confirmed.
LEMMA DenyKeeps ==
    ASSUME Invariant, TrailInv, NEW c \in Calls, NEW reason \in Reasons, Before(c),
           Deny(c, reason), UNCHANGED <<cancelled, approval, grant>>,
           failOpen'[c] = failOpen[c],
           reason = "approval_replayed" =>
               approval[c] \in Approvals /\ holder'[approval[c]] \in Calls \ {c},
           \A a \in Approvals : holder'[a] = c =>
               a = approval[c] /\ reason = "approval_token_unavailable"
    PROVE  Trail(c)' /\ Consumed(c)'
<1>1. audit[c] = <<>> /\ ~ran[c] /\ grant[c] = Nobody /\ Trail(c)
    BY DEF TrailInv, Trail, Before
<1>2. audit'[c] = <<Denial(reason)>> /\ audit'[c][1] = Denial(reason) /\ audit'[c] # <<>>
    BY <1>1, FirstEvent DEF Deny, Invariant
<1>3. pc'[c] = "done" /\ ran' = ran /\ result'[c] = IF cancelled[c] THEN result[c] ELSE "denied"
    BY DEF Deny, End, Invariant, TypeOK
<1>4. Denial(reason).outcome = "denied" /\ Denial(reason).reason = reason
    BY DEF Denial
<1> HIDE DEF Denial
<1>5. Trail(c)'
    BY <1>1, <1>2, <1>3, <1>4 DEF Trail, Truthful, Before
<1>6. Consumed(c)'
    BY <1>2, <1>3, <1>4 DEF Consumed, Before
<1> QED
    BY <1>5, <1>6

\* The function is entered on what the call holds.
LEMMA EnterKeeps ==
    ASSUME Invariant, TrailInv, NEW c \in Calls, Before(c), Enter(c), ~cancelled[c],
           UNCHANGED <<cancelled, approval>>,
           grant'[c] = approval[c], failOpen'[c] = (verdict'[c] = "unreachable"),
           \A a \in Approvals : holder'[a] = c => a = approval[c]
    PROVE  Trail(c)' /\ Consumed(c)'
<1>1. audit[c] = <<>> /\ result[c] \in {"none", "cancelled"}
    BY DEF TrailInv, Trail, Before
<1>2. pc'[c] = "running" /\ ran'[c] = TRUE /\ UNCHANGED <<audit, result>>
    BY DEF Enter, Invariant, TypeOK
<1> QED
    BY <1>1, <1>2 DEF Trail, Consumed, Before

\* The call goes on, or its executor thread drops it, with nothing consumed.
LEMMA GoOnKeeps ==
    ASSUME Invariant, TrailInv, NEW c \in Calls, Before(c),
           \/ \E next \in {"queued", "revocation", "health", "verify", "preflight", "poll",
                           "wait", "redeem"} :
                  GoOn(c, next) /\ \A a \in Approvals : holder'[a] # c
           \/ /\ Discard(c) /\ cancelled[c]
              /\ \A a \in Approvals : holder'[a] = c => a = approval'[c],
           UNCHANGED <<cancelled, grant, failOpen>>
    PROVE  Trail(c)' /\ Consumed(c)'
<1>1. /\ audit[c] = <<>> /\ result[c] \in {"none", "cancelled"} /\ ~ran[c]
      /\ grant[c] = Nobody /\ failOpen[c] = FALSE
      /\ cancelled[c] => result[c] = "cancelled"
    BY DEF TrailInv, Trail, Before
<1>2. UNCHANGED <<audit, result, ran>>
    BY DEF GoOn, Discard
<1>3. \/ pc'[c] \in {"queued", "revocation", "health", "verify", "preflight", "poll",
                     "wait", "redeem"} /\ \A a \in Approvals : holder'[a] # c
      \/ /\ pc'[c] = "done" /\ cancelled[c]
         /\ \A a \in Approvals : holder'[a] = c => a = approval'[c]
    BY DEF GoOn, Discard, Invariant, TypeOK
<1> QED
    BY <1>1, <1>2, <1>3 DEF Trail, Consumed, Before


\* A call that has not come to the function has consumed nothing yet.
LEMMA NothingConsumed ==
    ASSUME TrailInv, NEW c \in Calls, Before(c)
    PROVE  \A a \in Approvals : holder[a] # c
BY DEF TrailInv, Consumed

\* A call that ends without an event was neither denied nor executed.
LEMMA SilentEnd ==
    ASSUME Invariant, TrailInv, NEW c \in Calls, Before(c),
           NEW how \in {"no_task", "no_token", "crashed"}, End(c, how),
           UNCHANGED <<cancelled, grant, failOpen, audit, ran, holder>>
    PROVE  Trail(c)' /\ Consumed(c)'
<1>1. /\ audit[c] = <<>> /\ result[c] \in {"none", "cancelled"} /\ ~ran[c]
      /\ cancelled[c] => result[c] = "cancelled"
    BY DEF TrailInv, Trail, Before
<1>2. /\ pc'[c] = "done" /\ result'[c] = IF cancelled[c] THEN result[c] ELSE how
      /\ result'[c] # "denied"
    BY <1>1 DEF End, Invariant, TypeOK
<1>3. \A a \in Approvals : holder'[a] # c
    BY NothingConsumed
<1> QED
    BY <1>1, <1>2, <1>3 DEF Trail, Consumed, Before

\* The steps up to the preflight.
LEMMA ChecksTrail ==
    ASSUME Invariant, TrailInv, NEW c \in Calls,
           Start(c) \/ Dequeue(c) \/ CheckRevocation(c)
               \/ CheckHealth(c) \/ VerifyDenies(c) \/ VerifyAborts(c) \/ VerifyAccepts(c)
    PROVE  Trail(c)' /\ Consumed(c)'
<1> USE DEF wrapperVars, serverVars
<1>1. Before(c) /\ grant[c] = Nobody /\ failOpen[c] = FALSE /\ verdict[c] = "none"
      /\ approval[c] = Nobody
    <2>1. pc[c] \in {"idle", "queued", "revocation", "health", "verify"}
        BY DEF Start, Dequeue, CheckRevocation, CheckHealth, VerifyDenies, VerifyAborts, VerifyAccepts
    <2> QED
        BY <2>1 DEF Before, TrailInv, Trail, Invariant, CallInv, Undecided
<1>2. UNCHANGED <<cancelled, approval, grant, failOpen, holder, verdict>>
    BY DEF Start, Dequeue, CheckRevocation, CheckHealth, VerifyDenies, VerifyAborts, VerifyAccepts
<1>3. \A a \in Approvals : holder'[a] # c
    BY <1>1, <1>2, NothingConsumed
<1>4. \/ \E reason \in {"agent_revoked", "kill_switch_degraded", "local_verify"} : Deny(c, reason)
      \/ \E next \in {"queued", "revocation", "health", "verify", "preflight"} : GoOn(c, next)
      \/ Granted(c)
      \/ \E how \in {"no_token", "crashed"} : End(c, how) /\ UNCHANGED <<audit, ran>>
    BY DEF Start, Dequeue, CheckRevocation, CheckHealth, VerifyDenies, VerifyAborts, VerifyAccepts
<1>5. CASE \E reason \in {"agent_revoked", "kill_switch_degraded", "local_verify"} : Deny(c, reason)
    <2>1. PICK reason \in Reasons : Deny(c, reason) /\ reason # "approval_replayed"
        BY <1>5 DEF Reasons
    <2> QED
        BY <1>1, <1>2, <1>3, <2>1, DenyKeeps
<1>6. CASE \E next \in {"queued", "revocation", "health", "verify", "preflight"} : GoOn(c, next)
    BY <1>1, <1>2, <1>3, <1>6, GoOnKeeps
<1>7. CASE Granted(c)
    <2>1. CASE cancelled[c]
        BY <1>1, <1>2, <1>3, <1>7, <2>1, GoOnKeeps DEF Granted
    <2>2. CASE ~cancelled[c]
        BY <1>1, <1>2, <1>3, <1>7, <2>2, EnterKeeps DEF Granted
    <2> QED
        BY <2>1, <2>2
<1>8. CASE \E how \in {"no_token", "crashed"} : End(c, how) /\ UNCHANGED <<audit, ran>>
    BY <1>1, <1>2, <1>8, SilentEnd
<1> QED
    BY <1>4, <1>5, <1>6, <1>7, <1>8

\* The preflight's answers.
LEMMA PreflightTrail ==
    ASSUME Invariant, TrailInv, NEW c \in Calls,
           PreflightAllows(c) \/ PreflightDenies(c) \/ PreflightNeedsApproval(c)
               \/ PreflightFails(c) \/ PreflightCrashes(c)
    PROVE  Trail(c)' /\ Consumed(c)'
<1> USE DEF wrapperVars, serverVars
<1>1. /\ Before(c) /\ grant[c] = Nobody /\ failOpen[c] = FALSE /\ approval[c] = Nobody
      /\ UNCHANGED <<cancelled, grant>>
    <2>1. pc[c] = "preflight" /\ UNCHANGED <<cancelled, grant>>
        BY DEF PreflightAllows, PreflightDenies, PreflightNeedsApproval, PreflightFails,
               PreflightCrashes, Answered
    <2> QED
        BY <2>1 DEF Before, TrailInv, Trail, Invariant, CallInv, Undecided
<1>2. holder' = holder
    BY DEF PreflightAllows, PreflightDenies, PreflightNeedsApproval, PreflightFails, PreflightCrashes
<1>3. \A a \in Approvals : holder'[a] # c
    BY <1>1, <1>2, NothingConsumed
<1>4. \A v \in {"allow", "unreachable"} : Answered(c, v) => verdict'[c] = v
    BY DEF Answered, Invariant, TypeOK
<1>5. CASE PreflightAllows(c)
    <2>1. UNCHANGED <<approval, failOpen>> /\ verdict'[c] = "allow" /\ Granted(c)
        BY <1>4, <1>5 DEF PreflightAllows
    <2>2. CASE cancelled[c]
        BY <1>1, <1>3, <2>1, <2>2, GoOnKeeps DEF Granted
    <2>3. CASE ~cancelled[c]
        BY <1>1, <1>3, <2>1, <2>3, EnterKeeps DEF Granted
    <2> QED
        BY <2>2, <2>3
<1>6. CASE PreflightDenies(c)
    <2>1. PICK reason \in Reasons : Deny(c, reason) /\ reason # "approval_replayed"
        BY <1>6 DEF PreflightDenies, Reasons
    <2>2. UNCHANGED <<approval, failOpen>>
        BY <1>6 DEF PreflightDenies
    <2> QED
        BY <1>1, <1>3, <2>1, <2>2, DenyKeeps
<1>7. CASE PreflightNeedsApproval(c)
    <2>1. UNCHANGED failOpen /\ IF cancelled[c] THEN Discard(c) ELSE GoOn(c, "poll")
        BY <1>7 DEF PreflightNeedsApproval
    <2> QED
        BY <1>1, <1>3, <2>1, GoOnKeeps
<1>8. CASE PreflightFails(c)
    <2>0. UNCHANGED approval /\ verdict'[c] = "unreachable"
        BY <1>4, <1>8 DEF PreflightFails
    <2>1. CASE failMode = "closed"
        <3>1. Deny(c, "sigil_unreachable") /\ UNCHANGED failOpen
            BY <1>8, <2>1 DEF PreflightFails
        <3> QED
            BY <1>1, <1>3, <2>0, <3>1, DenyKeeps DEF Reasons
    <2>2. CASE failMode # "closed" /\ cancelled[c]
        <3>1. Discard(c) /\ failOpen' = [failOpen EXCEPT ![c] = TRUE]
            BY <1>8, <2>2 DEF PreflightFails, Granted
        <3>2. audit[c] = <<>> /\ ~ran[c] /\ result[c] = "cancelled" /\ UNCHANGED <<audit, ran, result>>
            BY <1>1, <2>2, <3>1 DEF TrailInv, Trail, Before, Discard
        <3>3. pc'[c] = "done"
            BY <3>1 DEF Discard, Invariant, TypeOK
        <3> QED
            BY <1>1, <1>3, <2>2, <3>2, <3>3 DEF Trail, Consumed, Before
    <2>3. CASE failMode # "closed" /\ ~cancelled[c]
        <3>1. Enter(c) /\ failOpen'[c] = TRUE
            BY <1>8, <2>3 DEF PreflightFails, Granted, Invariant, TypeOK
        <3> QED
            BY <1>1, <1>3, <2>0, <2>3, <3>1, EnterKeeps
    <2> QED
        BY <2>1, <2>2, <2>3
<1>9. CASE PreflightCrashes(c)
    BY <1>1, <1>2, <1>9, SilentEnd DEF PreflightCrashes
<1> QED
    BY <1>5, <1>6, <1>7, <1>8, <1>9

\* Polling and redeeming.
LEMMA ApprovalTrail ==
    ASSUME Invariant, TrailInv, NEW c \in Calls, Approval(c)
    PROVE  Trail(c)' /\ Consumed(c)'
<1> USE DEF wrapperVars, serverVars
<1>1. /\ Before(c) /\ grant[c] = Nobody /\ failOpen[c] = FALSE /\ verdict[c] = "approve"
      /\ approval[c] \in Approvals
      /\ UNCHANGED <<cancelled, approval, failOpen, verdict>>
    <2>1. pc[c] \in {"poll", "wait", "redeem"}
        BY DEF Approval, PollFails, PollPending, PollTimeout, PollResolved, PollAgain,
               RedeemGrants, RedeemAnswerLost, RedeemReplayed, RedeemFails
    <2>2. PollUnchanged \/ RedeemUnchanged
        BY DEF Approval, PollFails, PollPending, PollTimeout, PollResolved, PollAgain,
               RedeemGrants, RedeemAnswerLost, RedeemReplayed, RedeemFails
    <2> QED
        BY <2>1, <2>2 DEF Before, TrailInv, Trail, Invariant, CallInv, Waiting,
                          PollUnchanged, RedeemUnchanged
<1>2. \A a \in Approvals : holder[a] # c
    BY <1>1, NothingConsumed
<1>3. CASE PollFails(c) \/ PollPending(c) \/ PollTimeout(c) \/ PollResolved(c) \/ PollAgain(c)
    <2>1. UNCHANGED <<grant, holder>>
        BY <1>3 DEF PollFails, PollPending, PollTimeout, PollResolved, PollAgain, PollUnchanged
    <2>2. \/ \E reason \in Reasons \ {"approval_replayed"} : Deny(c, reason)
          \/ \E next \in {"wait", "redeem", "poll"} : GoOn(c, next)
        BY <1>3 DEF PollFails, PollPending, PollTimeout, PollResolved, PollAgain, Reasons
    <2>3. CASE \E reason \in Reasons \ {"approval_replayed"} : Deny(c, reason)
        BY <1>1, <1>2, <2>1, <2>3, DenyKeeps
    <2>4. CASE \E next \in {"wait", "redeem", "poll"} : GoOn(c, next)
        BY <1>1, <1>2, <2>1, <2>4, GoOnKeeps
    <2> QED
        BY <2>2, <2>3, <2>4
<1>4. \A a \in Approvals : holder' = [holder EXCEPT ![approval[c]] = c] =>
                               (holder'[a] = c => a = approval[c])
    BY <1>1, <1>2 DEF Invariant, TypeOK
<1>5. CASE RedeemGrants(c)
    <2>1. holder' = [holder EXCEPT ![approval[c]] = c]
        BY <1>5 DEF RedeemGrants
    <2>2. CASE cancelled[c]
        <3>1. Discard(c) /\ UNCHANGED grant
            BY <1>5, <2>2 DEF RedeemGrants
        <3> QED
            BY <1>1, <1>4, <2>1, <2>2, <3>1, GoOnKeeps
    <2>3. CASE ~cancelled[c]
        <3>1. Enter(c) /\ grant'[c] = approval[c]
            BY <1>5, <2>3 DEF RedeemGrants, Invariant, TypeOK
        <3> QED
            BY <1>1, <1>4, <2>1, <2>3, <3>1, EnterKeeps
    <2> QED
        BY <2>2, <2>3
<1>6. CASE RedeemAnswerLost(c)
    <2>1. holder' = [holder EXCEPT ![approval[c]] = c] /\ UNCHANGED grant
        BY <1>6 DEF RedeemAnswerLost
    <2>2. CASE cancelled[c]
        BY <1>1, <1>4, <1>6, <2>1, <2>2, GoOnKeeps DEF RedeemAnswerLost, RedeemDenied
    <2>3. CASE ~cancelled[c]
        <3>1. Deny(c, "approval_token_unavailable") /\ "approval_token_unavailable" \in Reasons
            BY <1>6, <2>3 DEF RedeemAnswerLost, RedeemDenied, Reasons
        <3> QED
            BY <1>1, <1>4, <2>1, <3>1, DenyKeeps
    <2> QED
        BY <2>2, <2>3
<1>7. CASE RedeemReplayed(c) \/ RedeemFails(c)
    <2>1. UNCHANGED <<holder, grant>>
        BY <1>7 DEF RedeemReplayed, RedeemFails
    <2>2. CASE cancelled[c]
        BY <1>1, <1>2, <1>7, <2>1, <2>2, GoOnKeeps DEF RedeemReplayed, RedeemFails, RedeemDenied
    <2>3. CASE ~cancelled[c]
        <3>1. \/ Deny(c, "approval_token_unavailable")
              \/ Deny(c, "approval_replayed") /\ holder[approval[c]] # Nobody
            BY <1>7, <2>3 DEF RedeemReplayed, RedeemFails, RedeemDenied
        <3>2. holder[approval[c]] # Nobody => holder[approval[c]] \in Calls \ {c}
            BY <1>1, <1>2 DEF Invariant, TypeOK
        <3>3. {"approval_token_unavailable", "approval_replayed"} \subseteq Reasons
            BY DEF Reasons
        <3>4. CASE Deny(c, "approval_token_unavailable")
            BY <1>1, <1>2, <2>1, <3>3, <3>4, DenyKeeps
        <3>5. CASE Deny(c, "approval_replayed") /\ holder[approval[c]] # Nobody
            BY <1>1, <1>2, <2>1, <3>2, <3>3, <3>5, DenyKeeps
        <3> QED
            BY <3>1, <3>4, <3>5
    <2> QED
        BY <2>2, <2>3
<1> QED
    BY <1>3, <1>5, <1>6, <1>7 DEF Approval


\* The end of the function, and of the coroutine.
LEMMA EndsTrail ==
    ASSUME Invariant, TrailInv, NEW c \in Calls, StartWithoutTask(c) \/ Finish(c) \/ Cancel(c)
    PROVE  Trail(c)' /\ Consumed(c)'
<1> USE DEF wrapperVars, serverVars
<1>1. CASE StartWithoutTask(c)
    BY <1>1, SilentEnd DEF StartWithoutTask, Before
<1>2. CASE Finish(c)
    <2>1. PICK outcome \in {"allowed", "error"} : Log(c, Report(c, outcome))
        BY <1>2 DEF Finish
    <2>2. pc[c] = "running" /\ Trail(c) /\ Consumed(c)
        BY <1>2 DEF Finish, TrailInv
    <2>3. audit[c] = <<>> /\ ran[c] /\ ~cancelled[c]
        BY <2>2 DEF Trail
    <2>4. audit'[c] = <<Report(c, outcome)>> /\ audit'[c][1] = Report(c, outcome) /\ audit'[c] # <<>>
        BY <2>1, <2>3, FirstEvent DEF Invariant
    <2>5. /\ Report(c, outcome).outcome # "denied" /\ Report(c, outcome).reason = "none"
          /\ Report(c, outcome).grant = grant[c] /\ Report(c, outcome).failOpen = failOpen[c]
        BY DEF Report
    <2> HIDE DEF Report
    <2>6. pc'[c] = "done" /\ UNCHANGED <<cancelled, approval, grant, failOpen, holder, verdict, ran>>
        BY <1>2 DEF Finish, End, Invariant, TypeOK
    <2>7. Trail(c)'
        BY <2>2, <2>3, <2>4, <2>5, <2>6 DEF Trail, Truthful, Before
    <2>8. Consumed(c)'
        BY <2>2, <2>3, <2>4, <2>5, <2>6 DEF Trail, Consumed, Before
    <2> QED
        BY <2>7, <2>8
<1>3. CASE Cancel(c)
    <2>1. /\ Before(c) /\ cancelled'[c] = TRUE /\ result'[c] = "cancelled"
          /\ pc'[c] = "done" \/ pc'[c] = pc[c]
          /\ UNCHANGED <<approval, grant, failOpen, holder, verdict, ran, audit>>
        BY <1>3 DEF Cancel, Before, Invariant, TypeOK
    <2>2. audit[c] = <<>> /\ ~ran[c] /\ Trail(c) /\ \A a \in Approvals : holder[a] # c
        BY <2>1, NothingConsumed DEF TrailInv, Trail, Before
    <2> QED
        BY <2>1, <2>2 DEF Trail, Consumed, Before
<1> QED
    BY <1>1, <1>2, <1>3

\* What a step leaves alone of a call it is not about.
Undisturbed(d) ==
    /\ pc'[d] = pc[d] /\ result'[d] = result[d] /\ cancelled'[d] = cancelled[d]
    /\ approval'[d] = approval[d] /\ grant'[d] = grant[d] /\ failOpen'[d] = failOpen[d]
    /\ audit'[d] = audit[d] /\ verdict'[d] = verdict[d] /\ ran'[d] = ran[d]
    /\ \A a \in Approvals : /\ holder'[a] = d => holder[a] = d
                            /\ holder[a] # Nobody => holder'[a] = holder[a]

LEMMA OthersTrail ==
    ASSUME NEW d \in Calls, Trail(d), Consumed(d), Undisturbed(d)
    PROVE  Trail(d)' /\ Consumed(d)'
<1>1. \A event : Truthful(d, event) => Truthful(d, event)'
    BY NobodyAssumption DEF Truthful, Undisturbed
<1>2. Trail(d)'
    BY <1>1 DEF Trail, Before, Undisturbed
<1>3. Consumed(d)'
    BY DEF Consumed, Before, Undisturbed
<1> QED
    BY <1>2, <1>3

\* The ways a step may end write no other call's outcome.
LEMMA OutcomeAlone ==
    ASSUME TypeOK, NEW c \in Calls, NEW d \in Calls \ {c}
    PROVE  LET Same == /\ pc'[d] = pc[d] /\ result'[d] = result[d]
                       /\ audit'[d] = audit[d] /\ ran'[d] = ran[d]
           IN  /\ \A reason : Deny(c, reason) => Same
               /\ \A next : GoOn(c, next) => Same
               /\ Enter(c) \/ Discard(c) \/ Granted(c) => Same
               /\ \A how : End(c, how) => pc'[d] = pc[d] /\ result'[d] = result[d]
               /\ \A event : Log(c, event) => audit'[d] = audit[d]
BY DEF TypeOK, Deny, End, Log, GoOn, Enter, Discard, Granted

LEMMA StepAlone ==
    ASSUME Invariant, NEW c \in Calls, NEW d \in Calls \ {c},
           StartWithoutTask(c) \/ Start(c) \/ Continue(c) \/ Cancel(c)
    PROVE  Undisturbed(d)
<1> USE DEF wrapperVars, serverVars
<1>1. TypeOK
    BY DEF Invariant
<1>2. CASE Governance(c)
    <2>1. /\ pc'[d] = pc[d] /\ result'[d] = result[d] /\ audit'[d] = audit[d] /\ ran'[d] = ran[d]
        <3>1. CASE PreflightCrashes(c) \/ VerifyAborts(c)
            BY <1>1, <3>1, OutcomeAlone DEF PreflightCrashes, VerifyAborts
        <3>2. CASE ~(PreflightCrashes(c) \/ VerifyAborts(c))
            BY <1>1, <1>2, <3>2, OutcomeAlone
               DEF Governance, Dequeue, CheckRevocation, CheckHealth, VerifyDenies, VerifyAccepts,
                   PreflightAllows, PreflightDenies, PreflightNeedsApproval, PreflightFails
        <3> QED
            BY <3>1, <3>2
    <2>2. holder' = holder /\ UNCHANGED <<cancelled, grant>>
        BY <1>2 DEF Governance, Dequeue, CheckRevocation, CheckHealth, VerifyDenies, VerifyAborts,
               VerifyAccepts, PreflightAllows, PreflightDenies, PreflightNeedsApproval, PreflightFails,
               PreflightCrashes, Answered
    <2>3. approval'[d] = approval[d] /\ failOpen'[d] = failOpen[d] /\ verdict'[d] = verdict[d]
        BY <1>1, <1>2
           DEF Governance, Dequeue, CheckRevocation, CheckHealth, VerifyDenies, VerifyAborts,
               VerifyAccepts, PreflightAllows, PreflightDenies, PreflightNeedsApproval, PreflightFails,
               PreflightCrashes, Answered, TypeOK
    <2> QED
        BY <2>1, <2>2, <2>3 DEF Undisturbed
<1>3. CASE Approval(c)
    <2>1. /\ pc'[d] = pc[d] /\ result'[d] = result[d] /\ audit'[d] = audit[d] /\ ran'[d] = ran[d]
        BY <1>1, <1>3, OutcomeAlone
           DEF Approval, PollFails, PollPending, PollTimeout, PollResolved, PollAgain,
               RedeemGrants, RedeemAnswerLost, RedeemReplayed, RedeemFails, RedeemDenied
    <2>2. UNCHANGED <<cancelled, approval, failOpen, verdict>>
        BY <1>3 DEF Approval, PollFails, PollPending, PollTimeout, PollResolved, PollAgain,
               RedeemGrants, RedeemAnswerLost, RedeemReplayed, RedeemFails, PollUnchanged,
               RedeemUnchanged
    <2>3. grant'[d] = grant[d]
        BY <1>1, <1>3 DEF Approval, PollFails, PollPending, PollTimeout, PollResolved, PollAgain,
               RedeemGrants, RedeemAnswerLost, RedeemReplayed, RedeemFails, PollUnchanged, TypeOK
    <2>4. \/ holder' = holder
          \/ holder[approval[c]] = Nobody /\ holder' = [holder EXCEPT ![approval[c]] = c]
        BY <1>3 DEF Approval, PollFails, PollPending, PollTimeout, PollResolved, PollAgain,
               RedeemGrants, RedeemAnswerLost, RedeemReplayed, RedeemFails, PollUnchanged
    <2>5. \A a \in Approvals : /\ holder'[a] = d => holder[a] = d
                               /\ holder[a] # Nobody => holder'[a] = holder[a]
        BY <1>1, <2>4 DEF TypeOK
    <2> QED
        BY <2>1, <2>2, <2>3, <2>5 DEF Undisturbed
<1>4. CASE StartWithoutTask(c) \/ Start(c) \/ Finish(c)
    <2>1. /\ pc'[d] = pc[d] /\ result'[d] = result[d] /\ audit'[d] = audit[d] /\ ran'[d] = ran[d]
        BY <1>1, <1>4, OutcomeAlone DEF StartWithoutTask, Start, Finish
    <2> QED
        BY <1>4, <2>1 DEF StartWithoutTask, Start, Finish, Undisturbed
<1>5. CASE Cancel(c)
    BY <1>1, <1>5 DEF Cancel, Undisturbed, TypeOK
<1> QED
    BY <1>2, <1>3, <1>4, <1>5 DEF Continue

LEMMA TrailPreserved == Invariant /\ TrailInv /\ [Next]_vars => TrailInv'
<1> SUFFICES ASSUME Invariant, TrailInv, [Next]_vars, NEW d \in Calls
             PROVE  Trail(d)' /\ Consumed(d)'
    BY DEF TrailInv
<1>1. Trail(d) /\ Consumed(d)
    BY DEF TrailInv
<1>2. ASSUME NEW c \in Calls, StartWithoutTask(c) \/ Start(c) \/ Continue(c) \/ Cancel(c)
      PROVE  Trail(d)' /\ Consumed(d)'
    <2>1. CASE c = d
        BY <1>2, <2>1, ChecksTrail, PreflightTrail, ApprovalTrail, EndsTrail
           DEF Continue, Governance
    <2>2. CASE c # d
        BY <1>1, <1>2, <2>2, StepAlone, OthersTrail
    <2> QED
        BY <2>1, <2>2
<1>3. ASSUME (\E a \in Approvals : Decide(a)) \/ KillSwitchChanges \/ UNCHANGED vars
      PROVE  Undisturbed(d)
    BY <1>3 DEF Decide, KillSwitchChanges, vars, wrapperVars, serverVars, Undisturbed
<1> QED
    BY <1>1, <1>2, <1>3, OthersTrail DEF Next

LEMMA TrailHolds == Spec => [](Invariant /\ TrailInv)
<1>1. Init => Invariant /\ TrailInv
    BY InvariantInitially, TrailInitially
<1>2. Invariant /\ TrailInv /\ [Next]_vars => (Invariant /\ TrailInv)'
    BY InvariantPreserved, TrailPreserved
<1> QED
    BY <1>1, <1>2, PTL DEF Spec

\* One event for each call that ran or was denied, with what it ran under.
THEOREM TrailTellsTheTruth == Spec => []AuditTellsTheTruth
<1>1. Invariant /\ TrailInv => AuditTellsTheTruth
    <2> SUFFICES ASSUME Invariant, TrailInv, NEW c \in Calls
                 PROVE  /\ Len(audit[c]) <= 1
                        /\ pc[c] = "done" /\ (ran[c] \/ result[c] = "denied") => Len(audit[c]) = 1
                        /\ \A i \in 1..Len(audit[c]) :
                              /\ pc[c] = "done"
                              /\ audit[c][i].outcome = "denied" <=> ~ran[c]
                              /\ ran[c] => /\ audit[c][i].failOpen = (verdict[c] = "unreachable")
                                          /\ audit[c][i].grant = approval[c]
        BY DEF AuditTellsTheTruth
    <2>1. Trail(c)
        BY DEF TrailInv
    <2>2. CASE audit[c] = <<>>
        <3>1. Len(audit[c]) = 0
            BY <2>2
        <3> QED
            BY <2>1, <2>2, <3>1 DEF Trail
    <2>3. CASE audit[c] # <<>>
        <3>1. PICK event : audit[c] = <<event>>
            BY <2>1, <2>3 DEF Trail
        <3>2. Len(<<event>>) = 1
            OBVIOUS
        <3>3. Len(audit[c]) = 1
            BY <3>1, <3>2
        <3> QED
            BY <2>1, <2>3, <3>3 DEF Trail, Truthful
    <2> QED
        BY <2>2, <2>3
<1> QED
    BY <1>1, TrailHolds, PTL

\* What a call consumed is named in its event, unless its coroutine is gone.
THEOREM ConsumedAccounted == Spec => []ConsumedApprovalsAudited
<1>1. Invariant /\ TrailInv => ConsumedApprovalsAudited
    <2> SUFFICES ASSUME Invariant, TrailInv, NEW a \in Approvals, holder[a] # Nobody,
                        pc[holder[a]] = "done", ~cancelled[holder[a]]
                 PROVE  \E i \in 1..Len(audit[holder[a]]) :
                            \/ audit[holder[a]][i].grant = a
                            \/ audit[holder[a]][i].reason = "approval_token_unavailable"
        BY DEF ConsumedApprovalsAudited
    <2>1. PICK c \in Calls : c = holder[a]
        BY DEF Invariant, TypeOK
    <2>2. audit[c] # <<>> /\ (audit[c][1].grant = a \/ audit[c][1].reason = "approval_token_unavailable")
        BY <2>1 DEF TrailInv, Consumed
    <2>3. audit[c] = <<audit[c][1]>>
        BY <2>2 DEF TrailInv, Trail
    <2>4. 1 \in 1..Len(audit[c])
        BY <2>3
    <2> QED
        BY <2>1, <2>2, <2>4
<1> QED
    BY <1>1, TrailHolds, PTL

\* A call is told of a replay only where another call consumed the approval.
THEOREM ReplayIsReal == Spec => []ReplayIsSomeoneElses
<1>1. Invariant /\ TrailInv => ReplayIsSomeoneElses
    <2> SUFFICES ASSUME Invariant, TrailInv, NEW c \in Calls, NEW i \in 1..Len(audit[c]),
                        audit[c][i].reason = "approval_replayed"
                 PROVE  holder[approval[c]] \in Calls \ {c}
        BY DEF ReplayIsSomeoneElses
    <2>1. audit[c] # <<>>
        OBVIOUS
    <2>2. audit[c] = <<audit[c][1]>> /\ Truthful(c, audit[c][1])
        BY <2>1 DEF TrailInv, Trail
    <2>3. i = 1
        BY <2>2
    <2> QED
        BY <2>2, <2>3 DEF Truthful
<1> QED
    BY <1>1, TrailHolds, PTL


=============================================================================
