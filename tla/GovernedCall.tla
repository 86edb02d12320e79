---------------------------- MODULE GovernedCall ----------------------------
(***************************************************************************)
(* The governance flow that @instrumented_tool and @instrumented_llm put   *)
(* around a function: revocation check, kill-switch gate, local verify,    *)
(* preflight, approval poll, redemption, execution, audit event.  Several  *)
(* calls run at once, in threads and in coroutines whose blocking steps    *)
(* are handed to executor threads, while kills arrive, the kill switch     *)
(* loses and regains its connection (RevocationCache), a human decides on  *)
(* approvals and sigil-core answers, fails or stays silent.                *)
(*                                                                         *)
(* Abstracted: arguments, hashes, redaction and entropy (carried, never    *)
(* decided on), the verdict of verify_local, and time: a pending approval  *)
(* times out at some poll (ApprovalWait models when).                      *)
(***************************************************************************)
EXTENDS Naturals, Sequences

CONSTANTS
    Calls,      \* the calls of instrumented functions
    HighRisk,   \* those whose risk_tier is "high" or "critical"
    Async,      \* those of async functions
    Approvals,  \* approval ids
    Nobody      \* no call, no approval

ASSUME CallsAssumption == HighRisk \subseteq Calls /\ Async \subseteq Calls
ASSUME NobodyAssumption == Nobody \notin Calls /\ Nobody \notin Approvals

VARIABLES
    revoked, healthy,   \* what the client's kill switch answers
    failMode,           \* client.fail_mode
    ksFailMode,         \* client.kill_switch_fail_mode
    pc,                 \* where each call is
    result,             \* how the wrapper ended, "none" before
    cancelled,          \* the coroutine is gone, its executor thread goes on
    approval,           \* the approval the call waits for
    grant,              \* approval_grant_id: the approval the call redeemed
    failOpen,           \* the call proceeds although sigil-core is unreachable
    audit,              \* the call's audit events, oldest first
    status,             \* each approval's status at sigil-core
    holder,             \* the call whose request consumed the approval
    verdict,            \* history: what the preflight answered
    ran,                \* history: the wrapped function was entered
    doomed,             \* history: the agent was revoked when the call began
    degraded            \* history: the kill switch was down at the call's check

configVars == <<failMode, ksFailMode>>
cacheVars == <<revoked, healthy>>
serverVars == <<status, holder>>
wrapperVars == <<cancelled, doomed, degraded>>
vars == <<revoked, healthy, failMode, ksFailMode, pc, result, cancelled, approval,
          grant, failOpen, audit, status, holder, verdict, ran, doomed, degraded>>

Cache == INSTANCE RevocationCache

Reasons == {"agent_revoked", "kill_switch_degraded", "local_verify", "policy_deny",
            "unknown_verdict", "sigil_unreachable", "approval_rejected",
            "approval_expired", "approval_timeout", "approval_service_unavailable",
            "approval_replayed", "approval_token_unavailable"}

Events == [outcome : {"allowed", "error", "denied"}, reason : Reasons \cup {"none"},
           grant : Approvals \cup {Nobody}, failOpen : BOOLEAN,
           via : {"buffer", "overflow"}]

Denial(reason) == [outcome |-> "denied", reason |-> reason, grant |-> Nobody,
                   failOpen |-> FALSE,
                   via |-> IF reason = "sigil_unreachable" THEN "overflow" ELSE "buffer"]

\* The event of a call whose function was entered.
Report(c, outcome) == [outcome |-> outcome, reason |-> "none", grant |-> grant[c],
                       failOpen |-> failOpen[c], via |-> "buffer"]

Init == /\ Cache!CacheInit
        /\ failMode \in {"open", "closed"} /\ ksFailMode \in {"open", "closed"}
        /\ pc = [c \in Calls |-> "idle"]
        /\ result = [c \in Calls |-> "none"]
        /\ cancelled = [c \in Calls |-> FALSE]
        /\ approval = [c \in Calls |-> Nobody]
        /\ grant = [c \in Calls |-> Nobody]
        /\ failOpen = [c \in Calls |-> FALSE]
        /\ audit = [c \in Calls |-> <<>>]
        /\ status = [a \in Approvals |-> "absent"]
        /\ holder = [a \in Approvals |-> Nobody]
        /\ verdict = [c \in Calls |-> "none"]
        /\ ran = [c \in Calls |-> FALSE]
        /\ doomed = [c \in Calls |-> FALSE]
        /\ degraded = [c \in Calls |-> FALSE]

(***************************************************************************)
(* How a step of a call ends.                                              *)
(***************************************************************************)

\* The wrapper ends, unless its coroutine was cancelled before.
End(c, how) == /\ pc' = [pc EXCEPT ![c] = "done"]
               /\ result' = [result EXCEPT ![c] = IF cancelled[c] THEN @ ELSE how]

Log(c, event) == audit' = [audit EXCEPT ![c] = Append(@, event)]

\* Push a denied event and raise SigilDeniedError.
Deny(c, reason) == /\ Log(c, Denial(reason))
                   /\ End(c, "denied")
                   /\ UNCHANGED ran

\* On to the next step.
GoOn(c, next) == /\ pc' = [pc EXCEPT ![c] = next]
                 /\ UNCHANGED <<result, audit, ran>>

\* Enter the wrapped function.
Enter(c) == /\ pc' = [pc EXCEPT ![c] = "running"]
            /\ ran' = [ran EXCEPT ![c] = TRUE]
            /\ UNCHANGED <<result, audit>>

\* The executor thread is done with what a cancelled coroutine asked of it.
Discard(c) == pc' = [pc EXCEPT ![c] = "done"] /\ UNCHANGED <<result, audit, ran>>

\* _governance_check returns without an approval to wait for.
Granted(c) == IF cancelled[c] THEN Discard(c) ELSE Enter(c)

(***************************************************************************)
(* _governance_check: in the caller's thread, or in an executor thread.    *)
(***************************************************************************)

\* A call outside a task is refused, and leaves no event.
StartWithoutTask(c) ==
    /\ pc[c] = "idle"
    /\ End(c, "no_task")
    /\ UNCHANGED <<cacheVars, configVars, wrapperVars, approval, grant, failOpen,
                   audit, serverVars, verdict, ran>>

Start(c) ==
    /\ pc[c] = "idle"
    /\ GoOn(c, IF c \in Async THEN "queued" ELSE "revocation")
    /\ doomed' = [doomed EXCEPT ![c] = revoked]
    /\ UNCHANGED <<cacheVars, configVars, cancelled, degraded, approval, grant,
                   failOpen, serverVars, verdict>>

\* An executor thread takes the governance check up.
Dequeue(c) ==
    /\ pc[c] = "queued"
    /\ GoOn(c, "revocation")
    /\ UNCHANGED <<cacheVars, configVars, wrapperVars, approval, grant, failOpen,
                   serverVars, verdict>>

\* Mutant: calls that will preflight leave the revocation check to sigil-core.
CheckRevocationIfLow(c) ==
    /\ pc[c] = "revocation"
    /\ IF revoked /\ c \notin HighRisk THEN Deny(c, "agent_revoked") ELSE GoOn(c, "health")
    /\ UNCHANGED <<cacheVars, configVars, wrapperVars, approval, grant, failOpen,
                   serverVars, verdict>>

CheckRevocation(c) ==
    /\ pc[c] = "revocation"
    /\ IF revoked THEN Deny(c, "agent_revoked") ELSE GoOn(c, "health")
    /\ UNCHANGED <<cacheVars, configVars, wrapperVars, approval, grant, failOpen,
                   serverVars, verdict>>

\* Mutant: calls that will preflight pass the gate, since sigil-core decides.
CheckHealthIfLow(c) ==
    /\ pc[c] = "health"
    /\ degraded' = [degraded EXCEPT ![c] = ~healthy]
    /\ IF ksFailMode = "closed" /\ ~healthy /\ c \notin HighRisk
       THEN Deny(c, "kill_switch_degraded") ELSE GoOn(c, "verify")
    /\ UNCHANGED <<cacheVars, configVars, cancelled, doomed, approval, grant,
                   failOpen, serverVars, verdict>>

CheckHealth(c) ==
    /\ pc[c] = "health"
    /\ degraded' = [degraded EXCEPT ![c] = ~healthy]
    /\ IF ksFailMode = "closed" /\ ~healthy
       THEN Deny(c, "kill_switch_degraded") ELSE GoOn(c, "verify")
    /\ UNCHANGED <<cacheVars, configVars, cancelled, doomed, approval, grant,
                   failOpen, serverVars, verdict>>

VerifyDenies(c) ==
    /\ pc[c] = "verify"
    /\ Deny(c, "local_verify")
    /\ UNCHANGED <<cacheVars, configVars, wrapperVars, approval, grant, failOpen,
                   serverVars, verdict>>

\* Two ends without an event: the task holds no token, or verify_local raises.
VerifyAborts(c) ==
    /\ pc[c] = "verify"
    /\ \E how \in {"no_token", "crashed"} : End(c, how)
    /\ UNCHANGED <<cacheVars, configVars, wrapperVars, approval, grant, failOpen,
                   audit, serverVars, verdict, ran>>

VerifyAccepts(c) ==
    /\ pc[c] = "verify"
    /\ IF c \in HighRisk THEN GoOn(c, "preflight") ELSE Granted(c)
    /\ UNCHANGED <<cacheVars, configVars, wrapperVars, approval, grant, failOpen,
                   serverVars, verdict>>

Answered(c, v) == /\ pc[c] = "preflight"
                  /\ verdict' = [verdict EXCEPT ![c] = v]
                  /\ UNCHANGED <<cacheVars, configVars, wrapperVars, grant>>

PreflightAllows(c) == /\ Answered(c, "allow")
                      /\ Granted(c)
                      /\ UNCHANGED <<approval, failOpen, serverVars>>

\* "deny" or no verdict, an unknown verdict, "approve" without an approval id.
PreflightDenies(c) ==
    /\ \/ Answered(c, "deny") /\ Deny(c, "policy_deny")
       \/ Answered(c, "unknown") /\ Deny(c, "unknown_verdict")
       \/ Answered(c, "approve") /\ Deny(c, "approval_service_unavailable")
    /\ UNCHANGED <<approval, failOpen, serverVars>>

\* sigil-core opens an approval, or refers to one it opened for an earlier call.
PreflightNeedsApproval(c) ==
    \E a \in Approvals :
        /\ Answered(c, "approve")
        /\ status' = [status EXCEPT ![a] = IF @ = "absent" THEN "pending" ELSE @]
        /\ approval' = [approval EXCEPT ![c] = a]
        /\ IF cancelled[c] THEN Discard(c) ELSE GoOn(c, "poll")
        /\ UNCHANGED <<failOpen, holder>>

\* _handle_preflight_unreachable: no answer, or a status other than 200.
PreflightFails(c) ==
    /\ Answered(c, "unreachable")
    /\ IF failMode = "closed"
       THEN Deny(c, "sigil_unreachable") /\ UNCHANGED failOpen
       ELSE /\ failOpen' = [failOpen EXCEPT ![c] = TRUE]
            /\ Granted(c)
    /\ UNCHANGED <<approval, serverVars>>

\* A 200 whose JSON is not an object: the AttributeError escapes the flow.
PreflightCrashes(c) == /\ Answered(c, "malformed")
                       /\ End(c, "crashed")
                       /\ UNCHANGED <<approval, failOpen, serverVars, audit, ran>>

(***************************************************************************)
(* The approval: _poll_approval, _finalize_approval, _redeem_approval.     *)
(***************************************************************************)

PollUnchanged == UNCHANGED <<cacheVars, configVars, wrapperVars, approval, grant,
                             failOpen, serverVars, verdict>>

\* Mutant: the fail mode applies to a failed status call too.
PollFailsByMode(c) == /\ pc[c] = "poll"
                      /\ IF failMode = "closed" THEN Deny(c, "approval_service_unavailable")
                         ELSE Enter(c)
                      /\ PollUnchanged

\* Any error of a status call denies, whatever the fail mode.
PollFails(c) == /\ pc[c] = "poll"
                /\ Deny(c, "approval_service_unavailable")
                /\ PollUnchanged

PollPending(c) == /\ pc[c] = "poll" /\ status[approval[c]] = "pending"
                  /\ GoOn(c, "wait")
                  /\ PollUnchanged

\* Mutant: the poll's own word for the outcome is used as the reason.
PollTimeoutUnmapped(c) == /\ pc[c] = "poll" /\ status[approval[c]] = "pending"
                          /\ Deny(c, "timeout")
                          /\ PollUnchanged

\* Mutant: no local deadline, only the server's.
PollForEver(c) == /\ pc[c] = "poll" /\ status[approval[c]] = "pending"
                  /\ GoOn(c, "wait")
                  /\ PollUnchanged

PollTimeout(c) == /\ pc[c] = "poll" /\ status[approval[c]] = "pending"
                  /\ Deny(c, "approval_timeout")
                  /\ PollUnchanged

PollResolved(c) ==
    /\ pc[c] = "poll"
    /\ \/ status[approval[c]] = "approved" /\ GoOn(c, "redeem")
       \/ status[approval[c]] = "rejected" /\ Deny(c, "approval_rejected")
       \/ status[approval[c]] = "expired" /\ Deny(c, "approval_expired")
    /\ PollUnchanged

PollAgain(c) == /\ pc[c] = "wait"
                /\ GoOn(c, "poll")
                /\ PollUnchanged

RedeemUnchanged == UNCHANGED <<cacheVars, configVars, wrapperVars, approval,
                               failOpen, status, verdict>>

RedeemDenied(c, reason) == IF cancelled[c] THEN Discard(c) ELSE Deny(c, reason)

\* sigil-core consumes the approval and its answer arrives.
RedeemGrants(c) ==
    /\ pc[c] = "redeem" /\ holder[approval[c]] = Nobody
    /\ holder' = [holder EXCEPT ![approval[c]] = c]
    /\ IF cancelled[c] THEN Discard(c) /\ UNCHANGED grant
       ELSE grant' = [grant EXCEPT ![c] = approval[c]] /\ Enter(c)
    /\ RedeemUnchanged

\* Mutant: the redemption is tried again when its answer is lost.
RedeemRetried(c) ==
    /\ pc[c] = "redeem" /\ holder[approval[c]] = Nobody
    /\ holder' = [holder EXCEPT ![approval[c]] = c]
    /\ GoOn(c, "redeem")
    /\ UNCHANGED grant
    /\ RedeemUnchanged

\* Mutant: an answer that names no grant escapes as an exception.
RedeemCrashes(c) ==
    /\ pc[c] = "redeem" /\ holder[approval[c]] = Nobody
    /\ holder' = [holder EXCEPT ![approval[c]] = c]
    /\ End(c, "crashed")
    /\ UNCHANGED <<grant, audit, ran>>
    /\ RedeemUnchanged

\* sigil-core consumes the approval and its answer is lost, or names no grant.
RedeemAnswerLost(c) ==
    /\ pc[c] = "redeem" /\ holder[approval[c]] = Nobody
    /\ holder' = [holder EXCEPT ![approval[c]] = c]
    /\ RedeemDenied(c, "approval_token_unavailable")
    /\ UNCHANGED grant
    /\ RedeemUnchanged

\* Mutant: a 409 is taken for the answer to an earlier attempt of this call.
RedeemReplayAccepted(c) ==
    /\ pc[c] = "redeem" /\ holder[approval[c]] # Nobody
    /\ IF cancelled[c] THEN Discard(c) /\ UNCHANGED grant
       ELSE grant' = [grant EXCEPT ![c] = approval[c]] /\ Enter(c)
    /\ UNCHANGED holder
    /\ RedeemUnchanged

\* HTTP 409: the approval was consumed before.
RedeemReplayed(c) ==
    /\ pc[c] = "redeem" /\ holder[approval[c]] # Nobody
    /\ RedeemDenied(c, "approval_replayed")
    /\ UNCHANGED <<holder, grant>>
    /\ RedeemUnchanged

\* The request never arrived, or sigil-core refused it.
RedeemFails(c) ==
    /\ pc[c] = "redeem"
    /\ RedeemDenied(c, "approval_token_unavailable")
    /\ UNCHANGED <<holder, grant>>
    /\ RedeemUnchanged

(***************************************************************************)
(* Execution, and the cancellation of a coroutine.                         *)
(***************************************************************************)

\* Mutant: the event of a function that raises is dropped.
FinishWithoutFinally(c) ==
    /\ pc[c] = "running"
    /\ \/ Log(c, Report(c, "allowed")) /\ End(c, "returned")
       \/ End(c, "raised") /\ UNCHANGED audit
    /\ UNCHANGED <<cacheVars, configVars, wrapperVars, approval, grant, failOpen,
                   serverVars, verdict, ran>>

\* The function returns or raises; the event is pushed in the finally clause.
Finish(c) ==
    /\ pc[c] = "running"
    /\ \/ Log(c, Report(c, "allowed")) /\ End(c, "returned")
       \/ Log(c, Report(c, "error")) /\ End(c, "raised")
    /\ UNCHANGED <<cacheVars, configVars, wrapperVars, approval, grant, failOpen,
                   serverVars, verdict, ran>>

\* A job still queued is withdrawn; one an executor thread has begun goes on
\* without its coroutine.  (Cancelled while running, the function raises.)
Cancel(c) ==
    /\ c \in Async /\ ~cancelled[c]
    /\ \/ pc[c] \in {"queued", "poll", "wait", "redeem"} /\ pc' = [pc EXCEPT ![c] = "done"]
       \/ pc[c] \in {"revocation", "health", "verify", "preflight", "redeem"} /\ UNCHANGED pc
    /\ cancelled' = [cancelled EXCEPT ![c] = TRUE]
    /\ result' = [result EXCEPT ![c] = "cancelled"]
    /\ UNCHANGED <<cacheVars, configVars, doomed, degraded, approval, grant, failOpen,
                   audit, serverVars, verdict, ran>>

(***************************************************************************)
(* The world around the calls.                                             *)
(***************************************************************************)

\* A human decides, or the approval's own lifetime ends.
Decide(a) == /\ status[a] = "pending"
             /\ \E s \in {"approved", "rejected", "expired"} :
                    status' = [status EXCEPT ![a] = s]
             /\ UNCHANGED <<cacheVars, configVars, wrapperVars, pc, result, approval,
                            grant, failOpen, audit, holder, verdict, ran>>

KillSwitchChanges == /\ Cache!CacheNext
                     /\ UNCHANGED <<configVars, wrapperVars, pc, result, approval, grant,
                                    failOpen, audit, serverVars, verdict, ran>>

Governance(c) == \/ Dequeue(c) \/ CheckRevocation(c) \/ CheckHealth(c)
                 \/ VerifyDenies(c) \/ VerifyAborts(c) \/ VerifyAccepts(c)
                 \/ PreflightAllows(c) \/ PreflightDenies(c) \/ PreflightNeedsApproval(c)
                 \/ PreflightFails(c) \/ PreflightCrashes(c)

Approval(c) == \/ PollFails(c) \/ PollPending(c) \/ PollTimeout(c) \/ PollResolved(c)
               \/ PollAgain(c) \/ RedeemGrants(c) \/ RedeemAnswerLost(c)
               \/ RedeemReplayed(c) \/ RedeemFails(c)

\* What a call that has begun does of its own accord.
Continue(c) == Governance(c) \/ Approval(c) \/ Finish(c)

Next == \/ \E c \in Calls : StartWithoutTask(c) \/ Start(c) \/ Continue(c) \/ Cancel(c)
        \/ \E a \in Approvals : Decide(a)
        \/ KillSwitchChanges

Spec == Init /\ [][Next]_vars

\* A call that has begun goes on, the function it wraps returns, and a wait for
\* a decision that never comes meets its deadline (ApprovalWait).
Fairness == \A c \in Calls : WF_vars(Continue(c)) /\ SF_vars(PollTimeout(c))

LiveSpec == Spec /\ Fairness

(***************************************************************************)
(* Properties.                                                             *)
(***************************************************************************)

TypeOK == /\ Cache!CacheTypeOK
          /\ failMode \in {"open", "closed"} /\ ksFailMode \in {"open", "closed"}
          /\ pc \in [Calls -> {"idle", "queued", "revocation", "health", "verify",
                               "preflight", "poll", "wait", "redeem", "running", "done"}]
          /\ result \in [Calls -> {"none", "no_task", "no_token", "denied", "crashed",
                                   "cancelled", "returned", "raised"}]
          /\ cancelled \in [Calls -> BOOLEAN]
          /\ approval \in [Calls -> Approvals \cup {Nobody}]
          /\ grant \in [Calls -> Approvals \cup {Nobody}]
          /\ failOpen \in [Calls -> BOOLEAN]
          /\ audit \in [Calls -> Seq(Events)]
          /\ status \in [Approvals -> {"absent", "pending", "approved", "rejected", "expired"}]
          /\ holder \in [Approvals -> Calls \cup {Nobody}]
          /\ verdict \in [Calls -> {"none", "allow", "deny", "unknown", "approve",
                                    "unreachable", "malformed"}]
          /\ ran \in [Calls -> BOOLEAN]
          /\ doomed \in [Calls -> BOOLEAN]
          /\ degraded \in [Calls -> BOOLEAN]

\* A high-risk function is entered only with sigil-core's leave: an "allow", or
\* an approval that a human approved and this very call consumed, or, where the
\* operator chose to fail open, no answer at all.
GatedExecution ==
    \A c \in HighRisk : ran[c] =>
        \/ verdict[c] = "allow"
        \/ /\ verdict[c] = "approve" /\ approval[c] # Nobody
           /\ status[approval[c]] = "approved" /\ holder[approval[c]] = c
        \/ verdict[c] = "unreachable" /\ failMode = "open"

\* One approval, one execution: however many calls wait for the same approval,
\* at most one of them runs on it, and its event's grant proves it.
OneRunPerApproval ==
    \A c, d \in Calls :
        c # d /\ ran[c] /\ ran[d] /\ approval[c] # Nobody => approval[c] # approval[d]

\* The audit trail tells what happened: one event for each call that ran, with
\* the grant and the fail-open banner it ran under; one for each that was
\* denied (save the refusal of a task without a token, "no_token", which the code
\* records nowhere); none that calls a denied or cancelled call executed.
AuditTellsTheTruth ==
    \A c \in Calls :
        /\ Len(audit[c]) <= 1
        /\ pc[c] = "done" /\ (ran[c] \/ result[c] = "denied") => Len(audit[c]) = 1
        /\ \A i \in 1..Len(audit[c]) :
              /\ pc[c] = "done"
              /\ audit[c][i].outcome = "denied" <=> ~ran[c]
              /\ ran[c] => /\ audit[c][i].failOpen = (verdict[c] = "unreachable")
                          /\ audit[c][i].grant = approval[c]

\* An approval a call consumed is accounted for in its audit event: the call ran
\* on the grant, or was denied because the grant could not be confirmed.  Only a
\* cancelled coroutine may consume an approval and leave no trace.
ConsumedApprovalsAudited ==
    \A a \in Approvals : holder[a] # Nobody =>
        LET c == holder[a] IN
        pc[c] = "done" /\ ~cancelled[c] =>
            \E i \in 1..Len(audit[c]) :
                audit[c][i].grant = a \/ audit[c][i].reason = "approval_token_unavailable"

\* A call is told its approval was replayed only when another call consumed it.
ReplayIsSomeoneElses ==
    \A c \in Calls : \A i \in 1..Len(audit[c]) :
        audit[c][i].reason = "approval_replayed" => holder[approval[c]] \in Calls \ {c}

\* A call that began after the kill never runs; under the strict kill-switch
\* mode none runs that found the kill switch down.
KillSwitchGate ==
    \A c \in Calls : ran[c] => ~doomed[c] /\ (ksFailMode = "closed" => ~degraded[c])

\* Every call that begins ends: denied, run to its end, or discarded.
EveryCallEnds == \A c \in Calls : pc[c] # "idle" ~> pc[c] = "done"

(***************************************************************************)
(* What the documentation says and the code does not do.                   *)
(***************************************************************************)

\* "If the Redis subscription is disconnected, the SDK falls back to checking
\* revocation via the preflight HTTP call (forced for every tool call ...)"
\* (docs/protocol.md, 5.3).
DegradedForcesPreflight ==
    \A c \in Calls : ran[c] /\ degraded[c] => verdict[c] # "none"

=============================================================================
