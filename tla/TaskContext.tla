---------------------------- MODULE TaskContext ----------------------------
(***************************************************************************)
(* SigilTaskContext and the contextvar behind it: which task a governed    *)
(* call belongs to, and which token decides about it.                      *)
(*                                                                         *)
(* A flow is a thread or an asyncio task.  A child asyncio task starts     *)
(* with a copy of its parent's contextvar, a new thread with an empty one. *)
(* Contexts may be entered inside one another, again after they exited,    *)
(* and even while they are open; a context open in one flow is not entered *)
(* in another ("Each concurrent task must instantiate its own context").   *)
(*                                                                         *)
(* Abstracted: a task id is a number, a key its key id; _effective_tools,  *)
(* which nothing reads; calls are those of GovernedCall up to the verdict  *)
(* of verify_local.                                                        *)
(***************************************************************************)
EXTENDS VerifyLocal, SequencesExt

CONSTANTS
    Contexts,       \* the SigilTaskContext objects
    Flows,          \* threads and asyncio tasks
    Main,           \* the flow the program starts in
    Tools,          \* fully qualified tool names
    Keys,           \* key ids, each naming one key of sigil-core
    FirstKid,       \* the key sigil-core signs with at first
    NextKid,        \* and the one it rotates to
    Agents,         \* agent ids
    Agent,          \* client.agent_id
    TenantId,       \* client.tenant_id
    Strangers,      \* other tenants
    Allowlist,      \* of each context: tool_allowlist
    Override,       \* of each context: agent_id, or None
    TTL,            \* of each context: ttl_seconds, in ticks
    Deployments,    \* what the variables SIGIL_BISCUIT_* say, and the forms of
                    \* the tokens that sigil-core issues
    TimeMax,        \* bound: ticks of the clock
    EntriesMax      \* bound, for the forms in play: entries of contexts, failed ones
                    \* included

Forms == {"plain", "kidless", "narrowed", "naive", "foreign", "null"}

ASSUME NamesAssumption ==
    /\ Main \in Flows /\ Agent \in Agents /\ {FirstKid, NextKid} \subseteq Keys
    /\ None \notin Contexts \cup Tools \cup Keys \cup Agents \cup Strangers \cup {TenantId}
    /\ TenantId \notin Strangers
ASSUME RequestsAssumption ==
    /\ Allowlist \in [Contexts -> SUBSET Tools]
    /\ Override \in [Contexts -> Agents \cup {None}]
    /\ TTL \in [Contexts -> Nat]
ASSUME DeploymentsAssumption ==
    \A d \in Deployments :
        /\ d.pubkeys \in Seq(Keys \X (Keys \cup {None}))
        /\ \A i, j \in DOMAIN d.pubkeys : d.pubkeys[i][1] = d.pubkeys[j][1] => i = j
        /\ d.single \in (Keys \X (Keys \cup {None})) \cup {None}
        /\ d.active \in Keys \cup {None}
        /\ d.forms \subseteq Forms
ASSUME BoundsAssumption == TimeMax \in Nat /\ EntriesMax \in [SUBSET Forms -> Nat]

VARIABLES
    keyring,    \* client.biscuit_keyring: the key under each key id
    activeKid,  \* client.active_kid, or None
    forms,      \* the forms of the tokens sigil-core issues
    serverKid,  \* the key it signs with
    now,        \* the time
    alive,      \* the flows that have started
    current,    \* _current_task in each flow: a context, or None
    base,       \* the value each flow started with
    open,       \* the contexts of each flow's open with blocks, outermost first
    entering,   \* the context whose __enter__ waits for issue_token, or None
    entries,    \* how many entries have begun: each draws a new task id
    task,       \* _task_id of each context (0 for None)
    token,      \* _biscuit_token of each context, or None
    saved,      \* _ctx_token of each context: what to restore, or Unset
    calls,      \* the governed call each flow is in, or NoCall
    killed,     \* the agents whose kill has been published and delivered
    reused      \* history: contexts entered while some flow still saw them

configVars == <<keyring, activeKid, forms>>
flowVars == <<alive, base>>
contextVars == <<task, token, saved>>
vars == <<keyring, activeKid, forms, serverKid, now, alive, current, base, open, entering,
          entries, task, token, saved, calls, killed, reused>>

\* No contextvars.Token is held (the old value inside one may well be None).
Unset == [held |-> FALSE, old |-> None]
Restoring(old) == [held |-> TRUE, old |-> old]

NoCall == [stage |-> "none"]

(***************************************************************************)
(* The keyring (_parse_biscuit_keyring).  A value None cannot be decoded.  *)
(***************************************************************************)

\* Mutant: what cannot be decoded goes into the keyring.
DecodedOrNot(pubkeys) == DOMAIN pubkeys

\* The entries of SIGIL_BISCUIT_PUBKEYS that come before the first bad one.
Decoded(pubkeys) ==
    {i \in DOMAIN pubkeys : \A j \in 1..i : pubkeys[j][2] # None}

\* The shorthand SIGIL_BISCUIT_PUBKEY adds a key for a kid not yet there.
ParsedKeyring(pubkeys, single) ==
    LET many == [i \in Decoded(pubkeys) |-> pubkeys[i]]
        extra == {single} \ {None}
        kids == {pair[1] : pair \in Range(many)}
        chosen == Range(many) \cup {pair \in extra : pair[2] # None /\ pair[1] \notin kids}
    IN  [k \in {pair[1] : pair \in chosen} |-> (CHOOSE pair \in chosen : pair[1] = k)[2]]

Init == /\ \E d \in Deployments : /\ keyring = ParsedKeyring(d.pubkeys, d.single)
                                   /\ activeKid = d.active
                                   /\ forms = d.forms
        /\ serverKid = FirstKid
        /\ now = 0 /\ alive = {Main} /\ entries = 0
        /\ current = [x \in Flows |-> None]
        /\ base = [x \in Flows |-> None]
        /\ open = [x \in Flows |-> <<>>]
        /\ entering = [x \in Flows |-> None]
        /\ task = [c \in Contexts |-> 0]
        /\ token = [c \in Contexts |-> None]
        /\ saved = [c \in Contexts |-> Unset]
        /\ calls = [x \in Flows |-> NoCall]
        /\ killed = {} /\ reused = {}

\* What a flow may do it may also do inside a wrapped function.
Free(x) == x \in alive /\ entering[x] = None /\ calls[x].stage \notin {"checking", "verifying"}

(***************************************************************************)
(* What sigil-core may answer to issue_token: the tools asked for, until   *)
(* the time asked for, signed with its present key.  A token may come      *)
(* without a kid, narrowed by a second block, with a timestamp without a   *)
(* zone, or for another tenant, and the answer may name null for a token.  *)
(***************************************************************************)

Check(kind, at) == [kind |-> kind, at |-> at]
Block(tools, tenants, check) ==
    [tools |-> tools, tenants |-> tenants, checks |-> <<Check("other", 0), check>>]

Signed(c, kid, blocks) ==
    [shape |-> "biscuit", kid |-> kid, signer |-> serverKid, blocks |-> blocks,
     task |-> task[c]]

Answer(c, form) ==
    LET authority(tenants, kind) == Block(Allowlist[c], tenants, Check(kind, now + TTL[c]))
        narrow(t) == Block({t}, <<>>, Check("utc", now + 1))
        plain == authority(<<TenantId>>, "utc")
    IN  CASE form = "plain"    -> {Signed(c, serverKid, <<plain>>)}
          [] form = "kidless"  -> {Signed(c, None, <<plain>>)}
          [] form = "narrowed" -> {Signed(c, serverKid, <<plain, narrow(t)>>) : t \in Allowlist[c]}
          [] form = "naive"    -> {Signed(c, serverKid, <<authority(<<TenantId>>, "naive")>>)}
          [] form = "foreign"  -> {Signed(c, serverKid, <<authority(<<t>>, "utc")>>) :
                                       t \in Strangers}
          [] form = "null"     -> {None}

Answers(c) == UNION {Answer(c, form) : form \in forms}

(***************************************************************************)
(* __enter__ and __exit__.                                                 *)
(***************************************************************************)

\* Some flow still sees the context: in a with block, in its contextvar or the
\* value that an exit will restore, or in a call that has looked it up.
Seen(c) == \/ \E y \in Flows : \/ c \in Range(open[y]) \/ current[y] = c
                               \/ calls[y].stage = "checking" /\ calls[y].ctx = c
           \/ \E d \in Contexts : saved[d] = Restoring(c)

\* The new task id is set before the token is asked for.
EnterBegins(x, c) ==
    /\ Free(x) /\ entries < EntriesMax[forms]
    /\ \A y \in Flows \ {x} : c \notin Range(open[y]) /\ entering[y] # c
    /\ entries' = entries + 1
    /\ task' = [task EXCEPT ![c] = entries + 1]
    /\ entering' = [entering EXCEPT ![x] = c]
    /\ reused' = IF Seen(c) THEN reused \cup {c} ELSE reused
    /\ UNCHANGED <<configVars, serverKid, now, flowVars, current, open, token,
                   saved, calls, killed>>

EnterUnchanged == UNCHANGED <<configVars, serverKid, now, flowVars, entries, task,
                              calls, killed, reused>>

\* What verify_local says of a new token; it is asked for no tool and no tenant.
\* None cannot be split.
Warm(t) == IF t = None THEN "raises" ELSE Verify(t, keyring, activeKid, None, None, now)

\* The token is stored; unless the keyring is empty it is verified once to warm
\* the effective tools, whatever the verdict; the contextvar is set.
EnterIssued(x) ==
    LET c == entering[x] IN
    /\ c # None
    /\ \E t \in Answers(c) : /\ DOMAIN keyring = {} \/ Warm(t) # "raises"
                             /\ token' = [token EXCEPT ![c] = t]
    /\ saved' = [saved EXCEPT ![c] = Restoring(current[x])]
    /\ current' = [current EXCEPT ![x] = c]
    /\ open' = [open EXCEPT ![x] = Append(@, c)]
    /\ entering' = [entering EXCEPT ![x] = None]
    /\ EnterUnchanged

\* A transport error, a status other than 201, no JSON, or no "biscuit_token" in it.
EnterFails(x) ==
    /\ entering[x] # None
    /\ entering' = [entering EXCEPT ![x] = None]
    /\ EnterUnchanged
    /\ UNCHANGED <<current, open, token, saved>>

\* verify_local raises: the token is stored, the context is not entered.
EnterRaises(x) ==
    LET c == entering[x] IN
    /\ c # None /\ DOMAIN keyring # {}
    /\ \E t \in Answers(c) : /\ Warm(t) = "raises"
                             /\ token' = [token EXCEPT ![c] = t]
    /\ entering' = [entering EXCEPT ![x] = None]
    /\ EnterUnchanged
    /\ UNCHANGED <<current, open, saved>>

\* Mutant: the contextvar is cleared instead of restored.
ExitClears(x) ==
    LET c == Last(open[x]) IN
    /\ Free(x) /\ open[x] # <<>>
    /\ open' = [open EXCEPT ![x] = Front(@)]
    /\ current' = [current EXCEPT ![x] = None]
    /\ saved' = [saved EXCEPT ![c] = Unset]
    /\ UNCHANGED <<configVars, serverKid, now, flowVars, entering, entries, task,
                   token, calls, killed, reused>>

\* flush_all (AuditPipeline), whose errors are swallowed; then the contextvar
\* gets back what the last entry found, unless a later exit has done so already.
Exit(x) ==
    LET c == Last(open[x]) IN
    /\ Free(x) /\ open[x] # <<>>
    /\ open' = [open EXCEPT ![x] = Front(@)]
    /\ current' = [current EXCEPT ![x] = IF saved[c].held THEN saved[c].old ELSE @]
    /\ saved' = [saved EXCEPT ![c] = Unset]
    /\ UNCHANGED <<configVars, serverKid, now, flowVars, entering, entries, task,
                   token, calls, killed, reused>>

\* A flow starts another: an asyncio task, with a copy of the contextvar, or a
\* thread, without.
Spawn(x, y) ==
    /\ Free(x) /\ y \notin alive
    /\ alive' = alive \cup {y}
    /\ \E start \in {current[x], None} :
           /\ current' = [current EXCEPT ![y] = start]
           /\ base' = [base EXCEPT ![y] = start]
    /\ UNCHANGED <<configVars, serverKid, now, open, entering, entries, contextVars,
                   calls, killed, reused>>

(***************************************************************************)
(* A governed call, up to the verdict of verify_local.  A call outside of  *)
(* any task raises no_task at once and changes nothing.                    *)
(***************************************************************************)

CallUnchanged == UNCHANGED <<configVars, serverKid, now, flowVars, current, open,
                             entering, entries, contextVars, killed, reused>>

\* client.is_revoked(client.agent_id, task_id): the registry takes only kills of
\* the client's own agent (KillSwitch), and any of them stops all of its tasks.
Revoked == Agent \in killed

\* The agent a context's token is issued for.
AgentOf(c) == IF Override[c] = None THEN Agent ELSE Override[c]

\* Mutant: the client, not the context, remembers the task id.
CallBeginsLatest(x, tool) ==
    /\ Free(x) /\ current[x] # None
    /\ calls' = [calls EXCEPT ![x] =
                     [stage |-> "checking", ctx |-> current[x], task |-> entries,
                      tool |-> tool, revoked |-> Revoked,
                      doomed |-> AgentOf(current[x]) \in killed]]
    /\ CallUnchanged

\* _require_task: the context and its task id are looked up here, the token later.
CallBegins(x, tool) ==
    LET c == current[x] IN
    /\ Free(x) /\ c # None
    /\ calls' = [calls EXCEPT ![x] = [stage |-> "checking", ctx |-> c, task |-> task[c],
                                      tool |-> tool, revoked |-> Revoked,
                                      doomed |-> AgentOf(c) \in killed]]
    /\ CallUnchanged

\* is_revoked is asked at some time between the beginning of the call and the look
\* at the token.  Kills are not forgotten: it can have said no exactly if the kill
\* had not come when the call began, and yes exactly if it has come by now.
CallReads(x) ==
    LET k == calls[x] IN
    /\ k.stage = "checking" /\ ~k.revoked /\ token[k.ctx] # None
    /\ calls' = [calls EXCEPT ![x] =
                     [stage |-> "verifying", ctx |-> k.ctx, task |-> k.task,
                      tool |-> k.tool, token |-> token[k.ctx], doomed |-> k.doomed]]
    /\ CallUnchanged

Verdict(k) == Verify(k.token, keyring, activeKid, k.tool, TenantId, now)

CallRuns(x) ==
    LET k == calls[x] IN
    /\ k.stage = "verifying" /\ Verdict(k) = "ok"
    /\ calls' = [calls EXCEPT ![x] = [stage |-> "running", doomed |-> k.doomed]]
    /\ CallUnchanged

\* Denied, for the kill, for want of a token or by verify_local; or its exception.
CallStops(x) ==
    LET k == calls[x] IN
    /\ \/ k.stage = "checking" /\ (Revoked \/ token[k.ctx] = None)
       \/ k.stage = "verifying" /\ Verdict(k) # "ok"
    /\ calls' = [calls EXCEPT ![x] = NoCall]
    /\ CallUnchanged

CallReturns(x) == /\ calls[x].stage = "running"
                  /\ calls' = [calls EXCEPT ![x] = NoCall]
                  /\ CallUnchanged

(***************************************************************************)
(* The world around.                                                       *)
(***************************************************************************)

Tick == /\ now < TimeMax
        /\ now' = now + 1
        /\ UNCHANGED <<configVars, serverKid, flowVars, current, open, entering, entries,
                       contextVars, calls, killed, reused>>

\* sigil-core begins to sign with another key.
Rotate == /\ serverKid' = NextKid
          /\ UNCHANGED <<configVars, now, flowVars, current, open, entering, entries,
                         contextVars, calls, killed, reused>>

\* The kill of an agent reaches the client (KillSwitch says how).
Kill(a) == /\ killed' = killed \cup {a}
           /\ UNCHANGED <<configVars, serverKid, now, flowVars, current, open, entering,
                          entries, contextVars, calls, reused>>

EnterStep(x) == \/ \E c \in Contexts : EnterBegins(x, c)
                \/ EnterIssued(x) \/ EnterFails(x) \/ EnterRaises(x)

CallStep(x) == \/ \E tool \in Tools : CallBegins(x, tool)
               \/ CallReads(x) \/ CallRuns(x) \/ CallStops(x) \/ CallReturns(x)

Next == \/ \E x \in Flows : EnterStep(x) \/ Exit(x) \/ CallStep(x)
        \/ \E x, y \in Flows : Spawn(x, y)
        \/ Tick \/ Rotate \/ \E a \in Agents : Kill(a)

Spec == Init /\ [][Next]_vars

(***************************************************************************)
(* Properties.                                                             *)
(***************************************************************************)

Blocks == [tools : SUBSET Tools, tenants : Seq(Strangers \cup {TenantId}),
           checks : Seq([kind : {"utc", "naive", "other"}, at : Nat])]
Issued == [shape : {"biscuit"}, kid : Keys \cup {None}, signer : Keys,
           blocks : Seq(Blocks), task : Nat]
Checking == [stage : {"checking"}, ctx : Contexts, task : Nat, tool : Tools,
             revoked : BOOLEAN, doomed : BOOLEAN]
Verifying == [stage : {"verifying"}, ctx : Contexts, task : Nat, tool : Tools,
              token : Issued, doomed : BOOLEAN]
Running == [stage : {"running"}, doomed : BOOLEAN]

TypeOK == /\ DOMAIN keyring \subseteq Keys /\ Range(keyring) \subseteq Keys
          /\ activeKid \in Keys \cup {None}
          /\ forms \subseteq Forms /\ serverKid \in Keys
          /\ now \in 0..TimeMax /\ entries \in 0..EntriesMax[forms]
          /\ alive \subseteq Flows
          /\ current \in [Flows -> Contexts \cup {None}]
          /\ base \in [Flows -> Contexts \cup {None}]
          /\ open \in [Flows -> Seq(Contexts)]
          /\ entering \in [Flows -> Contexts \cup {None}]
          /\ task \in [Contexts -> 0..EntriesMax[forms]]
          /\ token \in [Contexts -> Issued \cup {None}]
          /\ saved \in [Contexts -> [held : BOOLEAN, old : Contexts \cup {None}]]
          /\ calls \in [Flows -> Checking \cup Verifying \cup Running \cup {NoCall}]
          /\ killed \subseteq Agents
          /\ reused \subseteq Contexts

\* The task a flow ought to be in: that of its innermost open with block, or the
\* one it was started in.
Innermost(x) == IF open[x] = <<>> THEN base[x] ELSE Last(open[x])

\* Decorators find the innermost task of their own flow, however contexts are
\* nested, however entries fail and whatever other flows do; after its last exit
\* a flow is back where it started.  Only a context that was entered while it
\* was still in use may stand in the way.
InnermostTask == \A x \in Flows : current[x] \in reused \cup {Innermost(x)}

\* The step in which the checks of a call let its function run.
Runs(x) == calls[x].stage = "verifying" /\ calls'[x].stage = "running"

\* A function runs under a token that sigil-core issued for the very task id the
\* call is checked and audited under, unless the context was entered again while
\* it was in use (then a new id may stand beside the old token, or the other way
\* round).
TaskMatchesToken ==
    [][\A x \in Flows : Runs(x) => \/ calls[x].ctx \in reused
                                  \/ calls[x].token.task = calls[x].task]_vars

\* What a tool needs to run: it is on the allowlist of its task and in every block
\* of the token; no block has expired; the key is the one the keyring has for the
\* token's kid, or for the active one if the token has none and one is
\* configured; the tenant is ours.
WithinGrant(c, tool, t) ==
    /\ tool \in Allowlist[c]
    /\ \A b \in Range(t.blocks) :
           /\ tool \in b.tools
           /\ \A i \in DOMAIN b.checks :
                  b.checks[i].kind # "other" => now < b.checks[i].at
    /\ t.signer \in Range(keyring)
    /\ \A kid \in {IF t.kid = None THEN activeKid ELSE t.kid} \ {None} :
           kid \in DOMAIN keyring /\ keyring[kid] = t.signer
    /\ t.blocks[1].tenants = <<TenantId>>

\* Whatever contexts are reused, tokens replaced, keys rotated and clocks advanced
\* while a call is on its way, its function runs only within the grant of the
\* token that was read for it.
RunsWithinGrant ==
    [][\A x \in Flows : Runs(x) =>
           WithinGrant(calls[x].ctx, calls[x].tool, calls[x].token)]_vars

(***************************************************************************)
(* What the documentation says and the code does not do.                   *)
(***************************************************************************)

\* "Override the client's agent_id for this task." (SigilClient.task): a call of
\* the task that begins after the kill of the agent it runs as does not run.
OverrideHonoured ==
    \A x \in Flows : calls[x].stage = "running" => ~calls[x].doomed

=============================================================================
