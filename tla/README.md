# Specifications of sigil-py

TLA+ models of the Sigil Python SDK (`src/sigil/`), the TLC configurations that
check them on small instances, and proofs that TLAPS checks for every instance.
The SDK sits inside an agent's process: decorators put a governance flow around
tool and LLM functions, a Redis subscriber receives kill signals, and audit
events leave the process through a ring buffer, a flusher thread and an overflow
on disk.

## Inventory

| Part | State it keeps | Operations | Talks to | What is hard | What makes it correct |
|---|---|---|---|---|---|
| Kill-switch subscriber (`_subscriber.py`) | bounded registry of revoked keys, `connected`, `stop` | subscribe, read and apply messages, reconnect, stop | Redis; read by the client | connection loss (noticed or silent), late answers to SUBSCRIBE, eviction, `stop()` racing the thread | a kill that was received stays enforced; only our kills count; the subscription comes back |
| Revocation questions (`client.py`) | none of its own | `is_revoked`, `is_kill_switch_healthy` | subscriber, decorators | answers age | revoked once, revoked for good |
| Governed calls (`decorators.py`, requests in `client.py`) | per call: program counter, approval, grant, event | revocation check, health gate, verify, preflight, poll, redeem, execute, audit | client, sigil-core, ring, overflow | concurrent calls on one approval, lost answers, cancelled coroutines whose threads go on, kills in between | a high-risk function runs only with leave; one approval, one run; the audit event tells the truth |
| Approval wait (`decorators.py`) | deadline | poll, sleep, give up | sigil-core | late wake-ups, slow calls, intervals that do not divide the window | it ends, not early, not late, without a busy loop |
| Audit pipeline (`_buffer.py`, `_overflow.py`, `log_batch`) | ring, events in hand, files | push, drain, flush, spill, replay, close | sigil-core, the disk, the other threads | several flushing threads, crash, lost answers, files unlinked while written to | no event vanishes unaccounted for; none is flushed twice by two threads; files stay bounded |
| Task contexts (`client.py`, `_context.py`) | contextvar of each flow; per context its task id, token, value to restore | enter (with `issue_token`), exit | sigil-core, decorators, the flusher | nesting, re-entry, failed entries, copies of the contextvar in child tasks | a call runs in its innermost task, under that task's token |
| Local verification (`verify.py`) | none | `verify_local` | keyring | rules of key id, rotation, expiry, tenant, attenuation | exactly what is in scope verifies |
| Configuration (`client.py`) | keyring, fail modes, ids: fixed at start | reading the environment | all of the above | entries that cannot be decoded | only decoded keys are used |
| Lifecycle (`client.py`) | the two threads | start, `close()` | flusher, subscriber | threads that outlive the wait for them | what `close()` leaves behind |
| Redaction and hashing (`redaction.py`) | none | `redact`, `redact_safe`, `args_hash` | decorators | containers, fallbacks | no sensitive string leaves |
| Errors, exports (`errors.py`, `__init__.py`) | none | - | - | - | - |

How they interact: `SigilClient.__init__` starts the flusher thread and, when
Redis is configured, the subscriber thread. A decorated function asks the client
(`is_revoked`, `is_kill_switch_healthy`), verifies its token locally and, for the
tiers high and critical, sends a preflight; an `approve` verdict makes it poll
the approval and redeem it. Every outcome pushes an event into the ring, except a
fail-closed denial, which writes to the overflow directly. The exit of a task and
`close()` flush in the calling thread, beside the flusher. The hazards of all
this are listed, each at its line, in `PROJECT.json`.

## Modules

| Module | What it is | Extends or instantiates |
|---|---|---|
| `RevocationCache` | abstract specification: what the kill switch promises its readers | - |
| `KillSwitch`, `MCKillSwitch` | the subscriber, `stop()`, Redis and the connection; implements `RevocationCache` | `RevocationCache` |
| `GovernedCall`, `MCGovernedCall` | concurrent governed calls; reads `RevocationCache` as the promise of the kill switch | `RevocationCache` |
| `GovernedAgent`, `MCGovernedAgent` | the subscriber and the governed calls in one process: the calls ask the subscriber itself; implements `GovernedCall` | `KillSwitch`, `GovernedCall` |
| `ApprovalWait` | one approval wait against a clock | - |
| `VerifyLocal` | the decision of `verify_local`, as operators | - |
| `TaskContext`, `MCTaskContext` | contexts, the contextvar, token requests, calls up to the verdict | `VerifyLocal` |
| `AuditLedger` | abstract specification: what becomes of each audit event | - |
| `AuditPipeline`, `MCAuditPipeline` | ring, flusher, flushing threads, overflow, replay, restart; implements `AuditLedger` | `AuditLedger` |
| `KillSwitchProofs`, `GovernedCallProofs`, `GovernedAgentProofs`, `ApprovalWaitProofs`, `VerifyLocalProofs`, `TaskContextProofs`, `AuditPipelineProofs`, `AuditLedgerProofs` | theorems and their proofs | the modules they are about |

Some definitions are introduced by a comment that begins with "Mutant:". They
are no part of a specification: each is a faulty version of the definition that
follows it, and replacing that definition by it makes a property fail. They show
that the properties depend on the code.

### KillSwitch

`registry` is `_revoked`, an ordered sequence of keys; `SetRevoked` and `Evict`
are `_set_revoked` with its FIFO eviction; `Apply` is `_apply`, one step because
the code holds its lock throughout. `pc` follows `_run`: `import`, `top` (the
outer loop's test), `connect`, `subscribed` (the command is written, `connected`
not yet set), `listen`, `read`, `backoff`, `exited`. `link` is the connection as
the server sees it: `pending` until Redis has processed the SUBSCRIBE, `up`,
`closed` (a loss the next read notices by raising: a reset, a refused subscription,
or a message that stopped half-way, at which the socket's timeout raises) or `silent`
(one it does not notice: the read loop writes nothing). Only in `up` does a published message enter
`wire`; a loss may cut `wire` at any point. `stopPc` is the caller of `stop()`;
its join may end at any time, because it has a timeout of two seconds and the
thread may be in a socket operation of five. `received` is
a history variable for the properties.

Left out: the denial reason stored with a key, the backoff's duration, the text
of the diagnostics, and the message's encoding; what fails to parse is swallowed
like a message of an unknown scope.

### GovernedCall

One `pc` per call follows the wrapper: `idle`, `queued` (an async call's check
waits for an executor thread), `revocation`, `health`, `verify`, `preflight`,
`poll`, `wait`, `redeem`, `running`, `done`. Each request to sigil-core is one
step that chooses its outcome; a redemption may be carried out and its answer
lost. `Cancel` cancels a coroutine at any await: a job still queued is withdrawn,
one an executor thread has begun goes on without it (`cancelled`), and what it
returns is discarded. `failMode` and `ksFailMode` are fixed for a behaviour. The
kill switch is `RevocationCache`, which `KillSwitch` is shown to implement.
`@instrumented_llm` is the same flow with redacted arguments and an entropy in
its events, so calls are not told apart by their decorator.

Left out: arguments, hashes, redaction, entropy, latencies; the verdict of
`verify_local` (a free choice here, made by `VerifyLocal` in `TaskContext`); time
(`PollTimeout` may happen at any poll, and `ApprovalWait` says when it may).

Beside calls without a task and cancelled ones, these leave no event: a task without
a token (`no_token`), which comes about when sigil-core names null for the token and
the keyring is empty; a `verify_local` that raises (both are `VerifyAborts`); and a
preflight answer that is JSON but no object (`PreflightCrashes`). `AuditTellsTheTruth`
asks for an event of every call that ran, and of every other one that is denied.

### GovernedAgent

`GovernedCall` takes the kill switch for `RevocationCache`. Here it is the instance
`Gov`, whose `revoked` is the subscriber's `IsRevoked(Task)` and whose `healthy` is
its `connected`; the subscriber is `KillSwitch`, extended. A step is one of the
subscriber with its environment (`SubscriberStep`), or one of a call, which leaves
the subscriber alone (`Begin`, `Proceed`), or a human's (`Decision`). `killed` is
history: a kill that concerns the agent had been handed to `_apply` when the call
began. With it the promises of the two parts become one about the process, from
`_apply` to the wrapped function (`KilledNeverRuns`), and back from an audit event
to the message behind it (`RevokedOnlyByKill`). A reader of `RevocationCache` cannot
say either: its `revoked` does not know of messages. `StrictAwaitsSubscription`
needs the subscriber's history, `_ever_connected`.

It is the client whose kill switch is configured and started. Where Redis is not
configured there is no subscriber and nothing to compose; `is_revoked` then answers
False and the calls are those of `GovernedCall` with a cache that never changes.

### ApprovalWait

`now` advances by `Tick` while the status call or the sleep at hand may still
last (`due`); a call lasts at most `RpcMax`, a sleep ends at most `Slack` late.
`SleepFor` is `min(poll_interval, remaining)`, `GiveUp` the test `remaining <= 0`
after a status call that still says pending. `Remaining` counts what the wait may
still do, and is not part of the code: every step lowers it (`WaitAdvances`).

### VerifyLocal

`Verify` is `verify_local`, its objections in the order of the code. A token is a
record of what decoding and parsing made of it: `shape` says how far decoding
gets, `signer` is the key its signature verifies under, a block carries its tool
facts, tenant facts and checks. `CandidateKeys` is step 4 (the named key, the
active one, or all), `Incomparable` and `Expired` step 7, `EffectiveTools` and
`Unreadable` step 8, `Tenant` steps 9 and 10. Where the code raises instead of
returning a result, the result is "raises": at a token, a payload or a key id of a
type that the first steps cannot use (shape "mistyped": null, a JSON value that is no
object, a key id that cannot be hashed), at a check that is no string (kind "mistyped")
or a timestamp without a zone, and at a fact that is no string (`None` among the tools).

Left out: base64, JSON and ed25519 themselves; the identity facts that nothing
checks; the time zone arithmetic of timestamps.

### TaskContext

A flow is a thread or an asyncio task: `current[x]` is its contextvar, `base[x]`
what it was started with (a copy of its parent's value, or nothing), `open[x]` its
open `with` blocks. `EnterBegins` draws the task id and asks for the token;
`EnterIssued`, `EnterFails` and `EnterRaises` are what may come of it, since other
flows run while the request is out. `Exit` restores what `saved[c]` holds, which
lives in the context object as in the code. A context may be entered again, also
while it is open; the docstring excludes only that two flows share one. `Answers`
is what sigil-core may issue: a token for the tools asked for, perhaps without a
kid, narrowed by a second block, with a naive timestamp or for another tenant,
signed with the key it has at that time (`Rotate`), or null for a token. A null token
is stored; with keys `verify_local` then raises (`EnterRaises`), and with an empty
keyring the context is entered without a token. `ParsedKeyring` is
`_parse_biscuit_keyring`, run once for each deployment. A call reads the context
and its task id at `CallBegins` (stage `checking`), its token at `CallReads`
(`verifying`), and is judged by the clock of the next step (`Verdict`: `CallRuns` or
`CallStops`); everything may move in between. `reused` is history for the properties: contexts entered while
some flow still saw them.

Left out: `_effective_tools`, which nothing reads; the rest of a call
(`GovernedCall`); the flush at the exit (`AuditPipeline`).

### AuditLedger and AuditPipeline

`AuditLedger` gives each event one state: fresh, held in memory, spilled to disk,
stored, or lost in a named way; each transition has its own condition (eviction
only from a full memory, a crash loses what is held and nothing else, only what
is not poisonous is stored, at most one held and one spilled event are torn
together). `Ledger` is the refinement mapping of `AuditPipeline`.

`Workers` are the flusher and the threads that run `flush_all` (a task's exit, or
`close()`) or write a denial. `Push` and `Drain` are one step each (the code's
lock). A worker's `pc` follows `_do_flush`: `drain`, `send`, then `spill`/`write`
for each event of a failed batch, or `list`/`read`/`resend` for a replay. Opening
the file (with the size check), appending and unlinking are separate steps of
separate threads; a file unlinked while another thread has it open takes that
thread's line with it. A replay keeps the days it has yet to do (`todo`), the lines
it read (`lines`) and the positions among them it has yet to send (`left`). What it
read is a copy and no place of the event: `OnePlace` is about the ring, the batches and
the files, and two replays of one file may send its events twice.
`ReplayAborts` is the flush that ends where a replay raises what nothing expects (a
file that is no UTF-8), with the rest of the ring and of the files left for the next.
`ShortWrite` is an `os.write` that writes less than the line, whose result the code
ignores: the line is unreadable (`Torn`), or lacks only its newline, and the next
line is glued to it (`ragged`). `Midnight` changes the day, and with it the file
written to. `Restart` is the end of the process at any moment, and a new one on the
same files. `fate` is a history variable: `kept` is set when an event is recorded,
and each way the code drops an event sets another value.

Left out: contents of events, except whether JSON can carry them (`Poison`:
Python's json writes a NaN to the file, requests refuses to send it); bytes (a
size counts lines); a second process on the same directory; duplicates at
sigil-core (an answer may be lost and the batch sent again: the model records that
the event was stored). `write` expects only an `OSError`, and so does `WriteFails`: an
event that `json.dumps` refuses would end the flush, but `args_hash` has serialised the
same arguments before the event is made (`redaction.py:148`), so only a function that
changes a value inside a tuple of its arguments while it runs could bring that about.

## Runs

| Run | Shows | Bounds |
|---|---|---|
| `kill_switch` | kills received stay enforced under eviction, only own kills count, revocation is sticky in every step, `healthy()` follows the read loop, `RevocationCache` is implemented; delivered kills get enforced, noticed losses are repaired, a stopped subscriber ends unhealthy | a registry of 2 with 3 possible keys, so that a kill evicts; one message for each way `_apply` accepts or refuses; a wire of 2, two losses |
| `governed_call` | who may run, one run per approval, truthful audit events, accounted approvals; every call that begins ends | a high-risk sync call and a high-risk async call that contend for approvals; two approvals; all four combinations of fail modes |
| `governed_agent` | a kill that was applied stops every call that begins after it, and only such a kill is blamed; the strict mode waits for the first connection; the calls behave as `GovernedCall` says | a high-risk sync and a low-risk async call, in a task no kill names; the kill of another task of the agent, which fills the registry of 1 and evicts, and one meant for another tenant; a wire of 1, one loss; no approvals (they do not meet the subscriber) |
| `approval_wait` | the wait ends, within its bounds, without a busy loop | a window of 7, an interval of 3 (which does not divide it), calls of up to 3, oversleeps of up to 2 |
| `task_context` | a call finds its innermost task, under the token of its task id, and runs only within the token's grant | two contexts with different allowlists and lifetimes, two flows, three entries (so that contexts nest, repeat and are entered again while open; two with narrowed tokens, the most numerous), two keys, two instants, and five deployments that between them hold each form of answer and each way a keyring fits it or not |
| `audit_pipeline` | every recorded event is accounted for, in one place, under the ledger's rules; a short write costs two events at most; files keep their cap up to a line for each thread; the ring is emptied while the client is open; the flusher ends after close | 3 events of which one cannot be sent, a ring and batches of 2, files of 1 on two days, the flusher and another thread, chunks of 1, one restart, one short write |

Each bound is the smallest at which the case it is for happens: a full ring, a
full file, an eviction, a shared approval, a re-entered context, a key rotated
between two tokens, a file whose first chunk is accepted and whose second is not, a
second thread in the same step. `WireMax`, `DropsMax`, `Days`, `CrashesMax`,
`ShortWritesMax`, `TimeMax`, `EntriesMax` and the number of events bound counters
that the code does not bound.

These runs each state what a document, a docstring or a comment says, and TLC
shows that the code does otherwise (`findings` in `PROJECT.json` quote the line):

| Run | What is said | What happens |
|---|---|---|
| `healthy_means_subscribed` | `healthy()` is True only while subscribed | True from the moment the command is written, and during silent losses |
| `stopped_not_healthy` | a stopped subscriber is not healthy | the thread may set `connected` after `stop()` cleared it |
| `degraded_forces_preflight` | without the subscription every call preflights | low tiers never do |
| `deleted_only_when_accepted` | files go only when all their events were accepted | a line appended during the replay goes with the file |
| `override_honoured` | `task(agent_id=...)` overrides the client's agent for the task | only `issue_token` sees the override; a kill of that agent does not stop the task |
| `close_drains_all` | `close()` drains the buffer | it stops at the first batch that fails |

Other places where the words and the code differ, followed by the models as the
code has it, with no run of their own:

- `docs/protocol.md:215` says the revocation cache is warmed at startup; it
  starts empty (`Init` of `KillSwitch`).
- `_subscriber.py:16` says a dropped connection is replaced; one that falls
  silent is never noticed (`ReadNothing` on a `silent` link, for ever). So
  `Resubscribes` speaks of noticed losses.
- `_subscriber.py:174` says a task's kill ceases all active work; revocation is
  read once per call, before the preflight and the approval wait. So
  `KillSwitchGate` speaks of calls that begin after the kill.
- `docs/protocol.md:132` says v1 treats `approve` as `deny`; an approved and
  redeemed call runs.
- `_overflow.py:95` says only the flusher appends; every thread that denies or
  flushes does. So `FileBounded` allows a line for each thread.
- `_overflow.py:3` says a full ring spills to disk; the oldest event is dropped
  (`Push`, and `fate` records it).
- `verify_local` promises a result with a reason; values of a type it does not expect,
  or a timestamp without a zone, make it raise (`Verify`, "raises"), in `__enter__`
  after the token has been stored (`EnterRaises`), in a call without an event
  (`VerifyAborts`).
- A block with two expiry checks is judged by the first of them (`BlockExpiry`).
- A context entered again while it is open leaves its flow in it after the last
  exit, since the value to restore has been overwritten; an entry that fails leaves
  the new task id beside the old token. `InnermostTask` and `TaskMatchesToken`
  except such contexts (`reused`); no document allows or forbids it.

### Fairness

- `KillSwitch`: weak fairness of the thread, because every wait in `_run` has a
  timeout; of `StopReturns`, because the join has one; of the server's answer to
  a SUBSCRIBE; and strong fairness of `Connect`, because a server that is tried
  again and again is reached in the end (without it nothing obliges a
  connection ever to succeed).
- `GovernedCall`: weak fairness of each call's own steps (requests have timeouts,
  and the wrapped function is assumed to return), and strong fairness of
  `PollTimeout`, which stands for the deadline that `ApprovalWait` models.
  Starting a call, cancelling it and deciding an approval are not fair.
- `ApprovalWait`: time passes, a sleeper wakes, a pending answer is acted upon.
  A decision is not fair.
- `AuditPipeline`: weak fairness of the flusher's loop (its wait has a timeout)
  and of each worker's step at hand. Pushing, leaving a task, closing and the
  success of a request are not fair.

## Proofs

`tlapm` checks these for every value of the constants that satisfies the modules'
assumptions.

- `KillSwitchProofs`. `SetRevokedProperties`: adding a key leaves a sequence
  within the capacity, with that key in it and no other new one.
  `ApplyProperties`: a message that concerns the agent leaves the agent in the
  registry, and any other leaves the registry alone. The conjunction of `TypeOK`,
  `KillsEnforced` and `OnlyOwnKills` is inductive: whatever is in the registry
  came with a kill of ours (`OnlyOwnKills`), so the agent is in it
  (`KillsEnforced`). That equivalence gives `RevocationSticky`, which eviction
  threatens, since a task's own entry may well be evicted; and it gives the step
  simulation behind `ImplementsCache`. Assumed: the capacity is positive and the
  bounds are natural numbers. `HealthTracksLoop` and `StoppedNearlyDown` have an
  invariant of their own (`HealthInvariant`), which adds that the thread has a
  connection from `subscribe()` to the end of its loop, and that the stop event is
  set before `stop()` does anything else. Together they bound the finding
  `stopped_not_healthy`: the flag that a late thread sets is cleared by its next
  step.
- `GovernedAgentProofs`. What is shown of the subscriber carries over, because the
  calls only ask it (lemma `SubscriberUnaffected`). Its invariant makes `is_revoked`, for
  any task, equivalent to a kill of the agent having been applied (`AnswerIsKill`),
  from which a step of the subscriber is to the calls a step of `RevocationCache`
  (`SubscriberSimulation`), and `CallsImplemented` follows: what is proved of every
  behaviour of `GovernedCall`, under its assumptions, is true of the calls of the
  process (`tlapm` cannot cite an instance's theorems, so this last inference is the
  reader's). For the three
  invariants each step of a call is shown to be an `Advance`, which says how far the
  kill switch's answers decide it and forgets the rest. Then `AgentInvariant` is
  inductive: a call that began after a kill has not passed the revocation check
  (`Stopped`), and none has passed the strict gate before the first connection
  (`Awaited`). TLC checked `AgentInvariant` on the instance of `governed_agent`
  before it was proved. Assumed: nothing beyond the constants of `KillSwitch`; calls,
  approvals and the task are any sets and value.
- `GovernedCallProofs`. The invariant follows each call along its `pc`: before the
  preflight answers nothing is known or held (`Undecided`), a waiting call has the
  approval the preflight named and redeems it only once approved (`Waiting`), an
  entered function has what it was entered on (`Entered`), a doomed call is stuck
  before the end of its checks (`Checked`). `OthersKeep` shows that steps of other
  calls cannot disturb this, because approvals' statuses and holders only move
  forward; one lemma per group of actions treats the call that steps. From it:
  `GatedExecution`, `OneRunPerApproval`, `KillSwitchGate`, `TypeOK`. For the audit
  trail: a call that is not done has no event (`Trail`), and the holder of an
  approval is past its redemption with that approval in hand (`Consumed`); from it
  `AuditTellsTheTruth`, `ConsumedApprovalsAudited`, `ReplayIsSomeoneElses`. Assumed:
  `Nobody` is neither a call nor an approval, and high-risk calls are calls.
- `ApprovalWaitProofs`. A sleep starts before the deadline and never aims past it
  (`SleepAims`), so the call after it starts by the deadline plus one oversleep
  (`CallTimed`); a sleep that does not aim at the deadline lasts a whole interval,
  so all calls but the last are an interval apart (`Paced`). From it:
  `WaitBounded`, `TimeoutNotEarly`, `PollsBounded`. A sleep that starts before the
  deadline lasts, so `Remaining` falls with every step and stays a natural number
  (`WaitIsFinite`): the safety half of `WaitEnds`, to which fairness adds only that
  steps are taken.
- `VerifyLocalProofs`. `AcceptsAcceptable`: the nested decision accepts a
  well-formed token exactly if it is `Acceptable`, a reference definition without
  order or early returns. From it `AttenuationNarrows`: another block never makes
  a token good for more; and `TimeOnlyRevokes`: nor does the passing of time.
  `AcceptedKeyIsNamed` and `RotationKeepsVerdict` are about the keyring: a token with
  a key id, or without one where one is active, is accepted under that key only, and
  no other key that comes or goes changes the verdict on it. These two assume
  nothing of the token.
- `TaskContextProofs`. A token that sigil-core issued is well formed for the
  context it was issued to (`TokensShaped`), which with `AcceptsAcceptable` gives
  `GrantRespected`. `TaskIsTokens` rests on `Tasks`: a context that is not reused and
  that some flow sees holds the token of its present task id, and a call that has
  looked it up holds that id; so the only way to part them is `EnterBegins` on a
  context in use. `InnermostFound` rests on `Stacks`: each open context that was
  not reused restores the one below it in its flow's stack, or the value the flow
  began with. Assumed: names are distinct from `None`, and `None` is no
  tenant.
- `AuditPipelineProofs`. `EventsAccounted` and `EventsOnce` are proved together
  (`IInv`): an event on its way is in one place and is `kept` there, and a replay's
  copy of a file never names an event in memory (`Places`); what a replay took off
  its list has been stored (`Replayed`), so unlinking loses only what was appended
  since, and that is written off. `FilesBounded` counts the threads that have the
  file open (`Bounded`): the length of a file and its openers together stay below
  the cap plus all threads. `TornBounded` treats short writes as a budget (`Tears`):
  each pays for two torn events, and a file without its newline, or with an
  unreadable last line, holds back what has not been used. Assumed: finitely many
  threads, positive sizes, `Torn` is no event. Of the chunk size it is assumed that it is
  positive and no larger than a batch.

- `AuditLedgerProofs`. `LedgerImplemented`: every step of the pipeline enters in the
  ledger what `AuditLedger` allows, or does not show in it. Three facts about the
  past of an event (`Past`) join `IInv`: what is stored was recorded, what is in the
  ring was never sent (so an eviction never hits a stored event), and what a replay
  has read has since at most been torn or unlinked (so a late delivery finds it in
  one of the states from which `Deliver` may). Two counts remain. A full ring holds
  `RingCap` unsent events, because no two of them are the same (`HeldCount`,
  `FullRing`); and a request carries at most `MaxSendBatch` events, because the
  lines of a chunk are numbered from 1 to `ReplayChunk` without repetition
  (`ChunkCount`). Assumed: as for `AuditPipelineProofs`, whose module it extends.

Only model-checked: the liveness properties, which need fairness and ENABLED and are
beyond the prover. Every invariant, action property and refinement of a passing run
is also a theorem.

## Not modelled

- `redaction.py`: regular expressions, canonical JSON and a hash. It keeps no
  state, and a model that abstracts the strings has nothing left to check.
  Reading it beside the models showed that `redact_safe` falls back to replacing
  top-level strings only, while its docstring (`redaction.py:205`) says all of
  them, and that `redact` does not look into tuples.
- `errors.py` and `__init__.py`: classes and re-exports.
- The configuration beyond the keyring and the fail modes: reading the environment
  and validating values. `client.py:217` says arguments take precedence over the
  environment; `SIGIL_APPROVAL_TIMEOUT` and
  `SIGIL_APPROVAL_POLL_INTERVAL` (`client.py:292`) override them. The models take the
  durations as constants.
- Two processes, or two clients of different agents, on one overflow directory:
  the replay of each would unlink the files of the other while it writes to them.
  The threads of `AuditPipeline` already share the files in this way; a crash of
  one process that spares the other is not covered.
- One module in which task contexts and the pipeline run beside the subscriber and
  the calls of `GovernedAgent`. They meet in narrow places: `TaskContext` makes the verdict that
  `GovernedCall` leaves free; every event a call records is a `Push` or a
  `WriteDenial` of `AuditPipeline`.
- `docs/protocol.md` section 2.3 has steps that `verify_local` lacks (step 9, the
  revocation of a block's rid); the models follow the code.
- The text of logs and errors, HTTP headers, cryptography.

What could follow: two processes on one overflow directory, and calls composed with
the pipeline that their events go to.
