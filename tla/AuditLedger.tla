---------------------------- MODULE AuditLedger ----------------------------
(***************************************************************************)
(* What the audit pipeline promises about each event, whatever its threads *)
(* do: an event the client recorded is held in memory, spilled to disk,    *)
(* stored by sigil-core, or lost in one of the ways named here, each under *)
(* its own conditions.  AuditPipeline implements this specification.       *)
(***************************************************************************)
EXTENDS Naturals, FiniteSets

CONSTANTS
    Events,         \* the audit events the calls produce
    Poison,         \* those that cannot be encoded for sending
    RingCap,        \* _RING_CAP
    MaxSendBatch    \* _MAX_SEND_BATCH

VARIABLE ledger     \* of each event: "fresh", where it is, or how it was lost

In(state) == {e \in Events : ledger[e] = state}

Enter(S, state) == ledger' = [e \in Events |-> IF e \in S THEN state ELSE ledger[e]]

LedgerInit == ledger = [e \in Events |-> "fresh"]

Record(e) == ledger[e] = "fresh" /\ Enter({e}, "held")

\* The oldest event makes room, and only for lack of room.
RecordOver(e, old) ==
    /\ ledger[e] = "fresh" /\ ledger[old] = "held"
    /\ Cardinality(In("held")) >= RingCap
    /\ ledger' = [ledger EXCEPT ![e] = "held", ![old] = "evicted"]

\* A batch that could be encoded; a replay under way may still deliver what it
\* read before the line was torn or the file unlinked.
Deliver(S) ==
    /\ S \cap Poison = {} /\ Cardinality(S) <= MaxSendBatch
    /\ Enter(S, "stored")

\* sigil-core answers with a status that is not retried.
Reject(S) ==
    /\ S \cap Poison = {} /\ Cardinality(S) <= MaxSendBatch
    /\ Enter(S, "rejected")

Spill(e) == ledger[e] = "held" /\ Enter({e}, "spilled")

\* The file is full, the system refuses, or the file is unlinked under its writer.
LoseInWrite(e, how) ==
    /\ ledger[e] = "held" /\ how \in {"capped", "io", "raced"}
    /\ Enter({e}, how)

\* The event being written and the last one in the file: one of them, or both.
Tear(S) ==
    /\ Cardinality(S \cap In("held")) <= 1 /\ Cardinality(S \cap In("spilled")) <= 1
    /\ Enter(S, "torn")

\* A replayed file goes, with what was appended meanwhile.
Unlinked(S) == Enter(S, "raced")

\* The process dies: everything in memory is lost, nothing else.
Crash == Enter(In("held"), "crashed")

LedgerNext ==
    \/ \E e \in Events : \/ Record(e) \/ \E old \in Events : RecordOver(e, old)
                         \/ Spill(e) \/ \E how \in {"capped", "io", "raced"} : LoseInWrite(e, how)
    \/ \E S \in SUBSET {e \in Events : ledger[e] \in {"held", "spilled", "torn", "raced"}} :
           Deliver(S)
    \/ \E S \in SUBSET In("held") : Reject(S)
    \/ \E S \in SUBSET (In("held") \cup In("spilled")) : Tear(S)
    \/ \E S \in SUBSET In("spilled") : Unlinked(S)
    \/ Crash

LedgerSpec == LedgerInit /\ [][LedgerNext]_ledger

=============================================================================
