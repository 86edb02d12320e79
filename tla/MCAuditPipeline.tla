-------------------------- MODULE MCAuditPipeline --------------------------
(* A small instance of AuditPipeline: the flusher and a thread that leaves     *)
(* tasks, closes the client and writes fail-closed denials.                    *)
EXTENDS AuditPipeline

CONSTANTS e1, e2, e3, flusher, t1

MCEvents == {e1, e2, e3}
MCWorkers == {flusher, t1}

\* One event that cannot be encoded as JSON.
MCPoison == {e3}

=============================================================================
