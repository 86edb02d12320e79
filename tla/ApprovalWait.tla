---------------------------- MODULE ApprovalWait ----------------------------
(***************************************************************************)
(* How long one call waits for its approval: the loop of _poll_approval    *)
(* and _poll_approval_async against a monotonic clock.  A status call may  *)
(* take up to RpcMax (its wait for an executor thread included) and a      *)
(* sleeper may wake up to Slack late.                                      *)
(***************************************************************************)
EXTENDS Integers

CONSTANTS
    ApprovalTimeout,    \* client.approval_timeout
    PollInterval,       \* client.approval_poll_interval
    RpcMax,             \* bound: the longest a status call takes
    Slack               \* bound: the longest a sleeper oversleeps

ASSUME TimesAssumption == /\ ApprovalTimeout \in Nat \ {0}
                          /\ PollInterval \in Nat \ {0}
                          /\ RpcMax \in Nat /\ Slack \in Nat

VARIABLES
    now,        \* time since the wait began
    pc,         \* "calling" sigil-core, "sleeping", or "done"
    wake,       \* the end of the sleep, as asked for
    due,        \* the time by which the call answers or the sleeper wakes
    outcome,    \* what the wait resolved to
    askedAt,    \* history: when the latest status call was made
    polls       \* history: how many status calls were made

vars == <<now, pc, wake, due, outcome, askedAt, polls>>

Deadline == ApprovalTimeout

Init == /\ now = 0 /\ pc = "calling" /\ wake = 0 /\ due = RpcMax
        /\ outcome = "none" /\ askedAt = 0 /\ polls = 1

\* Mutant: the sleep is not capped to the time remaining.
FullInterval(remaining) == PollInterval

SleepFor(remaining) == IF PollInterval <= remaining THEN PollInterval ELSE remaining

Resolve(result) == /\ pc' = "done"
                   /\ outcome' = result
                   /\ UNCHANGED <<now, wake, due, askedAt, polls>>

\* Mutant: whatever the status call returns is taken for a decision.
DecidedByAnyStatus == /\ pc = "calling"
                      /\ \E result \in {"approved", "rejected", "expired", "pending"} :
                             Resolve(result)

\* The status call returns a terminal status, or raises ("unavailable").
Decided == /\ pc = "calling"
           /\ \E result \in {"approved", "rejected", "expired", "unavailable"} :
                  Resolve(result)

\* Mutant: exactly no time remaining is a case neither branch handles.
GiveUpLate == /\ pc = "calling" /\ Deadline - now < 0
              /\ Resolve("timeout")

\* Mutant: the rest of the window is given up when it is shorter than a sleep.
GiveUpEarly == /\ pc = "calling" /\ Deadline - now < PollInterval
               /\ Resolve("timeout")

\* Still pending, and no time remains.
GiveUp == /\ pc = "calling" /\ Deadline - now <= 0
          /\ Resolve("timeout")

\* Mutant: sleeps although no time remains.
SleepAnyway == /\ pc = "calling"
               /\ pc' = "sleeping"
               /\ wake' = now + SleepFor(Deadline - now)
               /\ due' = wake' + Slack
               /\ UNCHANGED <<now, outcome, askedAt, polls>>

\* Still pending: sleep until the next poll.
Sleep == /\ pc = "calling" /\ Deadline - now > 0
         /\ pc' = "sleeping"
         /\ wake' = now + SleepFor(Deadline - now)
         /\ due' = wake' + Slack
         /\ UNCHANGED <<now, outcome, askedAt, polls>>

Wake == /\ pc = "sleeping" /\ now >= wake
        /\ pc' = "calling"
        /\ due' = now + RpcMax
        /\ askedAt' = now
        /\ polls' = polls + 1
        /\ UNCHANGED <<now, wake, outcome>>

\* Time passes while a call or a sleep may still last.
Tick == /\ pc # "done" /\ now < due
        /\ now' = now + 1
        /\ UNCHANGED <<pc, wake, due, outcome, askedAt, polls>>

Next == Decided \/ GiveUp \/ Sleep \/ Wake \/ Tick

Spec == Init /\ [][Next]_vars

\* Time passes, a sleeper wakes, and a pending answer is acted upon.
Fairness == WF_vars(Tick) /\ WF_vars(Wake) /\ WF_vars(GiveUp \/ Sleep)

LiveSpec == Spec /\ Fairness

(***************************************************************************)
(* Properties.                                                             *)
(***************************************************************************)

TypeOK == /\ now \in Nat /\ wake \in Nat /\ due \in Nat /\ askedAt \in Nat
          /\ polls \in Nat \ {0}
          /\ pc \in {"calling", "sleeping", "done"}
          /\ outcome \in {"none", "approved", "rejected", "expired", "unavailable", "timeout"}
          /\ pc = "done" <=> outcome # "none"

\* However the poll interval divides the window, the wait ends by the deadline
\* plus one oversleep and one status call.
WaitBounded == now <= Deadline + Slack + RpcMax

\* Nobody's decision is given up before the approval window has passed.
TimeoutNotEarly == outcome = "timeout" => now >= Deadline

\* A window is polled once per interval, at its start and once more at its end:
\* no busy loop at the deadline.
PollsBounded == (polls - 2) * PollInterval < ApprovalTimeout

\* What the wait has left: the time up to WaitBounded's bound, and in each instant
\* at most one wake-up, one status call and one sleep.
Remaining == 3 * (Deadline + Slack + RpcMax - now)
             + CASE pc = "sleeping" /\ now >= wake -> 3
                 [] pc = "calling" -> 2
                 [] pc = "sleeping" /\ now < wake -> 1
                 [] OTHER -> 0

\* The loop never spins: each step, a clock tick included, leaves less to do, so
\* no call of sigil-core follows another without time passing in between.
WaitAdvances == [][Remaining' < Remaining]_vars

\* The wait ends although nobody ever decides.
WaitEnds == <>(pc = "done")

=============================================================================
