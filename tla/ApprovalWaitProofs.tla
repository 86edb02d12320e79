------------------------- MODULE ApprovalWaitProofs -------------------------
(***************************************************************************)
(* Theorems about ApprovalWait, for every approval timeout, poll interval, *)
(* status-call time and oversleep.  The argument: a sleep is only started  *)
(* before the deadline and never aims past it, so the call it leads to is  *)
(* made by the deadline plus one oversleep; and a sleep that does not aim  *)
(* at the deadline itself is a full interval long, which paces the calls.  *)
(***************************************************************************)
EXTENDS ApprovalWait, TLAPS

\* A sleep was started before the deadline, and ends with the interval or with
\* the window, whichever comes first.
SleepAims == pc = "sleeping" => /\ askedAt < Deadline
                                /\ wake <= Deadline
                                /\ wake = Deadline \/ wake >= askedAt + PollInterval
                                /\ due = wake + Slack

CallTimed == pc = "calling" => askedAt <= Deadline + Slack /\ due = askedAt + RpcMax

\* Every call but the first and the last comes an interval after the one before.
Paced == /\ askedAt < Deadline => (polls - 1) * PollInterval <= askedAt
         /\ askedAt >= Deadline => (polls - 2) * PollInterval < Deadline

Invariant == /\ TypeOK
             /\ askedAt <= now /\ now <= due
             /\ SleepAims /\ CallTimed /\ Paced
             /\ WaitBounded /\ TimeoutNotEarly

\* The wait starts with its first status call at time zero.
LEMMA InvariantInitially == Init => Invariant
BY TimesAssumption DEF Init, Invariant, TypeOK, SleepAims, CallTimed, Paced, WaitBounded,
                       TimeoutNotEarly, Deadline

\* Making the next call after a sleep keeps the calls paced.
LEMMA WakePaced == ASSUME Invariant, Wake PROVE Paced'
<1> DEFINE before == (polls - 1) * PollInterval
<1>1. /\ polls \in Nat \ {0} /\ now \in Nat /\ wake \in Nat /\ askedAt \in Nat
      /\ PollInterval \in Nat \ {0} /\ Deadline \in Nat \ {0}
    BY TimesAssumption DEF Invariant, TypeOK, Deadline
<1>2. /\ now >= wake /\ askedAt' = now /\ polls' = polls + 1
      /\ askedAt < Deadline /\ (wake = Deadline \/ wake >= askedAt + PollInterval)
    BY DEF Wake, Invariant, SleepAims
<1>3. before \in Int /\ before <= askedAt
    BY <1>1, <1>2 DEF Invariant, Paced
<1>4. (polls' - 1) * PollInterval = before + PollInterval
    BY <1>1, <1>2
<1>5. (polls' - 2) * PollInterval = before
    BY <1>1, <1>2
<1> HIDE DEF before
<1>6. askedAt' < Deadline => (polls' - 1) * PollInterval <= askedAt'
    BY <1>1, <1>2, <1>3, <1>4
<1>7. askedAt' >= Deadline => (polls' - 2) * PollInterval < Deadline
    BY <1>1, <1>2, <1>3, <1>5
<1> QED
    BY <1>6, <1>7 DEF Paced, Deadline

\* Every step of the loop keeps the invariant.
LEMMA InvariantPreserved == Invariant /\ [Next]_vars => Invariant'
<1> SUFFICES ASSUME Invariant, [Next]_vars PROVE Invariant'
    OBVIOUS
<1> USE TimesAssumption DEF Deadline
<1>1. CASE Decided
    BY <1>1 DEF Decided, Resolve, Invariant, TypeOK, SleepAims, CallTimed, Paced,
                WaitBounded, TimeoutNotEarly
<1>2. CASE GiveUp
    BY <1>2 DEF GiveUp, Resolve, Invariant, TypeOK, SleepAims, CallTimed, Paced,
                WaitBounded, TimeoutNotEarly
<1>3. CASE Sleep
    <2>1. Paced'
        BY <1>3 DEF Sleep, Invariant, Paced
    <2>2. /\ wake' \in Nat /\ wake' <= Deadline /\ now <= wake'
          /\ wake' = Deadline \/ wake' = now + PollInterval
        BY <1>3 DEF Sleep, SleepFor, Invariant, TypeOK
    <2> QED
        BY <1>3, <2>1, <2>2 DEF Sleep, Invariant, TypeOK, SleepAims, CallTimed, WaitBounded,
                                TimeoutNotEarly
<1>4. CASE Wake
    <2>1. Paced'
        BY <1>4, WakePaced
    <2> QED
        BY <1>4, <2>1 DEF Wake, Invariant, TypeOK, SleepAims, CallTimed, WaitBounded,
                          TimeoutNotEarly
<1>5. CASE Tick
    <2>1. Paced'
        BY <1>5 DEF Tick, Invariant, Paced
    <2>2. now' <= due /\ now' \in Nat /\ now <= now'
        BY <1>5 DEF Tick, Invariant, TypeOK
    <2>3. pc \in {"calling", "sleeping"}
        BY <1>5 DEF Tick, Invariant, TypeOK
    <2> QED
        BY <1>5, <2>1, <2>2, <2>3 DEF Tick, Invariant, TypeOK, SleepAims, CallTimed,
                                      WaitBounded, TimeoutNotEarly
<1>6. CASE UNCHANGED vars
    BY <1>6 DEF vars, Invariant, TypeOK, SleepAims, CallTimed, Paced, WaitBounded,
                TimeoutNotEarly
<1> QED
    BY <1>1, <1>2, <1>3, <1>4, <1>5, <1>6 DEF Next

\* Every reachable state satisfies the invariant.
THEOREM InvariantHolds == Spec => []Invariant
BY InvariantInitially, InvariantPreserved, PTL DEF Spec

\* The variables keep their types.
THEOREM TypeCorrect == Spec => []TypeOK
<1>1. Invariant => TypeOK
    BY DEF Invariant
<1> QED
    BY <1>1, InvariantHolds, PTL

\* The wait of _poll_approval never outlasts approval_timeout by more than one
\* oversleep and one status call, whatever the poll interval.
THEOREM WaitIsBounded == Spec => []WaitBounded
<1>1. Invariant => WaitBounded
    BY DEF Invariant
<1> QED
    BY <1>1, InvariantHolds, PTL

\* A wait is given up as timed out only once the whole window has passed.
THEOREM TimeoutIsNotEarly == Spec => []TimeoutNotEarly
<1>1. Invariant => TimeoutNotEarly
    BY DEF Invariant
<1> QED
    BY <1>1, InvariantHolds, PTL

\* sigil-core is asked at most once per interval, and once more at the deadline.
THEOREM PollsAreBounded == Spec => []PollsBounded
<1>1. Invariant => PollsBounded
    <2> SUFFICES ASSUME Invariant PROVE PollsBounded
        OBVIOUS
    <2>1. /\ polls \in Nat \ {0} /\ askedAt \in Nat
          /\ PollInterval \in Nat \ {0} /\ ApprovalTimeout \in Nat \ {0}
        BY TimesAssumption DEF Invariant, TypeOK
    <2>2. (polls - 1) * PollInterval = (polls - 2) * PollInterval + PollInterval
        BY <2>1
    <2>3. (polls - 1) * PollInterval \in Int /\ (polls - 2) * PollInterval \in Int
        BY <2>1
    <2> QED
        BY <2>1, <2>2, <2>3 DEF Invariant, Paced, PollsBounded, Deadline
<1> QED
    BY <1>1, InvariantHolds, PTL

\* A sleep started before the deadline lasts, so the clock moves between two calls.
LEMMA StepAdvances == Invariant /\ [Next]_vars => [Remaining' < Remaining]_vars
<1> SUFFICES ASSUME Invariant, Next PROVE Remaining' < Remaining
    OBVIOUS
<1> DEFINE left == Deadline + Slack + RpcMax - now
<1>1. /\ left \in Int /\ now \in Nat /\ wake \in Nat
      /\ pc \in {"calling", "sleeping", "done"}
    BY TimesAssumption DEF Invariant, TypeOK, Deadline
<1>2. CASE Decided \/ GiveUp
    <2>1. pc = "calling" /\ pc' = "done" /\ now' = now
        BY <1>2 DEF Decided, GiveUp, Resolve
    <2> QED
        BY <1>1, <2>1, TimesAssumption DEF Remaining, Deadline
<1>3. CASE Sleep
    <2>1. pc = "calling" /\ pc' = "sleeping" /\ now' = now /\ now < wake'
        BY <1>1, <1>3, TimesAssumption DEF Sleep, SleepFor, Deadline
    <2>2. wake' \in Nat
        BY <1>1, <1>3, TimesAssumption DEF Sleep, SleepFor, Deadline
    <2> QED
        BY <1>1, <2>1, <2>2, TimesAssumption DEF Remaining, Deadline
<1>4. CASE Wake
    <2>1. pc = "sleeping" /\ now >= wake /\ pc' = "calling" /\ now' = now
        BY <1>4 DEF Wake
    <2> QED
        BY <1>1, <2>1, TimesAssumption DEF Remaining, Deadline
<1>5. CASE Tick
    <2>1. pc' = pc /\ wake' = wake /\ now' = now + 1 /\ pc # "done"
        BY <1>5 DEF Tick
    <2> QED
        BY <1>1, <2>1, TimesAssumption DEF Remaining, Deadline
<1> QED
    BY <1>2, <1>3, <1>4, <1>5 DEF Next

\* What is left is never negative: the steps of a wait are numbered by it.
LEMMA RemainingIsNat == Invariant => Remaining \in Nat
<1> SUFFICES ASSUME Invariant PROVE Remaining \in Nat
    OBVIOUS
<1>1. Deadline + Slack + RpcMax - now \in Nat
    BY TimesAssumption DEF Invariant, TypeOK, WaitBounded, Deadline
<1> HIDE DEF Deadline
<1> QED
    BY <1>1 DEF Remaining

\* Each step of the loop leaves less to do, and there is never less than nothing:
\* a wait takes at most 3 * (ApprovalTimeout + Slack + RpcMax) + 2 steps.
THEOREM WaitIsFinite == Spec => WaitAdvances /\ [](Remaining \in Nat)
BY InvariantHolds, StepAdvances, RemainingIsNat, PTL DEF Spec, WaitAdvances

=============================================================================
