---------------------------- MODULE ClaimLedger -----------------------------
(***************************************************************************)
(* What the claim ledger promises, without cycles, queues or timers: every *)
(* task has one claim, which is granted, fails, is granted again within    *)
(* the retry budget, is released, and is forgotten before the task can     *)
(* start afresh.  One handler may move the claims of several tasks, each   *)
(* by one of these moves.                                                  *)
(***************************************************************************)
EXTENDS Integers

CONSTANTS Tasks, RetryLimits

VARIABLES state, attempts

ledgerVars == <<state, attempts>>

Budgeted(n) == \E m \in RetryLimits : n <= m

\* The task is dispatched: for the first time, or again after a failure.
Grant(t) ==
    /\ state[t] \in {"Absent", "RetryQueued"}
    /\ state'[t] = "Running"
    /\ attempts'[t] = attempts[t] + 1
    /\ Budgeted(attempts[t] + 1)

\* The attempt failed and another one is within the budget.
Requeue(t) ==
    /\ state[t] = "Running"
    /\ state'[t] = "RetryQueued"
    /\ attempts'[t] = attempts[t]
    /\ Budgeted(attempts[t] + 1)

\* The task is done with: verified, aborted, exhausted or stalled.
Settle(t) ==
    /\ state[t] \in {"Running", "RetryQueued"}
    /\ state'[t] = "Released"
    /\ attempts'[t] = attempts[t]

\* The record of a settled task is dropped and its attempts start again.
Forget(t) ==
    /\ state[t] = "Released"
    /\ state'[t] = "Absent"
    /\ attempts'[t] = 0

Keep(t) == state'[t] = state[t] /\ attempts'[t] = attempts[t]

Init ==
    /\ state = [t \in Tasks |-> "Absent"]
    /\ attempts = [t \in Tasks |-> 0]

Next ==
    /\ DOMAIN state' = Tasks /\ DOMAIN attempts' = Tasks
    /\ \A t \in Tasks : Grant(t) \/ Requeue(t) \/ Settle(t) \/ Forget(t) \/ Keep(t)

Spec == Init /\ [][Next]_ledgerVars
=============================================================================
