---------------------------- MODULE TaskDispatch ----------------------------
(***************************************************************************)
(* The dispatch core of the orchestrator: the claim ledger                 *)
(* (TaskClaimMachine), the retry queue (RetryQueue), the stall and cleanup *)
(* sweep (Reconciler), the per-cycle workspaces (WorkspaceManager) and the *)
(* coroutine that ties them together (MeshOrchestrator.injectTask with its *)
(* HookRunner phases and MevBridge.execute).                               *)
(*                                                                         *)
(* One Node process runs everything, so a step is the code between two     *)
(* awaits: the synchronous head of injectTask, each resumption after an    *)
(* await, and each timer callback (the two sweeps) are single actions.     *)
(* A task is its sha256 hash; the goal text and the hash name the same     *)
(* thing.  A cycle is one run of injectTask, named by its fresh cycleId.   *)
(*                                                                         *)
(* Time is kept as ages: the age of a claim is now - updatedAt, saturated  *)
(* at MaxAge, and wait is what is left until retryAfter.                   *)
(***************************************************************************)
EXTENDS Integers, FiniteSets, Functions

CONSTANTS
    Tasks,          \* task hashes
    Cycles,         \* cycle ids; an id is reused once nothing refers to it
    NoTask,         \* the task of a cycle id that is not in use
    NoCycle,        \* the cycleId of a claim that was never granted
    RetryLimits,    \* the values of cfg.maxAttempts: constructor and WORKFLOW.md
    BackoffBase,    \* cfg.baseMs
    BackoffFactor,  \* cfg.factor
    StallTimeout,   \* cfg.stallTimeoutMs
    CleanupAfter,   \* cfg.cleanupAfterMs
    MaxAge,         \* ages saturate here (a bound of the model)
    Wedged          \* the cycles whose await may never settle

ASSUME NamesAssumption == NoTask \notin Tasks /\ NoCycle \notin Cycles

\* cfg.maxAttempts of the constructor is at least 1; a reloaded WORKFLOW.md
\* is not range checked, so the other limits may be any integer.
ASSUME LimitsAssumption ==
    RetryLimits \subseteq Int /\ \E m \in RetryLimits : m >= 1

ASSUME WedgedAssumption == Wedged \subseteq Cycles

ASSUME AgesAssumption ==
    /\ StallTimeout \in Nat /\ CleanupAfter \in Nat /\ MaxAge \in Nat
    /\ StallTimeout <= MaxAge /\ CleanupAfter <= MaxAge

-----------------------------------------------------------------------------

\* The delay after the a-th attempt failed.
Backoff(a) == BackoffBase * BackoffFactor^(a - 1)

ASSUME BackoffAssumption ==
    \A m \in RetryLimits : \A a \in 1..m : Backoff(a) \in Nat

ClaimStates == {"Unclaimed", "Claimed", "Running", "RetryQueued", "Released"}

\* "Absent" is a task the ledger has no record of.
States == ClaimStates \cup {"Absent"}

Legal == [s \in States |->
            CASE s = "Unclaimed"   -> {"Claimed", "Released"}
              [] s = "Claimed"     -> {"Running", "Released"}
              [] s = "Running"     -> {"RetryQueued", "Released"}
              [] s = "RetryQueued" -> {"Claimed", "Released"}
              [] OTHER             -> {}]

Ages == 0..MaxAge

Records == [state : States, attempt : Nat, age : Ages,
            cycle : Cycles \cup {NoCycle}, wait : Nat]

NoRecord == [state |-> "Absent", attempt |-> 0, age |-> 0,
             cycle |-> NoCycle, wait |-> 0]

\* Where a cycle is suspended: at which await of injectTask.
Phases == {"idle", "after_create", "before_run", "execute",
           "after_run", "before_remove"}

VARIABLES
    ledger,       \* TaskClaimMachine.ledger
    pending,      \* the keys of RetryQueue.pending
    maxAttempts,  \* RetryQueue.cfg.maxAttempts
    phase,        \* for each cycle, the await it is suspended at
    task,         \* for each cycle, the task it runs
    status,       \* for each cycle, the status of its receipt
    workspaces    \* the keys of WorkspaceManager.active

vars == <<ledger, pending, maxAttempts, phase, task, status, workspaces>>

cycleVars == <<phase, task, status, workspaces>>

-----------------------------------------------------------------------------
(* TaskClaimMachine                                                        *)

\* register: a missing record is created Unclaimed, an existing one kept.
Registered(r) ==
    IF r.state = "Absent" THEN [NoRecord EXCEPT !.state = "Unclaimed"] ELSE r

\* transition: an illegal move leaves the record as it is (and returns false).
Transition(r, next) ==
    IF next \notin Legal[r.state] THEN r
    ELSE [r EXCEPT !.state = next,
                   !.age = 0,
                   !.attempt = IF next = "Claimed" THEN r.attempt + 1 ELSE r.attempt]

\* tryClaim returns true for these states of a registered record.
Claimable(r) == Registered(r).state \in {"Unclaimed", "RetryQueued"}

\* register, tryClaim and markRunning, as injectTask calls them in one go.
ClaimedBy(r, c) ==
    LET claimed == [Transition(Registered(r), "Claimed") EXCEPT !.cycle = c]
    IN  [Transition(claimed, "Running") EXCEPT !.cycle = c]

\* markRetryQueued sets retryAfter only when the transition was made.
MarkRetryQueued(r, delay) ==
    IF "RetryQueued" \in Legal[r.state]
    THEN [Transition(r, "RetryQueued") EXCEPT !.wait = delay] ELSE r

Release(r) == Transition(r, "Released")

-----------------------------------------------------------------------------
(* RetryQueue                                                              *)

\* Fault: the attempt that is about to be scheduled is not counted.
ExhaustedLate(r) == r.attempt > maxAttempts

\* nextAttempt > maxAttempts
Exhausted(r) == r.attempt + 1 > maxAttempts

\* enqueueFailure(t): nothing without a record; released when the attempts
\* are used up; otherwise queued, with the goal kept for the re-dispatch
\* unless the claim was no longer Running.
EnqueueFailure(t) ==
    LET r == ledger[t]
        queued == MarkRetryQueued(r, Backoff(r.attempt))
    IN  CASE r.state = "Absent" -> UNCHANGED <<ledger, pending>>
          [] r.state # "Absent" /\ Exhausted(r) ->
                /\ ledger' = [ledger EXCEPT ![t] = Release(r)]
                /\ UNCHANGED pending
          [] r.state # "Absent" /\ ~Exhausted(r) ->
                /\ ledger' = [ledger EXCEPT ![t] = queued]
                /\ pending' = IF "RetryQueued" \in Legal[r.state]
                              THEN pending \cup {t} ELSE pending

DueForRetry == {t \in Tasks : ledger[t].state = "RetryQueued" /\ ledger[t].wait = 0}

\* WORKFLOW.md reload: updateConfig replaces the limit without a range check.
UpdateConfig ==
    /\ maxAttempts' \in RetryLimits
    /\ UNCHANGED <<ledger, pending>> /\ UNCHANGED cycleVars

-----------------------------------------------------------------------------
(* MeshOrchestrator.injectTask                                             *)

\* A cycle id injectTask may draw: in use by no cycle and named by no claim.
FreeCycles == {c \in Cycles : phase[c] = "idle" /\ \A t \in Tasks : ledger[t].cycle # c}

\* The synchronous head of injectTask for the cycles in the range of by, one
\* per task: the cycle is suspended at the after_create hooks, its workspace
\* acquired unless mkdir failed.
StartCycles(S, by) ==
    LET started == {by[t] : t \in S}
        runs(c) == CHOOSE t \in S : by[t] = c
    IN  /\ phase' = [c \in Cycles |-> IF c \in started THEN "after_create" ELSE phase[c]]
        /\ task' = [c \in Cycles |-> IF c \in started THEN runs(c) ELSE task[c]]
        /\ \E made \in SUBSET started : workspaces' = workspaces \cup made
        /\ UNCHANGED status

\* An operator's mission_inject.  A task whose claim cannot be taken is
\* refused with "Task already in flight" and nothing changes.
InjectTask(t) ==
    /\ Claimable(ledger[t])
    /\ \E c \in FreeCycles :
          /\ ledger' = [ledger EXCEPT ![t] = ClaimedBy(ledger[t], c)]
          /\ StartCycles({t}, [u \in {t} |-> c])
    /\ UNCHANGED <<pending, maxAttempts>>

\* Fault: the workspace is not handed back.
EndCycleKeepsWorkspace(c) ==
    /\ phase' = [phase EXCEPT ![c] = "idle"]
    /\ task' = [task EXCEPT ![c] = NoTask]
    /\ status' = [status EXCEPT ![c] = "none"]
    /\ UNCHANGED workspaces

\* The end of a cycle on any path: its workspace, if any, is released.
EndCycle(c) ==
    /\ phase' = [phase EXCEPT ![c] = "idle"]
    /\ task' = [task EXCEPT ![c] = NoTask]
    /\ status' = [status EXCEPT ![c] = "none"]
    /\ workspaces' = workspaces \ {c}

Resume(c, next) == phase' = [phase EXCEPT ![c] = next] /\ UNCHANGED <<task, workspaces>>

\* A failed after_create or before_run hook aborts the cycle and releases
\* the claim.
HookAborts(c) ==
    /\ phase[c] \in {"after_create", "before_run"}
    /\ ledger' = [ledger EXCEPT ![task[c]] = Release(ledger[task[c]])]
    /\ EndCycle(c)
    /\ UNCHANGED <<pending, maxAttempts>>

HookPasses(c) ==
    /\ \/ phase[c] = "after_create" /\ Resume(c, "before_run")
       \/ phase[c] = "before_run" /\ Resume(c, "execute")
    /\ UNCHANGED <<ledger, pending, maxAttempts, status>>

\* mevBridge.execute rejects: the failure is queued for retry and the cycle
\* ends at once.
ExecuteThrows(c) ==
    /\ phase[c] = "execute"
    /\ EnqueueFailure(task[c])
    /\ EndCycle(c)
    /\ UNCHANGED maxAttempts

\* mevBridge.execute resolves with a receipt; the after_run hooks start.
ExecuteReturns(c) ==
    /\ phase[c] = "execute"
    /\ \E s \in {"verified", "failed"} : status' = [status EXCEPT ![c] = s]
    /\ Resume(c, "after_run")
    /\ UNCHANGED <<ledger, pending, maxAttempts>>

\* After the advisory after_run hooks the claim is settled; a cycle with a
\* workspace goes on to the before_remove hooks, one without is finished.
AfterRun(c) ==
    /\ phase[c] = "after_run"
    /\ \/ /\ status[c] = "verified"
          /\ ledger' = [ledger EXCEPT ![task[c]] = Release(ledger[task[c]])]
          /\ UNCHANGED pending
       \/ /\ status[c] = "failed"
          /\ EnqueueFailure(task[c])
    /\ IF c \in workspaces
       THEN Resume(c, "before_remove") /\ UNCHANGED status
       ELSE EndCycle(c)
    /\ UNCHANGED maxAttempts

BeforeRemove(c) ==
    /\ phase[c] = "before_remove"
    /\ EndCycle(c)
    /\ UNCHANGED <<ledger, pending, maxAttempts>>

-----------------------------------------------------------------------------
(* The timers                                                              *)

\* Fault: the clean-up drops the payloads whose backoff has not elapsed.
KeptPayloadsDueOnly == {t \in pending : t \in DueForRetry}

\* The payloads that survive the sweep's clean-up of the map.
KeptPayloads == {t \in pending : ledger[t].state = "RetryQueued"}

\* RetryQueue.sweep: payloads of claims that are no longer RetryQueued are
\* dropped; a due claim without payload is released, one with a payload is
\* handed to injectTask, which claims it before the sweep goes on.
RetrySweep ==
    LET dispatched == DueForRetry \cap KeptPayloads
    IN  /\ \E by \in Injection(dispatched, FreeCycles) :
              /\ ledger' = [t \in Tasks |->
                    CASE t \in dispatched               -> ClaimedBy(ledger[t], by[t])
                      [] t \in DueForRetry \ dispatched -> Release(ledger[t])
                      [] OTHER                          -> ledger[t]]
              /\ StartCycles(dispatched, by)
        /\ pending' = KeptPayloads \ dispatched
        /\ UNCHANGED maxAttempts

\* Fault: only claims that never started running are seen as stalled.
ReconciledSkipsRunning(r) ==
    CASE r.state = "Claimed" /\ r.age >= StallTimeout    -> Release(r)
      [] r.state = "Released" /\ r.age >= CleanupAfter   -> NoRecord
      [] OTHER                                           -> r

\* Fault: the clean-up does not look at the state of the claim.
ReconciledPrunesQueued(r) ==
    CASE r.state \in {"Claimed", "Running"} /\ r.age >= StallTimeout -> Release(r)
      [] r.state \notin {"Claimed", "Running"} /\ r.age >= CleanupAfter -> NoRecord
      [] OTHER                                                       -> r

\* What the reconciler does with one record.
Reconciled(r) ==
    CASE r.state \in {"Claimed", "Running"} /\ r.age >= StallTimeout -> Release(r)
      [] r.state = "Released" /\ r.age >= CleanupAfter               -> NoRecord
      [] OTHER                                                       -> r

\* Reconciler.sweep: stalled claims are released, old Released ones pruned.
ReconcilerSweep ==
    /\ ledger' = [t \in Tasks |-> Reconciled(ledger[t])]
    /\ UNCHANGED <<pending, maxAttempts>> /\ UNCHANGED cycleVars

\* A unit of time passes.
Aged(r) ==
    IF r.state = "Absent" THEN r
    ELSE [r EXCEPT !.age = IF r.age < MaxAge THEN r.age + 1 ELSE r.age,
                   !.wait = IF r.wait > 0 THEN r.wait - 1 ELSE 0]

Tick ==
    /\ ledger' = [t \in Tasks |-> Aged(ledger[t])]
    /\ UNCHANGED <<pending, maxAttempts>> /\ UNCHANGED cycleVars

-----------------------------------------------------------------------------

Init ==
    /\ ledger = [t \in Tasks |-> NoRecord]
    /\ pending = {}
    /\ maxAttempts \in {m \in RetryLimits : m >= 1}
    /\ phase = [c \in Cycles |-> "idle"]
    /\ task = [c \in Cycles |-> NoTask]
    /\ status = [c \in Cycles |-> "none"]
    /\ workspaces = {}

CycleStep(c) ==
    \/ HookAborts(c)
    \/ HookPasses(c)
    \/ ExecuteThrows(c)
    \/ ExecuteReturns(c)
    \/ AfterRun(c)
    \/ BeforeRemove(c)

Next ==
    \/ \E t \in Tasks : InjectTask(t)
    \/ \E c \in Cycles : CycleStep(c)
    \/ RetrySweep
    \/ ReconcilerSweep
    \/ UpdateConfig
    \/ Tick

Spec == Init /\ [][Next]_vars

\* The event loop keeps running: both interval timers fire again and again
\* and time passes.  Every await of a cycle settles (hooks run under a timeout)
\* except in the cycles of Wedged, whose agent may hang for ever.  Operators
\* owe nothing.
FairSpec ==
    /\ Spec
    /\ WF_vars(Tick)
    /\ WF_vars(RetrySweep)
    /\ WF_vars(ReconcilerSweep)
    /\ \A c \in Cycles \ Wedged : WF_vars(CycleStep(c))

-----------------------------------------------------------------------------
(* Properties                                                              *)

TypeOK ==
    /\ ledger \in [Tasks -> Records]
    /\ pending \subseteq Tasks
    /\ maxAttempts \in RetryLimits
    /\ phase \in [Cycles -> Phases]
    /\ task \in [Cycles -> Tasks \cup {NoTask}]
    /\ status \in [Cycles -> {"none", "verified", "failed"}]
    /\ workspaces \subseteq Cycles

InFlight == {c \in Cycles : phase[c] # "idle"}

\* A claim that waits for its retry always has its goal in the queue's map:
\* the sweep's "retry_due_without_payload" branch never loses a task, even
\* when operators preempt the backoff and stale cycles fail late.
RetryHasPayload ==
    \A t \in Tasks : ledger[t].state = "RetryQueued" => t \in pending

\* The retry budget: no claim is granted more often than the largest limit
\* that was ever configured, and never again once the limit is used up,
\* whoever dispatches it (sweep, operator, stale cycle failing late).
AttemptBudget ==
    \A t \in Tasks : \E m \in RetryLimits : ledger[t].attempt <= m

\* Workspaces do not leak: WorkspaceManager.active holds entries of suspended
\* cycles only, whatever path injectTask leaves by.
NoWorkspaceLeak == workspaces \subseteq InFlight

\* A claim that is held is held for a live cycle, or waits for the
\* reconciler: a claim never stays Running after its own cycle has ended.
RunningHasCycle ==
    \A t \in Tasks : ledger[t].state = "Running" =>
        /\ ledger[t].cycle \in InFlight
        /\ task[ledger[t].cycle] = t

\* What a claim stands for is there: the goal of one that waits for its retry,
\* the live cycle of one that runs.
ClaimIsBacked == RetryHasPayload /\ RunningHasCycle

\* The core invariant the claim machine's header states: no two workers
\* operate on the same task concurrently, a duplicate dispatch never runs.
NoConcurrentCycles ==
    \A c, d \in InFlight : task[c] = task[d] => c = d

\* Whatever operators, sweeps and late failures do, and even when the cycle
\* that holds the claim hangs for ever, a task that was accepted is settled in
\* the end: its claim is Released or already cleaned up.
EveryTaskSettles ==
    \A t \in Tasks :
       ledger[t].state \in {"Running", "RetryQueued"} ~> ledger[t].state \in {"Released", "Absent"}

\* The ledger, whoever drives it, keeps the promise of ClaimLedger: Claimed and
\* Unclaimed are never seen between two handlers, a settled task is forgotten
\* before it starts afresh, and every re-grant is within the budget.
Ledger == INSTANCE ClaimLedger WITH
    state    <- [t \in Tasks |-> ledger[t].state],
    attempts <- [t \in Tasks |-> ledger[t].attempt]

ImplementsClaimLedger == Ledger!Spec
=============================================================================
