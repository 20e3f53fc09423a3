------------------------ MODULE TaskDispatchProofs -------------------------
(***************************************************************************)
(* Proofs about TaskDispatch for every set of tasks and cycles, every set  *)
(* of retry limits and every choice of the time-outs.                      *)
(***************************************************************************)
EXTENDS TaskDispatch, TLAPS

\* The states a claim is seen in between two handlers.
Observable == {"Absent", "Running", "RetryQueued", "Released"}

\* A record is the absent one, or was granted to some cycle at least once.
RecordShape ==
    \A t \in Tasks :
       /\ ledger[t].state \in Observable
       /\ ledger[t].state = "Absent" => ledger[t] = NoRecord
       /\ ledger[t].state # "Absent" => ledger[t].attempt >= 1

\* A queued claim has an attempt left under some configured limit.
AttemptLeft ==
    \A t \in Tasks : ledger[t].state = "RetryQueued" =>
       \E m \in RetryLimits : ledger[t].attempt + 1 <= m

\* The phases in which a cycle still has its claim to settle.
Unsettled == {"after_create", "before_run", "execute", "after_run"}

RunningIsUnsettled ==
    \A t \in Tasks : ledger[t].state = "Running" =>
       /\ ledger[t].cycle \in Cycles
       /\ phase[ledger[t].cycle] \in Unsettled
       /\ task[ledger[t].cycle] = t

CycleShape ==
    \A c \in Cycles :
       /\ phase[c] # "idle" => task[c] \in Tasks
       /\ c \in workspaces => phase[c] # "idle"

IInv ==
    /\ TypeOK
    /\ RecordShape
    /\ AttemptBudget
    /\ AttemptLeft
    /\ RetryHasPayload
    /\ RunningIsUnsettled
    /\ CycleShape

-----------------------------------------------------------------------------
(* What the operators on one record do.                                    *)

\* The table of legal moves, entry by entry (TaskClaimMachine LEGAL).
LEMMA LegalTable ==
    /\ Legal["Absent"] = {}
    /\ Legal["Unclaimed"] = {"Claimed", "Released"}
    /\ Legal["Claimed"] = {"Running", "Released"}
    /\ Legal["Running"] = {"RetryQueued", "Released"}
    /\ Legal["RetryQueued"] = {"Claimed", "Released"}
    /\ Legal["Released"] = {}
BY DEF Legal, States, ClaimStates

\* The absent record is a record.
LEMMA NoRecordType == NoRecord \in Records
BY AgesAssumption DEF NoRecord, Records, States, ClaimStates, Ages

\* A legal transition, field by field.
LEMMA TransitionEffect ==
    ASSUME NEW r \in Records, NEW next \in ClaimStates, next \in Legal[r.state]
    PROVE  /\ Transition(r, next) =
                 [state |-> next,
                  attempt |-> IF next = "Claimed" THEN r.attempt + 1 ELSE r.attempt,
                  age |-> 0, cycle |-> r.cycle, wait |-> r.wait]
           /\ Transition(r, next) \in Records
<1>1. Transition(r, next) =
        [state |-> next,
         attempt |-> IF next = "Claimed" THEN r.attempt + 1 ELSE r.attempt,
         age |-> 0, cycle |-> r.cycle, wait |-> r.wait]
  BY DEF Transition, Records
<1> QED BY <1>1, AgesAssumption DEF Records, States, Ages

\* release: only a Running or RetryQueued claim moves, and only its state and
\* age change.
LEMMA ReleaseEffect ==
    ASSUME NEW r \in Records, r.state \in Observable
    PROVE  /\ Release(r) \in Records
           /\ Release(r).attempt = r.attempt
           /\ Release(r).cycle = r.cycle
           /\ r.state \in {"Running", "RetryQueued"} => Release(r).state = "Released"
           /\ r.state \notin {"Running", "RetryQueued"} => Release(r) = r
<1>1. CASE r.state \in {"Running", "RetryQueued"}
  BY <1>1, LegalTable, TransitionEffect DEF Release, ClaimStates
<1>2. CASE r.state \in {"Absent", "Released"}
  BY <1>2, LegalTable DEF Release, Transition
<1> QED BY <1>1, <1>2 DEF Observable

\* markRetryQueued: only a Running claim moves.
LEMMA MarkRetryQueuedEffect ==
    ASSUME NEW r \in Records, r.state \in Observable, NEW d \in Nat
    PROVE  /\ MarkRetryQueued(r, d) \in Records
           /\ MarkRetryQueued(r, d).attempt = r.attempt
           /\ MarkRetryQueued(r, d).cycle = r.cycle
           /\ r.state = "Running" => MarkRetryQueued(r, d).state = "RetryQueued"
           /\ r.state # "Running" => MarkRetryQueued(r, d) = r
<1>1. CASE r.state = "Running"
  <2>1. MarkRetryQueued(r, d) =
          [[r EXCEPT !.state = "RetryQueued", !.age = 0, !.attempt = r.attempt]
             EXCEPT !.wait = d]
    BY <1>1, LegalTable DEF MarkRetryQueued, Transition
  <2>2. MarkRetryQueued(r, d) = [state |-> "RetryQueued", attempt |-> r.attempt, age |-> 0,
                                 cycle |-> r.cycle, wait |-> d]
    BY <2>1 DEF Records
  <2> QED BY <1>1, <2>2, AgesAssumption DEF Records, States, ClaimStates, Ages
<1>2. CASE r.state \in {"Absent", "RetryQueued", "Released"}
  BY <1>2, LegalTable DEF MarkRetryQueued
<1> QED BY <1>1, <1>2 DEF Observable

\* A record that tryClaim accepts is absent or queued; register, tryClaim and
\* markRunning make it Running for the new cycle and count the attempt.
LEMMA ClaimedByEffect ==
    ASSUME NEW r \in Records, r.state \in Observable,
           r.state = "Absent" => r = NoRecord,
           NEW c \in Cycles, Claimable(r)
    PROVE  /\ r.state \in {"Absent", "RetryQueued"}
           /\ ClaimedBy(r, c) \in Records
           /\ ClaimedBy(r, c).state = "Running"
           /\ ClaimedBy(r, c).attempt = r.attempt + 1
           /\ ClaimedBy(r, c).cycle = c
<1>1. r.state \in {"Absent", "RetryQueued"}
  BY DEF Claimable, Registered, Observable
<1>2. PICK u \in Records :
        /\ u = Registered(r)
        /\ u.state \in {"Unclaimed", "RetryQueued"}
        /\ u.attempt = r.attempt
  <2>1. CASE r.state = "Absent"
    <3>1. Registered(r) = [state |-> "Unclaimed", attempt |-> 0, age |-> 0,
                           cycle |-> NoCycle, wait |-> 0]
      BY <2>1 DEF Registered, NoRecord
    <3> QED BY <2>1, <3>1, AgesAssumption DEF NoRecord, Records, States, ClaimStates, Ages
  <2> QED BY <1>1, <2>1 DEF Registered
<1>3. PICK v \in Records :
        /\ v = [Transition(u, "Claimed") EXCEPT !.cycle = c]
        /\ v.state = "Claimed"
        /\ v.attempt = r.attempt + 1
  <2>1. [Transition(u, "Claimed") EXCEPT !.cycle = c] =
          [state |-> "Claimed", attempt |-> u.attempt + 1, age |-> 0,
           cycle |-> c, wait |-> u.wait]
    BY <1>2, LegalTable, TransitionEffect DEF ClaimStates
  <2> QED BY <1>2, <2>1, AgesAssumption DEF Records, States, ClaimStates, Ages
<1>4. ClaimedBy(r, c) = [Transition(v, "Running") EXCEPT !.cycle = c]
  BY <1>2, <1>3 DEF ClaimedBy
<1>5. ClaimedBy(r, c) = [state |-> "Running", attempt |-> v.attempt, age |-> 0,
                         cycle |-> c, wait |-> v.wait]
  <2>1. /\ "Running" \in Legal[v.state]
        /\ "Running" \in ClaimStates
    BY <1>3, LegalTable DEF ClaimStates
  <2>2. Transition(v, "Running") = [state |-> "Running", attempt |-> v.attempt, age |-> 0,
                                    cycle |-> v.cycle, wait |-> v.wait]
    BY <2>1, TransitionEffect
  <2> QED BY <1>4, <2>2
<1> QED BY <1>1, <1>3, <1>5, AgesAssumption DEF Records, States, ClaimStates, Ages

\* One record under the reconciler: released, forgotten or left alone.
LEMMA ReconciledEffect ==
    ASSUME NEW r \in Records, r.state \in Observable
    PROVE  \/ /\ r.state = "Running"
              /\ Reconciled(r) = Release(r)
           \/ /\ r.state = "Released"
              /\ Reconciled(r) = NoRecord
           \/ Reconciled(r) = r
BY DEF Reconciled, Observable

\* The passing of time changes neither state, attempt nor cycle.
LEMMA AgedEffect ==
    ASSUME NEW r \in Records
    PROVE  /\ Aged(r) \in Records
           /\ Aged(r).state = r.state
           /\ Aged(r).attempt = r.attempt
           /\ Aged(r).cycle = r.cycle
           /\ r.state = "Absent" => Aged(r) = r
<1>1. CASE r.state # "Absent"
  <2>1. Aged(r) = [state |-> r.state, attempt |-> r.attempt,
                   age |-> IF r.age < MaxAge THEN r.age + 1 ELSE r.age,
                   cycle |-> r.cycle, wait |-> IF r.wait > 0 THEN r.wait - 1 ELSE 0]
    BY <1>1 DEF Aged, Records
  <2> QED BY <1>1, <2>1, AgesAssumption DEF Records, Ages
<1> QED BY <1>1 DEF Aged

-----------------------------------------------------------------------------
(* What a step does to the claim of one task: the moves of ClaimLedger,    *)
(* with the record's cycle.                                                *)

Budgeted(n) == \E m \in RetryLimits : n <= m

Granted(t) ==
    /\ ledger[t].state \in {"Absent", "RetryQueued"}
    /\ ledger'[t].state = "Running"
    /\ ledger'[t].attempt = ledger[t].attempt + 1

Requeued(t) ==
    /\ ledger[t].state = "Running"
    /\ ledger'[t].state = "RetryQueued"
    /\ ledger'[t].attempt = ledger[t].attempt
    /\ Budgeted(ledger[t].attempt + 1)

Settled(t) ==
    /\ ledger[t].state \in {"Running", "RetryQueued"}
    /\ ledger'[t].state = "Released"
    /\ ledger'[t].attempt = ledger[t].attempt

Forgotten(t) == ledger[t].state = "Released" /\ ledger'[t] = NoRecord

Kept(t) ==
    /\ ledger'[t].state = ledger[t].state
    /\ ledger'[t].attempt = ledger[t].attempt
    /\ ledger'[t].cycle = ledger[t].cycle
    /\ ledger[t].state = "Absent" => ledger'[t] = ledger[t]

Moved(t) == Granted(t) \/ Requeued(t) \/ Settled(t) \/ Forgotten(t) \/ Kept(t)

LedgerMoves == ledger' \in [Tasks -> Records] /\ \A t \in Tasks : Moved(t)

\* enqueueFailure: the claim it is called for does not stay Running, and the
\* goal of a claim it queues is put in the map.
LEMMA EnqueueFailureEffect ==
    ASSUME IInv, NEW t \in Tasks, EnqueueFailure(t)
    PROVE  /\ LedgerMoves
           /\ \A u \in Tasks : u # t => ledger'[u] = ledger[u]
           /\ ledger'[t].state # "Running"
           /\ pending \subseteq pending' /\ pending' \subseteq Tasks
           /\ RetryHasPayload'
<1> DEFINE r == ledger[t]
<1>1. /\ ledger \in [Tasks -> Records] /\ pending \subseteq Tasks
      /\ maxAttempts \in RetryLimits
      /\ r \in Records /\ r.state \in Observable
  BY DEF IInv, TypeOK, RecordShape
<1>2. CASE r.state = "Absent"
  BY <1>1, <1>2 DEF EnqueueFailure, LedgerMoves, Moved, Kept, RetryHasPayload, IInv
<1>3. CASE r.state # "Absent" /\ Exhausted(r)
  <2>1. ledger' = [ledger EXCEPT ![t] = Release(r)] /\ pending' = pending
    BY <1>3 DEF EnqueueFailure
  <2>2. /\ ledger' \in [Tasks -> Records]
        /\ ledger'[t] = Release(r)
        /\ \A u \in Tasks : u # t => ledger'[u] = ledger[u]
    BY <1>1, <2>1, ReleaseEffect
  <2>3. Settled(t) \/ Kept(t)
    BY <1>1, <2>2, ReleaseEffect DEF Settled, Kept, Observable
  <2>4. \A u \in Tasks : u # t => Kept(u)
    BY <2>2 DEF Kept
  <2>5. ledger'[t].state \notin {"Running", "RetryQueued"}
    BY <1>1, <2>2, ReleaseEffect DEF Observable
  <2> QED
    BY <1>1, <2>1, <2>2, <2>3, <2>4, <2>5 DEF LedgerMoves, Moved, RetryHasPayload, IInv
<1>4. CASE r.state # "Absent" /\ ~Exhausted(r)
  <2> DEFINE q == MarkRetryQueued(r, Backoff(r.attempt))
  <2>1. ledger' = [ledger EXCEPT ![t] = q]
    BY <1>4 DEF EnqueueFailure
  <2>2. pending' = IF "RetryQueued" \in Legal[r.state] THEN pending \cup {t} ELSE pending
    BY <1>4 DEF EnqueueFailure
  <2>3. r.attempt + 1 <= maxAttempts /\ r.attempt >= 1 /\ r.attempt \in Nat /\ maxAttempts \in Int
    BY <1>1, <1>4, LimitsAssumption DEF Exhausted, IInv, RecordShape, Records
  <2>4. Backoff(r.attempt) \in Nat
    BY <1>1, <2>3, BackoffAssumption
  <2>5. /\ q \in Records
        /\ q.attempt = r.attempt
        /\ q.cycle = r.cycle
        /\ r.state = "Running" => q.state = "RetryQueued"
        /\ r.state # "Running" => q = r
    BY <1>1, <2>4, MarkRetryQueuedEffect
  <2> HIDE DEF q
  <2>6. /\ ledger' \in [Tasks -> Records]
        /\ ledger'[t] = q
        /\ \A u \in Tasks : u # t => ledger'[u] = ledger[u]
    BY <1>1, <2>1, <2>5
  <2>7. Budgeted(r.attempt + 1)
    BY <1>1, <2>3 DEF Budgeted
  <2>8. Requeued(t) \/ Kept(t)
    BY <1>1, <2>5, <2>6, <2>7 DEF Requeued, Kept
  <2>9. \A u \in Tasks : u # t => Kept(u)
    BY <2>6 DEF Kept
  <2>10. q.state # "Running"
    BY <2>5
  <2>11. RetryHasPayload'
    BY <1>1, <2>2, <2>5, <2>6, LegalTable DEF RetryHasPayload, IInv
  <2> QED
    BY <1>1, <2>2, <2>6, <2>8, <2>9, <2>10, <2>11 DEF LedgerMoves, Moved
<1> QED BY <1>2, <1>3, <1>4

\* The moves keep the shape of the records and the retry budget.
LEMMA MovesPreserve ==
    ASSUME IInv, LedgerMoves
    PROVE  RecordShape' /\ AttemptBudget' /\ AttemptLeft'
<1>1. \A t \in Tasks : ledger[t] \in Records /\ ledger'[t] \in Records
  BY DEF IInv, TypeOK, LedgerMoves
<1>2. \A t \in Tasks : ledger[t].attempt \in Nat /\ ledger'[t].attempt \in Nat
  BY <1>1 DEF Records
<1>3. NoRecord.state = "Absent" /\ NoRecord.attempt = 0
  BY DEF NoRecord
<1>4. RecordShape'
  <2> SUFFICES ASSUME NEW t \in Tasks
               PROVE  /\ ledger'[t].state \in Observable
                      /\ ledger'[t].state = "Absent" => ledger'[t] = NoRecord
                      /\ ledger'[t].state # "Absent" => ledger'[t].attempt >= 1
    BY DEF RecordShape
  <2>1. Moved(t)
    BY DEF LedgerMoves
  <2>2. /\ ledger[t].state \in Observable
        /\ ledger[t].state = "Absent" => ledger[t] = NoRecord
        /\ ledger[t].state # "Absent" => ledger[t].attempt >= 1
    BY DEF IInv, RecordShape
  <2> QED BY <1>2, <1>3, <2>1, <2>2
          DEF Moved, Granted, Requeued, Settled, Forgotten, Kept, Observable
<1>5. AttemptBudget' /\ AttemptLeft'
  <2> SUFFICES ASSUME NEW t \in Tasks
               PROVE  /\ Budgeted(ledger'[t].attempt)
                      /\ ledger'[t].state = "RetryQueued" => Budgeted(ledger'[t].attempt + 1)
    BY DEF AttemptBudget, AttemptLeft, Budgeted
  <2>1. Moved(t)
    BY DEF LedgerMoves
  <2>2. /\ Budgeted(ledger[t].attempt)
        /\ ledger[t].state = "RetryQueued" => Budgeted(ledger[t].attempt + 1)
        /\ ledger[t].state = "Absent" => ledger[t] = NoRecord
    BY DEF IInv, AttemptBudget, AttemptLeft, RecordShape, Budgeted
  <2>3. Budgeted(0) /\ Budgeted(1)
    BY LimitsAssumption DEF Budgeted
  <2>4. CASE Granted(t)
    <3>1. ledger'[t].attempt = ledger[t].attempt + 1 /\ ledger'[t].state = "Running"
      BY <2>4 DEF Granted
    <3>2. CASE ledger[t].state = "Absent"
      BY <1>3, <2>2, <2>3, <3>1, <3>2
    <3>3. CASE ledger[t].state = "RetryQueued"
      BY <2>2, <3>1, <3>3
    <3> QED BY <2>4, <3>2, <3>3 DEF Granted
  <2>5. CASE Forgotten(t)
    BY <1>3, <2>3, <2>5 DEF Forgotten
  <2> QED BY <2>1, <2>2, <2>4, <2>5 DEF Moved, Requeued, Settled, Kept
<1> QED BY <1>4, <1>5

\* The head of injectTask: every cycle it starts is a fresh one, and runs the
\* task it was drawn for.
LEMMA StartCyclesEffect ==
    ASSUME IInv, NEW S \in SUBSET Tasks, NEW by \in [S -> FreeCycles],
           IsInjective(by), StartCycles(S, by)
    PROVE  /\ phase' \in [Cycles -> Phases]
           /\ task' \in [Cycles -> Tasks \cup {NoTask}]
           /\ status' \in [Cycles -> {"none", "verified", "failed"}]
           /\ workspaces' \subseteq Cycles
           /\ CycleShape'
           /\ \A t \in S : phase'[by[t]] = "after_create" /\ task'[by[t]] = t
           /\ \A c \in Cycles : phase[c] # "idle" => phase'[c] = phase[c] /\ task'[c] = task[c]
<1> DEFINE started == {by[t] : t \in S}
           runs(c) == CHOOSE t \in S : by[t] = c
<1>0. TypeOK /\ CycleShape
  BY DEF IInv
<1>1. /\ phase' = [c \in Cycles |-> IF c \in started THEN "after_create" ELSE phase[c]]
      /\ task' = [c \in Cycles |-> IF c \in started THEN runs(c) ELSE task[c]]
      /\ workspaces \subseteq workspaces' /\ workspaces' \subseteq workspaces \cup started
      /\ status' = status
  BY DEF StartCycles
<1>2. /\ started \subseteq Cycles
      /\ \A c \in started : phase[c] = "idle"
  BY DEF FreeCycles
<1>3. \A c \in started : runs(c) \in S /\ by[runs(c)] = c
  OBVIOUS
<1>4. \A t \in S : runs(by[t]) = t
  BY <1>3 DEF IsInjective
<1> HIDE DEF runs
<1>5. \A c \in started : phase'[c] = "after_create" /\ task'[c] = runs(c)
  BY <1>1, <1>2
<1>6. \A c \in Cycles \ started : phase'[c] = phase[c] /\ task'[c] = task[c]
  BY <1>1
<1>7. \A c \in Cycles : phase[c] # "idle" => phase'[c] = phase[c] /\ task'[c] = task[c]
  BY <1>2, <1>6
<1>8. phase' \in [Cycles -> Phases] /\ task' \in [Cycles -> Tasks \cup {NoTask}]
  BY <1>0, <1>1, <1>3 DEF TypeOK, Phases
<1>9. workspaces' \subseteq Cycles /\ status' \in [Cycles -> {"none", "verified", "failed"}]
  BY <1>0, <1>1, <1>2 DEF TypeOK
<1>10. CycleShape'
  <2> SUFFICES ASSUME NEW c \in Cycles
               PROVE  /\ phase'[c] # "idle" => task'[c] \in Tasks
                      /\ c \in workspaces' => phase'[c] # "idle"
    BY DEF CycleShape
  <2>1. CASE c \in started
    BY <1>3, <1>5, <2>1
  <2>2. CASE c \notin started
    BY <1>0, <1>1, <1>6, <2>2 DEF CycleShape
  <2> QED BY <2>1, <2>2
<1>11. \A t \in S : by[t] \in started
  OBVIOUS
<1>12. \A t \in S : phase'[by[t]] = "after_create" /\ task'[by[t]] = t
  BY <1>4, <1>5, <1>11
<1> QED BY <1>7, <1>8, <1>9, <1>10, <1>12

\* The end of a cycle leaves the other cycles alone.
LEMMA EndCycleEffect ==
    ASSUME IInv, NEW c \in Cycles, EndCycle(c)
    PROVE  /\ phase' \in [Cycles -> Phases]
           /\ task' \in [Cycles -> Tasks \cup {NoTask}]
           /\ status' \in [Cycles -> {"none", "verified", "failed"}]
           /\ workspaces' \subseteq Cycles
           /\ CycleShape'
           /\ \A d \in Cycles \ {c} : phase'[d] = phase[d] /\ task'[d] = task[d]
BY DEF IInv, TypeOK, CycleShape, EndCycle, Phases

\* Resuming a cycle leaves the other cycles alone.
LEMMA ResumeEffect ==
    ASSUME IInv, NEW c \in Cycles, phase[c] # "idle", NEW p \in Phases \ {"idle"}, Resume(c, p)
    PROVE  /\ phase' \in [Cycles -> Phases] /\ phase'[c] = p
           /\ task' = task /\ workspaces' = workspaces
           /\ CycleShape'
           /\ \A d \in Cycles \ {c} : phase'[d] = phase[d]
BY DEF IInv, TypeOK, CycleShape, Resume, Phases

\* A cycle that gives up or settles its claim: if the claim of its task is
\* then no longer Running and the other tasks are untouched, what is still
\* Running belongs to other, undisturbed cycles.
LEMMA SettledCycle ==
    ASSUME IInv, NEW c \in Cycles, phase[c] # "idle", LedgerMoves,
           \A u \in Tasks : u # task[c] => ledger'[u] = ledger[u],
           ledger'[task[c]].state # "Running",
           \A d \in Cycles \ {c} : phase'[d] = phase[d] /\ task'[d] = task[d]
    PROVE  RunningIsUnsettled'
<1> SUFFICES ASSUME NEW u \in Tasks, ledger'[u].state = "Running"
             PROVE  /\ ledger'[u].cycle \in Cycles
                    /\ phase'[ledger'[u].cycle] \in Unsettled
                    /\ task'[ledger'[u].cycle] = u
  BY DEF RunningIsUnsettled
<1>1. u # task[c] /\ ledger'[u] = ledger[u]
  OBVIOUS
<1>2. /\ ledger[u].cycle \in Cycles
      /\ phase[ledger[u].cycle] \in Unsettled
      /\ task[ledger[u].cycle] = u
  BY <1>1 DEF IInv, RunningIsUnsettled
<1> QED BY <1>1, <1>2

-----------------------------------------------------------------------------
(* One lemma per action: it moves the ledger as ClaimLedger allows and     *)
(* keeps the inductive invariant.                                          *)

\* An operator's injectTask.
LEMMA InjectStep ==
    ASSUME IInv, NEW t \in Tasks, InjectTask(t)
    PROVE  LedgerMoves /\ IInv'
<1>0. TypeOK /\ RecordShape
  BY DEF IInv
<1>1. PICK c \in FreeCycles :
        /\ ledger' = [ledger EXCEPT ![t] = ClaimedBy(ledger[t], c)]
        /\ StartCycles({t}, [u \in {t} |-> c])
  BY DEF InjectTask
<1>2. c \in Cycles /\ Claimable(ledger[t]) /\ pending' = pending /\ maxAttempts' = maxAttempts
  BY DEF InjectTask, FreeCycles
<1>3. /\ ledger[t].state \in {"Absent", "RetryQueued"}
      /\ ClaimedBy(ledger[t], c) \in Records
      /\ ClaimedBy(ledger[t], c).state = "Running"
      /\ ClaimedBy(ledger[t], c).attempt = ledger[t].attempt + 1
      /\ ClaimedBy(ledger[t], c).cycle = c
  BY <1>0, <1>2, ClaimedByEffect DEF TypeOK, RecordShape
<1>4. /\ ledger' \in [Tasks -> Records]
      /\ ledger'[t] = ClaimedBy(ledger[t], c)
      /\ \A u \in Tasks : u # t => ledger'[u] = ledger[u]
  BY <1>0, <1>1, <1>3 DEF TypeOK
<1>5. LedgerMoves
  BY <1>3, <1>4 DEF LedgerMoves, Moved, Granted, Kept
<1> DEFINE by == [u \in {t} |-> c]
<1>6. by \in [{t} -> FreeCycles] /\ IsInjective(by) /\ {t} \in SUBSET Tasks
  BY <1>1 DEF IsInjective
<1>7. /\ phase' \in [Cycles -> Phases]
      /\ task' \in [Cycles -> Tasks \cup {NoTask}]
      /\ status' \in [Cycles -> {"none", "verified", "failed"}]
      /\ workspaces' \subseteq Cycles
      /\ CycleShape'
      /\ \A u \in {t} : phase'[by[u]] = "after_create" /\ task'[by[u]] = u
      /\ \A d \in Cycles : phase[d] # "idle" => phase'[d] = phase[d] /\ task'[d] = task[d]
  BY <1>1, <1>6, StartCyclesEffect
<1>8. phase'[c] = "after_create" /\ task'[c] = t
  BY <1>7
<1>9. TypeOK'
  BY <1>0, <1>2, <1>4, <1>7 DEF TypeOK
<1>10. RetryHasPayload'
  BY <1>2, <1>3, <1>4 DEF IInv, RetryHasPayload
<1>11. RunningIsUnsettled'
  <2> SUFFICES ASSUME NEW u \in Tasks, ledger'[u].state = "Running"
               PROVE  /\ ledger'[u].cycle \in Cycles
                      /\ phase'[ledger'[u].cycle] \in Unsettled
                      /\ task'[ledger'[u].cycle] = u
    BY DEF RunningIsUnsettled
  <2>1. CASE u = t
    BY <1>2, <1>3, <1>4, <1>8, <2>1 DEF Unsettled
  <2>2. CASE u # t
    BY <1>4, <1>7, <2>2 DEF IInv, RunningIsUnsettled, Unsettled
  <2> QED BY <2>1, <2>2
<1> QED BY <1>5, <1>7, <1>9, <1>10, <1>11, MovesPreserve DEF IInv

\* The resumptions of a cycle that leave its claim alone.
LEMMA QuietCycleStep ==
    ASSUME IInv, NEW c \in Cycles, HookPasses(c) \/ ExecuteReturns(c) \/ BeforeRemove(c)
    PROVE  LedgerMoves /\ IInv'
<1>0. TypeOK
  BY DEF IInv
<1>1. /\ ledger' = ledger /\ pending' = pending /\ maxAttempts' = maxAttempts
      /\ phase[c] # "idle"
  BY DEF HookPasses, ExecuteReturns, BeforeRemove
<1>2. LedgerMoves
  BY <1>0, <1>1 DEF LedgerMoves, Moved, Kept, TypeOK
<1>3. RetryHasPayload'
  BY <1>1 DEF IInv, RetryHasPayload
<1>4. CASE HookPasses(c) \/ ExecuteReturns(c)
  <2>1. PICK p \in Unsettled : Resume(c, p)
    BY <1>4 DEF HookPasses, ExecuteReturns, Unsettled
  <2>2. p \in Phases \ {"idle"}
    BY <2>1 DEF Unsettled, Phases
  <2>3. /\ phase' \in [Cycles -> Phases] /\ phase'[c] = p
        /\ task' = task /\ workspaces' = workspaces
        /\ CycleShape'
        /\ \A d \in Cycles \ {c} : phase'[d] = phase[d]
    BY <1>1, <2>1, <2>2, ResumeEffect
  <2>4. status' \in [Cycles -> {"none", "verified", "failed"}]
    BY <1>0, <1>4 DEF HookPasses, ExecuteReturns, TypeOK
  <2>5. TypeOK'
    BY <1>0, <1>1, <2>3, <2>4 DEF TypeOK
  <2>6. RunningIsUnsettled'
    BY <1>1, <2>1, <2>3 DEF IInv, RunningIsUnsettled
  <2> QED BY <1>2, <1>3, <2>3, <2>5, <2>6, MovesPreserve DEF IInv
<1>5. CASE BeforeRemove(c)
  <2>1. EndCycle(c) /\ phase[c] = "before_remove"
    BY <1>5 DEF BeforeRemove
  <2>2. /\ phase' \in [Cycles -> Phases]
        /\ task' \in [Cycles -> Tasks \cup {NoTask}]
        /\ status' \in [Cycles -> {"none", "verified", "failed"}]
        /\ workspaces' \subseteq Cycles
        /\ CycleShape'
        /\ \A d \in Cycles \ {c} : phase'[d] = phase[d] /\ task'[d] = task[d]
    BY <2>1, EndCycleEffect
  <2>3. TypeOK'
    BY <1>0, <1>1, <2>2 DEF TypeOK
  <2>4. RunningIsUnsettled'
    BY <1>1, <2>1, <2>2 DEF IInv, RunningIsUnsettled, Unsettled
  <2> QED BY <1>2, <1>3, <2>2, <2>3, <2>4, MovesPreserve DEF IInv
<1> QED BY <1>4, <1>5

\* claims.release as a cycle calls it for its own task.
LEMMA ReleaseStep ==
    ASSUME IInv, NEW t \in Tasks, ledger' = [ledger EXCEPT ![t] = Release(ledger[t])],
           pending' = pending
    PROVE  /\ LedgerMoves
           /\ \A u \in Tasks : u # t => ledger'[u] = ledger[u]
           /\ ledger'[t].state # "Running"
           /\ RetryHasPayload'
<1>1. ledger \in [Tasks -> Records] /\ ledger[t] \in Records /\ ledger[t].state \in Observable
  BY DEF IInv, TypeOK, RecordShape
<1>2. /\ ledger' \in [Tasks -> Records]
      /\ ledger'[t] = Release(ledger[t])
      /\ \A u \in Tasks : u # t => ledger'[u] = ledger[u]
  BY <1>1, ReleaseEffect
<1>3. Settled(t) \/ Kept(t)
  BY <1>1, <1>2, ReleaseEffect DEF Settled, Kept, Observable
<1>4. ledger'[t].state \notin {"Running", "RetryQueued"}
  BY <1>1, <1>2, ReleaseEffect DEF Observable
<1> QED BY <1>2, <1>3, <1>4 DEF LedgerMoves, Moved, Kept, RetryHasPayload, IInv

\* The resumptions that settle the claim of the cycle's task: a hook aborts,
\* execute rejects, or the after_run hooks are done.
LEMMA SettlingCycleStep ==
    ASSUME IInv, NEW c \in Cycles, HookAborts(c) \/ ExecuteThrows(c) \/ AfterRun(c)
    PROVE  LedgerMoves /\ IInv'
<1>0. TypeOK
  BY DEF IInv
<1>1. maxAttempts' = maxAttempts /\ phase[c] # "idle"
  BY DEF HookAborts, ExecuteThrows, AfterRun
<1>2. task[c] \in Tasks
  BY <1>1 DEF IInv, CycleShape
<1>3. \/ EnqueueFailure(task[c])
      \/ ledger' = [ledger EXCEPT ![task[c]] = Release(ledger[task[c]])] /\ pending' = pending
  BY DEF HookAborts, ExecuteThrows, AfterRun
<1>4. /\ LedgerMoves
      /\ \A u \in Tasks : u # task[c] => ledger'[u] = ledger[u]
      /\ ledger'[task[c]].state # "Running"
      /\ RetryHasPayload'
      /\ pending' \subseteq Tasks
  <2>1. CASE EnqueueFailure(task[c])
    BY <1>2, <2>1, EnqueueFailureEffect
  <2>2. CASE ledger' = [ledger EXCEPT ![task[c]] = Release(ledger[task[c]])] /\ pending' = pending
    BY <1>0, <1>2, <2>2, ReleaseStep DEF TypeOK
  <2> QED BY <1>3, <2>1, <2>2
<1>5. \/ EndCycle(c)
      \/ Resume(c, "before_remove") /\ status' = status
  BY DEF HookAborts, ExecuteThrows, AfterRun
<1>6. /\ phase' \in [Cycles -> Phases]
      /\ task' \in [Cycles -> Tasks \cup {NoTask}]
      /\ status' \in [Cycles -> {"none", "verified", "failed"}]
      /\ workspaces' \subseteq Cycles
      /\ CycleShape'
      /\ \A d \in Cycles \ {c} : phase'[d] = phase[d] /\ task'[d] = task[d]
  <2>1. CASE EndCycle(c)
    BY <2>1, EndCycleEffect
  <2>2. CASE Resume(c, "before_remove") /\ status' = status
    <3>1. "before_remove" \in Phases \ {"idle"}
      BY DEF Phases
    <3> QED BY <1>0, <1>1, <2>2, <3>1, ResumeEffect DEF TypeOK
  <2> QED BY <1>5, <2>1, <2>2
<1>7. TypeOK'
  BY <1>0, <1>1, <1>4, <1>6 DEF TypeOK, LedgerMoves
<1>8. RunningIsUnsettled'
  BY <1>1, <1>4, <1>6, SettledCycle
<1> QED BY <1>4, <1>6, <1>7, <1>8, MovesPreserve DEF IInv

\* The retry sweep: every due claim with its goal is granted to a fresh cycle.
LEMMA RetrySweepStep ==
    ASSUME IInv, RetrySweep
    PROVE  LedgerMoves /\ IInv'
<1> DEFINE S == DueForRetry \cap KeptPayloads
<1>0. TypeOK /\ RecordShape /\ RetryHasPayload
  BY DEF IInv
<1>1. PICK by \in Injection(S, FreeCycles) :
        /\ ledger' = [t \in Tasks |->
              CASE t \in S               -> ClaimedBy(ledger[t], by[t])
                [] t \in DueForRetry \ S -> Release(ledger[t])
                [] OTHER                 -> ledger[t]]
        /\ StartCycles(S, by)
  BY DEF RetrySweep
<1>2. pending' = KeptPayloads \ S /\ maxAttempts' = maxAttempts
  BY DEF RetrySweep
<1>3. /\ S \in SUBSET Tasks
      /\ \A t \in S : ledger[t].state = "RetryQueued"
      /\ DueForRetry \subseteq S
  BY <1>0 DEF DueForRetry, KeptPayloads, RetryHasPayload
<1>4. by \in [S -> FreeCycles] /\ IsInjective(by)
  BY DEF Injection
<1>5. \A t \in S : by[t] \in Cycles /\ Claimable(ledger[t])
  BY <1>3, <1>4 DEF FreeCycles, Claimable, Registered
<1> HIDE DEF S
<1>6. \A t \in S : /\ ledger'[t] = ClaimedBy(ledger[t], by[t])
                   /\ ledger'[t] \in Records
                   /\ ledger'[t].state = "Running"
                   /\ ledger'[t].attempt = ledger[t].attempt + 1
                   /\ ledger'[t].cycle = by[t]
  <2> SUFFICES ASSUME NEW t \in S
               PROVE  /\ ledger'[t] = ClaimedBy(ledger[t], by[t])
                      /\ ledger'[t] \in Records
                      /\ ledger'[t].state = "Running"
                      /\ ledger'[t].attempt = ledger[t].attempt + 1
                      /\ ledger'[t].cycle = by[t]
    OBVIOUS
  <2>1. ledger'[t] = ClaimedBy(ledger[t], by[t]) /\ t \in Tasks
    BY <1>1, <1>3
  <2>2. ledger[t] \in Records /\ ledger[t].state \in Observable
        /\ (ledger[t].state = "Absent" => ledger[t] = NoRecord)
    BY <1>0, <2>1 DEF TypeOK, RecordShape
  <2> QED BY <1>5, <2>1, <2>2, ClaimedByEffect
<1>7. \A t \in Tasks \ S : ledger'[t] = ledger[t]
  BY <1>1, <1>3
<1>8. LedgerMoves
  <2>1. \A t \in Tasks : ledger'[t] \in Records
    BY <1>0, <1>6, <1>7 DEF TypeOK
  <2>2. ledger' \in [Tasks -> Records]
    BY <1>1, <2>1
  <2>3. \A t \in S : Granted(t)
    BY <1>3, <1>6 DEF Granted
  <2>4. \A t \in Tasks \ S : Kept(t)
    BY <1>7 DEF Kept
  <2> QED BY <2>2, <2>3, <2>4 DEF LedgerMoves, Moved
<1>9. /\ phase' \in [Cycles -> Phases]
      /\ task' \in [Cycles -> Tasks \cup {NoTask}]
      /\ status' \in [Cycles -> {"none", "verified", "failed"}]
      /\ workspaces' \subseteq Cycles
      /\ CycleShape'
      /\ \A t \in S : phase'[by[t]] = "after_create" /\ task'[by[t]] = t
      /\ \A c \in Cycles : phase[c] # "idle" => phase'[c] = phase[c] /\ task'[c] = task[c]
  BY <1>1, <1>3, <1>4, StartCyclesEffect
<1>10. TypeOK'
  <2>1. pending' \subseteq Tasks
    BY <1>0, <1>2 DEF TypeOK, KeptPayloads
  <2> QED BY <1>0, <1>2, <1>8, <1>9, <2>1 DEF TypeOK, LedgerMoves
<1>11. RetryHasPayload'
  BY <1>0, <1>2, <1>6, <1>7 DEF RetryHasPayload, KeptPayloads
<1>12. RunningIsUnsettled'
  <2> SUFFICES ASSUME NEW t \in Tasks, ledger'[t].state = "Running"
               PROVE  /\ ledger'[t].cycle \in Cycles
                      /\ phase'[ledger'[t].cycle] \in Unsettled
                      /\ task'[ledger'[t].cycle] = t
    BY DEF RunningIsUnsettled
  <2>1. CASE t \in S
    BY <1>5, <1>6, <1>9, <2>1 DEF Unsettled
  <2>2. CASE t \notin S
    BY <1>7, <1>9, <2>2 DEF IInv, RunningIsUnsettled, Unsettled
  <2> QED BY <2>1, <2>2
<1> QED BY <1>8, <1>9, <1>10, <1>11, <1>12, MovesPreserve DEF IInv

\* The steps that touch no cycle: the reconciler, the clock, a new config.
LEMMA BackgroundStep ==
    ASSUME IInv, ReconcilerSweep \/ Tick \/ UpdateConfig
    PROVE  LedgerMoves /\ IInv'
<1>0. TypeOK /\ RecordShape
  BY DEF IInv
<1>1. /\ phase' = phase /\ task' = task /\ status' = status /\ workspaces' = workspaces
      /\ pending' = pending /\ maxAttempts' \in RetryLimits
  BY <1>0 DEF ReconcilerSweep, Tick, UpdateConfig, cycleVars, TypeOK
<1>2. LedgerMoves /\ \A t \in Tasks : ~Granted(t) /\ ~Requeued(t)
  <2>1. CASE ReconcilerSweep
    <3>1. \A t \in Tasks : ledger'[t] = Reconciled(ledger[t])
      BY <2>1 DEF ReconcilerSweep
    <3>2. ASSUME NEW t \in Tasks
          PROVE  ledger'[t] \in Records /\ (Settled(t) \/ Forgotten(t) \/ Kept(t))
      <4>1. ledger[t] \in Records /\ ledger[t].state \in Observable
        BY <1>0 DEF TypeOK, RecordShape
      <4> QED BY <3>1, <4>1, ReconciledEffect, ReleaseEffect, NoRecordType
              DEF Settled, Forgotten, Kept
    <3>3. ledger' \in [Tasks -> Records]
      BY <2>1, <3>2 DEF ReconcilerSweep
    <3> QED BY <3>2, <3>3
            DEF LedgerMoves, Moved, Granted, Requeued, Settled, Forgotten, Kept, NoRecord
  <2>2. CASE Tick
    <3>1. \A t \in Tasks : ledger'[t] = Aged(ledger[t])
      BY <2>2 DEF Tick
    <3>2. ASSUME NEW t \in Tasks
          PROVE  ledger'[t] \in Records /\ Kept(t)
      BY <1>0, <3>1, AgedEffect DEF Kept, TypeOK
    <3>3. ledger' \in [Tasks -> Records]
      BY <2>2, <3>2 DEF Tick
    <3> QED BY <3>2, <3>3 DEF LedgerMoves, Moved, Granted, Requeued, Kept
  <2>3. CASE UpdateConfig
    BY <1>0, <2>3 DEF UpdateConfig, LedgerMoves, Moved, Granted, Requeued, Kept, TypeOK
  <2> QED BY <2>1, <2>2, <2>3
<1>3. TypeOK'
  BY <1>0, <1>1, <1>2 DEF TypeOK, LedgerMoves
<1>4. \A t \in Tasks : ledger'[t].state \in {"Running", "RetryQueued"} => Kept(t)
  BY <1>2 DEF LedgerMoves, Moved, Settled, Forgotten, NoRecord
<1>5. RetryHasPayload'
  BY <1>1, <1>4 DEF IInv, RetryHasPayload, Kept
<1>6. RunningIsUnsettled'
  BY <1>1, <1>4 DEF IInv, RunningIsUnsettled, Kept
<1>7. CycleShape'
  BY <1>1 DEF IInv, CycleShape
<1> QED BY <1>2, <1>3, <1>5, <1>6, <1>7, MovesPreserve DEF IInv

-----------------------------------------------------------------------------
(* The theorems.                                                           *)

\* Every step keeps the invariant and moves the ledger as ClaimLedger allows.
LEMMA StepInvariant ==
    ASSUME IInv, [Next]_vars
    PROVE  IInv' /\ LedgerMoves
<1>1. CASE Next
  <2>1. ASSUME NEW t \in Tasks, InjectTask(t) PROVE IInv' /\ LedgerMoves
    BY <2>1, InjectStep
  <2>2. ASSUME NEW c \in Cycles, CycleStep(c) PROVE IInv' /\ LedgerMoves
    BY <2>2, QuietCycleStep, SettlingCycleStep DEF CycleStep
  <2>3. CASE RetrySweep
    BY <2>3, RetrySweepStep
  <2>4. CASE ReconcilerSweep \/ Tick \/ UpdateConfig
    BY <2>4, BackgroundStep
  <2> QED BY <1>1, <2>1, <2>2, <2>3, <2>4 DEF Next
<1>2. CASE UNCHANGED vars
  <2>1. IInv'
    BY <1>2 DEF vars, IInv, TypeOK, RecordShape, AttemptBudget, AttemptLeft,
                RetryHasPayload, RunningIsUnsettled, CycleShape
  <2>2. LedgerMoves
    BY <1>2 DEF vars, LedgerMoves, Moved, Kept, IInv, TypeOK
  <2> QED BY <2>1, <2>2
<1> QED BY <1>1, <1>2

\* The empty ledger satisfies the invariant.
LEMMA InitInvariant == Init => IInv
<1> SUFFICES ASSUME Init PROVE IInv
  OBVIOUS
<1>1. /\ NoRecord.state = "Absent" /\ NoRecord.attempt = 0
  BY DEF NoRecord
<1>2. TypeOK
  BY NoRecordType DEF Init, TypeOK, Phases
<1>3. RecordShape /\ AttemptBudget /\ AttemptLeft /\ RetryHasPayload /\ RunningIsUnsettled
  BY <1>1, LimitsAssumption
     DEF Init, RecordShape, AttemptBudget, AttemptLeft, RetryHasPayload,
         RunningIsUnsettled, Observable
<1>4. CycleShape
  BY DEF Init, CycleShape
<1> QED BY <1>2, <1>3, <1>4 DEF IInv

\* The inductive invariant holds throughout.
THEOREM Invariance == Spec => []IInv
<1>1. IInv /\ [Next]_vars => IInv'
  BY StepInvariant
<1> QED BY InitInvariant, <1>1, PTL DEF Spec

\* The state of the dispatcher is always well formed.
THEOREM TypeCorrect == Spec => []TypeOK
<1>1. IInv => TypeOK
  BY DEF IInv
<1> QED BY Invariance, <1>1, PTL

\* A claim that waits for a retry never lost its goal (RetryQueue.sweep never
\* takes its retry_due_without_payload branch).
THEOREM PayloadsKept == Spec => []RetryHasPayload
<1>1. IInv => RetryHasPayload
  BY DEF IInv
<1> QED BY Invariance, <1>1, PTL

\* No claim is granted more often than some configured limit allows.
THEOREM BudgetRespected == Spec => []AttemptBudget
<1>1. IInv => AttemptBudget
  BY DEF IInv
<1> QED BY Invariance, <1>1, PTL

\* WorkspaceManager.active holds entries of suspended cycles only.
THEOREM WorkspacesReturned == Spec => []NoWorkspaceLeak
<1>1. IInv => NoWorkspaceLeak
  BY DEF IInv, TypeOK, CycleShape, NoWorkspaceLeak, InFlight
<1> QED BY Invariance, <1>1, PTL

\* A Running claim belongs to a cycle that has yet to settle it.
THEOREM RunningIsOwned == Spec => []RunningHasCycle
<1>1. IInv => RunningHasCycle
  BY DEF IInv, RunningIsUnsettled, RunningHasCycle, InFlight, Unsettled
<1> QED BY Invariance, <1>1, PTL

\* A claim that waits for its retry has its goal, one that runs its live cycle.
THEOREM ClaimsBacked == Spec => []ClaimIsBacked
<1>1. RetryHasPayload /\ RunningHasCycle => ClaimIsBacked
  BY DEF ClaimIsBacked
<1> QED BY PayloadsKept, RunningIsOwned, <1>1, PTL

\* The dispatcher implements the claim ledger.
THEOREM Refinement == Spec => ImplementsClaimLedger
<1> DEFINE st == [t \in Tasks |-> ledger[t].state]
           at == [t \in Tasks |-> ledger[t].attempt]
<1>1. Init => Ledger!Init
  BY DEF Init, Ledger!Init, NoRecord
<1>2. IInv /\ IInv' /\ [Next]_vars => [Ledger!Next]_(Ledger!ledgerVars)
  <2> SUFFICES ASSUME IInv, IInv', [Next]_vars PROVE Ledger!Next
    OBVIOUS
  <2>1. LedgerMoves
    BY StepInvariant
  <2>2. ASSUME NEW t \in Tasks
        PROVE  Ledger!Grant(t) \/ Ledger!Requeue(t) \/ Ledger!Settle(t)
                  \/ Ledger!Forget(t) \/ Ledger!Keep(t)
    <3>1. /\ st[t] = ledger[t].state /\ at[t] = ledger[t].attempt
          /\ st'[t] = ledger'[t].state /\ at'[t] = ledger'[t].attempt
      OBVIOUS
    <3>2. Granted(t) => Budgeted(ledger[t].attempt + 1)
      BY DEF Granted, Budgeted, IInv, AttemptBudget
    <3>3. Moved(t)
      BY <2>1 DEF LedgerMoves
    <3> QED
      BY <3>1, <3>2, <3>3
         DEF Moved, Granted, Requeued, Settled, Forgotten, Kept, Budgeted, NoRecord,
             Ledger!Grant, Ledger!Requeue, Ledger!Settle, Ledger!Forget, Ledger!Keep,
             Ledger!Budgeted
  <2> QED BY <2>2 DEF Ledger!Next
<1> QED BY Invariance, <1>1, <1>2, PTL DEF Spec, ImplementsClaimLedger, Ledger!Spec
=============================================================================
