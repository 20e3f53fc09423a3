------------------------------ MODULE AgentHub ------------------------------
(***************************************************************************)
(* An agent's inbox adapters (kovael-agent-inbox) and the hub database     *)
(* they share (AgentHubStore): the log of dispatches, which makes a        *)
(* request run once, and the outbox, out of which the replies are posted   *)
(* to the orchestrator under a lease, with retries.                        *)
(*                                                                         *)
(* A member of Adapters is one life of an adapter process; two of them     *)
(* overlap when the supervisor restarts an agent or a chair is claimed     *)
(* twice.  A step is one statement or transaction of the database, with    *)
(* the synchronous code around it, or what happens across an await: the    *)
(* runtime's end, and a POST's departure, arrival and answer.              *)
(***************************************************************************)
EXTENDS Integers, FiniteSets

CONSTANTS
    Adapters,        \* lives of adapter processes
    Requests,        \* dispatches (a bound of the model)
    None,
    MaxAttempts,     \* outboxMaxAttempts
    BatchLimit,      \* the 10 of drainOutboxOnce
    MaxLapses        \* bound: leases that run out under a working adapter

ASSUME HubAssumption ==
    /\ None \notin Requests
    /\ MaxAttempts \in Nat \ {0}
    /\ BatchLimit \in Nat \ {0}
    /\ MaxLapses \in Nat
    /\ IsFiniteSet(Requests)

VARIABLES
    adapter,     \* unborn, up, gone
    looking,     \* the request an adapter found no row of, None
    recorded,    \* the request an adapter inserted and has not marked, None
    runs,        \* the runtimes of each adapter
    dispatch,    \* agent_dispatches.status
    attemptsRun, \* agent_dispatches.runtime_attempts
    row,         \* agent_outbox.status of the request's reply; absent, pruned
    attempts,    \* agent_outbox.attempts
    later,       \* rows whose next_attempt_at is yet to come
    stale,       \* rows whose updated_at is a lease ago
    lapses,      \* how often a row's lease ran out
    batch,       \* what each adapter claimed and has not settled; what it
                 \* died with once it is gone
    posting,     \* the reply each adapter has on the wire, None
    answer,      \* the orchestrator's answer to it: ok once it took it, else none
    taken        \* the requests whose reply the orchestrator took

runVars == <<looking, recorded, runs, dispatch, attemptsRun>>
rowVars == <<row, attempts, later, stale, lapses>>
drainVars == <<batch, posting, answer>>
vars == <<adapter, runVars, rowVars, drainVars, taken>>

Ended == {"succeeded", "failed"}
Open == {"pending", "sending", "failed"}
Settled == {"sent", "dead"}

\* The handler of a POST runs to its end before anything else of its process.
Free(p) == adapter[p] = "up" /\ looking[p] = None /\ recorded[p] = None

-----------------------------------------------------------------------------
(* Processes                                                               *)

Start(p) ==
    /\ adapter[p] = "unborn"
    /\ adapter' = [adapter EXCEPT ![p] = "up"]
    /\ UNCHANGED <<runVars, rowVars, drainVars, taken>>

\* Whatever ends the process: a signal, a superseded session, an exception
\* nobody catches.  Runtimes and the POST under way end with it.
Dies(p) ==
    /\ adapter' = [adapter EXCEPT ![p] = "gone"]
    /\ looking' = [looking EXCEPT ![p] = None]
    /\ recorded' = [recorded EXCEPT ![p] = None]
    /\ runs' = [runs EXCEPT ![p] = {}]
    /\ posting' = [posting EXCEPT ![p] = None]
    /\ answer' = [answer EXCEPT ![p] = "none"]

Exit(p) ==
    /\ adapter[p] = "up"
    /\ Dies(p)
    /\ UNCHANGED <<dispatch, attemptsRun, rowVars, batch, taken>>

-----------------------------------------------------------------------------
(* A dispatch arrives, for the first time or again                         *)

\* recordInboundDispatch finds no row.  A row it finds makes a duplicate, which
\* is answered and counted and changes nothing else.
Look(p, r) ==
    /\ Free(p)
    /\ dispatch[r] = "none"
    /\ looking' = [looking EXCEPT ![p] = r]
    /\ UNCHANGED <<adapter, recorded, runs, dispatch, attemptsRun, rowVars, drainVars, taken>>

\* Fault: a second insert replaces the first.
InsertReplaces(r) == TRUE

\* request_id is the primary key: an insert that comes second throws, which
\* the request handler does not catch.
InsertAllowed(r) == dispatch[r] = "none"

Insert(p, r) ==
    /\ adapter[p] = "up" /\ looking[p] = r
    /\ InsertAllowed(r)
    /\ dispatch' = [dispatch EXCEPT ![r] = "accepted"]
    /\ looking' = [looking EXCEPT ![p] = None]
    /\ recorded' = [recorded EXCEPT ![p] = r]
    /\ UNCHANGED <<adapter, runs, attemptsRun, rowVars, drainVars, taken>>

InsertConflicts(p, r) ==
    /\ adapter[p] = "up" /\ looking[p] = r
    /\ ~InsertAllowed(r)
    /\ Dies(p)
    /\ UNCHANGED <<dispatch, attemptsRun, rowVars, batch, taken>>

\* markRunning, and the runtime starts.
MarkRunning(p, r) ==
    /\ adapter[p] = "up" /\ recorded[p] = r
    /\ dispatch' = [dispatch EXCEPT ![r] = "running"]
    /\ attemptsRun' = [attemptsRun EXCEPT ![r] = @ + 1]
    /\ recorded' = [recorded EXCEPT ![p] = None]
    /\ runs' = [runs EXCEPT ![p] = @ \cup {r}]
    /\ UNCHANGED <<adapter, looking, rowVars, drainVars, taken>>

\* Fault: the reply is left to a transaction of its own.
UpsertReplyLater(r) == UNCHANGED rowVars

\* upsertOutboxReply: a row that was sent stays as it is.
UpsertReply(r) ==
    IF row[r] = "sent" THEN UNCHANGED rowVars
    ELSE /\ row' = [row EXCEPT ![r] = "pending"]
         /\ attempts' = [attempts EXCEPT ![r] = 0]
         /\ later' = later \ {r}
         /\ stale' = stale \ {r}
         /\ UNCHANGED lapses

\* markSucceeded or markFailed, one transaction: outcome and reply together.
\* A markSucceeded that throws is rolled back and recorded as a failure.
RuntimeEnds(p, r) ==
    /\ Free(p) /\ r \in runs[p]
    /\ \E outcome \in Ended : dispatch' = [dispatch EXCEPT ![r] = outcome]
    /\ UpsertReply(r)
    /\ runs' = [runs EXCEPT ![p] = @ \ {r}]
    /\ UNCHANGED <<adapter, looking, recorded, attemptsRun, drainVars, taken>>

-----------------------------------------------------------------------------
(* The drain of the outbox                                                 *)

\* Fault: a row whose sender died stays in sending.
DueForgetsStale == {r \in Requests : row[r] \in {"pending", "failed"} /\ r \notin later}

\* Fault: whatever is not dead is sent.
DueUnlessDead == {r \in Requests : \/ row[r] \in {"pending", "failed", "sent"} /\ r \notin later
                                   \/ row[r] = "sending" /\ r \in stale}

\* Fault: a claimed row is due like any other.
DueIgnoresLease == {r \in Requests : row[r] \in Open /\ r \notin later}

Due == {r \in Requests : \/ row[r] \in {"pending", "failed"} /\ r \notin later
                         \/ row[r] = "sending" /\ r \in stale}

\* claimDueOutbox takes the oldest rows first, up to the limit.
Claimable == {s \in SUBSET Due : /\ s # {}
                                 /\ \/ s = Due /\ Cardinality(s) <= BatchLimit
                                    \/ Cardinality(s) = BatchLimit}

\* active: a tick while the drain before is at work does nothing.
Inactive(p) == batch[p] = {}

Claim(p) ==
    /\ Free(p) /\ Inactive(p)
    /\ \E s \in Claimable :
         /\ batch' = [batch EXCEPT ![p] = s]
         /\ row' = [r \in Requests |-> IF r \in s THEN "sending" ELSE row[r]]
         /\ attempts' = [r \in Requests |-> IF r \in s THEN attempts[r] + 1 ELSE attempts[r]]
         /\ later' = later \ s
         /\ stale' = stale \ s
    /\ UNCHANGED <<adapter, runVars, lapses, posting, answer, taken>>

\* sendOutboxReply of the next row of the batch.
PostStarts(p, r) ==
    /\ Free(p) /\ posting[p] = None /\ r \in batch[p]
    /\ posting' = [posting EXCEPT ![p] = r]
    /\ UNCHANGED <<adapter, runVars, rowVars, batch, answer, taken>>

\* The orchestrator takes the reply of a turn that still waits for it, which is
\* known there only; to any other, and to a second one, it answers with a status
\* of PERMANENT_REPLY_STATUS.
HostTakes(p) ==
    /\ posting[p] # None /\ answer[p] = "none"
    /\ posting[p] \notin taken
    /\ taken' = taken \cup {posting[p]}
    /\ answer' = [answer EXCEPT ![p] = "ok"]
    /\ UNCHANGED <<adapter, runVars, rowVars, batch, posting>>

\* The drain goes on with the next row.
Leaves(p) == batch' = [batch EXCEPT ![p] = @ \ {posting[p]}]

PostLeft(p, status, retried) ==
    LET r == posting[p] IN
    /\ row' = [row EXCEPT ![r] = status]
    /\ later' = IF retried THEN later \cup {r} ELSE later \ {r}
    /\ stale' = stale \ {r}
    /\ Leaves(p)
    /\ posting' = [posting EXCEPT ![p] = None]
    /\ answer' = [answer EXCEPT ![p] = "none"]
    /\ UNCHANGED <<adapter, runVars, attempts, lapses, taken>>

\* 2xx: markOutboxSent; the next_attempt_at of a sent row is not looked at.
Delivered(p) == answer[p] = "ok"

PostOk(p) ==
    /\ Free(p) /\ posting[p] # None
    /\ Delivered(p)
    /\ PostLeft(p, "sent", FALSE)

\* A status that is not retried: no turn waits for the reply, or the request is
\* rejected before it is looked at.
PostRefused(p) ==
    /\ Free(p) /\ posting[p] # None
    /\ ~Delivered(p)
    /\ PostLeft(p, "dead", FALSE)

\* Fault: one attempt too many.
ExhaustedLate(r) == attempts[r] > MaxAttempts

Exhausted(r) == attempts[r] >= MaxAttempts

\* The orchestrator is not reached, answers 429 or 5xx, or its answer comes
\* too late or is lost, whatever it made of the reply: the row is retried
\* until it is exhausted.  markOutboxDeliveryFailed does not look at its status.
PostFails(p) ==
    /\ Free(p) /\ posting[p] # None
    /\ IF Exhausted(posting[p]) THEN PostLeft(p, "dead", FALSE)
                                ELSE PostLeft(p, "failed", TRUE)

PostEnds(p) == PostOk(p) \/ PostRefused(p) \/ PostFails(p)

\* pruneTerminalOutbox, hours after the row was settled.
Prune(r) ==
    /\ \E p \in Adapters : Free(p)
    /\ row[r] \in Settled
    /\ \A p \in Adapters : adapter[p] = "up" => r \notin batch[p]
    /\ row' = [row EXCEPT ![r] = "pruned"]
    /\ UNCHANGED <<adapter, runVars, attempts, later, stale, lapses, drainVars, taken>>

-----------------------------------------------------------------------------
(* Time                                                                    *)

\* next_attempt_at is reached.
RetryDue(r) ==
    /\ r \in later
    /\ later' = later \ {r}
    /\ UNCHANGED <<adapter, runVars, row, attempts, stale, lapses, drainVars, taken>>

Held(r) == \E p \in Adapters : adapter[p] = "up" /\ r \in batch[p]

\* A row has been sending for outboxLeaseMs.  Ten rows at replyTimeoutMs each
\* may take longer than that, so its adapter may still be at work.
LeaseLapses(r) ==
    /\ row[r] = "sending" /\ r \notin stale
    /\ Held(r) => lapses[r] < MaxLapses
    /\ stale' = stale \cup {r}
    /\ lapses' = [lapses EXCEPT ![r] = @ + 1]
    /\ UNCHANGED <<adapter, runVars, row, attempts, later, drainVars, taken>>

-----------------------------------------------------------------------------

Init ==
    /\ adapter = [p \in Adapters |-> "unborn"]
    /\ looking = [p \in Adapters |-> None]
    /\ recorded = [p \in Adapters |-> None]
    /\ runs = [p \in Adapters |-> {}]
    /\ dispatch = [r \in Requests |-> "none"]
    /\ attemptsRun = [r \in Requests |-> 0]
    /\ row = [r \in Requests |-> "absent"]
    /\ attempts = [r \in Requests |-> 0]
    /\ later = {}
    /\ stale = {}
    /\ lapses = [r \in Requests |-> 0]
    /\ batch = [p \in Adapters |-> {}]
    /\ posting = [p \in Adapters |-> None]
    /\ answer = [p \in Adapters |-> "none"]
    /\ taken = {}

AdapterStep(p) ==
    \/ Start(p) \/ Exit(p) \/ Claim(p) \/ HostTakes(p)
    \/ PostOk(p) \/ PostRefused(p) \/ PostFails(p)
    \/ \E r \in Requests : \/ Look(p, r) \/ Insert(p, r) \/ InsertConflicts(p, r)
                           \/ MarkRunning(p, r) \/ RuntimeEnds(p, r) \/ PostStarts(p, r)

Next ==
    \/ \E p \in Adapters : AdapterStep(p)
    \/ \E r \in Requests : Prune(r) \/ RetryDue(r) \/ LeaseLapses(r)

Spec == Init /\ [][Next]_vars

\* What an adapter goes on with by itself: a handler it is in, else its drain.
Works(p) ==
    \/ Claim(p) \/ PostEnds(p)
    \/ \E r \in Requests : \/ Insert(p, r) \/ InsertConflicts(p, r)
                           \/ MarkRunning(p, r) \/ PostStarts(p, r)

\* Handlers run to their end, the drain is polled, a POST is aborted after
\* replyTimeoutMs; and time passes, for a row whose adapter died too.
FairSpec ==
    /\ Spec
    /\ \A p \in Adapters : WF_vars(Works(p))
    /\ \A r \in Requests : WF_vars(RetryDue(r)) /\ WF_vars(~Held(r) /\ LeaseLapses(r))

-----------------------------------------------------------------------------
(* Properties                                                              *)

\* Every variable has its type, and what an adapter has on the wire is a row of
\* its batch: the drain settles the row it posted.
TypeOK ==
    /\ adapter \in [Adapters -> {"unborn", "up", "gone"}]
    /\ looking \in [Adapters -> Requests \cup {None}]
    /\ recorded \in [Adapters -> Requests \cup {None}]
    /\ runs \in [Adapters -> SUBSET Requests]
    /\ dispatch \in [Requests -> {"none", "accepted", "running"} \cup Ended]
    /\ attemptsRun \in [Requests -> Nat]
    /\ row \in [Requests -> {"absent", "pruned"} \cup Open \cup Settled]
    /\ attempts \in [Requests -> Nat]
    /\ later \in SUBSET Requests /\ stale \in SUBSET Requests
    /\ lapses \in [Requests -> Nat]
    /\ batch \in [Adapters -> SUBSET Requests]
    /\ posting \in [Adapters -> Requests \cup {None}]
    /\ answer \in [Adapters -> {"none", "ok"}]
    /\ taken \in SUBSET Requests
    /\ \A p \in Adapters : posting[p] # None => posting[p] \in batch[p]

\* However often a dispatch is posted, and to however many adapters of an
\* overlap or across crashes, its runtime is started at most once.
RunsOnce == \A r \in Requests : attemptsRun[r] <= 1

\* An outcome is never recorded without its reply, nor a reply without an
\* outcome, whatever dies in between (markDispatchSucceeded, markDispatchFailed).
EndedHasReply == \A r \in Requests : dispatch[r] \in Ended <=> row[r] # "absent"

\* A reply recorded as sent is one the orchestrator took.
SentWasTaken == \A r \in Requests : row[r] = "sent" => r \in taken

\* A reply is posted at most outboxMaxAttempts times, and once more for each
\* lease that ran out before its outcome was recorded.
DeliveryBudget == \A r \in Requests : attempts[r] <= MaxAttempts + lapses[r]

\* A row is left in sending only while an adapter is at work on it, or died at it:
\* a POST that fails does not strand the rest of its batch.
SendingIsHeld ==
    \A r \in Requests : row[r] = "sending" => \E p \in Adapters : r \in batch[p]

\* As long as no lease ran out, no two adapters work on one reply
\* (claimDueOutbox).
LeaseIsExclusive ==
    \A r \in Requests : \A p, q \in Adapters :
        r \in batch[p] /\ r \in batch[q] /\ p # q => lapses[r] > 0

\* As long as no lease ran out, a reply that was sent stays so: no late failure
\* or second outcome opens it again (markOutboxDeliveryFailed, upsertOutboxReply).
SentIsKept ==
    [][\A r \in Requests :
          row[r] = "sent" /\ lapses[r] = 0 => row'[r] \in {"sent", "pruned"}]_vars

\* A reply is settled in the end, unless no adapter is left to send it.
RowSettles ==
    \A r \in Requests :
        row[r] \in Open ~> row[r] \in Settled \/ \A p \in Adapters : adapter[p] # "up"

=============================================================================
