--------------------------- MODULE ChairDispatch ---------------------------
(***************************************************************************)
(* Live turns: ConversationBus.convene hands a speaker's turn to the       *)
(* chair's inbox through ChairBridgeProvider.stream, which POSTs a request *)
(* with retries and then waits for the chair to POST its reply back.  The  *)
(* turns of several conversations run at once in one process and share the *)
(* table of pending replies, the circuit breaker of each chair and the set *)
(* behind the gauge of dispatches in flight.                               *)
(*                                                                         *)
(* One member of Requests is one turn of one conversation, under way at    *)
(* most once.  A step is what runs between two awaits; an HTTP exchange    *)
(* with the inbox is its arrival (Deliver) and its answer, so that a reply *)
(* may overtake the answer to the POST that asked for it.                  *)
(***************************************************************************)
EXTENDS Integers, FiniteSets

CONSTANTS
    Agents,          \* chairs
    Requests,        \* turns (a bound of the model)
    NoAgent,
    MaxAttempts,     \* policy.maxAttempts
    Threshold        \* cfg.failureThreshold

ASSUME DispatchAssumption ==
    /\ NoAgent \notin Agents
    /\ MaxAttempts \in Nat \ {0}
    /\ Threshold \in Nat \ {0}
    /\ IsFiniteSet(Requests)

-----------------------------------------------------------------------------

\* POST under way, between two POSTs, POST accepted: a reply may be matched.
Unanswered == {"posting", "backoff", "awaiting"}

Underway == Unanswered \cup {"resolving", "streaming"}

\* A local turn is the stub's or the notice that the chair has no inbox.
Ended == {"succeeded", "failed", "local"}

Circuits == [state : {"closed", "open", "half_open"}, failures : 0..Threshold,
             cooled : BOOLEAN]

VARIABLES
    up,           \* the process runs
    requireLive,  \* KOVAEL_REQUIRE_LIVE_CHAIRS
    chair,        \* a chair's claim: none, for presence only, or with an inbox
    turn,         \* where each turn is
    agent,        \* its speaker
    attempts,     \* its POSTs so far
    aborted,      \* turns whose conversation was closed
    delivered,    \* requests that reached the chair's inbox
    pending,      \* keys of ChairBridgeProvider.pendingReplies
    answer,       \* the reply that was accepted from the chair (200)
    circuit,      \* CircuitBreaker.circuits; cooled: recoveryMs are over;
                  \* failures saturates at Threshold
    inflight,     \* MeshOrchestrator.activeChairDispatches
    rank          \* its insertion order: place of each request in it, 0 before

turnVars == <<turn, agent, attempts, aborted, delivered, pending, answer>>
metricVars == <<inflight, rank>>
vars == <<up, requireLive, chair, turnVars, circuit, metricVars>>

-----------------------------------------------------------------------------
(* CircuitBreaker                                                          *)

Closed == [state |-> "closed", failures |-> 0, cooled |-> FALSE]

\* canDispatch: everything passes but an open circuit before recoveryMs.
CanDispatch(a) == circuit[a].state # "open" \/ circuit[a].cooled

\* canDispatch turns an open circuit that has cooled half open.
Probed(a) ==
    IF circuit[a].state = "open" THEN [circuit[a] EXCEPT !.state = "half_open"] ELSE circuit[a]

\* Fault: a failed probe starts the count afresh.
FailedForgetsHalfOpen(a) ==
    LET n == IF circuit[a].failures = Threshold THEN 1 ELSE circuit[a].failures + 1
    IN  [state    |-> IF n = Threshold THEN "open" ELSE circuit[a].state,
         failures |-> n,
         cooled   |-> FALSE]

\* recordFailure: at the threshold and beyond the circuit opens (again).
Failed(a) ==
    LET n == IF circuit[a].failures = Threshold THEN Threshold ELSE circuit[a].failures + 1
    IN  [state    |-> IF n = Threshold THEN "open" ELSE circuit[a].state,
         failures |-> n,
         cooled   |-> FALSE]

RecordFailure(a) == circuit' = [circuit EXCEPT ![a] = Failed(a)]

\* recordSuccess: whatever its state, the circuit closes.
RecordSuccess(a) == circuit' = [circuit EXCEPT ![a] = Closed]

\* recoveryMs have passed since the circuit opened.
Cool(a) ==
    /\ circuit[a].state = "open"
    /\ circuit' = [circuit EXCEPT ![a].cooled = TRUE]
    /\ UNCHANGED <<up, requireLive, chair, turnVars, metricVars>>

-----------------------------------------------------------------------------
(* The ends of a turn                                                      *)

\* A request that ends is deleted from the set by its id.
FinishMetric(r) == inflight' = inflight \ {r}

\* Without an id the entry inserted first goes, whichever request it is of.
FinishMetricUnidentified ==
    inflight' = inflight \ {q \in inflight : \A p \in inflight : rank[q] <= rank[p]}

\* Fault: the entry in pendingReplies stays behind.
CleanupPendingNot(r) == UNCHANGED pending

\* cleanupPending: the entry goes, with the reply timer and the abort listener.
CleanupPending(r) == pending' = pending \ {r}

\* The turn of request r throws an error that names r; convene emits
\* chair_dispatch_failure, which the breaker and the gauge consume.
Fail(r) ==
    /\ turn' = [turn EXCEPT ![r] = "failed"]
    /\ CleanupPending(r)
    /\ RecordFailure(agent[r])
    /\ FinishMetric(r)

-----------------------------------------------------------------------------
(* A turn of convene                                                       *)

Takes(r, a, where) ==
    /\ turn' = [turn EXCEPT ![r] = where]
    /\ agent' = [agent EXCEPT ![r] = a]
    /\ UNCHANGED <<up, requireLive, chair, attempts, aborted, delivered, pending, answer, rank>>

\* The chair has an inbox and its gate is open: stream starts and awaits
\* resolveSafeChairUrl.
BeginLive(r, a) ==
    /\ up /\ turn[r] = "idle"
    /\ chair[a] = "inbox" /\ CanDispatch(a)
    /\ Takes(r, a, "resolving")
    /\ circuit' = [circuit EXCEPT ![a] = Probed(a)]
    /\ UNCHANGED inflight

\* No live turn: presence only is answered by a notice, else the stub speaks.
BeginLocal(r, a) ==
    /\ up /\ turn[r] = "idle"
    /\ ~(chair[a] = "inbox" /\ CanDispatch(a))
    /\ chair[a] = "presence" \/ ~requireLive
    /\ Takes(r, a, "local")
    /\ UNCHANGED <<circuit, inflight>>

\* No live turn, and none other is allowed: chair_dispatch_failure without a
\* request id.  A circuit refused while open is opened anew by it.
BeginRefused(r, a) ==
    /\ up /\ turn[r] = "idle"
    /\ ~(chair[a] = "inbox" /\ CanDispatch(a))
    /\ chair[a] # "presence" /\ requireLive
    /\ Takes(r, a, "failed")
    /\ RecordFailure(a)
    /\ FinishMetricUnidentified

\* The inbox URL is rejected, or the request cannot be secured: an error that
\* names no request.
Reject(r) ==
    /\ up /\ turn[r] = "resolving"
    /\ turn' = [turn EXCEPT ![r] = "failed"]
    /\ RecordFailure(agent[r])
    /\ FinishMetricUnidentified
    /\ UNCHANGED <<up, requireLive, chair, agent, attempts, aborted, delivered, pending,
                   answer, rank>>

NextRank == 1 + Cardinality({q \in Requests : rank[q] # 0})

\* The request gets its id and its pending entry, chair_dispatch_started is
\* emitted and the first POST leaves.
Start(r) ==
    /\ up /\ turn[r] = "resolving" /\ r \notin aborted
    /\ turn' = [turn EXCEPT ![r] = "posting"]
    /\ attempts' = [attempts EXCEPT ![r] = 1]
    /\ pending' = pending \cup {r}
    /\ inflight' = inflight \cup {r}
    /\ rank' = [rank EXCEPT ![r] = NextRank]
    /\ UNCHANGED <<up, requireLive, chair, agent, aborted, delivered, answer, circuit>>

\* The conversation was closed meanwhile: postWithRetry throws before it POSTs.
StartAborted(r) ==
    /\ up /\ turn[r] = "resolving" /\ r \in aborted
    /\ Fail(r)
    /\ rank' = [rank EXCEPT ![r] = NextRank]
    /\ UNCHANGED <<up, requireLive, chair, agent, attempts, aborted, delivered, answer>>

-----------------------------------------------------------------------------
(* postWithRetry                                                           *)

\* The POST under way reaches the inbox.
Deliver(r) ==
    /\ turn[r] = "posting"
    /\ delivered' = delivered \cup {r}
    /\ UNCHANGED <<up, requireLive, chair, turn, agent, attempts, aborted, pending, answer,
                   circuit, metricVars>>

\* 2xx: wait for the reply with the reply timer set, unless it is there.
PostAccepted(r) ==
    /\ up /\ turn[r] = "posting" /\ r \in delivered
    /\ turn' = [turn EXCEPT ![r] = IF r \in pending THEN "awaiting" ELSE "streaming"]
    /\ UNCHANGED <<up, requireLive, chair, agent, attempts, aborted, delivered, pending,
                   answer, circuit, metricVars>>

\* 429, 502, 503, 504, a network error or dispatchTimeoutMs: try again.
PostRetried(r) ==
    /\ up /\ turn[r] = "posting" /\ attempts[r] < MaxAttempts
    /\ turn' = [turn EXCEPT ![r] = "backoff"]
    /\ UNCHANGED <<up, requireLive, chair, agent, attempts, aborted, delivered, pending,
                   answer, circuit, metricVars>>

\* The last attempt fails, or an answer that is not worth a retry comes: the
\* turn fails, whether or not a reply was accepted meanwhile.
PostFailed(r) ==
    /\ up /\ turn[r] = "posting"
    /\ Fail(r)
    /\ UNCHANGED <<up, requireLive, chair, agent, attempts, aborted, delivered, answer, rank>>

\* Fault: attempts are counted from the next one on.
BackoffEndsUncounted(r) ==
    /\ up /\ turn[r] = "backoff" /\ r \notin aborted
    /\ turn' = [turn EXCEPT ![r] = "posting"]
    /\ UNCHANGED <<up, requireLive, chair, agent, attempts, aborted, delivered, pending,
                   answer, circuit, metricVars>>

\* The jittered delay is over: the next POST leaves.
BackoffEnds(r) ==
    /\ up /\ turn[r] = "backoff" /\ r \notin aborted
    /\ turn' = [turn EXCEPT ![r] = "posting"]
    /\ attempts' = [attempts EXCEPT ![r] = attempts[r] + 1]
    /\ UNCHANGED <<up, requireLive, chair, agent, aborted, delivered, pending, answer,
                   circuit, metricVars>>

\* The delay is over and the conversation was closed during it.
BackoffAborted(r) ==
    /\ up /\ turn[r] = "backoff" /\ r \in aborted
    /\ Fail(r)
    /\ UNCHANGED <<up, requireLive, chair, agent, attempts, aborted, delivered, answer, rank>>

-----------------------------------------------------------------------------
(* The reply                                                               *)

Settle(r, status) ==
    /\ up /\ r \in pending /\ r \in delivered
    /\ answer' = [answer EXCEPT ![r] = status]
    /\ UNCHANGED <<requireLive, chair, agent, attempts, aborted, delivered, rank>>

\* submitReplyForRequest: an answer from a chair that has the request, and so
\* its proof secret, settles the promise; a turn that awaits it goes on.
ReplySucceeded(r) ==
    /\ Settle(r, "succeeded")
    /\ turn' = [turn EXCEPT ![r] = IF turn[r] = "awaiting" THEN "streaming" ELSE turn[r]]
    /\ CleanupPending(r)
    /\ UNCHANGED <<up, circuit, inflight>>

\* Fault: the status of the reply is ignored, its text taken for an answer.
ReplyFailedAsContent(r) ==
    /\ turn[r] = "awaiting"
    /\ Settle(r, "failed")
    /\ turn' = [turn EXCEPT ![r] = "streaming"]
    /\ CleanupPending(r)
    /\ UNCHANGED <<up, circuit, inflight>>

\* The chair reports a runtime failure to a turn that awaits its reply.
ReplyFailed(r) ==
    /\ turn[r] = "awaiting"
    /\ Settle(r, "failed")
    /\ Fail(r)
    /\ UNCHANGED up

\* The chair reports a failure before its POST is answered: the promise is
\* rejected while nothing awaits it, an unhandled rejection, and no handler for
\* those is installed: the process ends.
ReplyFailedEarly(r) ==
    /\ turn[r] \in {"posting", "backoff"}
    /\ Settle(r, "failed")
    /\ up' = FALSE
    /\ CleanupPending(r)
    /\ UNCHANGED <<turn, circuit, inflight>>

\* KOVAEL_CHAIR_REPLY_TIMEOUT_MS have passed since the POST was accepted.
ReplyTimeout(r) ==
    /\ up /\ turn[r] = "awaiting"
    /\ Fail(r)
    /\ UNCHANGED <<up, requireLive, chair, agent, attempts, aborted, delivered, answer, rank>>

\* Fault: success is recorded without its request id.
PlayedUnidentified(r) ==
    /\ up /\ turn[r] = "streaming"
    /\ turn' = [turn EXCEPT ![r] = "succeeded"]
    /\ RecordSuccess(agent[r])
    /\ FinishMetricUnidentified
    /\ UNCHANGED <<up, requireLive, chair, agent, attempts, aborted, delivered, pending,
                   answer, rank>>

\* The reply has been played back, or cut short by an abort: convene emits
\* chair_dispatch_success either way.
Played(r) ==
    /\ up /\ turn[r] = "streaming"
    /\ turn' = [turn EXCEPT ![r] = "succeeded"]
    /\ RecordSuccess(agent[r])
    /\ FinishMetric(r)
    /\ UNCHANGED <<up, requireLive, chair, agent, attempts, aborted, delivered, pending,
                   answer, rank>>

\* closeTopic aborts the turn: a POST and a wait for the reply end at once, the
\* other stages look at the signal when they get to it.
Abort(r) ==
    /\ up /\ turn[r] \in Underway /\ r \notin aborted
    /\ aborted' = aborted \cup {r}
    /\ IF turn[r] \in {"posting", "awaiting"}
       THEN Fail(r)
       ELSE UNCHANGED <<turn, pending, circuit, inflight>>
    /\ UNCHANGED <<up, requireLive, chair, agent, attempts, delivered, answer, rank>>

-----------------------------------------------------------------------------
(* ChairRegistry, as far as dispatch sees it                               *)

\* A claim is made, renewed with another inbox, or released.
ChairChanges(a, kind) ==
    /\ up /\ chair[a] # kind
    /\ chair' = [chair EXCEPT ![a] = kind]
    /\ UNCHANGED <<up, requireLive, turnVars, circuit, metricVars>>

\* The sweep finds the claim stale, or drops it as expired: both count as
\* failures of the chair.
ChairLapses(a, kind) ==
    /\ up /\ chair[a] # "none" /\ kind \in {chair[a], "none"}
    /\ chair' = [chair EXCEPT ![a] = kind]
    /\ RecordFailure(a)
    /\ UNCHANGED <<up, requireLive, turnVars, metricVars>>

-----------------------------------------------------------------------------

Kinds == {"none", "presence", "inbox"}

Init ==
    /\ up = TRUE
    /\ requireLive \in BOOLEAN
    /\ chair = [a \in Agents |-> "none"]
    /\ turn = [r \in Requests |-> "idle"]
    /\ agent = [r \in Requests |-> NoAgent]
    /\ attempts = [r \in Requests |-> 0]
    /\ aborted = {} /\ delivered = {} /\ pending = {}
    /\ answer = [r \in Requests |-> "none"]
    /\ circuit = [a \in Agents |-> Closed]
    /\ inflight = {}
    /\ rank = [r \in Requests |-> 0]

Begins(r) == \E a \in Agents : BeginLive(r, a) \/ BeginLocal(r, a) \/ BeginRefused(r, a)

\* What ends each stage of a turn.
Resolves(r) == Reject(r) \/ Start(r) \/ StartAborted(r)
PostEnds(r) == PostAccepted(r) \/ PostRetried(r) \/ PostFailed(r)
DelayEnds(r) == BackoffEnds(r) \/ BackoffAborted(r)

Replies(r) == ReplySucceeded(r) \/ ReplyFailed(r) \/ ReplyFailedEarly(r)

Next ==
    \/ \E r \in Requests : \/ Begins(r) \/ Resolves(r) \/ Deliver(r) \/ PostEnds(r)
                           \/ DelayEnds(r) \/ Replies(r) \/ ReplyTimeout(r)
                           \/ Played(r) \/ Abort(r)
    \/ \E a \in Agents : \/ Cool(a)
                         \/ \E kind \in Kinds : ChairChanges(a, kind) \/ ChairLapses(a, kind)

Spec == Init /\ [][Next]_vars

\* The URL check returns, a POST is answered or timed out, and timers fire.
\* Chairs owe nothing: neither a reply nor an answer to a POST.
FairSpec ==
    /\ Spec
    /\ \A r \in Requests : /\ WF_vars(Resolves(r)) /\ WF_vars(PostEnds(r))
                           /\ WF_vars(DelayEnds(r)) /\ WF_vars(ReplyTimeout(r))
                           /\ WF_vars(Played(r))

-----------------------------------------------------------------------------
(* Properties                                                              *)

TypeOK ==
    /\ up \in BOOLEAN /\ requireLive \in BOOLEAN
    /\ chair \in [Agents -> Kinds]
    /\ turn \in [Requests -> Underway \cup Ended \cup {"idle"}]
    /\ agent \in [Requests -> Agents \cup {NoAgent}]
    /\ \A r \in Requests : turn[r] # "idle" => agent[r] \in Agents
    /\ attempts \in [Requests -> 0..MaxAttempts]
    /\ aborted \subseteq Requests /\ delivered \subseteq Requests /\ pending \subseteq Requests
    /\ answer \in [Requests -> {"none", "succeeded", "failed"}]
    /\ circuit \in [Agents -> Circuits]
    /\ inflight \subseteq Requests
    /\ rank \in [Requests -> Nat]

\* A reply can be matched exactly as long as its turn can use it: the pending
\* table names the requests that are posted and not yet answered, so no entry
\* leaks on any way a turn may end and a second reply finds nothing (404).
PendingIsUnanswered ==
    pending = {r \in Requests : turn[r] \in Unanswered /\ answer[r] = "none"}

\* A turn succeeds on its chair's own accepted reply to a request that reached
\* the inbox, and a turn never plays back a reply the chair reported as failed.
SuccessIsAnswered ==
    \A r \in Requests :
       turn[r] \in {"streaming", "succeeded"} => answer[r] = "succeeded" /\ r \in delivered

\* The breaker is open or half open exactly when the failures since the last
\* success have reached the threshold: a failed probe opens it again at once,
\* and a success at any time, of a probe or of a turn from before, closes it.
CircuitCounts ==
    \A a \in Agents : circuit[a].state = "closed" <=> circuit[a].failures < Threshold

\* The gauge drains: no request stays in the set behind it once its turn ended.
InflightDrains == \A r \in inflight : turn[r] \in Unanswered \cup {"streaming"}

\* The gauge counts every dispatch "awaiting acceptance or reply", as its help
\* text says (violated: a failure that names no request takes another's entry).
InflightIsCounted ==
    up => \A r \in Requests : turn[r] \in Unanswered => r \in inflight

\* A reply that was accepted before the POST was answered is matched to its
\* turn: the turn does not fail unless it was aborted (violated: when the POST
\* then fails, so does the turn, and the acknowledged reply is dropped).
AcceptedReplyIsUsed ==
    \A r \in Requests :
       answer[r] = "succeeded" /\ r \notin aborted => turn[r] # "failed"

\* Whatever the chair and the network do, a turn comes to an end, and with it
\* the convene that awaits it (short of the end of the process).
EveryTurnEnds ==
    \A r \in Requests : turn[r] \in Underway ~> (turn[r] \in Ended \/ ~up)
=============================================================================
