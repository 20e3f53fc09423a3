---------------------------- MODULE ChairProofs -----------------------------
(***************************************************************************)
(* Proofs about ChairDispatch for every set of chairs, every finite set of *)
(* turns, every number of attempts and every threshold; and about          *)
(* ChairRegistry for every set of agents and sessions and every choice of  *)
(* the two periods.                                                        *)
(***************************************************************************)
EXTENDS ChairDispatch, ChairRegistry, FiniteSetTheorems, TLAPS

-----------------------------------------------------------------------------
(* ChairDispatch                                                           *)

\* What holds of each request by itself.  Beyond the three properties it shows:
\* a reply needs a delivered request, none is there before the first POST, a
\* failed one is never left with a turn that goes on, a turn that waits has
\* none, and a turn that will POST again has attempts left.
Sound(r) ==
    /\ r \in pending <=> turn[r] \in Unanswered /\ answer[r] = "none"
    /\ turn[r] \in {"streaming", "succeeded"} => answer[r] = "succeeded"
    /\ r \in inflight => turn[r] \in Unanswered \cup {"streaming"}
    /\ answer[r] # "none" => r \in delivered
    /\ turn[r] \in {"idle", "resolving", "awaiting"} => answer[r] = "none"
    /\ up /\ turn[r] \in {"posting", "backoff"} => answer[r] # "failed"
    /\ turn[r] = "backoff" => attempts[r] < MaxAttempts

IInv ==
    /\ TypeOK
    /\ CircuitCounts
    /\ \A r \in Requests : Sound(r)

-----------------------------------------------------------------------------

\* A step that moves one request: the others are as they were, but that the
\* gauge may have lost some of them and the process may have ended.
LEMMA OneMoves ==
    ASSUME IInv, NEW r \in Requests, TypeOK', CircuitCounts', Sound(r)', up' => up,
           \A q \in Requests \ {r} :
              /\ turn'[q] = turn[q] /\ attempts'[q] = attempts[q] /\ answer'[q] = answer[q]
              /\ q \in pending' <=> q \in pending
              /\ q \in delivered' <=> q \in delivered
              /\ q \in inflight' => q \in inflight
    PROVE  IInv'
<1> SUFFICES ASSUME NEW q \in Requests PROVE Sound(q)'
  BY DEF IInv
<1>1. CASE q = r
  BY <1>1
<1>2. CASE q # r
  <2>1. Sound(q)
    BY DEF IInv
  <2> QED BY <1>2, <2>1 DEF Sound
<1> QED BY <1>1, <1>2

\* A circuit replaced by one whose count agrees with its state.
LEMMA CircuitReplaced ==
    ASSUME TypeOK, CircuitCounts, NEW a \in Agents, NEW c \in Circuits,
           c.state = "closed" <=> c.failures < Threshold,
           circuit' = [circuit EXCEPT ![a] = c]
    PROVE  circuit' \in [Agents -> Circuits] /\ CircuitCounts'
BY DEF TypeOK, CircuitCounts

\* recordFailure counts up to the threshold and opens the circuit there.
LEMMA FailureCounted ==
    ASSUME TypeOK, CircuitCounts, NEW a \in Agents, RecordFailure(a)
    PROVE  circuit' \in [Agents -> Circuits] /\ CircuitCounts'
<1> DEFINE n == IF circuit[a].failures = Threshold THEN Threshold
                ELSE circuit[a].failures + 1
<1>0. circuit[a] \in Circuits /\ Threshold \in Nat \ {0}
  BY DispatchAssumption DEF TypeOK
<1>1. n \in 0..Threshold /\ (n # Threshold => n < Threshold /\ circuit[a].failures < Threshold)
  BY <1>0 DEF Circuits
<1>2. circuit[a].failures < Threshold => circuit[a].state = "closed"
  BY DEF CircuitCounts
<1>3. Failed(a) = [state |-> IF n = Threshold THEN "open" ELSE circuit[a].state,
                   failures |-> n, cooled |-> FALSE]
  BY DEF Failed
<1> HIDE DEF n
<1>4. Failed(a) \in Circuits
  BY <1>0, <1>1, <1>3 DEF Circuits
<1>5. Failed(a).state = "closed" <=> Failed(a).failures < Threshold
  BY <1>0, <1>1, <1>2, <1>3
<1> QED BY <1>4, <1>5, CircuitReplaced DEF RecordFailure

\* recordSuccess closes it.
LEMMA SuccessRecorded ==
    ASSUME TypeOK, CircuitCounts, NEW a \in Agents, RecordSuccess(a)
    PROVE  circuit' \in [Agents -> Circuits] /\ CircuitCounts'
<1>1. Closed \in Circuits /\ Closed.state = "closed" /\ Closed.failures < Threshold
  BY DispatchAssumption DEF Closed, Circuits
<1> QED BY <1>1, CircuitReplaced DEF RecordSuccess

\* A circuit half opened by a probe counts as before ...
LEMMA CircuitProbed ==
    ASSUME TypeOK, CircuitCounts, NEW a \in Agents
    PROVE  /\ Probed(a) \in Circuits
           /\ Probed(a).state = "closed" <=> Probed(a).failures < Threshold
<1>0. /\ circuit[a] \in Circuits
      /\ circuit[a].state = "closed" <=> circuit[a].failures < Threshold
  BY DEF TypeOK, CircuitCounts
<1>1. CASE circuit[a].state = "open"
  <2>1. Probed(a) = [state |-> "half_open", failures |-> circuit[a].failures,
                     cooled |-> circuit[a].cooled]
    BY <1>0, <1>1 DEF Probed, Circuits
  <2>2. Probed(a) \in Circuits
    BY <1>0, <2>1 DEF Circuits
  <2> QED BY <1>0, <1>1, <2>1, <2>2
<1>2. CASE circuit[a].state # "open"
  <2>1. Probed(a) = circuit[a]
    BY <1>2 DEF Probed
  <2> QED BY <1>0, <2>1
<1> QED BY <1>1, <1>2

\* ... and so does one that cools.
LEMMA CircuitCooled ==
    ASSUME TypeOK, CircuitCounts, NEW a \in Agents, Cool(a)
    PROVE  circuit' \in [Agents -> Circuits] /\ CircuitCounts'
<1> DEFINE c == [circuit[a] EXCEPT !.cooled = TRUE]
<1>0. /\ circuit[a] \in Circuits
      /\ circuit[a].state = "closed" <=> circuit[a].failures < Threshold
  BY DEF TypeOK, CircuitCounts
<1>1. c.state = circuit[a].state /\ c.failures = circuit[a].failures
  BY <1>0 DEF Circuits
<1>2. c \in Circuits
  BY <1>0 DEF Circuits
<1>3. circuit' = [circuit EXCEPT ![a] = c]
  BY DEF Cool
<1> HIDE DEF c
<1> QED BY <1>0, <1>1, <1>2, <1>3, CircuitReplaced

\* The place of the next request in the order of insertion is a number.
LEMMA RankNat == NextRank \in Nat
<1>1. IsFiniteSet({q \in Requests : rank[q] # 0})
  BY DispatchAssumption, FS_Subset
<1> QED BY <1>1, FS_CardinalityType DEF NextRank

-----------------------------------------------------------------------------
(* One lemma per action                                                    *)

\* Any turn that fails by Fail, whatever the rest of the step does to its own
\* answer and to its place in the gauge's order.
LEMMA FailStep ==
    ASSUME IInv, NEW r \in Requests, turn[r] \in Underway, Fail(r),
           UNCHANGED <<up, requireLive, chair, agent, attempts, delivered>>,
           NEW s \in {"none", "succeeded", "failed"},
           answer' = [answer EXCEPT ![r] = s], s # "none" => r \in delivered,
           aborted' \subseteq Requests, rank' \in [Requests -> Nat]
    PROVE  IInv'
<1>0. TypeOK /\ CircuitCounts /\ Sound(r) /\ agent[r] \in Agents
  BY DEF IInv, TypeOK, Underway, Unanswered
<1>1. /\ turn' = [turn EXCEPT ![r] = "failed"] /\ pending' = pending \ {r}
      /\ inflight' = inflight \ {r} /\ RecordFailure(agent[r])
  BY DEF Fail, CleanupPending, FinishMetric
<1>2. circuit' \in [Agents -> Circuits] /\ CircuitCounts'
  BY <1>0, <1>1, FailureCounted
<1>3. TypeOK'
  BY <1>0, <1>1, <1>2 DEF TypeOK, Ended
<1>4. Sound(r)'
  BY <1>0, <1>1 DEF Sound, TypeOK, Unanswered
<1>5. \A q \in Requests \ {r} :
         /\ turn'[q] = turn[q] /\ attempts'[q] = attempts[q] /\ answer'[q] = answer[q]
         /\ q \in pending' <=> q \in pending
         /\ q \in delivered' <=> q \in delivered
         /\ q \in inflight' => q \in inflight
  BY <1>0, <1>1 DEF TypeOK
<1> QED BY <1>2, <1>3, <1>4, <1>5, OneMoves

\* The turn waits for the URL check; a cooled circuit is half open.
LEMMA BeginLiveStep ==
    ASSUME IInv, NEW r \in Requests, NEW a \in Agents, BeginLive(r, a)
    PROVE  IInv'
<1>0. TypeOK /\ CircuitCounts /\ Sound(r)
  BY DEF IInv
<1>1. circuit' \in [Agents -> Circuits] /\ CircuitCounts'
  BY <1>0, CircuitProbed, CircuitReplaced DEF BeginLive
<1>2. TypeOK'
  BY <1>0, <1>1 DEF BeginLive, Takes, TypeOK, Sound, Underway, Unanswered, Ended
<1>3. Sound(r)'
  BY <1>0 DEF BeginLive, Takes, Sound, TypeOK, Unanswered
<1>4. \A q \in Requests \ {r} :
         /\ turn'[q] = turn[q] /\ attempts'[q] = attempts[q] /\ answer'[q] = answer[q]
         /\ q \in pending' <=> q \in pending
         /\ q \in delivered' <=> q \in delivered
         /\ q \in inflight' => q \in inflight
  BY <1>0 DEF BeginLive, Takes, TypeOK
<1> QED BY <1>1, <1>2, <1>3, <1>4, OneMoves DEF BeginLive, Takes

\* The turn is a local one.
LEMMA BeginLocalStep ==
    ASSUME IInv, NEW r \in Requests, NEW a \in Agents, BeginLocal(r, a)
    PROVE  IInv'
<1>0. TypeOK /\ CircuitCounts /\ Sound(r)
  BY DEF IInv
<1>1. circuit' \in [Agents -> Circuits] /\ CircuitCounts'
  BY <1>0 DEF BeginLocal, Takes, TypeOK, CircuitCounts, metricVars
<1>2. TypeOK'
  BY <1>0, <1>1 DEF BeginLocal, Takes, TypeOK, Sound, Underway, Unanswered, Ended
<1>3. Sound(r)'
  BY <1>0 DEF BeginLocal, Takes, Sound, TypeOK, Unanswered
<1>4. \A q \in Requests \ {r} :
         /\ turn'[q] = turn[q] /\ attempts'[q] = attempts[q] /\ answer'[q] = answer[q]
         /\ q \in pending' <=> q \in pending
         /\ q \in delivered' <=> q \in delivered
         /\ q \in inflight' => q \in inflight
  BY <1>0 DEF BeginLocal, Takes, TypeOK
<1> QED BY <1>1, <1>2, <1>3, <1>4, OneMoves DEF BeginLocal, Takes

\* The turn is refused; the gauge loses an entry.
LEMMA BeginRefusedStep ==
    ASSUME IInv, NEW r \in Requests, NEW a \in Agents, BeginRefused(r, a)
    PROVE  IInv'
<1>0. TypeOK /\ CircuitCounts /\ Sound(r)
  BY DEF IInv
<1>1. circuit' \in [Agents -> Circuits] /\ CircuitCounts'
  BY <1>0, FailureCounted DEF BeginRefused
<1>2. TypeOK'
  BY <1>0, <1>1 DEF BeginRefused, Takes, FinishMetricUnidentified, TypeOK, Sound, Underway, Unanswered, Ended
<1>3. Sound(r)'
  BY <1>0 DEF BeginRefused, Takes, FinishMetricUnidentified, Sound, TypeOK, Unanswered
<1>4. \A q \in Requests \ {r} :
         /\ turn'[q] = turn[q] /\ attempts'[q] = attempts[q] /\ answer'[q] = answer[q]
         /\ q \in pending' <=> q \in pending
         /\ q \in delivered' <=> q \in delivered
         /\ q \in inflight' => q \in inflight
  BY <1>0 DEF BeginRefused, Takes, FinishMetricUnidentified, TypeOK
<1> QED BY <1>1, <1>2, <1>3, <1>4, OneMoves DEF BeginRefused, Takes

\* The request is never made; the gauge loses an entry.
LEMMA RejectStep ==
    ASSUME IInv, NEW r \in Requests, Reject(r)
    PROVE  IInv'
<1>0. TypeOK /\ CircuitCounts /\ Sound(r)
  BY DEF IInv
<1>1. circuit' \in [Agents -> Circuits] /\ CircuitCounts'
  BY <1>0, FailureCounted DEF Reject, TypeOK
<1>2. TypeOK'
  BY <1>0, <1>1 DEF Reject, FinishMetricUnidentified, TypeOK, Sound, Underway, Unanswered, Ended
<1>3. Sound(r)'
  BY <1>0 DEF Reject, FinishMetricUnidentified, Sound, TypeOK, Unanswered
<1>4. \A q \in Requests \ {r} :
         /\ turn'[q] = turn[q] /\ attempts'[q] = attempts[q] /\ answer'[q] = answer[q]
         /\ q \in pending' <=> q \in pending
         /\ q \in delivered' <=> q \in delivered
         /\ q \in inflight' => q \in inflight
  BY <1>0 DEF Reject, FinishMetricUnidentified, TypeOK
<1> QED BY <1>1, <1>2, <1>3, <1>4, OneMoves DEF Reject

\* The request becomes pending and is counted.
LEMMA StartStep ==
    ASSUME IInv, NEW r \in Requests, Start(r)
    PROVE  IInv'
<1>0. TypeOK /\ CircuitCounts /\ Sound(r)
  BY DEF IInv
<1>1. circuit' \in [Agents -> Circuits] /\ CircuitCounts'
  BY <1>0 DEF Start, TypeOK, CircuitCounts, metricVars
<1>2. TypeOK'
  BY <1>0, <1>1, RankNat, DispatchAssumption DEF Start, TypeOK, Sound, Underway, Unanswered, Ended
<1>3. Sound(r)'
  BY <1>0 DEF Start, Sound, TypeOK, Unanswered
<1>4. \A q \in Requests \ {r} :
         /\ turn'[q] = turn[q] /\ attempts'[q] = attempts[q] /\ answer'[q] = answer[q]
         /\ q \in pending' <=> q \in pending
         /\ q \in delivered' <=> q \in delivered
         /\ q \in inflight' => q \in inflight
  BY <1>0 DEF Start, TypeOK
<1> QED BY <1>1, <1>2, <1>3, <1>4, OneMoves DEF Start

\* The inbox has the request.
LEMMA DeliverStep ==
    ASSUME IInv, NEW r \in Requests, Deliver(r)
    PROVE  IInv'
<1>0. TypeOK /\ CircuitCounts /\ Sound(r)
  BY DEF IInv
<1>1. circuit' \in [Agents -> Circuits] /\ CircuitCounts'
  BY <1>0 DEF Deliver, TypeOK, CircuitCounts, metricVars
<1>2. TypeOK'
  BY <1>0, <1>1 DEF Deliver, metricVars, TypeOK, Sound, Underway, Unanswered, Ended
<1>3. Sound(r)'
  BY <1>0 DEF Deliver, metricVars, Sound, TypeOK, Unanswered
<1>4. \A q \in Requests \ {r} :
         /\ turn'[q] = turn[q] /\ attempts'[q] = attempts[q] /\ answer'[q] = answer[q]
         /\ q \in pending' <=> q \in pending
         /\ q \in delivered' <=> q \in delivered
         /\ q \in inflight' => q \in inflight
  BY <1>0 DEF Deliver, metricVars, TypeOK
<1> QED BY <1>1, <1>2, <1>3, <1>4, OneMoves DEF Deliver

\* The turn waits, or plays the reply that is there.
LEMMA PostAcceptedStep ==
    ASSUME IInv, NEW r \in Requests, PostAccepted(r)
    PROVE  IInv'
<1>0. TypeOK /\ CircuitCounts /\ Sound(r)
  BY DEF IInv
<1>1. circuit' \in [Agents -> Circuits] /\ CircuitCounts'
  BY <1>0 DEF PostAccepted, TypeOK, CircuitCounts, metricVars
<1>2. TypeOK'
  BY <1>0, <1>1 DEF PostAccepted, metricVars, TypeOK, Sound, Underway, Unanswered, Ended
<1>3. Sound(r)'
  BY <1>0 DEF PostAccepted, metricVars, Sound, TypeOK, Unanswered
<1>4. \A q \in Requests \ {r} :
         /\ turn'[q] = turn[q] /\ attempts'[q] = attempts[q] /\ answer'[q] = answer[q]
         /\ q \in pending' <=> q \in pending
         /\ q \in delivered' <=> q \in delivered
         /\ q \in inflight' => q \in inflight
  BY <1>0 DEF PostAccepted, metricVars, TypeOK
<1> QED BY <1>1, <1>2, <1>3, <1>4, OneMoves DEF PostAccepted

\* The turn waits to POST again.
LEMMA PostRetriedStep ==
    ASSUME IInv, NEW r \in Requests, PostRetried(r)
    PROVE  IInv'
<1>0. TypeOK /\ CircuitCounts /\ Sound(r)
  BY DEF IInv
<1>1. circuit' \in [Agents -> Circuits] /\ CircuitCounts'
  BY <1>0 DEF PostRetried, TypeOK, CircuitCounts, metricVars
<1>2. TypeOK'
  BY <1>0, <1>1 DEF PostRetried, metricVars, TypeOK, Sound, Underway, Unanswered, Ended
<1>3. Sound(r)'
  BY <1>0, DispatchAssumption DEF PostRetried, metricVars, Sound, TypeOK, Unanswered
<1>4. \A q \in Requests \ {r} :
         /\ turn'[q] = turn[q] /\ attempts'[q] = attempts[q] /\ answer'[q] = answer[q]
         /\ q \in pending' <=> q \in pending
         /\ q \in delivered' <=> q \in delivered
         /\ q \in inflight' => q \in inflight
  BY <1>0 DEF PostRetried, metricVars, TypeOK
<1> QED BY <1>1, <1>2, <1>3, <1>4, OneMoves DEF PostRetried

\* The turn POSTs again.
LEMMA BackoffEndsStep ==
    ASSUME IInv, NEW r \in Requests, BackoffEnds(r)
    PROVE  IInv'
<1>0. TypeOK /\ CircuitCounts /\ Sound(r)
  BY DEF IInv
<1>1. circuit' \in [Agents -> Circuits] /\ CircuitCounts'
  BY <1>0 DEF BackoffEnds, TypeOK, CircuitCounts, metricVars
<1>2. TypeOK'
  BY <1>0, <1>1, DispatchAssumption DEF BackoffEnds, metricVars, TypeOK, Sound, Underway, Unanswered, Ended
<1>3. Sound(r)'
  BY <1>0 DEF BackoffEnds, metricVars, Sound, TypeOK, Unanswered
<1>4. \A q \in Requests \ {r} :
         /\ turn'[q] = turn[q] /\ attempts'[q] = attempts[q] /\ answer'[q] = answer[q]
         /\ q \in pending' <=> q \in pending
         /\ q \in delivered' <=> q \in delivered
         /\ q \in inflight' => q \in inflight
  BY <1>0 DEF BackoffEnds, metricVars, TypeOK
<1> QED BY <1>1, <1>2, <1>3, <1>4, OneMoves DEF BackoffEnds

\* The reply settles the request.
LEMMA ReplySucceededStep ==
    ASSUME IInv, NEW r \in Requests, ReplySucceeded(r)
    PROVE  IInv'
<1>0. TypeOK /\ CircuitCounts /\ Sound(r)
  BY DEF IInv
<1>1. circuit' \in [Agents -> Circuits] /\ CircuitCounts'
  BY <1>0 DEF ReplySucceeded, TypeOK, CircuitCounts, metricVars
<1>2. TypeOK'
  BY <1>0, <1>1 DEF ReplySucceeded, Settle, CleanupPending, TypeOK, Sound, Underway, Unanswered, Ended
<1>3. Sound(r)'
  BY <1>0 DEF ReplySucceeded, Settle, CleanupPending, Sound, TypeOK, Unanswered
<1>4. \A q \in Requests \ {r} :
         /\ turn'[q] = turn[q] /\ attempts'[q] = attempts[q] /\ answer'[q] = answer[q]
         /\ q \in pending' <=> q \in pending
         /\ q \in delivered' <=> q \in delivered
         /\ q \in inflight' => q \in inflight
  BY <1>0 DEF ReplySucceeded, Settle, CleanupPending, TypeOK
<1> QED BY <1>1, <1>2, <1>3, <1>4, OneMoves DEF ReplySucceeded, Settle

\* The process ends.
LEMMA ReplyFailedEarlyStep ==
    ASSUME IInv, NEW r \in Requests, ReplyFailedEarly(r)
    PROVE  IInv'
<1>0. TypeOK /\ CircuitCounts /\ Sound(r)
  BY DEF IInv
<1>1. circuit' \in [Agents -> Circuits] /\ CircuitCounts'
  BY <1>0 DEF ReplyFailedEarly, TypeOK, CircuitCounts, metricVars
<1>2. TypeOK'
  BY <1>0, <1>1 DEF ReplyFailedEarly, Settle, CleanupPending, TypeOK, Sound, Underway, Unanswered, Ended
<1>3. Sound(r)'
  BY <1>0 DEF ReplyFailedEarly, Settle, CleanupPending, Sound, TypeOK, Unanswered
<1>4. \A q \in Requests \ {r} :
         /\ turn'[q] = turn[q] /\ attempts'[q] = attempts[q] /\ answer'[q] = answer[q]
         /\ q \in pending' <=> q \in pending
         /\ q \in delivered' <=> q \in delivered
         /\ q \in inflight' => q \in inflight
  BY <1>0 DEF ReplyFailedEarly, Settle, CleanupPending, TypeOK
<1> QED BY <1>1, <1>2, <1>3, <1>4, OneMoves DEF ReplyFailedEarly, Settle

\* The turn succeeds and its chair with it.
LEMMA PlayedStep ==
    ASSUME IInv, NEW r \in Requests, Played(r)
    PROVE  IInv'
<1>0. TypeOK /\ CircuitCounts /\ Sound(r)
  BY DEF IInv
<1>1. circuit' \in [Agents -> Circuits] /\ CircuitCounts'
  BY <1>0, SuccessRecorded DEF Played, TypeOK
<1>2. TypeOK'
  BY <1>0, <1>1 DEF Played, FinishMetric, TypeOK, Sound, Underway, Unanswered, Ended
<1>3. Sound(r)'
  BY <1>0 DEF Played, FinishMetric, Sound, TypeOK, Unanswered
<1>4. \A q \in Requests \ {r} :
         /\ turn'[q] = turn[q] /\ attempts'[q] = attempts[q] /\ answer'[q] = answer[q]
         /\ q \in pending' <=> q \in pending
         /\ q \in delivered' <=> q \in delivered
         /\ q \in inflight' => q \in inflight
  BY <1>0 DEF Played, FinishMetric, TypeOK
<1> QED BY <1>1, <1>2, <1>3, <1>4, OneMoves DEF Played

\* The steps that are a failure by Fail and nothing else.
LEMMA FailingStep ==
    ASSUME IInv, NEW r \in Requests,
           StartAborted(r) \/ PostFailed(r) \/ BackoffAborted(r) \/ ReplyTimeout(r)
    PROVE  IInv'
<1>0. TypeOK /\ Sound(r)
  BY DEF IInv
<1>1. /\ Fail(r) /\ turn[r] \in Underway
      /\ UNCHANGED <<up, requireLive, chair, agent, attempts, delivered>>
  BY DEF StartAborted, PostFailed, BackoffAborted, ReplyTimeout, Underway, Unanswered
<1>2. /\ answer[r] \in {"none", "succeeded", "failed"}
      /\ answer' = [answer EXCEPT ![r] = answer[r]] /\ aborted' \subseteq Requests
  BY <1>0 DEF StartAborted, PostFailed, BackoffAborted, ReplyTimeout, TypeOK
<1>3. answer[r] # "none" => r \in delivered
  BY <1>0 DEF Sound
<1>4. rank' \in [Requests -> Nat]
  BY <1>0, RankNat DEF StartAborted, PostFailed, BackoffAborted, ReplyTimeout, TypeOK
<1> QED BY <1>1, <1>2, <1>3, <1>4, FailStep

\* The chair's own failure ends the turn.
LEMMA ReplyFailedStep ==
    ASSUME IInv, NEW r \in Requests, ReplyFailed(r)
    PROVE  IInv'
<1>0. TypeOK
  BY DEF IInv
<1>1. /\ Fail(r) /\ turn[r] \in Underway
      /\ UNCHANGED <<up, requireLive, chair, agent, attempts, delivered>>
      /\ answer' = [answer EXCEPT ![r] = "failed"] /\ r \in delivered
  BY DEF ReplyFailed, Settle, Underway, Unanswered
<1>2. aborted' \subseteq Requests /\ rank' \in [Requests -> Nat]
  BY <1>0 DEF ReplyFailed, Settle, TypeOK
<1> QED BY <1>1, <1>2, FailStep

\* An abort fails the turn or is only noted.
LEMMA AbortStep ==
    ASSUME IInv, NEW r \in Requests, Abort(r)
    PROVE  IInv'
<1>0. TypeOK /\ CircuitCounts /\ Sound(r)
  BY DEF IInv
<1>1. /\ aborted' = aborted \cup {r} /\ turn[r] \in Underway
      /\ UNCHANGED <<up, requireLive, chair, agent, attempts, delivered, answer, rank>>
  BY DEF Abort
<1>2. CASE turn[r] \in {"posting", "awaiting"}
  <2>1. Fail(r)
    BY <1>2 DEF Abort
  <2>2. /\ answer[r] \in {"none", "succeeded", "failed"}
        /\ answer' = [answer EXCEPT ![r] = answer[r]]
        /\ aborted' \subseteq Requests /\ rank' \in [Requests -> Nat]
    BY <1>0, <1>1 DEF TypeOK
  <2>3. answer[r] # "none" => r \in delivered
    BY <1>0 DEF Sound
  <2> QED BY <1>1, <2>1, <2>2, <2>3, FailStep
<1>3. CASE turn[r] \notin {"posting", "awaiting"}
  <2>1. UNCHANGED <<turn, pending, circuit, inflight>>
    BY <1>3 DEF Abort
  <2>2. TypeOK' /\ CircuitCounts'
    BY <1>0, <1>1, <2>1 DEF TypeOK, CircuitCounts
  <2> QED BY <1>1, <2>1, <2>2 DEF IInv, Sound
<1> QED BY <1>2, <1>3

\* What happens to chairs and circuits leaves the turns alone.
LEMMA ChairStep ==
    ASSUME IInv, NEW a \in Agents,
           Cool(a) \/ \E kind \in Kinds : ChairChanges(a, kind) \/ ChairLapses(a, kind)
    PROVE  IInv'
<1>0. TypeOK /\ CircuitCounts
  BY DEF IInv
<1>1. UNCHANGED <<up, requireLive, turnVars, metricVars>>
  BY DEF Cool, ChairChanges, ChairLapses
<1>2. circuit' \in [Agents -> Circuits] /\ CircuitCounts'
  <2>1. CASE Cool(a)
    BY <1>0, <2>1, CircuitCooled
  <2>2. CASE \E kind \in Kinds : ChairChanges(a, kind)
    BY <1>0, <2>2 DEF ChairChanges, TypeOK, CircuitCounts
  <2>3. CASE \E kind \in Kinds : ChairLapses(a, kind)
    BY <1>0, <2>3, FailureCounted DEF ChairLapses
  <2> QED BY <2>1, <2>2, <2>3
<1>3. chair' \in [Agents -> Kinds]
  BY <1>0 DEF Cool, ChairChanges, ChairLapses, TypeOK
<1>4. TypeOK'
  BY <1>0, <1>1, <1>2, <1>3 DEF TypeOK, turnVars, metricVars
<1> QED BY <1>1, <1>2, <1>4 DEF IInv, Sound, turnVars, metricVars

-----------------------------------------------------------------------------

\* The invariant holds before the first turn ...
LEMMA InitInvariant == Init => IInv
<1> SUFFICES ASSUME Init PROVE IInv
  OBVIOUS
<1>1. Closed \in Circuits /\ Closed.state = "closed" /\ Closed.failures < Threshold
  BY DispatchAssumption DEF Closed, Circuits
<1>2. TypeOK
  BY <1>1, DispatchAssumption DEF Init, TypeOK, Kinds
<1>3. CircuitCounts
  BY <1>1 DEF Init, CircuitCounts
<1>4. \A r \in Requests : Sound(r)
  BY DEF Init, Sound, Unanswered
<1> QED BY <1>2, <1>3, <1>4 DEF IInv

\* ... and is kept by every step.
LEMMA StepInvariant == IInv /\ [Next]_vars => IInv'
<1> SUFFICES ASSUME IInv, [Next]_vars PROVE IInv'
  OBVIOUS
<1>1. ASSUME NEW r \in Requests, Begins(r) PROVE IInv'
  BY <1>1, BeginLiveStep, BeginLocalStep, BeginRefusedStep DEF Begins
<1>2. ASSUME NEW r \in Requests, Resolves(r) PROVE IInv'
  BY <1>2, RejectStep, StartStep, FailingStep DEF Resolves
<1>3. ASSUME NEW r \in Requests, Deliver(r) PROVE IInv'
  BY <1>3, DeliverStep
<1>4. ASSUME NEW r \in Requests, PostEnds(r) PROVE IInv'
  BY <1>4, PostAcceptedStep, PostRetriedStep, FailingStep DEF PostEnds
<1>5. ASSUME NEW r \in Requests, DelayEnds(r) PROVE IInv'
  BY <1>5, BackoffEndsStep, FailingStep DEF DelayEnds
<1>6. ASSUME NEW r \in Requests, Replies(r) PROVE IInv'
  BY <1>6, ReplySucceededStep, ReplyFailedStep, ReplyFailedEarlyStep DEF Replies
<1>7. ASSUME NEW r \in Requests, ReplyTimeout(r) \/ Played(r) \/ Abort(r) PROVE IInv'
  BY <1>7, FailingStep, PlayedStep, AbortStep
<1>8. ASSUME NEW a \in Agents,
             Cool(a) \/ \E kind \in Kinds : ChairChanges(a, kind) \/ ChairLapses(a, kind)
      PROVE  IInv'
  BY <1>8, ChairStep
<1>9. CASE UNCHANGED vars
  BY <1>9 DEF vars, turnVars, metricVars, IInv, TypeOK, CircuitCounts, Sound
<1> QED BY <1>1, <1>2, <1>3, <1>4, <1>5, <1>6, <1>7, <1>8, <1>9 DEF Next

\* The inductive invariant holds in every reachable state.
THEOREM Invariance == Spec => []IInv
BY InitInvariant, StepInvariant, PTL DEF Spec

\* Every variable keeps its type; no turn POSTs more often than the policy allows.
THEOREM TypeCorrect == Spec => []TypeOK
<1>1. IInv => TypeOK
  BY DEF IInv
<1> QED BY <1>1, Invariance, PTL

\* pendingReplies neither leaks an entry nor lacks one a turn waits on.
THEOREM PendingExact == Spec => []PendingIsUnanswered
<1>1. IInv => PendingIsUnanswered
  BY DEF IInv, TypeOK, Sound, PendingIsUnanswered
<1> QED BY <1>1, Invariance, PTL

\* Only a turn whose chair answered a delivered request succeeds.
THEOREM AnsweredBeforeSuccess == Spec => []SuccessIsAnswered
<1>1. IInv => SuccessIsAnswered
  BY DEF IInv, Sound, SuccessIsAnswered
<1> QED BY <1>1, Invariance, PTL

\* However turns and lapses interleave, a breaker's state and its count agree.
THEOREM BreakerCounts == Spec => []CircuitCounts
<1>1. IInv => CircuitCounts
  BY DEF IInv
<1> QED BY <1>1, Invariance, PTL

\* The set behind the gauge holds no request whose turn is over.
THEOREM GaugeDrains == Spec => []InflightDrains
<1>1. IInv => InflightDrains
  BY DEF IInv, TypeOK, Sound, InflightDrains
<1> QED BY <1>1, Invariance, PTL

-----------------------------------------------------------------------------
(* ChairRegistry                                                           *)

\* A row never names a session that lost its chair, ...
RowsNotRetired == \A a \in Seats : rows[a].session \notin retired

\* ... no two rows name the same session, ...
RowsDistinct ==
    \A a, b \in Seats : rows[a] # Vacant /\ rows[a].session = rows[b].session => a = b

\* ... and a process that does not run has no memory.
DownIsEmpty == ~running => proven = {} /\ \A a \in Seats : chairs[a] = Vacant

RegistryInv ==
    /\ RegistryTypeOK
    /\ TableMirrorsMap
    /\ RowsNotRetired
    /\ RowsDistinct
    /\ DownIsEmpty
    /\ OnlineIsProven

-----------------------------------------------------------------------------

\* Vacant chairs are told apart by their session and by their status.
LEMMA VacantFacts ==
    /\ Vacant.session = NoSession
    /\ Vacant.status = "offline"
    /\ \A c \in Claims \cup {Vacant} :
          /\ c = Vacant <=> c.session = NoSession
          /\ c # Vacant => c \in Claims /\ c.session \in Sessions /\ c.age \in Ages
BY NoSessionAssumption DEF Claims, Vacant

\* Marking a claim stale keeps it a claim of the same session.
LEMMA StaleClaim ==
    ASSUME NEW c \in Claims
    PROVE  /\ [c EXCEPT !.status = "stale"] \in Claims
           /\ [c EXCEPT !.status = "stale"].session = c.session
           /\ [c EXCEPT !.status = "stale"].status = "stale"
BY DEF Claims

\* Ageing keeps session and status.
LEMMA AgedClaim ==
    ASSUME NEW c \in Claims \cup {Vacant}
    PROVE  /\ Aged(c) \in Claims \cup {Vacant}
           /\ Aged(c).session = c.session
           /\ Aged(c).status = c.status
           /\ c = Vacant => Aged(c) = Vacant
<1>1. CASE c = Vacant
  BY <1>1 DEF Aged
<1>2. CASE c \in Claims /\ c # Vacant /\ c.age = MaxAge
  BY <1>2 DEF Aged
<1>3. CASE c \in Claims /\ c # Vacant /\ c.age # MaxAge
  <2>1. Aged(c) = [session |-> c.session, status |-> c.status, age |-> c.age + 1]
    BY <1>3 DEF Aged, Claims
  <2>2. c.age + 1 \in Ages
    BY <1>3, PeriodsAssumption DEF Claims, Ages
  <2> QED BY <1>3, <2>1, <2>2 DEF Claims
<1> QED BY <1>1, <1>2, <1>3

\* A fresh session was never retired and is named by no row.
LEMMA FreshSession ==
    ASSUME NEW s \in Fresh
    PROVE  s \in Sessions /\ s \notin retired /\ \A a \in Seats : rows[a].session # s
BY DEF Fresh

-----------------------------------------------------------------------------
(* One lemma per action.                                                   *)

\* claim: a fresh session supersedes the one it replaces.
LEMMA ClaimStep ==
    ASSUME RegistryInv, NEW a \in Seats, Claim(a)
    PROVE  RegistryInv'
<1>0. RegistryTypeOK /\ TableMirrorsMap /\ RowsNotRetired /\ RowsDistinct /\ OnlineIsProven
  BY DEF RegistryInv
<1>1. PICK s \in Fresh : Persist(a, [session |-> s, status |-> "online", age |-> 0])
  BY DEF Claim
<1> DEFINE c == [session |-> s, status |-> "online", age |-> 0]
<1>2. c \in Claims
  BY <1>1, FreshSession, PeriodsAssumption DEF Claims, Ages
<1>3. /\ running /\ running' = running /\ rows = chairs
      /\ chairs' = [chairs EXCEPT ![a] = c] /\ rows' = [rows EXCEPT ![a] = c]
      /\ retired' = retired \cup ({chairs[a].session} \ {NoSession})
      /\ proven' = proven \cup {a}
  BY <1>0, <1>1 DEF Claim, Persist, TableMirrorsMap
<1>4. RegistryTypeOK'
  BY <1>0, <1>2, <1>3, VacantFacts DEF RegistryTypeOK
<1>5. rows'[a].session = s /\ \A b \in Seats : b # a => rows'[b] = rows[b]
  BY <1>0, <1>3 DEF RegistryTypeOK
<1>6. RowsNotRetired'
  <2> SUFFICES ASSUME NEW b \in Seats PROVE rows'[b].session \notin retired'
    BY DEF RowsNotRetired
  <2>1. CASE b = a
    BY <1>3, <1>5, <2>1, FreshSession
  <2>2. CASE b # a
    <3>1. rows[b].session \notin retired /\ rows'[b] = rows[b]
      BY <1>0, <1>5, <2>2 DEF RowsNotRetired
    <3>2. rows[b].session = rows[a].session => rows[a] = Vacant
      BY <1>0, <2>2 DEF RowsDistinct
    <3> QED BY <1>0, <1>3, <3>1, <3>2, VacantFacts DEF RegistryTypeOK
  <2> QED BY <2>1, <2>2
<1>7. RowsDistinct'
  <2> SUFFICES ASSUME NEW b \in Seats, NEW d \in Seats,
                      rows'[b] # Vacant, rows'[b].session = rows'[d].session
               PROVE  b = d
    BY DEF RowsDistinct
  <2> QED BY <1>0, <1>1, <1>5, FreshSession DEF RowsDistinct
<1>8. TableMirrorsMap' /\ DownIsEmpty'
  BY <1>3 DEF TableMirrorsMap, DownIsEmpty
<1>9. OnlineIsProven'
  BY <1>0, <1>3 DEF OnlineIsProven, RegistryTypeOK
<1> QED BY <1>4, <1>6, <1>7, <1>8, <1>9 DEF RegistryInv

\* heartbeat: the session stays, its claim is refreshed.
LEMMA HeartbeatStep ==
    ASSUME RegistryInv, NEW a \in Seats, NEW s \in Sessions, Heartbeat(a, s)
    PROVE  RegistryInv'
<1>0. RegistryTypeOK /\ TableMirrorsMap /\ RowsNotRetired /\ RowsDistinct /\ OnlineIsProven
  BY DEF RegistryInv
<1> DEFINE c == [session |-> s, status |-> "online", age |-> 0]
<1>1. c \in Claims
  BY PeriodsAssumption DEF Claims, Ages
<1>2. /\ running /\ running' = running /\ rows = chairs /\ chairs[a].session = s
      /\ chairs' = [chairs EXCEPT ![a] = c] /\ rows' = [rows EXCEPT ![a] = c]
      /\ retired' = retired /\ proven' = proven \cup {a}
  BY <1>0 DEF Heartbeat, Persist, TableMirrorsMap
<1>3. RegistryTypeOK'
  BY <1>0, <1>1, <1>2 DEF RegistryTypeOK
<1>4. \A b \in Seats : /\ rows'[b].session = rows[b].session
                        /\ rows'[b] # Vacant => rows[b] # Vacant
  BY <1>0, <1>2, VacantFacts, NoSessionAssumption DEF RegistryTypeOK
<1>5. RowsNotRetired' /\ RowsDistinct'
  BY <1>0, <1>2, <1>4 DEF RowsNotRetired, RowsDistinct
<1>6. TableMirrorsMap' /\ DownIsEmpty' /\ OnlineIsProven'
  BY <1>0, <1>2 DEF TableMirrorsMap, DownIsEmpty, OnlineIsProven, RegistryTypeOK
<1> QED BY <1>3, <1>5, <1>6 DEF RegistryInv

\* release: the claim, its row and its session are gone.
LEMMA ReleaseStep ==
    ASSUME RegistryInv, NEW a \in Seats, NEW s \in Sessions, Release(a, s)
    PROVE  RegistryInv'
<1>0. RegistryTypeOK /\ TableMirrorsMap /\ RowsNotRetired /\ RowsDistinct /\ OnlineIsProven
  BY DEF RegistryInv
<1>1. /\ running /\ running' = running /\ rows = chairs /\ chairs[a].session = s
      /\ chairs' = [chairs EXCEPT ![a] = Vacant] /\ rows' = [rows EXCEPT ![a] = Vacant]
      /\ retired' = retired \cup {s} /\ proven' = proven
  BY <1>0 DEF Release, Erase, TableMirrorsMap
<1>2. rows'[a] = Vacant /\ \A b \in Seats : b # a => rows'[b] = rows[b]
  BY <1>0, <1>1 DEF RegistryTypeOK
<1>3. rows[a] # Vacant
  BY <1>1, VacantFacts, NoSessionAssumption
<1>4. RegistryTypeOK'
  BY <1>0, <1>1 DEF RegistryTypeOK
<1>5. RowsNotRetired'
  <2> SUFFICES ASSUME NEW b \in Seats PROVE rows'[b].session \notin retired'
    BY DEF RowsNotRetired
  <2>1. CASE b = a
    BY <1>0, <1>2, <1>4, <2>1, VacantFacts, NoSessionAssumption DEF RegistryTypeOK
  <2>2. CASE b # a
    BY <1>0, <1>1, <1>2, <1>3, <2>2 DEF RowsNotRetired, RowsDistinct
  <2> QED BY <2>1, <2>2
<1>6. RowsDistinct'
  BY <1>0, <1>2, <1>4, VacantFacts DEF RowsDistinct, RegistryTypeOK
<1>7. TableMirrorsMap' /\ DownIsEmpty' /\ OnlineIsProven'
  BY <1>0, <1>1, VacantFacts DEF TableMirrorsMap, DownIsEmpty, OnlineIsProven, RegistryTypeOK
<1> QED BY <1>4, <1>5, <1>6, <1>7 DEF RegistryInv

\* A sweep vacates a chair, marks it stale or leaves it alone; the session is
\* the same unless the chair is vacated, and none becomes online.
LEMMA SweptClaim ==
    ASSUME RegistryTypeOK, NEW a \in Seats
    PROVE  /\ Swept(a, chairs[a]) \in Claims \cup {Vacant}
           /\ Swept(a, chairs[a]) = Vacant \/ Swept(a, chairs[a]).session = chairs[a].session
           /\ chairs[a] = Vacant => Swept(a, chairs[a]) = Vacant
           /\ Expired(a) => Swept(a, chairs[a]) = Vacant /\ chairs[a] # Vacant
           /\ Swept(a, chairs[a]).status = "online" => chairs[a].status = "online"
<1>0. chairs[a] \in Claims \cup {Vacant}
  BY DEF RegistryTypeOK
<1>1. CASE Expired(a)
  <2>1. Swept(a, chairs[a]) = Vacant
    BY <1>1 DEF Swept, Lapsed
  <2> QED BY <1>1, <2>1, VacantFacts DEF Expired
<1>2. CASE ~Expired(a) /\ Lapsed(a)
  <2>1. Swept(a, chairs[a]) = [chairs[a] EXCEPT !.status = "stale"]
    BY <1>2 DEF Swept
  <2>2. chairs[a] \in Claims
    BY <1>0, <1>2, VacantFacts DEF Lapsed
  <2> QED BY <1>2, <2>1, <2>2, StaleClaim DEF Lapsed
<1>3. CASE ~Expired(a) /\ ~Lapsed(a)
  BY <1>0, <1>3 DEF Swept
<1> QED BY <1>1, <1>2, <1>3

\* Rows that are vacated or keep their session, while the sessions of the
\* vacated ones may be retired: what sweep and hydrate have in common.
LEMMA RowsShrink ==
    ASSUME RegistryTypeOK, RowsNotRetired, RowsDistinct, RegistryTypeOK',
           NEW Out \in SUBSET Seats,
           \A a \in Out : rows[a] # Vacant /\ rows'[a] = Vacant,
           \A a \in Seats : rows'[a] = Vacant \/ rows'[a].session = rows[a].session,
           retired' = retired \cup {rows[a].session : a \in Out}
    PROVE  RowsNotRetired' /\ RowsDistinct'
<1>0. \A a \in Seats : /\ rows[a] \in Claims \cup {Vacant}
                        /\ rows'[a] \in Claims \cup {Vacant}
  BY DEF RegistryTypeOK
<1>1. \A a \in Seats : rows'[a] # Vacant => /\ rows[a] # Vacant
                                            /\ rows'[a].session = rows[a].session
  BY <1>0, VacantFacts
<1>2. RowsNotRetired'
  <2> SUFFICES ASSUME NEW a \in Seats PROVE rows'[a].session \notin retired'
    BY DEF RowsNotRetired
  <2>1. CASE rows'[a] = Vacant
    BY <2>1, VacantFacts, NoSessionAssumption DEF RegistryTypeOK
  <2>2. CASE rows'[a] # Vacant
    <3>1. rows[a] # Vacant /\ rows'[a].session = rows[a].session
      BY <1>1, <2>2
    <3>2. rows[a].session \notin retired
      BY DEF RowsNotRetired
    <3>3. ASSUME NEW b \in Out PROVE rows[b].session # rows[a].session
      BY <2>2, <3>1, <3>3 DEF RowsDistinct
    <3> QED BY <3>1, <3>2, <3>3
  <2> QED BY <2>1, <2>2
<1>3. RowsDistinct'
  <2> SUFFICES ASSUME NEW a \in Seats, NEW b \in Seats,
                      rows'[a] # Vacant, rows'[a].session = rows'[b].session
               PROVE  a = b
    BY DEF RowsDistinct
  <2>1. rows'[b] # Vacant
    BY <1>0, VacantFacts
  <2> QED BY <1>1, <2>1 DEF RowsDistinct
<1> QED BY <1>2, <1>3

\* sweep: expired chairs are vacated and their sessions retired.
LEMMA SweepStep ==
    ASSUME RegistryInv, Sweep
    PROVE  RegistryInv'
<1>0. RegistryTypeOK /\ RowsNotRetired /\ RowsDistinct /\ OnlineIsProven /\ rows = chairs /\ running
  BY DEF RegistryInv, TableMirrorsMap, Sweep
<1>1. /\ running' = running /\ proven' = proven
      /\ chairs' = [a \in Seats |-> Swept(a, chairs[a])]
      /\ rows' = chairs'
  BY <1>0 DEF Sweep
<1> DEFINE Out == {b \in Seats : Expired(b)}
<1>2. retired' = retired \cup {rows[a].session : a \in Out}
  BY <1>0 DEF Sweep
<1>3. \A a \in Seats : rows[a] \in Claims \cup {Vacant}
  BY <1>0 DEF RegistryTypeOK
<1>4. \A a \in Out : rows[a] # Vacant /\ rows[a].session \in Sessions
  BY <1>0, <1>3, VacantFacts DEF Expired
<1>5. RegistryTypeOK'
  <2>1. retired' \subseteq Sessions
    BY <1>0, <1>2, <1>4 DEF RegistryTypeOK
  <2>2. chairs' \in [Seats -> Claims \cup {Vacant}]
    BY <1>0, <1>1, SweptClaim
  <2> QED BY <1>0, <1>1, <2>1, <2>2 DEF RegistryTypeOK
<1>6. \A a \in Out : rows'[a] = Vacant
  BY <1>0, <1>1, SweptClaim
<1>7. \A a \in Seats : rows'[a] = Vacant \/ rows'[a].session = rows[a].session
  BY <1>0, <1>1, SweptClaim
<1>8. RowsNotRetired' /\ RowsDistinct'
  <2> HIDE DEF Out
  <2>1. Out \in SUBSET Seats
    BY DEF Out
  <2> QED BY <1>0, <1>2, <1>4, <1>5, <1>6, <1>7, <2>1, RowsShrink
<1>9. OnlineIsProven'
  BY <1>0, <1>1, SweptClaim DEF OnlineIsProven
<1> QED BY <1>0, <1>1, <1>5, <1>8, <1>9 DEF RegistryInv, TableMirrorsMap, DownIsEmpty

\* The process dies: only the table is left.
LEMMA StopStep ==
    ASSUME RegistryInv, Stop
    PROVE  RegistryInv'
<1>1. /\ ~running' /\ proven' = {} /\ rows' = rows /\ retired' = retired
      /\ chairs' = [a \in Seats |-> Vacant]
  BY DEF Stop
<1>2. RegistryTypeOK' /\ OnlineIsProven'
  BY <1>1, VacantFacts DEF RegistryInv, RegistryTypeOK, OnlineIsProven, Stop
<1> QED BY <1>1, <1>2 DEF RegistryInv, TableMirrorsMap, RowsNotRetired, RowsDistinct, DownIsEmpty

\* What hydrate makes of a row: nothing, or the same session, stale.
LEMMA HydratedRow ==
    ASSUME RegistryTypeOK, NEW a \in Seats
    PROVE  /\ Hydrated(a) \in Claims \cup {Vacant}
           /\ Hydrated(a) = Vacant \/ Hydrated(a).session = rows[a].session
           /\ TooOld(a) => Hydrated(a) = Vacant /\ rows[a] # Vacant
           /\ Hydrated(a).status # "online"
<1>0. rows[a] \in Claims \cup {Vacant}
  BY DEF RegistryTypeOK
<1>1. CASE rows[a] = Vacant \/ TooOld(a)
  BY <1>1, VacantFacts DEF Hydrated, TooOld
<1>2. CASE ~(rows[a] = Vacant \/ TooOld(a))
  BY <1>0, <1>2, StaleClaim DEF Hydrated
<1> QED BY <1>1, <1>2

\* The next process: hydrate reads the table back.
LEMMA HydrateStep ==
    ASSUME RegistryInv, Hydrate
    PROVE  RegistryInv'
<1>0. RegistryTypeOK /\ RowsNotRetired /\ RowsDistinct /\ proven = {}
  BY DEF RegistryInv, DownIsEmpty, Hydrate
<1>1. /\ running' = TRUE /\ proven' = proven
      /\ chairs' = [a \in Seats |-> Hydrated(a)]
      /\ rows' = chairs'
  BY DEF Hydrate
<1> DEFINE Out == {b \in Seats : TooOld(b)}
<1>2. retired' = retired \cup {rows[a].session : a \in Out}
  BY DEF Hydrate
<1>3. \A a \in Seats : rows[a] \in Claims \cup {Vacant}
  BY <1>0 DEF RegistryTypeOK
<1>4. \A a \in Out : rows[a] # Vacant /\ rows[a].session \in Sessions
  BY <1>3, VacantFacts DEF TooOld
<1>5. RegistryTypeOK'
  <2>1. retired' \subseteq Sessions
    BY <1>0, <1>2, <1>4 DEF RegistryTypeOK
  <2>2. chairs' \in [Seats -> Claims \cup {Vacant}]
    BY <1>0, <1>1, HydratedRow
  <2> QED BY <1>0, <1>1, <2>1, <2>2 DEF RegistryTypeOK
<1>6. \A a \in Out : rows'[a] = Vacant
  BY <1>0, <1>1, HydratedRow
<1>7. \A a \in Seats : rows'[a] = Vacant \/ rows'[a].session = rows[a].session
  BY <1>0, <1>1, HydratedRow
<1>8. RowsNotRetired' /\ RowsDistinct'
  <2> HIDE DEF Out
  <2>1. Out \in SUBSET Seats
    BY DEF Out
  <2> QED BY <1>0, <1>2, <1>4, <1>5, <1>6, <1>7, <2>1, RowsShrink
<1>9. OnlineIsProven'
  BY <1>0, <1>1, HydratedRow DEF OnlineIsProven
<1> QED BY <1>1, <1>5, <1>8, <1>9 DEF RegistryInv, TableMirrorsMap, DownIsEmpty

\* Time passes for the map and for the table alike.
LEMMA TickStep ==
    ASSUME RegistryInv, Tick
    PROVE  RegistryInv'
<1>0. RegistryTypeOK /\ RowsNotRetired /\ RowsDistinct /\ OnlineIsProven
  BY DEF RegistryInv
<1>1. /\ running' = running /\ retired' = retired /\ proven' = proven
      /\ chairs' = [a \in Seats |-> Aged(chairs[a])]
      /\ rows' = [a \in Seats |-> Aged(rows[a])]
  BY DEF Tick
<1>2. \A a \in Seats : /\ chairs[a] \in Claims \cup {Vacant}
                        /\ rows[a] \in Claims \cup {Vacant}
  BY <1>0 DEF RegistryTypeOK
<1>3. RegistryTypeOK'
  BY <1>0, <1>1, <1>2, AgedClaim DEF RegistryTypeOK
<1>4. \A a \in Seats : rows'[a].session = rows[a].session
  BY <1>1, <1>2, AgedClaim
<1>5. \A a \in Seats : rows'[a] # Vacant => rows[a] # Vacant
  BY <1>1, <1>2, AgedClaim
<1>6. RowsNotRetired' /\ RowsDistinct'
  BY <1>0, <1>1, <1>4, <1>5 DEF RowsNotRetired, RowsDistinct
<1>7. OnlineIsProven'
  BY <1>0, <1>1, <1>2, AgedClaim DEF OnlineIsProven
<1>8. TableMirrorsMap'
  BY <1>1 DEF RegistryInv, TableMirrorsMap
<1>9. DownIsEmpty'
  BY <1>1, <1>2, AgedClaim DEF RegistryInv, DownIsEmpty
<1> QED BY <1>3, <1>6, <1>7, <1>8, <1>9 DEF RegistryInv

-----------------------------------------------------------------------------

\* The invariant holds of a registry with an empty table ...
LEMMA RegistryInitKept == RegistryInit => RegistryInv
BY NoSessionAssumption, VacantFacts
   DEF RegistryInit, RegistryInv, RegistryTypeOK, TableMirrorsMap, RowsNotRetired, RowsDistinct, DownIsEmpty,
       OnlineIsProven

\* ... and is kept by every step.
LEMMA RegistryStepKept == RegistryInv /\ [RegistryNext]_registryVars => RegistryInv'
<1> SUFFICES ASSUME RegistryInv, [RegistryNext]_registryVars PROVE RegistryInv'
  OBVIOUS
<1>1. CASE \E a \in Seats : Claim(a)
  BY <1>1, ClaimStep
<1>2. CASE \E a \in Seats, s \in Sessions : Heartbeat(a, s) \/ Release(a, s)
  BY <1>2, HeartbeatStep, ReleaseStep
<1>3. CASE Sweep
  BY <1>3, SweepStep
<1>4. CASE Stop
  BY <1>4, StopStep
<1>5. CASE Hydrate
  BY <1>5, HydrateStep
<1>6. CASE Tick
  BY <1>6, TickStep
<1>7. CASE UNCHANGED registryVars
  BY <1>7 DEF registryVars, RegistryInv, RegistryTypeOK, TableMirrorsMap, RowsNotRetired, RowsDistinct,
              DownIsEmpty, OnlineIsProven
<1> QED BY <1>1, <1>2, <1>3, <1>4, <1>5, <1>6, <1>7 DEF RegistryNext

\* The inductive invariant holds in every reachable state.
THEOREM RegistryInvariance == RegistrySpec => []RegistryInv
BY RegistryInitKept, RegistryStepKept, PTL DEF RegistrySpec

\* Map and table hold claims and vacancies only (the interface ChairClaim).
THEOREM RegistryTypeCorrect == RegistrySpec => []RegistryTypeOK
<1>1. RegistryInv => RegistryTypeOK
  BY DEF RegistryInv
<1> QED BY <1>1, RegistryInvariance, PTL

\* A crash between any two handlers finds in the table what memory held.
THEOREM MirrorKept == RegistrySpec => []TableMirrorsMap
<1>1. RegistryInv => TableMirrorsMap
  BY DEF RegistryInv
<1> QED BY <1>1, RegistryInvariance, PTL

\* A superseded, released or expired session never holds a chair again, for any
\* number of agents, sessions and restarts.
THEOREM NoResurrection == RegistrySpec => []RetiredStaysRetired
<1>1. RegistryInv => RetiredStaysRetired
  <2> SUFFICES ASSUME RegistryInv, NEW a \in Seats PROVE chairs[a].session \notin retired
    BY DEF RetiredStaysRetired
  <2>1. CASE running
    BY <2>1 DEF RegistryInv, TableMirrorsMap, RowsNotRetired
  <2>2. CASE ~running
    BY <2>2, VacantFacts, NoSessionAssumption DEF RegistryInv, DownIsEmpty, RegistryTypeOK
  <2> QED BY <2>1, <2>2
<1> QED BY <1>1, RegistryInvariance, PTL

\* After a restart no chair is online before its session has spoken.
THEOREM OnlineOnlyWhenProven == RegistrySpec => []OnlineIsProven
<1>1. RegistryInv => OnlineIsProven
  BY DEF RegistryInv
<1> QED BY <1>1, RegistryInvariance, PTL

=============================================================================
