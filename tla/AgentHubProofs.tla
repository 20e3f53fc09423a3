--------------------------- MODULE AgentHubProofs ---------------------------
(***************************************************************************)
(* Proofs about AgentHub for every set of adapters, every finite set of    *)
(* dispatches, every number of attempts, batch size and number of lapses.  *)
(***************************************************************************)
EXTENDS AgentHub, TLAPS

\* The log of dispatches: the runtime of r has been started as often as its
\* status says, by the one adapter that inserted it.
Logged(r) ==
    /\ attemptsRun[r] = (IF dispatch[r] \in {"none", "accepted"} THEN 0 ELSE 1)
    /\ \A p \in Adapters :
          /\ recorded[p] = r => dispatch[r] = "accepted"
          /\ r \in runs[p] => dispatch[r] = "running"
          /\ \A q \in Adapters : /\ recorded[p] = r /\ recorded[q] = r => p = q
                                 /\ r \in runs[p] /\ r \in runs[q] => p = q

\* The lease: before it ran out for the first time, whoever holds the row holds
\* it alone, and the row shows it.
Leased(r) ==
    /\ r \in stale => lapses[r] > 0
    /\ row[r] = "sending" => \E p \in Adapters : r \in batch[p]
    /\ \A p \in Adapters : r \in batch[p] =>
          /\ row[r] # "absent"
          /\ lapses[r] = 0 => row[r] = "sending"
          /\ \A q \in Adapters \ {p} : r \in batch[q] => lapses[r] > 0

\* The attempts: a row that may be claimed has one left, or a lapse more.
Counted(r) ==
    /\ attempts[r] <= MaxAttempts + lapses[r]
    /\ row[r] = "pending" => attempts[r] = 0
    /\ row[r] = "failed" => attempts[r] < MaxAttempts + lapses[r]
    /\ row[r] = "sending" /\ r \in stale => attempts[r] < MaxAttempts + lapses[r]

\* What was taken: as the row and the adapters that saw the answer know it.
Honest ==
    /\ \A r \in Requests : row[r] = "sent" => r \in taken
    /\ \A p \in Adapters : answer[p] = "ok" => posting[p] \in taken

IInv ==
    /\ TypeOK
    /\ Honest
    /\ EndedHasReply
    /\ \A r \in Requests : Logged(r) /\ Leased(r) /\ Counted(r)

-----------------------------------------------------------------------------

\* None is no request, so what an adapter has at hand is known by its name.
LEMMA AtHand ==
    ASSUME TypeOK, NEW p \in Adapters
    PROVE  /\ posting[p] # None => posting[p] \in Requests
           /\ posting[p] # None => posting[p] \in batch[p]
BY DEF TypeOK

\* Steps that touch neither log, rows nor batches.
LEMMA LogUnchanged ==
    ASSUME IInv, NEW r \in Requests,
           UNCHANGED <<recorded, runs, dispatch, attemptsRun>>
    PROVE  Logged(r)'
BY DEF IInv, Logged

LEMMA RowsUnchanged ==
    ASSUME IInv, NEW r \in Requests, UNCHANGED <<rowVars, batch>>
    PROVE  Leased(r)' /\ Counted(r)'
BY DEF IInv, Leased, Counted, rowVars

LEMMA StartKeeps ==
    ASSUME IInv, NEW p \in Adapters, Start(p) PROVE IInv'
<1> USE DEF Start, runVars, drainVars
<1>1. TypeOK'
  BY DEF IInv, TypeOK, rowVars
<1>2. Honest' /\ EndedHasReply'
  BY DEF IInv, Honest, EndedHasReply, rowVars
<1> QED BY <1>1, <1>2, LogUnchanged, RowsUnchanged DEF IInv

\* A process that ends loses what it had at hand, and keeps the name of its batch.
LEMMA DeathKeeps ==
    ASSUME IInv, NEW p \in Adapters, Dies(p),
           UNCHANGED <<dispatch, attemptsRun, rowVars, batch, taken>>
    PROVE  IInv'
<1>1. TypeOK'
  BY DEF IInv, TypeOK, Dies, rowVars
<1>2. Honest'
  BY DEF IInv, TypeOK, Honest, Dies, rowVars
<1>3. EndedHasReply'
  BY DEF IInv, EndedHasReply, rowVars
<1>4. ASSUME NEW r \in Requests PROVE Logged(r)'
  <2>1. \A q \in Adapters : /\ recorded'[q] = r => recorded[q] = r
                            /\ r \in runs'[q] => r \in runs[q]
    BY HubAssumption DEF IInv, TypeOK, Dies
  <2> QED BY <2>1 DEF IInv, Logged
<1> QED BY <1>1, <1>2, <1>3, <1>4, RowsUnchanged DEF IInv

-----------------------------------------------------------------------------
(* The log                                                                 *)

LEMMA LookKeeps ==
    ASSUME IInv, NEW p \in Adapters, NEW q \in Requests, Look(p, q) PROVE IInv'
<1> USE DEF Look, drainVars
<1>1. TypeOK'
  BY DEF IInv, TypeOK, rowVars
<1>2. Honest' /\ EndedHasReply'
  BY DEF IInv, Honest, EndedHasReply, rowVars
<1> QED BY <1>1, <1>2, LogUnchanged, RowsUnchanged DEF IInv

\* Steps of the log, which leave outbox and drains alone.
LEMMA LogStep ==
    ASSUME IInv, TypeOK', UNCHANGED <<rowVars, drainVars, taken>>,
           \A r \in Requests : Logged(r)',
           \A r \in Requests : dispatch'[r] \in Ended <=> dispatch[r] \in Ended
    PROVE  IInv'
<1>1. Honest' /\ EndedHasReply'
  BY DEF IInv, Honest, EndedHasReply, rowVars, drainVars
<1> QED BY <1>1, RowsUnchanged DEF IInv, drainVars

\* The insert finds no row, so no other adapter has the request.
LEMMA InsertKeeps ==
    ASSUME IInv, NEW p \in Adapters, NEW q \in Requests, Insert(p, q) PROVE IInv'
<1> USE DEF Insert, InsertAllowed
<1>1. TypeOK'
  BY DEF IInv, TypeOK, rowVars, drainVars
<1>2. dispatch[q] = "none"
  OBVIOUS
<1>3. \A s \in Adapters : recorded[s] # q /\ q \notin runs[s]
  BY <1>2 DEF IInv, Logged
<1>4. ASSUME NEW r \in Requests PROVE Logged(r)'
  <2>1. CASE r = q
    BY <1>2, <1>3, <2>1, HubAssumption DEF IInv, TypeOK, Logged
  <2>2. CASE r # q
    <3>1. /\ dispatch'[r] = dispatch[r] /\ attemptsRun'[r] = attemptsRun[r]
          /\ \A s \in Adapters : /\ recorded'[s] = r => recorded[s] = r
                                 /\ r \in runs'[s] => r \in runs[s]
      BY <2>2 DEF IInv, TypeOK
    <3> QED BY <3>1 DEF IInv, Logged
  <2> QED BY <2>1, <2>2
<1> QED BY <1>1, <1>2, <1>4, LogStep DEF IInv, TypeOK, Ended

\* The one adapter that inserted the request starts its runtime.
LEMMA MarkRunningKeeps ==
    ASSUME IInv, NEW p \in Adapters, NEW q \in Requests, MarkRunning(p, q) PROVE IInv'
<1> USE DEF MarkRunning
<1>1. TypeOK'
  BY DEF IInv, TypeOK, rowVars, drainVars
<1>2. dispatch[q] = "accepted" /\ attemptsRun[q] = 0
  BY DEF IInv, Logged
<1>3. \A s \in Adapters : q \notin runs[s] /\ (recorded[s] = q => s = p)
  BY <1>2 DEF IInv, Logged
<1>4. ASSUME NEW r \in Requests PROVE Logged(r)'
  <2>1. CASE r = q
    <3>1. dispatch'[q] = "running" /\ attemptsRun'[q] = 1
      BY <1>2 DEF IInv, TypeOK
    <3>2. \A s \in Adapters : recorded'[s] # q /\ (q \in runs'[s] => s = p)
      BY <1>3, HubAssumption DEF IInv, TypeOK
    <3> QED BY <2>1, <3>1, <3>2 DEF Logged
  <2>2. CASE r # q
    <3>1. /\ dispatch'[r] = dispatch[r] /\ attemptsRun'[r] = attemptsRun[r]
          /\ \A s \in Adapters : /\ recorded'[s] = r => recorded[s] = r
                                 /\ r \in runs'[s] => r \in runs[s]
      BY <2>2, HubAssumption DEF IInv, TypeOK
    <3> QED BY <3>1 DEF IInv, Logged
  <2> QED BY <2>1, <2>2
<1> QED BY <1>1, <1>2, <1>4, LogStep DEF IInv, TypeOK, Ended

\* A runtime under way has no reply yet: the row is new, and nobody's.
LEMMA RuntimeEndsKeeps ==
    ASSUME IInv, NEW p \in Adapters, NEW q \in Requests, RuntimeEnds(p, q) PROVE IInv'
<1> USE DEF RuntimeEnds
<1>1. dispatch[q] = "running" /\ row[q] = "absent"
  <2>1. dispatch[q] = "running"
    BY DEF IInv, Logged
  <2> QED BY <2>1 DEF IInv, EndedHasReply, Ended
<1>2. /\ row' = [row EXCEPT ![q] = "pending"] /\ attempts' = [attempts EXCEPT ![q] = 0]
      /\ later' = later \ {q} /\ stale' = stale \ {q} /\ UNCHANGED lapses
  BY <1>1 DEF UpsertReply
<1>3. PICK outcome \in Ended : dispatch' = [dispatch EXCEPT ![q] = outcome]
  OBVIOUS
<1>4. TypeOK'
  BY <1>2, <1>3 DEF IInv, TypeOK, Open, drainVars
<1>5. Honest'
  BY <1>2 DEF IInv, TypeOK, Honest, drainVars
<1>6. EndedHasReply'
  BY <1>2, <1>3 DEF IInv, TypeOK, EndedHasReply
<1>7. ASSUME NEW r \in Requests PROVE Logged(r)'
  <2>1. CASE r = q
    <3>1. \A s \in Adapters : recorded[s] # q /\ (q \in runs[s] => s = p)
      BY <1>1 DEF IInv, Logged
    <3>2. \A s \in Adapters : recorded'[s] # q /\ q \notin runs'[s]
      <4>1. runs \in [Adapters -> SUBSET Requests]
        BY DEF IInv, TypeOK
      <4>2. recorded' = recorded /\ runs' = [runs EXCEPT ![p] = @ \ {q}]
        OBVIOUS
      <4> HIDE DEF RuntimeEnds
      <4>3. TAKE s \in Adapters
      <4>4. runs'[s] = IF s = p THEN runs[p] \ {q} ELSE runs[s]
        BY <4>1, <4>2
      <4> QED BY <3>1, <4>2, <4>4
    <3>3. attemptsRun'[q] = 1
      <4>1. attemptsRun' = attemptsRun
        OBVIOUS
      <4> HIDE DEF RuntimeEnds
      <4>2. dispatch[q] \notin {"none", "accepted"} /\ Logged(q)
        BY <1>1 DEF IInv
      <4> QED BY <4>1, <4>2 DEF Logged
    <3> HIDE DEF RuntimeEnds
    <3>4. dispatch'[q] = outcome
      BY <1>3 DEF IInv, TypeOK
    <3>5. dispatch'[q] \notin {"none", "accepted"}
      BY <3>4 DEF Ended
    <3> QED BY <2>1, <3>2, <3>3, <3>5 DEF Logged
  <2>2. CASE r # q
    <3>1. /\ dispatch'[r] = dispatch[r] /\ attemptsRun'[r] = attemptsRun[r]
          /\ \A s \in Adapters : /\ recorded'[s] = r => recorded[s] = r
                                 /\ r \in runs'[s] => r \in runs[s]
      BY <1>3, <2>2 DEF IInv, TypeOK
    <3> QED BY <3>1 DEF IInv, Logged
  <2> QED BY <2>1, <2>2
<1>8. ASSUME NEW r \in Requests PROVE Leased(r)' /\ Counted(r)'
  <2>1. \A s \in Adapters : q \notin batch[s]
    BY <1>1 DEF IInv, Leased
  <2>2. CASE r = q
    <3>1. MaxAttempts \in Nat /\ lapses[q] \in Nat
      BY HubAssumption DEF IInv, TypeOK
    <3> QED BY <1>2, <2>1, <2>2, <3>1 DEF IInv, TypeOK, Leased, Counted, drainVars
  <2>3. CASE r # q
    BY <1>2, <2>3 DEF IInv, TypeOK, Leased, Counted, drainVars
  <2> QED BY <2>2, <2>3
<1> QED BY <1>4, <1>5, <1>6, <1>7, <1>8 DEF IInv

-----------------------------------------------------------------------------
(* The drain                                                               *)

\* What is claimed without a lapse is pending or failed, so in no other batch.
LEMMA ClaimKeeps ==
    ASSUME IInv, NEW p \in Adapters, Claim(p) PROVE IInv'
<1> USE DEF Claim, Inactive
<1>1. PICK s \in Claimable :
         /\ batch' = [batch EXCEPT ![p] = s]
         /\ row' = [r \in Requests |-> IF r \in s THEN "sending" ELSE row[r]]
         /\ attempts' = [r \in Requests |-> IF r \in s THEN attempts[r] + 1 ELSE attempts[r]]
         /\ later' = later \ s
         /\ stale' = stale \ s
  OBVIOUS
<1>2. s \subseteq Due /\ s \subseteq Requests
  BY <1>1 DEF Claimable, Due
<1>3. posting[p] = None
  BY AtHand DEF IInv
<1>4. TypeOK'
  BY <1>1, <1>2, <1>3 DEF IInv, TypeOK, Open, runVars
<1>5. Honest'
  BY <1>1 DEF IInv, TypeOK, Honest
<1>6. EndedHasReply'
  <2>1. \A r \in s : row[r] # "absent"
    BY <1>2 DEF Due
  <2> QED BY <1>1, <2>1 DEF IInv, EndedHasReply, runVars
<1>7. ASSUME NEW r \in Requests PROVE Leased(r)'
  <2>1. CASE r \in s
    <3>1. lapses[r] > 0 \/ \A q \in Adapters : r \notin batch[q]
      BY <1>2, <2>1 DEF IInv, TypeOK, Leased, Due
    <3>2. row'[r] = "sending" /\ r \in batch'[p] /\ r \notin stale'
      BY <1>1, <2>1 DEF IInv, TypeOK
    <3>3. \A q \in Adapters \ {p} : batch'[q] = batch[q]
      BY <1>1 DEF IInv, TypeOK
    <3> QED BY <3>1, <3>2, <3>3 DEF Leased
  <2>2. CASE r \notin s
    <3>1. row'[r] = row[r] /\ (r \in stale' <=> r \in stale)
      BY <1>1, <2>2
    <3>2. \A q \in Adapters : r \in batch'[q] <=> r \in batch[q]
      BY <1>1, <2>2 DEF IInv, TypeOK
    <3> QED BY <3>1, <3>2 DEF IInv, Leased
  <2> QED BY <2>1, <2>2
<1>8. ASSUME NEW r \in Requests PROVE Counted(r)'
  <2> /\ attempts[r] \in Nat /\ lapses[r] \in Nat /\ MaxAttempts \in Nat \ {0}
    BY HubAssumption DEF IInv, TypeOK
  <2> Counted(r) /\ (r \in s => r \in Due)
    BY <1>2 DEF IInv
  <2>1. CASE r \in s
    <3>1. attempts[r] < MaxAttempts + lapses[r]
      BY <2>1 DEF Counted, Due
    <3>2. row'[r] = "sending" /\ attempts'[r] = attempts[r] + 1 /\ r \notin stale'
      BY <1>1, <2>1
    <3> QED BY <3>1, <3>2 DEF Counted
  <2>2. CASE r \notin s
    BY <1>1, <2>2 DEF Counted
  <2> QED BY <2>1, <2>2
<1> QED BY <1>4, <1>5, <1>6, <1>7, <1>8, LogUnchanged DEF IInv, runVars

LEMMA PostStartsKeeps ==
    ASSUME IInv, NEW p \in Adapters, NEW q \in Requests, PostStarts(p, q) PROVE IInv'
<1> USE DEF PostStarts, runVars
<1>1. TypeOK'
  BY DEF IInv, TypeOK, rowVars
<1>2. answer[p] # "ok"
  BY HubAssumption DEF IInv, TypeOK, Honest
<1>3. Honest' /\ EndedHasReply'
  BY <1>2 DEF IInv, TypeOK, Honest, EndedHasReply, rowVars
<1> QED BY <1>1, <1>3, LogUnchanged, RowsUnchanged DEF IInv

LEMMA HostTakesKeeps ==
    ASSUME IInv, NEW p \in Adapters, HostTakes(p) PROVE IInv'
<1> USE DEF HostTakes, runVars
<1>1. TypeOK'
  BY AtHand DEF IInv, TypeOK, rowVars
<1>2. Honest' /\ EndedHasReply'
  BY DEF IInv, TypeOK, Honest, EndedHasReply, rowVars
<1> QED BY <1>1, <1>2, LogUnchanged, RowsUnchanged DEF IInv

\* Whatever becomes of a POST: its row was this adapter's alone, or its lease
\* has run out before.
LEMMA PostLeftKeeps ==
    ASSUME IInv, NEW p \in Adapters, posting[p] # None,
           NEW status \in {"sent", "dead", "failed"}, NEW retried \in BOOLEAN,
           PostLeft(p, status, retried),
           status = "sent" => answer[p] = "ok",
           status = "failed" => attempts[posting[p]] < MaxAttempts
    PROVE  IInv'
<1> DEFINE q == posting[p]
<1>0. q \in Requests /\ q \in batch[p]
  BY AtHand DEF IInv
<1>1. /\ row' = [row EXCEPT ![q] = status]
      /\ later' \in {later \cup {q}, later \ {q}}
      /\ stale' = stale \ {q}
      /\ batch' = [batch EXCEPT ![p] = @ \ {q}]
      /\ posting' = [posting EXCEPT ![p] = None]
      /\ answer' = [answer EXCEPT ![p] = "none"]
      /\ UNCHANGED <<adapter, runVars, attempts, lapses, taken>>
  BY DEF PostLeft, Leaves
<1>2. TypeOK'
  BY <1>0, <1>1 DEF IInv, TypeOK, Open, Settled, runVars
<1>3. Honest'
  <2>1. \A r \in Requests : row'[r] = "sent" => r \in taken
    BY <1>0, <1>1 DEF IInv, TypeOK, Honest
  <2>2. \A s \in Adapters : answer'[s] = "ok" => posting'[s] \in taken
    BY <1>1 DEF IInv, TypeOK, Honest
  <2> QED BY <1>1, <2>1, <2>2 DEF Honest
<1>4. EndedHasReply'
  <2>1. row[q] # "absent"
    BY <1>0 DEF IInv, Leased
  <2> QED BY <1>1, <2>1 DEF IInv, TypeOK, EndedHasReply, runVars
<1>5. ASSUME NEW r \in Requests PROVE Leased(r)'
  <2>1. \A s \in Adapters : r \in batch'[s] <=> r \in batch[s] /\ ~(s = p /\ r = q)
    BY <1>1 DEF IInv, TypeOK
  <2>2. CASE r = q
    <3>1. row'[r] = status /\ r \notin stale'
      BY <1>0, <1>1, <2>2 DEF IInv, TypeOK
    <3>2. \A s \in Adapters : r \in batch'[s] => lapses'[r] > 0
      BY <1>0, <1>1, <2>1, <2>2 DEF IInv, Leased
    <3>3. lapses'[r] \in Nat
      BY <1>2 DEF TypeOK
    <3> QED BY <3>1, <3>2, <3>3 DEF Leased
  <2>3. CASE r # q
    <3>1. row'[r] = row[r] /\ lapses'[r] = lapses[r] /\ (r \in stale' => r \in stale)
      BY <1>1, <2>3 DEF IInv, TypeOK
    <3> QED BY <2>1, <2>3, <3>1 DEF IInv, Leased
  <2> QED BY <2>2, <2>3
<1>6. ASSUME NEW r \in Requests PROVE Counted(r)'
  <2> /\ attempts[r] \in Nat /\ lapses[r] \in Nat /\ MaxAttempts \in Nat
    BY HubAssumption DEF IInv, TypeOK
  <2>1. CASE r = q
    BY <1>0, <1>1, <2>1 DEF IInv, TypeOK, Counted
  <2>2. CASE r # q
    BY <1>1, <2>2 DEF IInv, TypeOK, Counted
  <2> QED BY <2>1, <2>2
<1> QED BY <1>1, <1>2, <1>3, <1>4, <1>5, <1>6, LogUnchanged DEF IInv, runVars

LEMMA PostEndsKeeps ==
    ASSUME IInv, NEW p \in Adapters, PostEnds(p) PROVE IInv'
<1>1. CASE PostOk(p)
  BY <1>1, PostLeftKeeps DEF PostOk, Delivered
<1>2. CASE PostRefused(p)
  BY <1>2, PostLeftKeeps DEF PostRefused
<1>3. CASE PostFails(p)
  <2>1. posting[p] # None /\ attempts[posting[p]] \in Nat /\ MaxAttempts \in Nat
    BY <1>3, AtHand, HubAssumption DEF PostFails, IInv, TypeOK
  <2>2. CASE Exhausted(posting[p])
    BY <1>3, <2>1, <2>2, PostLeftKeeps DEF PostFails
  <2>3. CASE ~Exhausted(posting[p])
    <3>1. PostLeft(p, "failed", TRUE)
      BY <1>3, <2>3 DEF PostFails
    <3>2. attempts[posting[p]] < MaxAttempts
      BY <2>1, <2>3 DEF Exhausted
    <3> QED BY <2>1, <3>1, <3>2, PostLeftKeeps
  <2> QED BY <2>2, <2>3
<1> QED BY <1>1, <1>2, <1>3 DEF PostEnds

-----------------------------------------------------------------------------
(* Maintenance and time                                                    *)

LEMMA PruneKeeps ==
    ASSUME IInv, NEW q \in Requests, Prune(q) PROVE IInv'
<1> USE DEF Prune, runVars, drainVars
<1>1. TypeOK'
  BY DEF IInv, TypeOK
<1>2. Honest' /\ EndedHasReply'
  BY DEF IInv, TypeOK, Honest, EndedHasReply, Settled
<1>3. ASSUME NEW r \in Requests PROVE Leased(r)' /\ Counted(r)'
  BY DEF IInv, TypeOK, Leased, Counted, Settled
<1> QED BY <1>1, <1>2, <1>3, LogUnchanged DEF IInv

LEMMA RetryDueKeeps ==
    ASSUME IInv, NEW q \in Requests, RetryDue(q) PROVE IInv'
<1> USE DEF RetryDue, runVars, drainVars
<1>1. TypeOK'
  BY DEF IInv, TypeOK
<1>2. Honest' /\ EndedHasReply'
  BY DEF IInv, Honest, EndedHasReply
<1>3. ASSUME NEW r \in Requests PROVE Leased(r)' /\ Counted(r)'
  BY DEF IInv, Leased, Counted
<1> QED BY <1>1, <1>2, <1>3, LogUnchanged DEF IInv

LEMMA LeaseLapsesKeeps ==
    ASSUME IInv, NEW q \in Requests, LeaseLapses(q) PROVE IInv'
<1> USE DEF LeaseLapses, runVars, drainVars
<1>1. TypeOK'
  BY DEF IInv, TypeOK
<1>2. Honest' /\ EndedHasReply'
  BY DEF IInv, Honest, EndedHasReply
<1>3. ASSUME NEW r \in Requests PROVE Leased(r)' /\ Counted(r)'
  <2> /\ attempts[r] \in Nat /\ lapses[r] \in Nat /\ MaxAttempts \in Nat
    BY HubAssumption DEF IInv, TypeOK
  <2>1. lapses'[r] = (IF r = q THEN lapses[r] + 1 ELSE lapses[r])
    BY DEF IInv, TypeOK
  <2>2. Leased(r)'
    BY <2>1 DEF IInv, Leased
  <2>3. Counted(r)'
    BY <2>1 DEF IInv, Counted
  <2> QED BY <2>2, <2>3
<1> QED BY <1>1, <1>2, <1>3, LogUnchanged DEF IInv

-----------------------------------------------------------------------------

\* The strengthened invariant holds at first and is kept by every step.
THEOREM Invariance == Spec => []IInv
<1>1. Init => IInv
  BY HubAssumption DEF Init, IInv, TypeOK, Honest, EndedHasReply, Logged, Leased, Counted, Ended
<1>2. IInv /\ [Next]_vars => IInv'
  <2> SUFFICES ASSUME IInv, [Next]_vars PROVE IInv'
    OBVIOUS
  <2>1. CASE UNCHANGED vars
    BY <2>1, LogUnchanged, RowsUnchanged
    DEF vars, runVars, rowVars, drainVars, IInv, TypeOK, Honest, EndedHasReply
  <2>2. ASSUME NEW p \in Adapters, AdapterStep(p) PROVE IInv'
    <3>1. CASE Exit(p)
      BY <3>1, DeathKeeps DEF Exit
    <3>2. CASE PostOk(p) \/ PostRefused(p) \/ PostFails(p)
      BY <3>2, PostEndsKeeps DEF PostEnds
    <3>3. ASSUME NEW r \in Requests, InsertConflicts(p, r) PROVE IInv'
      BY <3>3, DeathKeeps DEF InsertConflicts
    <3> QED BY <2>2, <3>1, <3>2, <3>3, StartKeeps, ClaimKeeps, HostTakesKeeps, LookKeeps,
               InsertKeeps, MarkRunningKeeps, RuntimeEndsKeeps, PostStartsKeeps
            DEF AdapterStep
  <2> QED BY <2>1, <2>2, PruneKeeps, RetryDueKeeps, LeaseLapsesKeeps DEF Next
<1> QED BY <1>1, <1>2, PTL DEF Spec

\* Every variable keeps its type, and a drain settles the row it posted.
THEOREM TypeCorrect == Spec => []TypeOK
<1>1. IInv => TypeOK
  BY DEF IInv
<1> QED BY <1>1, Invariance, PTL

\* No request is ever run twice, whatever adapters overlap and die
\* (recordInboundDispatch).
THEOREM NoDoubleRun == Spec => []RunsOnce
<1>1. IInv => RunsOnce
  BY DEF IInv, Logged, RunsOnce
<1> QED BY <1>1, Invariance, PTL

\* Outcome and reply are recorded together (markDispatchSucceeded, markDispatchFailed).
THEOREM RepliesRecorded == Spec => []EndedHasReply
<1>1. IInv => EndedHasReply
  BY DEF IInv
<1> QED BY <1>1, Invariance, PTL

\* What is recorded as sent was taken by the orchestrator (markOutboxSent).
THEOREM SentIsHonest == Spec => []SentWasTaken
<1>1. IInv => SentWasTaken
  BY DEF IInv, Honest, SentWasTaken
<1> QED BY <1>1, Invariance, PTL

\* A reply is posted outboxMaxAttempts times at most, and once more for each
\* lease that ran out (claimDueOutbox, markOutboxDeliveryFailed).
THEOREM BudgetKept == Spec => []DeliveryBudget
<1>1. IInv => DeliveryBudget
  BY DEF IInv, Counted, DeliveryBudget
<1> QED BY <1>1, Invariance, PTL

\* A claimed row is in some batch: no failed POST strands it (drainOutboxOnce).
THEOREM NothingStranded == Spec => []SendingIsHeld
<1>1. IInv => SendingIsHeld
  BY DEF IInv, Leased, SendingIsHeld
<1> QED BY <1>1, Invariance, PTL

\* Until its lease has run out, a row is in the hands of one adapter at most
\* (claimDueOutbox).
THEOREM LeaseExcludes == Spec => []LeaseIsExclusive
<1>1. IInv => LeaseIsExclusive
  BY DEF IInv, Leased, LeaseIsExclusive
<1> QED BY <1>1, Invariance, PTL

\* Until its lease has run out, a reply that was sent is not opened again.
THEOREM SentStays == Spec => SentIsKept
<1> DEFINE Kept == \A r \in Requests :
                      row[r] = "sent" /\ lapses[r] = 0 => row'[r] \in {"sent", "pruned"}
<1>1. IInv /\ [Next]_vars => [Kept]_vars
  <2> SUFFICES ASSUME IInv, Next, NEW r \in Requests, row[r] = "sent", lapses[r] = 0
               PROVE  row'[r] \in {"sent", "pruned"}
    OBVIOUS
  <2>1. \A p \in Adapters : r \notin batch[p] /\ r \notin runs[p]
    BY DEF IInv, Leased, Logged, EndedHasReply, Ended
  <2>2. ASSUME NEW p \in Adapters, AdapterStep(p) PROVE row'[r] = "sent"
    <3>1. CASE Claim(p)
      <4>1. r \notin Due
        BY DEF Due
      <4> QED BY <3>1, <4>1 DEF Claim, Claimable
    <3>2. CASE PostEnds(p)
      <4>1. PICK status, retried : PostLeft(p, status, retried) /\ posting[p] # None
        BY <3>2 DEF PostEnds, PostOk, PostRefused, PostFails
      <4>2. posting[p] # r
        BY <2>1, <4>1, AtHand DEF IInv
      <4> QED BY <4>1, <4>2 DEF PostLeft, IInv, TypeOK
    <3>3. ASSUME NEW q \in Requests, RuntimeEnds(p, q) PROVE row'[r] = "sent"
      BY <2>1, <3>3 DEF RuntimeEnds, UpsertReply, rowVars, IInv, TypeOK
    <3>4. CASE UNCHANGED rowVars
      BY <3>4 DEF rowVars
    <3>5. \/ Claim(p) \/ PostEnds(p) \/ UNCHANGED rowVars
          \/ \E q \in Requests : RuntimeEnds(p, q)
      BY <2>2 DEF AdapterStep, PostEnds, Start, Exit, HostTakes, Look, Insert,
                  InsertConflicts, MarkRunning, PostStarts
    <3> QED BY <3>1, <3>2, <3>3, <3>4, <3>5
  <2>3. ASSUME NEW q \in Requests, Prune(q) PROVE row'[r] \in {"sent", "pruned"}
    BY <2>3 DEF Prune, IInv, TypeOK
  <2> QED BY <2>2, <2>3 DEF Next, RetryDue, LeaseLapses
<1> QED BY <1>1, Invariance, PTL DEF Spec, SentIsKept

=============================================================================
