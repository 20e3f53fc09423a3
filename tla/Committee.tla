------------------------------ MODULE Committee ------------------------------
(***************************************************************************)
(* ConsensusEngine: the verdict over the votes of a committee, as          *)
(* ConversationBus.conveneCommittee asks for it.  evaluateCommittee is a   *)
(* pure function; here its list of votes grows by one in each step, so     *)
(* that a step compares the verdict over a list with the one over a list   *)
(* that has one vote more.  Scores, confidences and weights are hundredths *)
(* and a mean is compared with a threshold by cross multiplication: the    *)
(* rounding of floating point is left out.                                 *)
(***************************************************************************)
EXTENDS Integers, Sequences, FiniteSets, SequencesExt

CONSTANTS
    Participants,  \* activeParticipants, a sequence
    Others,        \* who votes without being one
    Confidences, Weights, \* of the votes that callers give, in hundredths
    Thresholds,    \* options.quorumThreshold and failureThreshold
    MaxVotes       \* votes given (a bound of the model)

Agents == Range(Participants) \cup Others
Verdicts == {"approve", "reject", "abstain"}
Vote == [agent : Agents, verdict : Verdicts, confidence : Confidences, weight : Weights]

VARIABLES votes, quorumOption, failureOption
vars == <<votes, quorumOption, failureOption>>

ClampRange(v, lo, hi) == IF v < lo THEN lo ELSE IF v > hi THEN hi ELSE v

QuorumThreshold == ClampRange(quorumOption, 60, 100)
FailureThreshold == ClampRange(failureOption, 50, QuorumThreshold)

Absent(a) == [agent |-> a, verdict |-> "abstain", confidence |-> 0, weight |-> 100]

\* byAgent: the vote of a that was given last, an abstention if there is none.
Given(vs, a) == {i \in DOMAIN vs : vs[i].agent = a}
LastVote(vs, a) ==
    IF Given(vs, a) = {} THEN Absent(a)
    ELSE vs[CHOOSE i \in Given(vs, a) : \A j \in Given(vs, a) : j <= i]

\* The votes of those who are no participants, in their order.
Outside(vs) ==
    LET kept[n \in 0..Len(vs)] == IF n = 0 THEN << >>
                                  ELSE IF vs[n].agent \in Range(Participants) THEN kept[n - 1]
                                  ELSE Append(kept[n - 1], vs[n])
    IN  kept[Len(vs)]

\* Fault: a participant without a vote is left out.
CompletedOfPresent(vs) ==
    LET present == SelectSeq(Participants, LAMBDA a : Given(vs, a) # {})
    IN  [i \in DOMAIN present |-> LastVote(vs, present[i])] \o Outside(vs)

\* completeParticipantVotes: the last vote of each participant, an abstention
\* for one without a vote, and every vote of anybody else.
Completed(vs) == [i \in 1..Len(Participants) |-> LastVote(vs, Participants[i])] \o Outside(vs)

Normalized(v) == [v EXCEPT !.confidence = ClampRange(@, 0, 100), !.weight = IF @ < 0 THEN 0 ELSE @]

\* reduce((sum, n) => sum + n, 0).
Total(numbers) ==
    LET sum[n \in 0..Len(numbers)] == IF n = 0 THEN 0 ELSE sum[n - 1] + numbers[n]
    IN  sum[Len(numbers)]

\* mean >= threshold, of a sum over n; a mean of nothing is 0.
Reaches(sum, n, threshold) == n > 0 /\ sum >= threshold * n

\* evaluateCommittee's status.
Status(vs) ==
    LET all     == [i \in DOMAIN Completed(vs) |-> Normalized(Completed(vs)[i])]
        weight  == Total([i \in DOMAIN all |-> all[i].weight])
        support == Total([i \in DOMAIN all |->
                       IF all[i].verdict = "approve" THEN all[i].weight * all[i].confidence ELSE 0])
        trust   == Total([i \in DOMAIN all |-> all[i].confidence])
        Clears(t) == Reaches(support, weight, t) /\ Reaches(trust, Len(all), t)
    IN  IF Clears(QuorumThreshold) THEN "accepted"
        ELSE IF Clears(FailureThreshold) THEN "failed" ELSE "needs_sidecar"

\* A caller gives one vote more.
Cast ==
    /\ Len(votes) < MaxVotes
    /\ \E v \in Vote : votes' = Append(votes, v)
    /\ UNCHANGED <<quorumOption, failureOption>>

\* synthesizeVotes: without votes of a caller each participant has one, taken
\* from a hash of the goal; the last one weighs more.
SynthesizeVotes ==
    /\ votes = << >>
    /\ \E verdict \in [DOMAIN Participants -> {"approve", "reject"}],
          confidence \in [DOMAIN Participants -> {62, 79, 96}] :
        votes' = [i \in DOMAIN Participants |->
            [agent |-> Participants[i], verdict |-> verdict[i], confidence |-> confidence[i],
             weight |-> IF i = Len(Participants) THEN 135 ELSE 100]]
    /\ UNCHANGED <<quorumOption, failureOption>>

Init ==
    /\ votes = << >>
    /\ quorumOption \in Thresholds /\ failureOption \in Thresholds

Next == Cast \/ SynthesizeVotes

Spec == Init /\ [][Next]_vars

-----------------------------------------------------------------------------
(* Properties                                                              *)

Counted == {a \in Range(Participants) : Given(votes, a) # {}}

\* An accepted proposal is carried by its approvals, a participant counting
\* with its last vote, and not by the ones who stayed away, whatever
\* thresholds, weights and confidences the caller gives.
AcceptedHasQuorum ==
    Status(votes) = "accepted" =>
        LET all == Completed(votes)
            weights  == [i \in DOMAIN all |-> Normalized(all[i]).weight]
            approved == [i \in DOMAIN all |-> IF all[i].verdict = "approve" THEN weights[i] ELSE 0]
        IN  /\ 100 * Total(approved) >= 60 * Total(weights)
            /\ \E i \in DOMAIN votes : votes[i].verdict = "approve"
            /\ 100 * (Len(Participants) - Cardinality(Counted)) <= 40 * (Len(Participants) + Len(votes))

\* A sure approval of somebody who had no vote yet never takes acceptance away.
ApprovalNeverHurts ==
    \A v \in Vote :
        /\ v.verdict = "approve" /\ v.confidence >= 100 /\ Given(votes, v.agent) = {}
        /\ Status(votes) = "accepted"
        => Status(Append(votes, v)) = "accepted"
=============================================================================
