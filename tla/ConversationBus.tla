--------------------------- MODULE ConversationBus --------------------------
(***************************************************************************)
(* Conversations: topics are rows of conversation_topics mirrored by the   *)
(* map activeTopics, and a message to an active topic convenes it, which   *)
(* gives its participants turns until the debate converges, the queue of   *)
(* speakers drains, the cap on turns is hit, a turn fails or the topic is  *)
(* closed; then it posts its result and closes the topic.                  *)
(*                                                                         *)
(* A step is what runs between two awaits of convene: all turns that need  *)
(* no stream are taken inside the step that reaches them.  A turn itself   *)
(* (its request, retries and reply) is in ChairDispatch; here it ends with *)
(* the mentions of its text, or it fails.  Several convenes may run on one *)
(* topic, as every message starts another.                                 *)
(***************************************************************************)
EXTENDS Integers, Sequences, FiniteSets

CONSTANTS
    Agents,      \* possible participants
    Topics,      \* topic ids (a bound of the model)
    Convenes,    \* calls of convene (a bound of the model)
    NoAgent, NoTopic, NoConvene,
    MaxTurns,    \* maxTurns
    Gains        \* values of turnGain, in thousandths (a bound of the model)

ASSUME BusAssumption ==
    /\ NoAgent \notin Agents /\ NoTopic \notin Topics /\ NoConvene \notin Convenes
    /\ IsFiniteSet(Agents)
    /\ MaxTurns \in Nat \ {0}
    /\ Gains \subseteq 80..129

VARIABLES
    requireLive,  \* KOVAEL_REQUIRE_LIVE_CHAIRS
    topic,        \* row: the table; listed: in activeTopics; members: its
                  \* participants; newest: its abortController's convene
    call,         \* the local state of each convene
    aborted       \* convenes whose controller was aborted

vars == <<requireLive, topic, call, aborted>>

-----------------------------------------------------------------------------

Elements(q) == {q[i] : i \in DOMAIN q}

Distinct(q) == \A i, j \in DOMAIN q : q[i] = q[j] => i = j

\* Lists without repetition, as Set makes them of the participants a request
\* names and as unshifting does of the mentions in a text.
Lists(S) == UNION {{q \in [1..n -> S] : Distinct(q)} : n \in 0..Cardinality(S)}

Least(I) == CHOOSE i \in I : \A j \in I : i <= j

\* What the registry and the circuit breaker say of a chair: dispatchable,
\* present without an inbox, or neither (no claim, offline, gate closed).
Standings == {"live", "presence", "none"}

Absent == [row |-> "absent", listed |-> FALSE, members |-> <<>>, newest |-> NoConvene]

\* createTopic.
Opened(ps) == [row |-> "open", listed |-> TRUE, members |-> ps, newest |-> NoConvene]

\* closeTopic, but for the abort.
Closed(tp) == [tp EXCEPT !.row = "closed", !.listed = FALSE]

\* Fault: an operator's close of a topic leaves its convene alone.
AbortsNone(tp) == {}

\* closeTopic aborts the controller set last, if the topic is still listed.
Aborts(tp) == IF tp.listed THEN {tp.newest} \ {NoConvene} ELSE {}

Idle == [at |-> "idle", why |-> "none", topic |-> NoTopic, queue |-> <<>>,
         speaker |-> NoAgent, live |-> FALSE, turns |-> 0, answered |-> {},
         noticed |-> {}, failed |-> {}, confidence |-> 0]

Running(c) == call[c].at \in {"streaming", "pausing"}

-----------------------------------------------------------------------------
(* convene                                                                 *)

Called(t, ps) == [Idle EXCEPT !.topic = t, !.queue = ps]

\* Only what the result tells of the debate is kept.
Ended(r, why) ==
    [Idle EXCEPT !.at = "ended", !.why = why, !.topic = r.topic, !.turns = r.turns,
                 !.answered = r.answered, !.noticed = r.noticed, !.failed = r.failed]

\* With a chair that may not be dispatched to, the stub speaks, unless live
\* chairs are required; then the turn is refused.
Streams(s, a) == s[a] = "live" \/ (s[a] = "none" /\ ~requireLive)

\* Presence-only members of the queue before place i; each of them takes a
\* turn with a notice.
Noticed(q, s, i) == {q[j] : j \in {k \in 1..i - 1 : s[q[k]] = "presence"}}

Refused(q, s, i) == {q[j] : j \in {k \in 1..i - 1 : s[q[k]] = "none"}}

\* Where the loop stops: at a stream, at the cap, or past the end of the queue.
Halt(r, s) ==
    Least({i \in 1..Len(r.queue) + 1 :
             \/ i = Len(r.queue) + 1
             \/ r.turns + Cardinality(Noticed(r.queue, s, i)) >= MaxTurns
             \/ Streams(s, r.queue[i])})

\* The loop of convene from its head to the next stream, or to its end.
Loop(r, s) ==
    LET i == Halt(r, s)
        passed == [r EXCEPT !.turns = @ + Cardinality(Noticed(r.queue, s, i)),
                            !.noticed = @ \cup Noticed(r.queue, s, i),
                            !.failed = @ \cup Refused(r.queue, s, i),
                            !.queue = SubSeq(r.queue, i + 1, Len(r.queue))]
    IN  IF passed.turns >= MaxTurns THEN Ended(passed, "cap")
        ELSE IF i > Len(r.queue) THEN Ended(passed, "drained")
        ELSE [passed EXCEPT !.at = "streaming", !.speaker = r.queue[i],
                            !.live = s[r.queue[i]] = "live"]

\* What is left of q without the members of S.
Without(q, S) ==
    LET kept[n \in 0..Len(q)] == IF n = 0 THEN <<>>
                                 ELSE IF q[n] \in S THEN kept[n - 1]
                                 ELSE Append(kept[n - 1], q[n])
    IN  kept[Len(q)]

\* Fault: a mention does not take its participant from his old place.
MentionTwice(q, ms) == ms \o q

\* Mentioned participants go to the head of the queue, in the order of the text.
Mention(q, ms) == ms \o Without(q, Elements(ms))

\* An empty queue gets the first participant that did not just speak.
Refill(q, ps, a, turns) ==
    LET others == {i \in DOMAIN ps : ps[i] # a}
    IN  IF q = <<>> /\ turns < MaxTurns /\ others # {} THEN <<ps[Least(others)]>> ELSE q

\* The simulated confidence of the verifier after so many turns.
Confidence(turns, gain) == IF 650 + turns * gain < 980 THEN 650 + turns * gain ELSE 980

\* Fault: only the fall-back ever stops a debate.
StableUnverified(old, new) == new < 850 /\ (IF new > old THEN new - old ELSE old - new) < 50

\* The hybrid rule and its fall-back.
Stable(old, new) ==
    LET delta == IF new > old THEN new - old ELSE old - new
    IN  IF new >= 850 THEN delta < 100 ELSE delta < 50

\* Fault: the turn is not counted.
SpokenUncounted(r, ps, ms) ==
    [r EXCEPT !.answered = @ \cup {r.speaker},
              !.queue = Refill(Mention(@, ms), ps, r.speaker, r.turns),
              !.speaker = NoAgent]

\* After a stream: the turn is counted and the queue changes.
Spoken(r, ps, ms) ==
    [r EXCEPT !.turns = @ + 1,
              !.answered = @ \cup {r.speaker},
              !.queue = Refill(Mention(@, ms), ps, r.speaker, r.turns + 1),
              !.speaker = NoAgent]

\* Fault: the first pass need not be complete.
ConvergedEarly(r, ps, new) == r.confidence # 0 /\ Stable(r.confidence, new)

\* firstPassComplete, and there are two values of the confidence to compare.
Converged(r, ps, new) ==
    /\ Cardinality(r.answered \cup r.noticed) >= Len(ps)
    /\ r.confidence # 0
    /\ Stable(r.confidence, new)

\* The convene c goes on as r on a topic the step has left as tp so far; a
\* convene that ends closes its topic, whichever controller is set there.
Proceeds(c, r, tp) ==
    /\ call' = [call EXCEPT ![c] = r]
    /\ IF r.at = "ended"
       THEN /\ topic' = [topic EXCEPT ![r.topic] = Closed(tp)]
            /\ aborted' = aborted \cup Aborts(tp)
       ELSE /\ topic' = [topic EXCEPT ![r.topic] = tp]
            /\ UNCHANGED aborted
    /\ UNCHANGED requireLive

\* A message to an active topic, or the goal of a new one.  To any other topic
\* the message is stored and the convene rejected.
Convene(c, t, s) ==
    /\ call[c].at = "idle" /\ topic[t].listed
    /\ Proceeds(c, Loop(Called(t, topic[t].members), s), [topic[t] EXCEPT !.newest = c])

\* POST /conversations with a goal: created and convened in one step.
CreateConvened(c, t, ps, s) ==
    /\ call[c].at = "idle" /\ topic[t].row = "absent"
    /\ Proceeds(c, Loop(Called(t, ps), s), [Opened(ps) EXCEPT !.newest = c])

\* The stream ends.  An aborted stream that was playing back, or a stub's,
\* ends as a completed turn as well.
TurnEnds(c, ms, gain) ==
    LET r == call[c]
        ps == topic[r.topic].members
        new == Confidence(r.turns + 1, gain)
        spoken == Spoken(r, ps, ms)
    IN  /\ r.at = "streaming"
        /\ r.speaker \notin Elements(ms) /\ Elements(ms) \subseteq Elements(ps)
        /\ Proceeds(c, IF Converged(spoken, ps, new) THEN Ended(spoken, "converged")
                       ELSE IF c \in aborted THEN Ended(spoken, "aborted")
                       ELSE [spoken EXCEPT !.at = "pausing", !.live = FALSE, !.confidence = new],
                    topic[r.topic])

\* The stream throws: a live turn failed, its topic being closed included.
TurnFails(c) ==
    LET r == call[c] IN
    /\ r.at = "streaming" /\ r.live
    /\ Proceeds(c, Ended([r EXCEPT !.failed = @ \cup {r.speaker}], "failed"), topic[r.topic])

\* The 600 ms between two turns are over, or cut short by an abort.
PauseEnds(c, s) ==
    LET r == call[c] IN
    /\ r.at = "pausing"
    /\ Proceeds(c, IF c \in aborted THEN Ended(r, "aborted") ELSE Loop(r, s), topic[r.topic])

-----------------------------------------------------------------------------
(* Topics                                                                  *)

\* POST /conversations without a goal.
CreateTopic(t, ps) ==
    /\ topic[t].row = "absent"
    /\ topic' = [topic EXCEPT ![t] = Opened(ps)]
    /\ UNCHANGED <<requireLive, call, aborted>>

\* POST /conversations/:id/close.
CloseTopic(t) ==
    /\ topic[t].row = "open"
    /\ topic' = [topic EXCEPT ![t] = Closed(topic[t])]
    /\ aborted' = aborted \cup Aborts(topic[t])
    /\ UNCHANGED <<requireLive, call>>

\* Fault: every stored topic is listed, whatever its row says.
RestartListsAll ==
    /\ topic' = [t \in Topics |-> [topic[t] EXCEPT !.listed = topic[t].row # "absent",
                                                  !.newest = NoConvene]]
    /\ call' = [c \in Convenes |-> IF Running(c) THEN [Idle EXCEPT !.at = "lost"] ELSE call[c]]
    /\ aborted' = {}
    /\ requireLive' \in BOOLEAN

\* The process ends at any time and starts anew: its convenes are gone, and
\* hydrateActiveTopics lists the topics whose row is open.
Restart ==
    /\ topic' = [t \in Topics |-> [topic[t] EXCEPT !.listed = topic[t].row = "open",
                                                  !.newest = NoConvene]]
    /\ call' = [c \in Convenes |-> IF Running(c) THEN [Idle EXCEPT !.at = "lost"] ELSE call[c]]
    /\ aborted' = {}
    /\ requireLive' \in BOOLEAN

-----------------------------------------------------------------------------

Init ==
    /\ requireLive \in BOOLEAN
    /\ topic = [t \in Topics |-> Absent]
    /\ call = [c \in Convenes |-> Idle]
    /\ aborted = {}

Turned(c) ==
    \/ \E ms \in Lists(Agents), gain \in Gains : TurnEnds(c, ms, gain)
    \/ TurnFails(c)

Paused(c) == \E s \in [Agents -> Standings] : PauseEnds(c, s)

Convened(c) ==
    \E t \in Topics, s \in [Agents -> Standings] :
       \/ Convene(c, t, s)
       \/ \E ps \in Lists(Agents) \ {<<>>} : CreateConvened(c, t, ps, s)

Managed(t) == CloseTopic(t) \/ \E ps \in Lists(Agents) \ {<<>>} : CreateTopic(t, ps)

Next ==
    \/ \E c \in Convenes : Convened(c) \/ Turned(c) \/ Paused(c)
    \/ \E t \in Topics : Managed(t)
    \/ Restart

Spec == Init /\ [][Next]_vars

\* A turn ends, by its reply or its timers (ChairDispatch), and so do pauses.
FairSpec ==
    /\ Spec
    /\ \A c \in Convenes : WF_vars(Turned(c)) /\ WF_vars(Paused(c))

-----------------------------------------------------------------------------
(* Properties                                                              *)

Calls == [at : {"idle", "streaming", "pausing", "ended", "lost"},
          why : {"none", "converged", "drained", "cap", "failed", "aborted"},
          topic : Topics \cup {NoTopic}, queue : Seq(Agents), speaker : Agents \cup {NoAgent},
          live : BOOLEAN, turns : 0..MaxTurns, answered : SUBSET Agents,
          noticed : SUBSET Agents, failed : SUBSET Agents, confidence : Nat]

\* Types; turnCount never passes the cap, and is below it whenever a turn is
\* given.
TypeOK ==
    /\ requireLive \in BOOLEAN
    /\ topic \in [Topics -> [row : {"absent", "open", "closed"}, listed : BOOLEAN,
                             members : Seq(Agents), newest : Convenes \cup {NoConvene}]]
    /\ call \in [Convenes -> Calls]
    /\ aborted \subseteq Convenes
    /\ \A c \in Convenes : call[c].at \in {"streaming", "pausing", "ended"} => call[c].topic \in Topics
    /\ \A c \in Convenes : call[c].at = "streaming" => call[c].speaker \in Agents /\ call[c].turns < MaxTurns

\* However mentions and refills reorder it, the queue of a debate names
\* participants, none twice, and never the one who is speaking.
QueueIsSound ==
    \A c \in Convenes : Running(c) =>
       /\ Distinct(call[c].queue)
       /\ Elements(call[c].queue) \subseteq Elements(topic[call[c].topic].members)
       /\ call[c].speaker \notin Elements(call[c].queue)

\* Nobody is forgotten: a participant who has neither answered nor been found
\* unreachable is speaking or still queued, so a debate that converges has
\* heard everyone ("gives every selected participant one turn before adaptive
\* stopping can end the round") and one that drains has asked everyone.
NobodyIsForgotten ==
    \A c \in Convenes :
       LET r == call[c]
           members == Elements(topic[r.topic].members)
       IN  /\ Running(c) => members \subseteq r.answered \cup r.noticed \cup r.failed
                                             \cup Elements(r.queue) \cup {r.speaker}
           /\ r.why = "converged" => members = r.answered \cup r.noticed
           /\ r.why = "drained" => members = r.answered \cup r.noticed \cup r.failed

\* The cap on turns only ends a debate that lacks somebody: one in which a
\* participant was present without an inbox, or never answered.  With everyone
\* answering it converges by the fourth turn or the end of the first pass,
\* whatever confidence is drawn.
CapMeansAbsentee ==
    \A c \in Convenes : call[c].why = "cap" =>
       call[c].noticed # {} \/ call[c].answered # Elements(topic[call[c].topic].members)

\* A convene leaves its topic closed for good, whichever of several it was: it
\* is neither listed again by a restart nor reopened.
EndedIsClosed ==
    \A c \in Convenes : call[c].at = "ended" =>
       topic[call[c].topic].row = "closed" /\ ~topic[call[c].topic].listed

\* Whoever closes a topic, an operator or another convene, stops the convene
\* that was started on it last.
ClosingStopsNewest ==
    \A c \in Convenes :
       Running(c) /\ topic[call[c].topic].newest = c /\ ~topic[call[c].topic].listed
          => c \in aborted

\* Every convene comes to an end and closes its topic, unless the process ends.
EveryConveneEnds == \A c \in Convenes : Running(c) ~> ~Running(c)

\* A closed topic is quiet: no convene gives a turn on it.
ClosedTopicIsQuiet ==
    [][\A c \in Convenes :
          call'[c].at = "streaming" /\ call[c].at # "streaming"
             => topic'[call'[c].topic].listed]_vars
=============================================================================
