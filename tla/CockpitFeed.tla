----------------------------- MODULE CockpitFeed -----------------------------
(***************************************************************************)
(* What the cockpit shows, and how it comes to show it: WebSocketBus sends *)
(* every new client the state it caches and every open client each event;  *)
(* SpatialWarRoom keeps one socket, redials when it is lost, and applies   *)
(* the frames to useWarRoomStore, telemetry through a buffer emptied ten   *)
(* times a second.                                                         *)
(*                                                                         *)
(* Frames of different kinds touch different parts of the store, but for   *)
(* the roster card, whose fields are modelled apart; so one behaviour      *)
(* follows the news of one kind.  truth is what the orchestrator knows,    *)
(* shown what the store holds.  The sockets of one page are numbered as    *)
(* they are dialled; frames on a socket arrive in order.                   *)
(***************************************************************************)
EXTENDS Integers, Sequences, FiniteSets, SequencesExt, Functions

CONSTANTS
    Kinds,       \* the kinds of news that are followed
    Agents,      \* agents with a card
    Things,      \* cycles, tasks, topics or messages, whatever the kind is about
    NoAgent,     \* no agent
    MaxNews,     \* events per behaviour (a bound of the model)
    MaxDials,    \* sockets per behaviour (a bound of the model)
    MaxBehind,   \* frames a socket may lag before frames for it are dropped
    Remounts,    \* whether the effect may be torn down and run again: {FALSE} or BOOLEAN
    TaskCap, LogCap, IdleTasks   \* 100 tasks cached; entries of a log kept; idleTaskCacheRetain

Keys == {"status", "load"}   \* of a telemetry record; the others behave like load
Presences == {"absent", "live", "stale"}
Buckets == {"Unclaimed", "Claimed", "Running", "RetryQueued", "Released"}
Legal == [Unclaimed |-> {"Claimed", "Released"}, Claimed |-> {"Running", "Released"},
          Running |-> {"RetryQueued", "Released"}, RetryQueued |-> {"Claimed", "Released"},
          Released |-> {}]

VARIABLES
    about,     \* the kind of news this behaviour follows
    news,      \* how many events there were: also the stamp of the last one
    truth,     \* what the orchestrator knows
    loop,      \* the timer of the chat loop is set
    mode,      \* of the governor
    lines,     \* the sockets dialled so far
    redial,    \* reconnectTimeout is set
    shown,     \* the store
    buffer,    \* pendingTelemetry of the one node, pendingHardware (0: not dirty)
    missed     \* history: the page missed a frame since it was loaded

server == <<news, truth, loop, mode>>
page == <<redial, shown, buffer>>
vars == <<about, server, lines, page, missed>>

\* f overwritten by g, as in { ...f, ...g }.
Merge(f, g) == [k \in DOMAIN f \cup DOMAIN g |-> IF k \in DOMAIN g THEN g[k] ELSE f[k]]

\* The n first of the list, newest first: [e, ...list].slice(0, n).
Newest(e, list, n) == SubSeq(<<e>> \o list, 1, IF Len(list) < n THEN Len(list) + 1 ELSE n)

\* The last n of the list: slice(-n), or push and shift.
LastOf(list, n) == SubSeq(list, IF Len(list) > n THEN Len(list) - n + 1 ELSE 1, Len(list))

-----------------------------------------------------------------------------
(* The store                                                               *)

Frame(type, data) == [type |-> type, data |-> data]

\* enqueueTelemetry and enqueueHardware: into the buffer, not into the store.
EnqueueTelemetry(buf, t) == [buf EXCEPT !.telemetry = Merge(@, t)]
EnqueueHardware(buf, m) == [buf EXCEPT !.hardware = m]

\* flushPressureValve: a known node is updated, an unknown one created.
Flushed(s, buf) ==
    [s EXCEPT !.telemetry = Merge(@, buf.telemetry),
              !.hardware = IF buf.hardware = 0 THEN @ ELSE buf.hardware]

\* upsertAgentNode: the card comes anew, its chair stays.
UpsertAgentNode(s, a) == [s EXCEPT !.cards = @ \cup {a}, !.status[a] = "online"]

\* recordPhaseEvent.
RecordPhaseEvent(s, e) ==
    [s EXCEPT !.log = Newest(e.cycle, @, LogCap),
              !.status = [a \in Agents |->
                  IF a = e.agent /\ a \in s.cards
                  THEN IF e.terminal THEN "online" ELSE "dispatching" ELSE @[a]]]

\* recordChairEvent: only a card that is there takes a chair.
RecordChairEvent(s, e) ==
    [s EXCEPT !.chairs = [a \in Agents |-> IF a = e.agent /\ a \in s.cards THEN e.presence ELSE @[a]]]

\* applyChairRoster: chairs that are not listed are dropped.
ApplyChairRoster(s, roster) ==
    [s EXCEPT !.chairs = [a \in Agents |-> IF a \in s.cards THEN roster[a] ELSE @[a]]]

\* recordClaimEvent: from the previous bucket, if that is not empty, to the next.
RecordClaimEvent(s, e) ==
    LET left == [s.claims EXCEPT ![e.previous] = IF @ = 0 THEN 0 ELSE @ - 1]
        from == IF e.previous = "none" THEN s.claims ELSE left
    IN  [s EXCEPT !.claims = [from EXCEPT ![e.state] = @ + 1]]

\* recordRetryEvent.
RecordRetryEvent(s, kind) ==
    [s EXCEPT !.retries = IF kind = "scheduled" THEN @ + 1 ELSE IF @ = 0 THEN 0 ELSE @ - 1]

\* addTask: a node for every frame, whether the task is known or not.
AddTask(s, id) == [s EXCEPT !.tasks = Append(@, id)]

\* addVerificationReceipt, which counts, and keeps five per node.
AddVerificationReceipt(s, id) == [s EXCEPT !.receipts = @ + 1, !.log = Newest(id, @, LogCap)]

\* The lists of the last events: reconcile, hook, committee, self-heal, briefings.
RecordInLog(s, id) == [s EXCEPT !.log = Newest(id, @, LogCap)]

\* The values overwritten by each event: rate limits, circuits, token totals.
RecordLatest(s, v) == [s EXCEPT !.latest = v]

\* inter_agent_chat_state and inter_agent_message.
SetInterAgentChat(s, c) == [s EXCEPT !.chat = c]
AddInterAgentMessage(s, id) == [s EXCEPT !.log = LastOf(Append(@, id), LogCap)]

\* openConversation and closeConversation: only a known topic can be closed.
OpenConversation(s, t) == [s EXCEPT !.topics = Merge(@, [x \in {t} |-> "open"])]
CloseConversation(s, t) == [s EXCEPT !.topics = [x \in DOMAIN @ |-> IF x = t THEN "closed" ELSE @[x]]]

\* mapToAgUi: the same frames as a consumer of the AG-UI envelope reads them.
AgUiRuns(runs, f) ==
    CASE f.type = "topic_opened" -> Merge(runs, [x \in {f.data} |-> "started"])
      [] f.type \in {"stopped", "topic_closed"} -> Merge(runs, [x \in {f.data} |-> "finished"])
      [] OTHER -> runs

\* applyMessageDelta: the delta is added to its message, or begins one.
ApplyMessageDelta(s, m) ==
    LET at == {i \in DOMAIN s.messages : s.messages[i].id = m}
    IN  [s EXCEPT !.messages = IF at # {} THEN [i \in DOMAIN @ |-> IF i \in at THEN [id |-> m, parts |-> @[i].parts + 1] ELSE @[i]]
                               ELSE LastOf(Append(@, [id |-> m, parts |-> 1]), LogCap)]

\* The switch of onmessage, but for the two frames that go to the buffer.
Stored(s, f) ==
    CASE f.type = "agent_card"    -> UpsertAgentNode(s, f.data)
      [] f.type = "phase_change"  -> RecordPhaseEvent(s, f.data)
      [] f.type = "chair_event"   -> RecordChairEvent(s, f.data)
      [] f.type = "chair_roster"  -> ApplyChairRoster(s, f.data)
      [] f.type = "claim_event"   -> RecordClaimEvent(s, f.data)
      [] f.type = "retry_event"   -> RecordRetryEvent(s, f.data)
      [] f.type = "new_task"      -> AddTask(s, f.data)
      [] f.type = "receipt"       -> AddVerificationReceipt(s, f.data)
      [] f.type = "log"           -> RecordInLog(s, f.data)
      [] f.type = "latest"        -> RecordLatest(s, f.data)
      [] f.type = "chat_state"    -> SetInterAgentChat(s, f.data)
      [] f.type = "chat_message"  -> AddInterAgentMessage(s, f.data)
      [] f.type = "topic_opened"  -> OpenConversation(s, f.data)
      [] f.type = "topic_closed"  -> CloseConversation(s, f.data)
      [] f.type = "message_delta" -> ApplyMessageDelta(s, f.data)
      [] OTHER                    -> s

Apply(s, f) == [Stored(s, f) EXCEPT !.runs = AgUiRuns(@, f)]

-----------------------------------------------------------------------------
(* WebSocketBus                                                            *)

\* broadcast to each open client, frame after frame; what finds it far behind
\* is not sent to it.
Sent(l, frames) ==
    LET room == MaxBehind + 1 - Len(l.frames)
    IN  IF l.state # "up" \/ frames = <<>> THEN l
        ELSE IF Len(frames) <= room THEN [l EXCEPT !.frames = @ \o frames]
        ELSE [l EXCEPT !.frames = @ \o SubSeq(frames, 1, room), !.whole = FALSE]

Broadcast(ls, frames) ==
    /\ lines' = [i \in DOMAIN ls |-> Sent(ls[i], frames)]
    /\ missed' = (missed \/ (frames # <<>> /\ ~\E i \in DOMAIN lines' :
                     lines'[i].state = "up" /\ lines'[i].mine /\ lines'[i].whole))

When(p, frame) == IF p THEN <<frame>> ELSE <<>>

Cards == [i \in 1..Cardinality(Agents) |-> Frame("agent_card", SetToSeq(Agents)[i])]

\* What a new client is sent; the roster only if a chair is held.
Replay(t) ==
    (IF about \in {"chairs", "phases"} THEN Cards ELSE <<>>)
    \o When(t.telemetry # << >>, Frame("telemetry", t.telemetry))
    \o [i \in DOMAIN t.tasks |-> Frame("new_task", t.tasks[i])]
    \o When(t.hardware # 0, Frame("hardware_telemetry", t.hardware))
    \o When(about = "chat", Frame("chat_state", t.chat))
    \o When(\E a \in Agents : t.chairs[a] # "absent", Frame("chair_roster", t.chairs))

-----------------------------------------------------------------------------
(* News: what may happen to the truth, and the frames that tell it         *)

Stamp == news + 1

Told(t, frames) == [truth |-> t, frames |-> frames]

\* handleTelemetry: the cache keeps the last record of a node, not the sum of all.
TelemetryNews ==
    {LET data == [k \in ks |-> Stamp]
     IN  Told([truth EXCEPT !.telemetry = data, !.merged = Merge(@, data)],
              <<Frame("telemetry", data)>>) : ks \in (SUBSET Keys) \ {{}}}

HardwareNews == {Told([truth EXCEPT !.hardware = Stamp], <<Frame("hardware_telemetry", Stamp)>>)}

TaskNews == {Told([truth EXCEPT !.tasks = LastOf(Append(@, Stamp), TaskCap)], <<Frame("new_task", Stamp)>>)}

\* chair_event: claimed, beacon, stale, released, expired.
ChairNews ==
    {Told([truth EXCEPT !.chairs[c.agent] = c.presence], <<Frame("chair_event", c)>>) :
        c \in {e \in [agent : Agents, presence : Presences] :
                 /\ truth.chairs[e.agent] # e.presence
                 /\ e.presence = "stale" => truth.chairs[e.agent] = "live"}}

\* phase_change of a cycle routed to an agent; it begins, goes on and ends.
PhaseNews ==
    {Told([truth EXCEPT !.cycles[e.cycle] = IF e.terminal THEN NoAgent ELSE e.agent,
                        !.log = Newest(e.cycle, @, LogCap)], <<Frame("phase_change", e)>>) :
        e \in {e \in [cycle : Things, agent : Agents, terminal : BOOLEAN] :
                 truth.cycles[e.cycle] \in IF e.terminal THEN {e.agent} ELSE {e.agent, NoAgent}}}

\* claim_event; a released record is dropped without one.
ClaimNews ==
    {Told([truth EXCEPT !.claims[t] = "none"], <<>>) : t \in {t \in Things : truth.claims[t] = "Released"}}
    \cup UNION {{Told([truth EXCEPT !.claims[t] = next],
                      <<Frame("claim_event", [previous |-> truth.claims[t], state |-> next])>>) :
                   next \in IF truth.claims[t] = "none" THEN {"Unclaimed"} ELSE Legal[truth.claims[t]]} :
                t \in Things}

\* retry_event: scheduled, dispatching, and exhausted for a task that is not
\* queued any more; a payload whose claim is gone is dropped without one.
RetryNews ==
    UNION {IF t \in truth.retries
           THEN {Told([truth EXCEPT !.retries = @ \ {t}], fs) : fs \in {<<Frame("retry_event", "dispatching")>>, <<>>}}
           ELSE {Told([truth EXCEPT !.retries = @ \cup {t}], <<Frame("retry_event", "scheduled")>>),
                 Told(truth, <<Frame("retry_event", "exhausted")>>)} : t \in Things}

ReceiptNews ==
    {Told([truth EXCEPT !.receipts = @ + 1, !.log = Newest(Stamp, @, LogCap)], <<Frame("receipt", Stamp)>>)}

LogNews == {Told([truth EXCEPT !.log = Newest(Stamp, @, LogCap)], <<Frame("log", Stamp)>>)}

LatestNews == {Told([truth EXCEPT !.latest = Stamp], <<Frame("latest", Stamp)>>)}

\* trigger: a line of the dialogue, while the loop runs.
Banter(t) == Told([t EXCEPT !.log = LastOf(Append(@, Stamp), LogCap)], <<Frame("chat_message", Stamp)>>)

ChatNews == IF loop THEN {Banter(truth)} ELSE {}

\* Topics open, stop and close, and messages of an open one stream.
DebateNews ==
    {Told([truth EXCEPT !.topics = Merge(@, [x \in {t} |-> "open"])], <<Frame("topic_opened", t)>>) :
        t \in Things \ DOMAIN truth.topics}
    \cup {Told([truth EXCEPT !.topics[t] = "stopped"], <<Frame("stopped", t)>>) :
        t \in {t \in DOMAIN truth.topics : truth.topics[t] = "open"}}
    \cup {Told([truth EXCEPT !.topics[t] = "closed"], <<Frame("topic_closed", t)>>) :
        t \in {t \in DOMAIN truth.topics : truth.topics[t] # "closed"}}
    \cup {Told([truth EXCEPT !.messages = ApplyMessageDelta(truth, m).messages], <<Frame("message_delta", m)>>) :
        m \in IF DOMAIN truth.topics = {} THEN {} ELSE Things}

NewsOf(kind) ==
    CASE kind = "telemetry" -> TelemetryNews [] kind = "hardware" -> HardwareNews
      [] kind = "tasks"     -> TaskNews      [] kind = "chairs"   -> ChairNews
      [] kind = "phases"    -> PhaseNews     [] kind = "claims"   -> ClaimNews
      [] kind = "retries"   -> RetryNews     [] kind = "receipts" -> ReceiptNews
      [] kind = "log"       -> LogNews       [] kind = "latest"   -> LatestNews
      [] kind = "chat"      -> ChatNews      [] kind = "debate"   -> DebateNews

\* In idle mode nothing happens but the coming and going of chairs.
Event ==
    /\ news < MaxNews /\ (mode = "active" \/ about = "chairs")
    /\ \E o \in NewsOf(about) : truth' = o.truth /\ Broadcast(lines, o.frames)
    /\ news' = Stamp /\ UNCHANGED <<about, loop, mode, page>>

-----------------------------------------------------------------------------
(* The chat switch and the two modes                                       *)

\* toggle_inter_agent_chat from some client: start speaks at once, unless it runs.
ToggleChat(on) ==
    /\ news < MaxNews /\ about = "chat" /\ mode = "active"
    /\ \E i \in DOMAIN lines : lines[i].state = "up"
    /\ LET t == [truth EXCEPT !.chat.enabled = on]
           said == IF on /\ ~loop THEN Banter(t) ELSE Told(t, <<>>)
       IN  /\ truth' = said.truth
           /\ Broadcast(lines, said.frames \o <<Frame("chat_state", t.chat)>>)
    /\ loop' = on
    /\ news' = Stamp /\ UNCHANGED <<about, mode, page>>

\* set_inter_agent_chat_mode: with the chat on, a line of the new dialogue follows.
SetChatMode(m) ==
    /\ news < MaxNews /\ about = "chat" /\ mode = "active"
    /\ \E i \in DOMAIN lines : lines[i].state = "up"
    /\ LET t == [truth EXCEPT !.chat.mode = m]
           said == IF t.chat.enabled THEN Banter(t) ELSE Told(t, <<>>)
       IN  truth' = said.truth /\ Broadcast(lines, <<Frame("chat_state", t.chat)>> \o said.frames)
    /\ news' = Stamp /\ UNCHANGED <<about, loop, mode, page>>

\* enterActiveMode, as far as it concerns the cockpit.
Woken == IF mode = "idle" /\ truth.chat.enabled THEN Banter(truth) ELSE Told(truth, <<>>)

\* noteActivity of somebody else: a task is injected, a route is used.
NoteActivity ==
    /\ mode = "idle" /\ mode' = "active"
    /\ truth' = Woken.truth /\ Broadcast(lines, Woken.frames)
    /\ loop' = truth.chat.enabled
    /\ UNCHANGED <<about, news, page>>

\* The sweep of the governor finds nobody connected and nothing going on.
EnterIdle ==
    /\ mode = "active" /\ mode' = "idle"
    /\ \A i \in DOMAIN lines : lines[i].state # "up"
    /\ \A t \in Things : truth.claims[t] \notin {"Claimed", "Running"}
    /\ \A t \in DOMAIN truth.topics : truth.topics[t] = "closed"
    /\ truth' = [truth EXCEPT !.telemetry = << >>, !.tasks = LastOf(@, IdleTasks), !.hardware = 0]
    /\ loop' = FALSE
    /\ UNCHANGED <<about, news, lines, page, missed>>

-----------------------------------------------------------------------------
(* The socket of the page                                                  *)

Open == Frame("open", 0)
Close == Frame("close", 0)

Dialled == [state |-> "dialing", frames |-> <<>>, mine |-> TRUE, whole |-> TRUE]

\* The timer of scheduleReconnect.
Redial ==
    /\ redial /\ redial' = FALSE
    /\ Len(lines) < MaxDials /\ lines' = Append(lines, Dialled)
    /\ UNCHANGED <<about, server, shown, buffer, missed>>

\* The upgrade is granted; that counts as activity before anything is sent, and
\* initializeBus sends what is cached in the same turn.
Accept(i) ==
    /\ lines[i].state = "dialing"
    /\ truth' = Woken.truth
    /\ lines' = [lines EXCEPT ![i].state = "up",
                              ![i].frames = <<Open>> \o Woken.frames \o Replay(Woken.truth)]
    /\ mode' = "active" /\ loop' = (loop \/ (mode = "idle" /\ truth.chat.enabled))
    /\ UNCHANGED <<about, news, page, missed>>

\* An upgrade that is refused is opened and closed at once; one that reaches
\* nobody fails.
Refuse(i) ==
    /\ lines[i].state = "dialing"
    /\ \E fs \in {<<Open, Close>>, <<Close>>} : lines' = [lines EXCEPT ![i].state = "down", ![i].frames = fs]
    /\ UNCHANGED <<about, server, page, missed>>

\* The connection is lost, with all that is sent or the last part of it.
Lose(i) ==
    /\ lines[i].state = "up"
    /\ \E n \in 0..Len(lines[i].frames) :
          /\ lines' = [lines EXCEPT ![i].state = "down", ![i].frames = SubSeq(@, 1, n) \o <<Close>>]
          /\ missed' = (missed \/ n < Len(lines[i].frames))
    /\ UNCHANGED <<about, server, page>>

\* onopen, onmessage and onclose; the first two do nothing for an effect that
\* was torn down.
Receive(i) ==
    /\ lines[i].frames # <<>>
    /\ LET f == Head(lines[i].frames)
           mine == lines[i].mine
       IN
       /\ lines' = [lines EXCEPT ![i].frames = Tail(@)]
       /\ redial' = (redial \/ (f.type = "close" /\ mine))
       /\ buffer' = IF ~mine THEN buffer
                    ELSE IF f.type = "telemetry" THEN EnqueueTelemetry(buffer, f.data)
                    ELSE IF f.type = "hardware_telemetry" THEN EnqueueHardware(buffer, f.data) ELSE buffer
       /\ shown' = IF f.type = "close" THEN [shown EXCEPT !.connected = FALSE]
                   ELSE IF ~mine THEN shown
                   ELSE IF f.type = "open" THEN [shown EXCEPT !.connected = TRUE] ELSE Apply(shown, f)
    /\ UNCHANGED <<about, server, missed>>

NothingBuffered == [telemetry |-> << >>, hardware |-> 0]

\* The interval of the pressure valve.
Flush ==
    /\ buffer # NothingBuffered
    /\ shown' = Flushed(shown, buffer) /\ buffer' = NothingBuffered
    /\ UNCHANGED <<about, server, lines, redial, missed>>

\* Fault: the cleanup leaves the timer running.
KeepTimeout == redial' = redial

\* The cleanup of the effect.
ClearTimeout == redial' = FALSE

\* The effect is torn down and run again, as React does under StrictMode: the
\* socket is closed, which its onclose will tell, and another one dialled.
Remount ==
    /\ TRUE \in Remounts /\ Len(lines) < MaxDials /\ \A i \in DOMAIN lines : lines[i].mine
    /\ lines' = Append([i \in DOMAIN lines |->
                          IF lines[i].state = "down" /\ lines[i].frames = <<>> THEN [lines[i] EXCEPT !.mine = FALSE]
                          ELSE [lines[i] EXCEPT !.state = "down", !.mine = FALSE, !.frames = <<Close>>]], Dialled)
    /\ ClearTimeout
    /\ missed' = (missed \/ \E i \in DOMAIN lines : lines[i].frames # <<>>)
    /\ UNCHANGED <<about, server, shown, buffer>>

-----------------------------------------------------------------------------

Empty == << >>

Init ==
    /\ about \in Kinds /\ news = 0 /\ loop = FALSE /\ mode = "active"
    /\ truth = [telemetry |-> Empty, merged |-> Empty, hardware |-> 0, tasks |-> <<>>,
                chairs |-> [a \in Agents |-> "absent"], cycles |-> [t \in Things |-> NoAgent],
                claims |-> [t \in Things |-> "none"], retries |-> {}, receipts |-> 0, log |-> <<>>,
                latest |-> 0, chat |-> [enabled |-> FALSE, mode |-> "interests"],
                topics |-> Empty, messages |-> <<>>]
    /\ shown = [connected |-> FALSE, telemetry |-> Empty, hardware |-> 0, tasks |-> <<>>, cards |-> {},
                chairs |-> [a \in Agents |-> "absent"], status |-> [a \in Agents |-> "online"],
                claims |-> [b \in Buckets |-> 0], retries |-> 0, receipts |-> 0, log |-> <<>>,
                latest |-> 0, chat |-> [enabled |-> FALSE, mode |-> "interests"],
                topics |-> Empty, messages |-> <<>>, runs |-> Empty]
    /\ lines = <<Dialled>> /\ redial = FALSE /\ buffer = NothingBuffered /\ missed = FALSE

Next ==
    \/ Event
    \/ \E on \in BOOLEAN : ToggleChat(on)
    \/ \E m \in {"technical", "interests"} : SetChatMode(m)
    \/ NoteActivity \/ EnterIdle
    \/ Redial \/ Flush \/ Remount
    \/ \E i \in DOMAIN lines : Accept(i) \/ Refuse(i) \/ Lose(i) \/ Receive(i)

Spec == Init /\ [][Next]_vars

-----------------------------------------------------------------------------
(* Properties                                                              *)

TypeOK ==
    /\ about \in Kinds /\ news \in 0..MaxNews /\ loop \in BOOLEAN /\ mode \in {"active", "idle"}
    /\ \A i \in DOMAIN lines : lines[i].state \in {"dialing", "up", "down"}
    /\ shown.claims \in [Buckets -> Nat] /\ shown.chairs \in [Agents -> Presences]
    /\ shown.status \in [Agents -> {"online", "dispatching"}]
    /\ redial \in BOOLEAN /\ missed \in BOOLEAN

\* The page has received and applied all that was sent to it, and nothing was
\* dropped on this socket.
CaughtUp ==
    /\ buffer = NothingBuffered
    /\ \E i \in DOMAIN lines : lines[i] = [state |-> "up", frames |-> <<>>, mine |-> TRUE, whole |-> TRUE]

\* What the replay repairs, whatever was missed before.
Repaired ==
    /\ \A k \in DOMAIN truth.telemetry : shown.telemetry[k] = truth.telemetry[k]
    /\ truth.hardware # 0 => shown.hardware = truth.hardware
    /\ ToSet(truth.tasks) \subseteq ToSet(shown.tasks)
    /\ about = "chat" => shown.chat = truth.chat
    /\ \A a \in Agents : truth.chairs[a] # "absent" => shown.chairs[a] = truth.chairs[a]
    /\ \A a \in Agents : shown.status[a] = "dispatching" => \E c \in Things : truth.cycles[c] = a

\* What is right only if no frame was ever missed.
Followed ==
    /\ shown.telemetry = truth.merged /\ shown.chairs = truth.chairs
    /\ \A b \in Buckets \ {"Released"} : shown.claims[b] = Cardinality({t \in Things : truth.claims[t] = b})
    /\ shown.receipts = truth.receipts /\ shown.log = truth.log /\ shown.latest = truth.latest
    /\ shown.messages = truth.messages /\ DOMAIN shown.topics = DOMAIN truth.topics
    /\ \A t \in DOMAIN shown.topics :
          /\ (shown.topics[t] = "closed") <=> (truth.topics[t] = "closed")
          /\ (shown.runs[t] = "finished") <=> (truth.topics[t] # "open")

\* A page that has caught up shows the truth: in what every new socket is sent
\* again always, through lost sockets, idle caches, lagging and a buffer that
\* outlives the socket; in all that is told once as long as it missed nothing.
ShownIsTrue == CaughtUp => (Repaired /\ (~missed => Followed))

\* The chat loop runs exactly while the switch is on and the mode is active.
LoopFollowsSwitch == loop <=> (truth.chat.enabled /\ mode = "active")

\* The page has one socket or one timer to dial it, never both nor two, and
\* says it is connected only while its socket is, or its end not yet told.
OneLine ==
    /\ LET open == {i \in DOMAIN lines : lines[i].mine /\ (lines[i].state # "down" \/ lines[i].frames # <<>>)}
       IN  Cardinality(open) + (IF redial THEN 1 ELSE 0) = 1
           /\ (shown.connected => open # {})
=============================================================================
