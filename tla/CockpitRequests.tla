--------------------------- MODULE CockpitRequests ---------------------------
(***************************************************************************)
(* The cockpit's HTTP requests about agent runtimes: the status snapshots  *)
(* that SpatialWarRoom polls, and asks for when its socket opens and after *)
(* each lifecycle request; the start, stop and restart buttons of          *)
(* AgentRosterPanel; the routes that answer them, and what the supervisor  *)
(* makes of each.  Requests and answers are under way for as long as they  *)
(* like, in any order, and may fail on the way.                            *)
(*                                                                         *)
(* The supervisor is reduced to the state it reports of each agent; the    *)
(* module RuntimeSupervisor has the rest.  One snapshot for an opened      *)
(* socket is under way at a time.                                          *)
(***************************************************************************)
EXTENDS Integers, FiniteSets

CONSTANTS
    Agents,
    MaxChanges    \* changes of the server (a bound of the model)

Actions == {"start", "stop", "restart"}
Managed(s) == s \in {"running", "stopping"}

\* Who waits for a snapshot: the poll, the opened socket, or the lifecycle
\* request of an agent.
Reads == {"poll", "open"} \cup Agents

VARIABLES
    server,    \* version, and agent |-> state
    read,      \* who |-> stage: none, sent, or answered, and the snapshot
    request,   \* agent |-> stage: none, sent, answered or refreshing; action; error; version
    shown,     \* the view of the snapshot that is shown; version -1 for none
    pending,   \* pendingLifecycleActions
    errors     \* agents with an entry in lifecycleErrors

vars == <<server, read, request, shown, pending, errors>>

Nothing == [version |-> -1, states |-> [a \in Agents |-> "stopped"]]

\* normalizeRuntimeStatus: an adapter that exited is shown as stopped.
Normalized(s) == IF s = "exited" THEN "stopped" ELSE s

\* normalizeAgentRuntimeSnapshot.
View(snap) == [snap EXCEPT !.states = [a \in Agents |-> Normalized(@[a])]]

NoRead == [stage |-> "none", snap |-> Nothing]
Asked == [stage |-> "sent", snap |-> Nothing]
NoRequest == [stage |-> "none", action |-> "none", error |-> FALSE, version |-> 0]

Becomes(a, s) == [version |-> server.version + 1, states |-> [server.states EXCEPT ![a] = s]]

-----------------------------------------------------------------------------
(* The server                                                              *)

\* Adapters are parked and woken with the governor, exit and are killed.
ServerChanges(a) ==
    /\ server.version < MaxChanges
    /\ \E s \in (CASE server.states[a] = "running"  -> {"stopping", "exited", "failed"}
                   [] server.states[a] = "stopping" -> {"exited"}
                   [] OTHER                         -> {"running", "failed"}) :
        server' = Becomes(a, s)
    /\ UNCHANGED <<read, request, shown, pending, errors>>

\* What startAgent, stopAgent and restartAgent leave behind.  A busy adapter is
\* neither stopped nor restarted; a child that does not start is no error.
Outcomes(a, action) ==
    LET s == server.states[a]
        spawned == {[state |-> "running", error |-> FALSE], [state |-> "failed", error |-> FALSE]}
        busy == IF Managed(s) THEN {[state |-> s, error |-> TRUE]} ELSE {}
    IN  CASE action = "start"   -> IF Managed(s) THEN {[state |-> s, error |-> FALSE]} ELSE spawned
          [] action = "stop"    -> {[state |-> IF Managed(s) THEN "stopping" ELSE "stopped", error |-> FALSE]} \cup busy
          [] action = "restart" -> spawned \cup busy

\* handleAgentRuntimeRequest.
ServerHandles(a) ==
    /\ request[a].stage = "sent" /\ server.version < MaxChanges
    /\ \E out \in Outcomes(a, request[a].action) :
        /\ server' = Becomes(a, out.state)
        /\ request' = [request EXCEPT ![a] = [@ EXCEPT !.stage = "answered", !.error = out.error,
                                                       !.version = server'.version]]
    /\ UNCHANGED <<read, shown, pending, errors>>

\* handleStateSnapshot.
ServerReads(k) ==
    /\ read[k].stage = "sent"
    /\ read' = [read EXCEPT ![k] = [stage |-> "answered", snap |-> server]]
    /\ UNCHANGED <<server, request, shown, pending, errors>>

-----------------------------------------------------------------------------
(* Snapshots                                                               *)

\* The interval of the poll: the one before is aborted.
Poll ==
    /\ read' = [read EXCEPT !["poll"] = Asked]
    /\ UNCHANGED <<server, request, shown, pending, errors>>

\* onopen of the socket.
Open ==
    /\ read["open"].stage = "none"
    /\ read' = [read EXCEPT !["open"] = Asked]
    /\ UNCHANGED <<server, request, shown, pending, errors>>

\* requestAgentLifecycle ends with its refresh, whether that succeeded or not.
RequestEnds(k) ==
    IF k \in Agents THEN /\ request' = [request EXCEPT ![k] = NoRequest]
                         /\ pending' = [pending EXCEPT ![k] = "none"]
    ELSE UNCHANGED <<request, pending>>

\* applyStateSnapshot, whatever came before it.
ReadArrives(k) ==
    /\ read[k].stage = "answered"
    /\ read' = [read EXCEPT ![k] = NoRead]
    /\ shown' = View(read[k].snap)
    /\ RequestEnds(k)
    /\ UNCHANGED <<server, errors>>

\* A snapshot that fails is passed over.
ReadFails(k) ==
    /\ read[k].stage # "none"
    /\ read' = [read EXCEPT ![k] = NoRead]
    /\ RequestEnds(k)
    /\ UNCHANGED <<server, shown, errors>>

-----------------------------------------------------------------------------
(* Lifecycle requests                                                      *)

\* lifecycleDisabledReason is null.
Offered(a, action) ==
    /\ pending[a] = "none" /\ shown # Nothing
    /\ shown.states[a] # "stopping"
    /\ action = "start" => ~Managed(shown.states[a])
    /\ action = "stop" => Managed(shown.states[a])

\* requestAgentLifecycle, as far as its first await.
Click(a) ==
    /\ \E action \in Actions :
        /\ Offered(a, action)
        /\ request' = [request EXCEPT ![a] = [NoRequest EXCEPT !.stage = "sent", !.action = action]]
        /\ pending' = [pending EXCEPT ![a] = action]
    /\ errors' = errors \ {a}
    /\ UNCHANGED <<server, read, shown>>

Ends(a) ==
    /\ request' = [request EXCEPT ![a] = NoRequest]
    /\ pending' = [pending EXCEPT ![a] = "none"]

\* An answer that is good has nothing of a snapshot in it: one is asked for.
Refresh(a) ==
    /\ request[a].stage = "answered" /\ ~request[a].error
    /\ request' = [request EXCEPT ![a].stage = "refreshing"]
    /\ read' = [read EXCEPT ![a] = Asked]
    /\ UNCHANGED <<server, shown, pending, errors>>

\* An answer that is an error, or none: the request may have been handled.
RequestFails(a) ==
    /\ request[a].stage \in {"sent", "answered"}
    /\ errors' = errors \cup {a}
    /\ Ends(a)
    /\ UNCHANGED <<server, read, shown>>

-----------------------------------------------------------------------------
Init ==
    /\ server = [version |-> 0, states |-> [a \in Agents |-> "running"]]
    /\ read = [k \in Reads |-> NoRead]
    /\ request = [a \in Agents |-> NoRequest]
    /\ shown = Nothing
    /\ pending = [a \in Agents |-> "none"]
    /\ errors = {}

Next ==
    \/ Poll
    \/ Open
    \/ \E k \in Reads : ServerReads(k) \/ ReadArrives(k) \/ ReadFails(k)
    \/ \E a \in Agents : ServerChanges(a) \/ ServerHandles(a) \/ Click(a) \/ Refresh(a) \/ RequestFails(a)

\* The interval fires; a poll that is repeated for ever is answered, and its
\* answer arrives before the next one, now and then.
Fairness == WF_vars(Poll) /\ SF_vars(ServerReads("poll")) /\ SF_vars(ReadArrives("poll"))

Spec == Init /\ [][Next]_vars /\ Fairness

-----------------------------------------------------------------------------
(* Properties                                                              *)

\* A button is pending for exactly as long as a request of its agent is under
\* way, with the refresh that follows it, and an error is shown for no agent
\* with a request under way.
PendingIsInFlight ==
    \A a \in Agents :
        /\ pending[a] = request[a].action
        /\ request[a].stage = "refreshing" <=> read[a].stage # "none"
        /\ a \in errors => request[a].stage = "none"

\* The snapshot that ends a lifecycle request was taken after it was handled:
\* when the button is free again, what it did is shown, unless the snapshot
\* failed.
RefreshStep ==
    \A a \in Agents :
        request[a].stage # "none" /\ request'[a].stage = "none" /\ shown' # shown /\ a \notin errors'
        => shown'.version >= request[a].version

OwnRefreshIsFresh == [][RefreshStep]_vars

\* Whatever snapshots overtake each other, when the server comes to rest the
\* cockpit comes to show what it is.
CaughtUp == shown = View(server)

CockpitCatchesUp == <>[]CaughtUp
=============================================================================
