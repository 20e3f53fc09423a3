------------------------------ MODULE FrontDoor ------------------------------
(***************************************************************************)
(* The HTTP and WebSocket door of the orchestrator: HttpApiRouter with its *)
(* header deadlines, RateLimiter, ApiTokenGate, readJsonBody, the upgrade  *)
(* path of WebSocketBus, the SSE endpoint and the close of the server.     *)
(*                                                                         *)
(* A connection carries one request at a time: no client of the repository *)
(* pipelines.  Time passes in ticks; RateLimiter counts fractions of a     *)
(* token, so a token is worth Cost units and a tick refills one unit.  A   *)
(* request is known by its route, and by what the gate says of its token.  *)
(***************************************************************************)
EXTENDS Integers, Sequences, FiniteSets, SequencesExt

CONSTANTS
    Conns,       \* connections; each is opened at most once
    Keys,        \* client keys, as clientKey resolves them
    Gated,       \* KOVAEL_API_TOKEN is set
    Cost,        \* units of a token
    Capacity,    \* units a full bucket holds
    MaxEntries,  \* buckets kept
    MaxClients,  \* KOVAEL_WS_MAX_CLIENTS
    MinReadyChairs,
    MaxTime      \* ticks (a bound of the model)

Ungated == {"options", "probe", "handshake", "other"}
Limited == {"read", "write", "chairs"}   \* /api/v1/...
Noted == {"read", "write"}               \* neither /chairs nor /agent-runtimes
WithBody == {"write", "chairs"}

VARIABLES
    now,       \* ticks passed
    buckets,   \* RateLimiter.buckets, least recently used first
    conns,     \* the connections
    ready,     \* HealthEndpoints.ready
    door       \* the server: open, closing, or closed with its database

vars == <<now, buckets, conns, ready, door>>

\* at: new, open, ws, refused (an upgraded socket being closed), gone.
\* ask: none, reading (the body), handling, answered (not flushed), stream.
\* answers, status and noted are history: of the request that was asked last.
Fresh == [at |-> "new", ask |-> "none", deadline |-> FALSE, timer |-> FALSE, answers |-> 0, status |-> 0,
          noted |-> FALSE]

Refill(b) ==
    LET full == b.tokens + now - b.at
    IN  [b EXCEPT !.tokens = IF full > Capacity THEN Capacity ELSE full, !.at = now]

\* since, taken and told are history: when the bucket began, what it gave,
\* and when the last refusal said to come again.
NewBucket(k) == [key |-> k, tokens |-> Capacity, at |-> now, since |-> now, taken |-> 0, told |-> 0]

Known(k) == \E i \in DOMAIN buckets : buckets[i].key = k
Position(k) == CHOOSE i \in DOMAIN buckets : buckets[i].key = k
BucketOf(k) == buckets[Position(k)]
Others(k) == IF Known(k) THEN RemoveAt(buckets, Position(k)) ELSE buckets

\* touch: what the others are when k becomes the most recently used.
Kept(k) == IF ~Known(k) /\ Len(buckets) >= MaxEntries THEN Tail(buckets) ELSE Others(k)

Touched(k) == IF Known(k) THEN Refill(BucketOf(k)) ELSE NewBucket(k)
Allowed(k) == Touched(k).tokens >= Cost

\* Math.max(1, Math.ceil(deficit / refillPerSec)), refillPerSec being 1 a tick.
RetryAfter(b) == Cost - b.tokens

Given(b) == [b EXCEPT !.tokens = @ - Cost, !.taken = @ + Cost, !.told = 0]
Refused(b, wait) == [b EXCEPT !.told = now + wait]

\* Fault: a refill does not move lastRefillMs.
ConsumeRefillsTwice(k) ==
    LET b == [Touched(k) EXCEPT !.at = IF Known(k) THEN BucketOf(k).at ELSE now]
    IN  buckets' = Append(Kept(k), IF Allowed(k) THEN Given(b) ELSE Refused(b, RetryAfter(b)))

\* RateLimiter.consume.
Consume(k) ==
    LET b == Touched(k)
    IN  buckets' = Append(Kept(k), IF Allowed(k) THEN Given(b) ELSE Refused(b, RetryAfter(b)))

Authorised == IF Gated THEN BOOLEAN ELSE {TRUE}

-----------------------------------------------------------------------------
(* The router                                                              *)

\* The answer is written at once; finish comes when it is flushed.
Answering(c, status) == [conns[c] EXCEPT !.ask = "answered", !.deadline = FALSE, !.answers = 1,
                                         !.status = status, !.noted = FALSE]
Busy(c, ask) == [conns[c] EXCEPT !.ask = ask, !.deadline = FALSE, !.timer = ask = "reading",
                                 !.answers = 0, !.status = 0, !.noted = FALSE]

\* connection: the first headers are waited for.
Connect(c) ==
    /\ door = "open" /\ conns[c].at = "new"
    /\ conns' = [conns EXCEPT ![c] = [@ EXCEPT !.at = "open", !.deadline = TRUE]]
    /\ UNCHANGED <<now, buckets, ready, door>>

\* The deadline of the headers passes.
CutSilent(c) ==
    /\ conns[c].at = "open" /\ conns[c].deadline
    /\ conns' = [conns EXCEPT ![c] = [@ EXCEPT !.at = "gone", !.deadline = FALSE]]
    /\ UNCHANGED <<now, buckets, ready, door>>

Asking(c) == conns[c].at = "open" /\ conns[c].ask = "none"

\* Preflight, probes, the handshake and unknown paths: neither limited nor gated.
\* chairs are those online.
AskUngated(c) ==
    /\ Asking(c)
    /\ \E route \in Ungated, chairs \in 0..MinReadyChairs :
        conns' = [conns EXCEPT ![c] =
            CASE route = "options"   -> Answering(c, 204)
              [] route = "probe"     -> Answering(c, IF ready /\ chairs >= MinReadyChairs THEN 200 ELSE 503)
              [] route = "handshake" -> Busy(c, "stream")
              [] OTHER               -> Answering(c, 404)]
    /\ UNCHANGED <<now, buckets, ready, door>>

AskMetrics(c) ==
    /\ Asking(c)
    /\ \E ok \in Authorised : conns' = [conns EXCEPT ![c] = Answering(c, IF ok THEN 200 ELSE 401)]
    /\ UNCHANGED <<now, buckets, ready, door>>

\* What a request to /api/v1 that passed both checks starts.
Handled(c, route) ==
    [(IF route \in WithBody THEN Busy(c, "reading") ELSE Answering(c, 200)) EXCEPT !.noted = route \in Noted]

\* /api/v1: the rate limit first, then the token, then the activity is noted.
AskApi(c) ==
    /\ Asking(c)
    /\ \E route \in Limited, k \in Keys, ok \in Authorised :
        /\ Consume(k)
        /\ conns' = [conns EXCEPT ![c] = IF ~Allowed(k) THEN Answering(c, 429)
                                         ELSE IF ~ok THEN Answering(c, 401) ELSE Handled(c, route)]
    /\ UNCHANGED <<now, ready, door>>

\* The finish of the response: the next headers are waited for.
Flushed(c) ==
    /\ conns[c].ask = "answered"
    /\ conns' = [conns EXCEPT ![c] = [@ EXCEPT !.ask = "none", !.deadline = conns[c].at = "open"]]
    /\ UNCHANGED <<now, buckets, ready, door>>

\* The client, or the keep-alive timeout of the server, ends the connection.
\* A handler that runs goes on, and its answer goes nowhere.
Leaves(c) ==
    /\ conns[c].at \in {"open", "ws", "refused"}
    /\ LET ask == IF conns[c].ask = "stream" THEN "none" ELSE conns[c].ask
       IN  conns' = [conns EXCEPT ![c] = [@ EXCEPT !.at = "gone", !.deadline = FALSE, !.ask = ask]]
    /\ UNCHANGED <<now, buckets, ready, door>>

-----------------------------------------------------------------------------
(* readJsonBody: done is what ask = "reading" stands for                   *)

Answer(c, status, at) ==
    LET more == conns[c].answers + 1
    IN  conns' = [conns EXCEPT ![c] = [@ EXCEPT !.ask = "answered", !.timer = FALSE, !.answers = more,
                                                !.status = status, !.at = at]]

BodyEnds(c) ==
    /\ conns[c].at = "open" /\ conns[c].ask = "reading"
    /\ \/ conns' = [conns EXCEPT ![c] = [@ EXCEPT !.ask = "handling", !.timer = FALSE]]
       \/ Answer(c, 400, "open")
    /\ UNCHANGED <<now, buckets, ready, door>>

BodyTooLarge(c) ==
    /\ conns[c].at = "open" /\ conns[c].ask = "reading"
    /\ Answer(c, 413, "gone")
    /\ UNCHANGED <<now, buckets, ready, door>>

BodyTimesOut(c) ==
    /\ conns[c].timer
    /\ Answer(c, 408, "gone")
    /\ UNCHANGED <<now, buckets, ready, door>>

\* error, when the client is gone: the answer is written to a dead socket.
BodyErrors(c) ==
    /\ conns[c].at = "gone" /\ conns[c].ask = "reading"
    /\ Answer(c, 400, "gone")
    /\ UNCHANGED <<now, buckets, ready, door>>

\* The route's handler, whether the client is still there or not.
HandlerAnswers(c) ==
    /\ conns[c].ask = "handling"
    /\ Answer(c, 200, conns[c].at)
    /\ UNCHANGED <<now, buckets, ready, door>>

-----------------------------------------------------------------------------
(* The upgrade path of WebSocketBus                                        *)

Upgraded == {c \in Conns : conns[c].at \in {"ws", "refused"}}

\* Rate limit, origin, cap and token, in this order.  A socket that is refused
\* is upgraded to be told why, and counts as a client until it is closed.
Upgrade(c) ==
    /\ Asking(c)
    /\ \E k \in Keys, sameOrigin \in BOOLEAN, ok \in Authorised :
        /\ Consume(k)
        /\ LET at == IF door # "open" THEN "gone"
                     ELSE IF Allowed(k) /\ sameOrigin /\ Cardinality(Upgraded) < MaxClients /\ ok
                          THEN "ws" ELSE "refused"
           IN  conns' = [conns EXCEPT ![c] = [@ EXCEPT !.deadline = FALSE, !.status = 0, !.at = at]]
    /\ UNCHANGED <<now, ready, door>>

-----------------------------------------------------------------------------
(* Readiness, and the end                                                  *)

SetReady ==
    /\ ~ready
    /\ ready' = TRUE
    /\ UNCHANGED <<now, buckets, conns, door>>

\* MeshOrchestrator.close: the deadlines are cleared, new connections refused.
Close ==
    /\ door = "open" /\ ready
    /\ door' = "closing"
    /\ conns' = [c \in Conns |-> [conns[c] EXCEPT !.deadline = FALSE]]
    /\ UNCHANGED <<now, buckets, ready>>

Connected == {c \in Conns : conns[c].at \in {"open", "ws", "refused"}}

\* The callback of server.close: no connection is left.
CloseDatabase ==
    /\ door = "closing" /\ Connected = {}
    /\ door' = "closed"
    /\ UNCHANGED <<now, buckets, conns, ready>>

Tick ==
    /\ now < MaxTime
    /\ now' = now + 1
    /\ UNCHANGED <<buckets, conns, ready, door>>

Init ==
    /\ now = 0
    /\ buckets = << >>
    /\ conns = [c \in Conns |-> Fresh]
    /\ ready = FALSE
    /\ door = "open"

Next ==
    \/ \E c \in Conns :
        \/ Connect(c)
        \/ CutSilent(c)
        \/ AskUngated(c)
        \/ AskMetrics(c)
        \/ AskApi(c)
        \/ Flushed(c)
        \/ Leaves(c)
        \/ BodyEnds(c)
        \/ BodyTooLarge(c)
        \/ BodyTimesOut(c)
        \/ BodyErrors(c)
        \/ HandlerAnswers(c)
        \/ Upgrade(c)
    \/ SetReady
    \/ Close
    \/ CloseDatabase
    \/ Tick

Spec == Init /\ [][Next]_vars

-----------------------------------------------------------------------------
(* Properties                                                              *)

\* A bucket never gives more than it held at first and was refilled with
\* since, whatever the order in which clients come and buckets are evicted.
RateIsBounded ==
    \A i \in DOMAIN buckets : buckets[i].taken + buckets[i].tokens <= Capacity + buckets[i].at - buckets[i].since

\* A client that was refused and comes again when Retry-After says is served.
RetryAfterIsEnough ==
    \A i \in DOMAIN buckets :
        buckets[i].told \in 1..now => buckets[i].tokens + now - buckets[i].at >= Cost

\* A request is answered at most once, by whichever of its body, its timer,
\* its errors and its handler comes first, and one that was limited or
\* refused notes no activity.
AnsweredOnce ==
    \A c \in Conns :
        /\ conns[c].answers <= 1
        /\ conns[c].timer => conns[c].ask = "reading"
        /\ conns[c].noted => conns[c].status \notin {401, 429}

\* A deadline runs for exactly the connections whose next headers are awaited.
DeadlineWatchesSilence ==
    door = "open" => \A c \in Conns : conns[c].deadline <=> conns[c].at = "open" /\ conns[c].ask = "none"

\* No more sockets are served than the cap allows, refused ones counted or not.
ClientsAreCapped == Cardinality({c \in Conns : conns[c].at = "ws"}) <= MaxClients

\* The database outlives every request whose client is still connected.
DatabaseOutlivesClients == door = "closed" => \A c \in Conns : conns[c].at \notin {"open", "ws"}
=============================================================================
