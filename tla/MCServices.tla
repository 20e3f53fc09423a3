----------------------------- MODULE MCServices -----------------------------
(***************************************************************************)
(* The services of the host that share no state with one another, checked  *)
(* in one run: a behaviour is one of one service, which its first state    *)
(* chooses for good.  x1, x2, ... are the variables of that service, in    *)
(* the order of its module; those it has no use for stay None.             *)
(***************************************************************************)
EXTENDS Integers, Sequences, FiniteSets

CONSTANTS
    \* TriadCycle
    MaxCycles, Primaries, Fallbacks, MaxPerWindow, Window, MaxActive, RingCapacity, IdleTraces, RoleEnds,
    \* VramGate
    FreeLevels, Floors, IdleAfter,
    \* CockpitFeed
    NewsKinds, Speakers, Things, NoAgent, MaxNews, MaxDials, MaxBehind, Remounts, TaskCap, LogCap, IdleTasks,
    \* FrontDoor
    Conns, ClientKeys, Gated, Cost, Capacity, MaxBuckets, MaxClients, MinReadyChairs, MaxTicks,
    \* YamlSubset, ConfigFiles
    Indents, KeyNames, MaxDocument, PersonaFiles, Personas, Settings, MaxWrites,
    \* LogSink, SelfHeal
    MaxQueue, MaxBatch, MaxBytes, MaxFiles, MaxLogged, Receipts, Fitting, MaxAttempts, CommitOnGreen,
    \* HostStorage
    MaxLearnt, MaxRewrites, MaxEnded,
    \* Committee
    Outsiders, Confidences, Weights, Thresholds, MaxVotes,
    \* CockpitRequests
    Adapters, MaxChanges,
    \* HubUpgrade, Ledgers, RuntimeChild
    Procs, HubSecrets, NoSecret, Rows, NumColumns, MaxOpens,
    Requests, MemoryKeys, Limit, Ttl, Retention, MaxRows, MaxClock,
    Runs, Runtimes, OutputLimit, MaxOutput,
    \* PortraitRender, SealedExchange
    Portraits, DispatchSecrets, ClockWindow, MaxTries, MaxPosts,
    DispatchTimeout, ReplyTimeout, MaxRest, MaxInstant

\* What sizes, times, columns and the numbers of a vote are, that connections, agents and what they
\* work on are finitely many, and
\* that no name stands for one that is missing, or for another kind of read.
ASSUME ServicesAssumption ==
    /\ {MaxPerWindow, Window, RingCapacity, IdleTraces, Cost, Capacity, MaxClients} \subseteq Nat
    /\ {IdleAfter, MaxOutput, NumColumns, MaxOpens, MaxFiles, MaxLearnt, MaxRows, Limit, Retention,
        ClockWindow, MaxInstant, DispatchTimeout, ReplyTimeout, MaxRest,
        MaxNews, MaxBehind, TaskCap, IdleTasks} \subseteq Nat
    /\ {MaxActive, MaxQueue, MaxClock, MaxTries, MaxPosts, MaxBuckets} \subseteq Nat \ {0}
    /\ IsFiniteSet(Conns) /\ IsFiniteSet(Speakers) /\ IsFiniteSet(Things) /\ NoAgent \notin Speakers
    /\ NewsKinds \subseteq {"telemetry", "hardware", "tasks", "chairs", "phases", "claims", "retries",
                            "receipts", "log", "latest", "chat", "debate"}
    /\ "poll" \notin Adapters /\ "open" \notin Adapters
    /\ NoSecret \notin HubSecrets
    /\ Confidences \cup Weights \cup Thresholds \subseteq Int /\ Indents \subseteq Nat
    /\ "none" \notin PersonaFiles /\ "absent" \notin Personas /\ "broken" \notin Settings

VARIABLES service, x1, x2, x3, x4, x5, x6, x7, x8, x9, x10, x11, x12, x13

vars == <<service, x1, x2, x3, x4, x5, x6, x7, x8, x9, x10, x11, x12, x13>>

\* Two files outside the working directory that have one basename.
Indexed == <<"x/a.md", "y/a.md">>
StoredAs == [f \in {"x/a.md", "y/a.md"} |-> "a.md"]

Participants == <<"p1", "p2">>

\* The host's clock is behind or ahead of the adapter's, a little or a lot.
HostSkews == {-5, -1, 0, 5}

TC == INSTANCE TriadCycle WITH
    run <- x1, receipts <- x2, issued <- x3, active <- x4, windows <- x5,
    sent <- x6, config <- x7, mode <- x8, tracing <- x9, spans <- x10,
    ring <- x11
VG == INSTANCE VramGate WITH
    gate <- x1, floor <- x2, cache <- x3, poll <- x4, mode <- x5, quiet <- x6
CF == INSTANCE CockpitFeed WITH
    about <- x1, news <- x2, truth <- x3, loop <- x4, mode <- x5,
    lines <- x6, redial <- x7, shown <- x8, buffer <- x9, missed <- x10,
    Agents <- Speakers, Kinds <- NewsKinds
FD == INSTANCE FrontDoor WITH
    now <- x1, buckets <- x2, conns <- x3, ready <- x4, door <- x5,
    MaxEntries <- MaxBuckets, MaxTime <- MaxTicks, Keys <- ClientKeys
YS == INSTANCE YamlSubset WITH
    doc <- x1, MaxLines <- MaxDocument
CO == INSTANCE ConfigFiles WITH
    edits <- x1, disk <- x2, pending <- x3, cache <- x4, flow <- x5,
    seen <- x6, current <- x7, lastError <- x8, applied <- x9,
    watching <- x10, Files <- PersonaFiles, Agents <- Personas,
    MaxEdits <- MaxWrites
LS == INSTANCE LogSink WITH
    next <- x1, queue <- x2, files <- x3, bytes <- x4, dropped <- x5,
    process <- x6, MaxLines <- MaxLogged
SH == INSTANCE SelfHeal WITH
    tree <- x1, index <- x2, head <- x3, at <- x4, attempt <- x5
HS == INSTANCE HostStorage WITH
    stage <- x1, at <- x2, schema <- x3, versions <- x4, texts <- x5,
    anchors <- x6, matrix <- x7, cycles <- x8, edits <- x9, Files <- Indexed,
    MaxEntries <- MaxLearnt, MaxEdits <- MaxRewrites, MaxCycles <- MaxEnded
CM == INSTANCE Committee WITH
    votes <- x1, quorumOption <- x2, failureOption <- x3, Others <- Outsiders
CR == INSTANCE CockpitRequests WITH
    server <- x1, read <- x2, request <- x3, shown <- x4, pending <- x5,
    errors <- x6, Agents <- Adapters
HU == INSTANCE HubUpgrade WITH
    version <- x1, salt <- x2, columns <- x3, made <- x4, rows <- x5,
    pc <- x6, prior <- x7, key <- x8, at <- x9, missing <- x10, todo <- x11,
    opens <- x12, Secrets <- HubSecrets
LE == INSTANCE Ledgers WITH
    now <- x1, messages <- x2, receipts <- x3, memory <- x4, appended <- x5,
    written <- x6, MaxTime <- MaxClock
RC == INSTANCE RuntimeChild WITH
    runtime <- x1, allowed <- x2, child <- x3, wrote <- x4, last <- x5,
    code <- x6, timer <- x7, awaits <- x8, outcome <- x9
PR == INSTANCE PortraitRender WITH
    enabled <- x1, asked <- x2, awaits <- x3, timer <- x4, queued <- x5,
    reply <- x6
SE == INSTANCE SealedExchange WITH
    now <- x1, skew <- x2, hostSecret <- x3, inboxSecret <- x4, host <- x5,
    letter <- x6, tries <- x7, hostAge <- x8, inbox <- x9, answer <- x10,
    posts <- x11, inboxAge <- x12, refused <- x13, Skews <- HostSkews

-----------------------------------------------------------------------------
None == 0
rest13 == x13
rest12 == <<x12, x13>>
rest11 == <<x11, x12, x13>>
rest10 == <<x10, x11, x12, x13>>
rest7 == <<x7, x8, x9, x10, x11, x12, x13>>
rest6 == <<x6, x7, x8, x9, x10, x11, x12, x13>>
rest4 == <<x4, x5, x6, x7, x8, x9, x10, x11, x12, x13>>
rest2 == <<x2, x3, x4, x5, x6, x7, x8, x9, x10, x11, x12, x13>>
Unused13 == x13 = None
Unused12 == x12 = None /\ Unused13
Unused11 == x11 = None /\ Unused12
Unused10 == x10 = None /\ Unused11
Unused7 == x7 = None /\ x8 = None /\ x9 = None /\ Unused10
Unused6 == x6 = None /\ Unused7
Unused4 == x4 = None /\ x5 = None /\ Unused6
Unused2 == x2 = None /\ x3 = None /\ Unused4

Init ==
    \/ service = "triad" /\ TC!Init /\ Unused12
    \/ service = "vram" /\ VG!Init /\ Unused7
    \/ service = "feed" /\ CF!Init /\ Unused11
    \/ service = "door" /\ FD!Init /\ Unused6
    \/ service = "yaml" /\ YS!Init /\ Unused2
    \/ service = "config" /\ CO!Init /\ Unused11
    \/ service = "sink" /\ LS!Init /\ Unused7
    \/ service = "healer" /\ SH!Init /\ Unused6
    \/ service = "storage" /\ HS!Init /\ Unused10
    \/ service = "committee" /\ CM!Init /\ Unused4
    \/ service = "requests" /\ CR!Init /\ Unused7
    \/ service = "hub" /\ HU!Init /\ Unused13
    \/ service = "ledgers" /\ LE!Init /\ Unused7
    \/ service = "child" /\ RC!Init /\ Unused10
    \/ service = "portraits" /\ PR!Init /\ Unused7
    \/ service = "exchange" /\ SE!Init

Next ==
    \/ service = "triad" /\ TC!Next /\ UNCHANGED <<service, rest12>>
    \/ service = "vram" /\ VG!Next /\ UNCHANGED <<service, rest7>>
    \/ service = "feed" /\ CF!Next /\ UNCHANGED <<service, rest11>>
    \/ service = "door" /\ FD!Next /\ UNCHANGED <<service, rest6>>
    \/ service = "yaml" /\ YS!Next /\ UNCHANGED <<service, rest2>>
    \/ service = "config" /\ CO!Next /\ UNCHANGED <<service, rest11>>
    \/ service = "sink" /\ LS!Next /\ UNCHANGED <<service, rest7>>
    \/ service = "healer" /\ SH!Next /\ UNCHANGED <<service, rest6>>
    \/ service = "storage" /\ HS!Next /\ UNCHANGED <<service, rest10>>
    \/ service = "committee" /\ CM!Next /\ UNCHANGED <<service, rest4>>
    \/ service = "requests" /\ CR!Next /\ UNCHANGED <<service, rest7>>
    \/ service = "hub" /\ HU!Next /\ UNCHANGED <<service, rest13>>
    \/ service = "ledgers" /\ LE!Next /\ UNCHANGED <<service, rest7>>
    \/ service = "child" /\ RC!Next /\ UNCHANGED <<service, rest10>>
    \/ service = "portraits" /\ PR!Next /\ UNCHANGED <<service, rest7>>
    \/ service = "exchange" /\ SE!Next /\ UNCHANGED service

\* What the services that run for ever owe; see the Fairness of their modules.
Fairness ==
    /\ \A f \in PersonaFiles : WF_vars(service = "config" /\ CO!Reload(f) /\ UNCHANGED <<service, rest11>>)
    /\ WF_vars(service = "config" /\ CO!Look /\ UNCHANGED <<service, rest11>>)
    /\ WF_vars(service = "config" /\ CO!ReloadWorkflow /\ UNCHANGED <<service, rest11>>)
    /\ WF_vars(service = "requests" /\ CR!Poll /\ UNCHANGED <<service, rest7>>)
    /\ SF_vars(service = "requests" /\ CR!ServerReads("poll") /\ UNCHANGED <<service, rest7>>)
    /\ SF_vars(service = "requests" /\ CR!ReadArrives("poll") /\ UNCHANGED <<service, rest7>>)
    /\ \A r \in Runs :
       /\ WF_vars(service = "child" /\ (RC!AnswerAtOnce(r) \/ RC!Spawn(r)) /\ UNCHANGED <<service, rest10>>)
       /\ WF_vars(service = "child" /\ RC!TimesOut(r) /\ UNCHANGED <<service, rest10>>)
       /\ WF_vars(service = "child" /\ RC!ChildCloses(r, -1) /\ UNCHANGED <<service, rest10>>)
    /\ \A p \in Portraits : WF_vars(service = "portraits" /\ PR!TimesOut(p) /\ UNCHANGED <<service, rest7>>)

Spec == Init /\ [][Next]_vars /\ Fairness

-----------------------------------------------------------------------------
(* Properties.  Each names the services it is about; the properties of      *)
(* their modules are stated there.                                         *)

\* consumeRateLimit and nextArchitect: a primary architect is called at most
\* maxPerWindow times in any closed window, however chat cycles, the clock and
\* reloads of the personas interleave.
WindowHolds == service = "triad" => TC!WindowHolds

\* A chat cycle is accounted for whoever throws where: its receipt is stored
\* and announced exactly if its task is told that it returned, with the whole
\* legal trail; and its trace holds one span for each role that was awaited.
CycleIsWhole == service = "triad" => TC!TypeOK /\ TC!ReceiptAccounts /\ TC!TraceIsWhole

\* The page has one socket or one timer to dial it, through lost and refused
\* sockets and remounts, and says it is connected only while it is; the chat
\* loop runs while its switch is on and the mode is active; and a button waits
\* exactly while its request is in flight.
CockpitIsTrue ==
    /\ service = "feed" => CF!TypeOK /\ CF!OneLine /\ CF!LoopFollowsSwitch
    /\ service = "requests" => CR!PendingIsInFlight

\* No key gets more through the rate limiter than its bucket refills, one that
\* comes back after Retry-After is served, a request is answered once, and the
\* database closes only after the requests and sockets that use it.
DoorIsFair ==
    service = "door" =>
        /\ FD!RateIsBounded /\ FD!RetryAfterIsEnough /\ FD!AnsweredOnce
        /\ FD!DeadlineWatchesSilence /\ FD!ClientsAreCapped /\ FD!DatabaseOutlivesClients

\* What is in use is the newest that could be read: a persona cached has a file
\* that says so, the last workflow that parsed is the one applied, and the VRAM
\* gate answers by the reading that is on display.
CachesAreCurrent ==
    /\ service = "config" => CO!CachedHasFile /\ CO!QuietIsLoaded /\ CO!LastGoodIsApplied
    /\ service = "vram" => VG!TypeOK /\ VG!GateFollowsCache

\* What is stored is right wherever a process was cut off: migrations, anchors
\* and learning of the host, the backfill and the salt of the hub under two
\* processes that open it at once, histories and receipt chains under pruning,
\* and the order of the lines of the log.
StoresAreSound ==
    /\ service = "storage" => HS!SchemaMatchesVersions /\ HS!OneAnchorPerPath /\ HS!MatrixIsNewest
    /\ service = "hub" => HU!TypeOK /\ HU!StampedIsFilled /\ HU!OneSalt
    /\ service = "ledgers" => LE!TypeOK /\ LE!HistoryIsTail /\ LE!ChainIsWhole
    /\ service = "sink" => LS!LinesAreInOrder

\* What many votes, lines or frames come to is what they say: an accepted
\* proposal has the weight, the mean and the votes that its quorum asks for, and
\* one more sure approval never turns it down (tally of the ConsensusEngine);
\* the nesting that the parser of the front matter returns is that of the
\* lines; and a page that has applied all that was sent to it shows what the
\* host knows, after lost sockets, idle caches and dropped frames.
SumsAreTrue ==
    /\ service = "committee" => CM!AcceptedHasQuorum /\ CM!ApprovalNeverHurts
    /\ service = "yaml" => YS!ParseIsNesting
    /\ service = "feed" => CF!ShownIsTrue

\* A success that is reported is one: of a repair that stayed in the tree, of
\* a runtime that ended well before its deadline, of a portrait that ComfyUI
\* took, and of a dispatch that was run under the secret it was sealed with.
\* None waits without a deadline, and no body is refused as stale in time.
SuccessIsTrue ==
    /\ service = "healer" => SH!OutcomeIsTrue
    /\ service = "child" => RC!TypeOK /\ RC!AnswerIsClean /\ RC!AliveHasDeadline
    /\ service = "portraits" => PR!TypeOK /\ PR!SourceIsTrue /\ PR!DeadlineStands
    /\ service = "exchange" => SE!TypeOK /\ SE!OnlyAgreedIsOpened /\ SE!TimelyIsOpened

\* What no step may do: show a cycle twice, in an old phase, or not at all when
\* it enters one, though the display is capped (MeshOrchestrator); evict a log
\* file but the oldest (FileSink); make a read of the hub tell that it was
\* pruned (AgentHubStore); free a button with a snapshot that is older than
\* what the button did (AgentRosterPanel).
StepsAreLawful ==
    [][/\ service = "triad" => TC!DisplayStep
       /\ service = "sink" => LS!EvictionStep
       /\ service = "ledgers" => LE!PruneStep
       /\ service = "requests" => CR!RefreshStep]_vars

\* What comes about: an edit of a persona or of the workflow is in use in the
\* end, the roster panel shows the server's last word, and no dispatch and no
\* portrait hangs on a tool or on a ComfyUI that does.
ServicesSettle ==
    <>[](/\ service = "config" => CO!InUse
         /\ service = "requests" => CR!CaughtUp
         /\ service = "child" => \A r \in Runs : RC!IsOver(r)
         /\ service = "portraits" => \A p \in Portraits : PR!IsAnswered(p))
=============================================================================
