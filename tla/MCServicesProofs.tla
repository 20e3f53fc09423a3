-------------------------- MODULE MCServicesProofs --------------------------
(***************************************************************************)
(* What ServiceProofs and CockpitProofs show of each service, for the      *)
(* specification that the runs check, where the variables of all of them   *)
(* are x1, x2, ...: an invariant of whichever service the first state      *)
(* chose.                                                                  *)
(***************************************************************************)
EXTENDS MCServices, TLAPS

P == INSTANCE ServiceProofs WITH
    \* SelfHeal, RuntimeChild, PortraitRender, VramGate
    tree <- x1, index <- x2, head <- x3, repairAt <- x4, attempt <- x5,
    runtime <- x1, allowed <- x2, child <- x3, wrote <- x4, last <- x5,
    code <- x6, timer <- x7, awaits <- x8, outcome <- x9,
    enabled <- x1, asked <- x2, pictureAwaits <- x3, pictureTimer <- x4, queued <- x5, reply <- x6,
    gate <- x1, floor <- x2, reading <- x3, poll <- x4, gateMode <- x5, quiet <- x6,
    \* HubUpgrade, SealedExchange
    version <- x1, salt <- x2, columns <- x3, made <- x4, rows <- x5,
    pc <- x6, prior <- x7, key <- x8, hubAt <- x9, missing <- x10, todo <- x11, opens <- x12,
    now <- x1, skew <- x2, hostSecret <- x3, inboxSecret <- x4, host <- x5,
    letter <- x6, tries <- x7, hostAge <- x8, inbox <- x9, answer <- x10,
    posts <- x11, inboxAge <- x12, refused <- x13,
    \* HostStorage, LogSink, Ledgers
    stage <- x1, bootAt <- x2, schema <- x3, versions <- x4, texts <- x5,
    anchors <- x6, matrix <- x7, cycles <- x8, fileEdits <- x9,
    next <- x1, queue <- x2, files <- x3, bytes <- x4, dropped <- x5, process <- x6,
    messages <- x2, receipts <- x3, memory <- x4, appended <- x5, written <- x6,
    \* Committee, YamlSubset
    votes <- x1, quorumOption <- x2, failureOption <- x3, doc <- x1

Q == INSTANCE CockpitProofs WITH
    \* TriadCycle, FrontDoor, ConfigFiles
    run <- x1, cycleReceipts <- x2, issued <- x3, active <- x4, windows <- x5, sent <- x6,
    config <- x7, triadMode <- x8, tracing <- x9, spans <- x10, ring <- x11,
    now <- x1, buckets <- x2, conns <- x3, ready <- x4, door <- x5,
    edits <- x1, disk <- x2, pending <- x3, cache <- x4, flow <- x5, seen <- x6,
    current <- x7, lastError <- x8, applied <- x9, watching <- x10,
    \* CockpitRequests, CockpitFeed
    server <- x1, read <- x2, asks <- x3, screen <- x4, cockpitPending <- x5, errors <- x6,
    about <- x1, news <- x2, truth <- x3, loop <- x4, feedMode <- x5,
    lines <- x6, redial <- x7, feedShown <- x8, buffer <- x9, missed <- x10

-----------------------------------------------------------------------------
(* The modules under P and Q are those that the runs check                 *)

LEMMA HealerSame ==
    /\ SH!Init <=> P!SH!Init
    /\ [SH!Next]_SH!vars <=> [P!SH!Next]_P!SH!vars
    /\ SH!OutcomeIsTrue <=> P!SH!OutcomeIsTrue
<1>1. SH!Init <=> P!SH!Init
  BY DEF SH!Init, P!SH!Init
<1>2. [SH!Next]_SH!vars <=> [P!SH!Next]_P!SH!vars
  BY DEF SH!Next, SH!Begin, SH!Goto, SH!Branch, SH!Status, SH!Check, SH!Applies, SH!Apply,
     SH!Test, SH!Add, SH!Commit, SH!Reverse, SH!vars, P!SH!Next, P!SH!Begin, P!SH!Goto,
     P!SH!Branch, P!SH!Status, P!SH!Check, P!SH!Applies, P!SH!Apply, P!SH!Test, P!SH!Add,
     P!SH!Commit, P!SH!Reverse, P!SH!vars
<1>3. SH!OutcomeIsTrue <=> P!SH!OutcomeIsTrue
  BY DEF SH!OutcomeIsTrue, P!SH!OutcomeIsTrue
<1> QED BY <1>1, <1>2, <1>3

LEMMA ChildSame ==
    /\ RC!Init <=> P!RC!Init
    /\ [RC!Next]_RC!vars <=> [P!RC!Next]_P!RC!vars
    /\ RC!TypeOK <=> P!RC!TypeOK
    /\ RC!AnswerIsClean <=> P!RC!AnswerIsClean
    /\ RC!AliveHasDeadline <=> P!RC!AliveHasDeadline
<1>1. RC!Init <=> P!RC!Init
  BY DEF RC!Init, P!RC!Init
<1>2. [RC!Next]_RC!vars <=> [P!RC!Next]_P!RC!vars
  BY DEF RC!Next, RC!AnswerAtOnce, RC!Tools, RC!Settle, RC!Spawn, RC!SpawnFails,
     RC!ChildWrites, RC!ChildLeavesMessage, RC!TimesOut, RC!ChildCloses, RC!Outcomes,
     RC!Answers, RC!Kept, RC!vars, P!RC!Next, P!RC!AnswerAtOnce, P!RC!Tools, P!RC!Settle,
     P!RC!Spawn, P!RC!SpawnFails, P!RC!ChildWrites, P!RC!ChildLeavesMessage, P!RC!TimesOut,
     P!RC!ChildCloses, P!RC!Outcomes, P!RC!Answers, P!RC!Kept, P!RC!vars
<1>3. RC!TypeOK <=> P!RC!TypeOK
  BY DEF RC!TypeOK, RC!Messages, P!RC!TypeOK, P!RC!Messages
<1>4. RC!AnswerIsClean <=> P!RC!AnswerIsClean
  BY DEF RC!AnswerIsClean, RC!Tools, P!RC!AnswerIsClean, P!RC!Tools
<1>5. RC!AliveHasDeadline <=> P!RC!AliveHasDeadline
  BY DEF RC!AliveHasDeadline, P!RC!AliveHasDeadline
<1> QED BY <1>1, <1>2, <1>3, <1>4, <1>5

LEMMA PictureSame ==
    /\ PR!Init <=> P!PR!Init
    /\ [PR!Next]_PR!vars <=> [P!PR!Next]_P!PR!vars
    /\ PR!TypeOK <=> P!PR!TypeOK
    /\ PR!SourceIsTrue <=> P!PR!SourceIsTrue
    /\ PR!DeadlineStands <=> P!PR!DeadlineStands
<1>1. PR!Init <=> P!PR!Init
  BY DEF PR!Init, P!PR!Init
<1>2. [PR!Next]_PR!vars <=> [P!PR!Next]_P!PR!vars
  BY DEF PR!Next, PR!Refuse, PR!Asks, PR!Answer, PR!Refusal, PR!StreamUrl, PR!Render,
     PR!ComfyQueues, PR!BodyArrives, PR!Throws, PR!HeadArrives, PR!vars, P!PR!Next,
     P!PR!Refuse, P!PR!Asks, P!PR!Answer, P!PR!Refusal, P!PR!StreamUrl, P!PR!Render,
     P!PR!ComfyQueues, P!PR!BodyArrives, P!PR!Throws, P!PR!HeadArrives, P!PR!vars
<1>3. PR!TypeOK <=> P!PR!TypeOK
  BY DEF PR!TypeOK, PR!Asks, PR!Replies, P!PR!TypeOK, P!PR!Asks, P!PR!Replies
<1>4. PR!SourceIsTrue <=> P!PR!SourceIsTrue
  BY DEF PR!SourceIsTrue, P!PR!SourceIsTrue
<1>5. PR!DeadlineStands <=> P!PR!DeadlineStands
  BY DEF PR!DeadlineStands, P!PR!DeadlineStands
<1> QED BY <1>1, <1>2, <1>3, <1>4, <1>5

LEMMA GateSame ==
    /\ VG!Init <=> P!VG!Init
    /\ [VG!Next]_VG!vars <=> [P!VG!Next]_P!VG!vars
    /\ VG!TypeOK <=> P!VG!TypeOK
    /\ VG!GateFollowsCache <=> P!VG!GateFollowsCache
<1>1. VG!Init <=> P!VG!Init
  BY DEF VG!Init, VG!Unavailable, VG!NoReading, P!VG!Init, P!VG!Unavailable, P!VG!NoReading
<1>2. [VG!Next]_VG!vars <=> [P!VG!Next]_P!VG!vars
  BY DEF VG!Next, VG!PollStarts, VG!Poll, VG!Publish, VG!Unavailable, VG!Readings, VG!PollEnds,
     VG!NoteActivity, VG!Sweep, VG!NoReading, VG!Tick, VG!Reload, VG!vars, P!VG!Next,
     P!VG!PollStarts, P!VG!Poll, P!VG!Publish, P!VG!Unavailable, P!VG!Readings, P!VG!PollEnds,
     P!VG!NoteActivity, P!VG!Sweep, P!VG!NoReading, P!VG!Tick, P!VG!Reload, P!VG!vars
<1>3. VG!TypeOK <=> P!VG!TypeOK
  BY DEF VG!TypeOK, VG!Readings, VG!Unavailable, VG!NoReading, P!VG!TypeOK, P!VG!Readings,
     P!VG!Unavailable, P!VG!NoReading
<1>4. VG!GateFollowsCache <=> P!VG!GateFollowsCache
  BY DEF VG!GateFollowsCache, VG!NoReading, VG!Headroom, P!VG!GateFollowsCache, P!VG!NoReading,
     P!VG!Headroom
<1> QED BY <1>1, <1>2, <1>3, <1>4

LEMMA HubSame ==
    /\ HU!Init <=> P!HU!Init
    /\ [HU!Next]_HU!vars <=> [P!HU!Next]_P!HU!vars
    /\ HU!TypeOK <=> P!HU!TypeOK
    /\ HU!StampedIsFilled <=> P!HU!StampedIsFilled
    /\ HU!OneSalt <=> P!HU!OneSalt
<1>1. HU!Init <=> P!HU!Init
  BY DEF HU!Init, HU!None, HU!Absent, HU!NoKey, HU!Legacy, P!HU!Init, P!HU!None, P!HU!Absent,
     P!HU!NoKey, P!HU!Legacy
<1>2. [HU!Next]_HU!vars <=> [P!HU!Next]_P!HU!vars
  BY DEF HU!Next, HU!Step, HU!Begin, HU!None, HU!goto, HU!db, HU!ReadSalt, HU!InsertSalt,
     HU!MakeTables, HU!LookForColumn, HU!AddColumn, HU!ListRows, HU!FillRow, HU!Opens,
     HU!NoKey, HU!Stamp, HU!Leave, HU!WriteRow, HU!vars, P!HU!Next, P!HU!Step, P!HU!Begin,
     P!HU!None, P!HU!goto, P!HU!db, P!HU!ReadSalt, P!HU!InsertSalt, P!HU!MakeTables,
     P!HU!LookForColumn, P!HU!AddColumn, P!HU!ListRows, P!HU!FillRow, P!HU!Opens, P!HU!NoKey,
     P!HU!Stamp, P!HU!Leave, P!HU!WriteRow, P!HU!vars
<1>3. HU!TypeOK <=> P!HU!TypeOK
  BY DEF HU!TypeOK, HU!Salts, HU!None, HU!NoKey, HU!Keys, P!HU!TypeOK, P!HU!Salts, P!HU!None,
     P!HU!NoKey, P!HU!Keys
<1>4. HU!StampedIsFilled <=> P!HU!StampedIsFilled
  BY DEF HU!StampedIsFilled, P!HU!StampedIsFilled
<1>5. HU!OneSalt <=> P!HU!OneSalt
  BY DEF HU!OneSalt, HU!NoKey, HU!None, P!HU!OneSalt, P!HU!NoKey, P!HU!None
<1> QED BY <1>1, <1>2, <1>3, <1>4, <1>5

LEMMA ExchangeSame ==
    /\ SE!Init <=> P!SE!Init
    /\ [SE!Next]_SE!vars <=> [P!SE!Next]_P!SE!vars
    /\ SE!TypeOK <=> P!SE!TypeOK
    /\ SE!OnlyAgreedIsOpened <=> P!SE!OnlyAgreedIsOpened
    /\ SE!TimelyIsOpened <=> P!SE!TimelyIsOpened
<1>1. SE!Init <=> P!SE!Init
  BY DEF SE!Init, SE!Secrets, SE!Plain, SE!Sealed, P!SE!Init, P!SE!Secrets, P!SE!Plain,
     P!SE!Sealed
<1>2. [SE!Next]_SE!vars <=> [P!SE!Next]_P!SE!vars
  BY DEF SE!Next, SE!Tick, SE!Dispatch, SE!HostGoes, SE!Sealed, SE!HostClock, SE!clock,
     SE!inboxVars, SE!PostAgain, SE!DispatchLost, SE!AttemptFails, SE!GiveUp, SE!RuntimeEnds,
     SE!hostVars, SE!PostReply, SE!ReplyLost, SE!PostFails, SE!InboxOpens, SE!Verdict,
     SE!Plain, SE!Distance, SE!HostOpens, SE!vars, P!SE!Next, P!SE!Tick, P!SE!Dispatch,
     P!SE!HostGoes, P!SE!Sealed, P!SE!HostClock, P!SE!clock, P!SE!inboxVars, P!SE!PostAgain,
     P!SE!DispatchLost, P!SE!AttemptFails, P!SE!GiveUp, P!SE!RuntimeEnds, P!SE!hostVars,
     P!SE!PostReply, P!SE!ReplyLost, P!SE!PostFails, P!SE!InboxOpens, P!SE!Verdict, P!SE!Plain,
     P!SE!Distance, P!SE!HostOpens, P!SE!vars
<1>3. SE!TypeOK <=> P!SE!TypeOK
  BY DEF SE!TypeOK, SE!Secrets, SE!Plain, P!SE!TypeOK, P!SE!Secrets, P!SE!Plain
<1>4. SE!OnlyAgreedIsOpened <=> P!SE!OnlyAgreedIsOpened
  BY DEF SE!OnlyAgreedIsOpened, P!SE!OnlyAgreedIsOpened
<1>5. SE!TimelyIsOpened <=> P!SE!TimelyIsOpened
  BY DEF SE!TimelyIsOpened, SE!Distance, P!SE!TimelyIsOpened, P!SE!Distance
<1> QED BY <1>1, <1>2, <1>3, <1>4, <1>5

LEMMA StorageSame ==
    /\ HS!Init <=> P!HS!Init
    /\ [HS!Next]_HS!vars <=> [P!HS!Next]_P!HS!vars
    /\ HS!SchemaMatchesVersions <=> P!HS!SchemaMatchesVersions
    /\ HS!OneAnchorPerPath <=> P!HS!OneAnchorPerPath
    /\ HS!MatrixIsNewest <=> P!HS!MatrixIsNewest
<1>1. HS!Init <=> P!HS!Init
  BY DEF HS!Init, HS!Range, P!HS!Init, P!HS!Range
<1>2. [HS!Next]_HS!vars <=> [P!HS!Next]_P!HS!vars
  BY DEF HS!Next, HS!Boot, HS!database, HS!Migrate, HS!Migrations, HS!Migrated, HS!Index,
     HS!Serve, HS!Record, HS!Entries, HS!ReadMatrix, HS!Torn, HS!Edit, HS!Crash, HS!vars,
     HS!Range, P!HS!Next, P!HS!Boot, P!HS!database, P!HS!Migrate, P!HS!Migrations,
     P!HS!Migrated, P!HS!Index, P!HS!Serve, P!HS!Record, P!HS!Entries, P!HS!ReadMatrix,
     P!HS!Torn, P!HS!Edit, P!HS!Crash, P!HS!vars, P!HS!Range
<1>3. HS!SchemaMatchesVersions <=> P!HS!SchemaMatchesVersions
  BY DEF HS!SchemaMatchesVersions, HS!Migrations, P!HS!SchemaMatchesVersions, P!HS!Migrations
<1>4. HS!OneAnchorPerPath <=> P!HS!OneAnchorPerPath
  BY DEF HS!OneAnchorPerPath, P!HS!OneAnchorPerPath
<1>5. HS!MatrixIsNewest <=> P!HS!MatrixIsNewest
  BY DEF HS!MatrixIsNewest, HS!Torn, P!HS!MatrixIsNewest, P!HS!Torn
<1> QED BY <1>1, <1>2, <1>3, <1>4, <1>5

LEMMA SinkSame ==
    /\ LS!Init <=> P!LS!Init
    /\ [LS!Next]_LS!vars <=> [P!LS!Next]_P!LS!vars
    /\ LS!LinesAreInOrder <=> P!LS!LinesAreInOrder
    /\ LS!EvictionStep <=> P!LS!EvictionStep
<1>1. LS!Init <=> P!LS!Init
  BY DEF LS!Init, LS!Slots, P!LS!Init, P!LS!Slots
<1>2. [LS!Next]_LS!vars <=> [P!LS!Next]_P!LS!vars
  BY DEF LS!Next, LS!Log, LS!Pushed, LS!Flush, LS!Appended, LS!Full, LS!RotatedFrom, LS!Slots,
     LS!Base, LS!TimerFlushes, LS!Killed, LS!Restart, LS!vars, P!LS!Next, P!LS!Log,
     P!LS!Pushed, P!LS!Flush, P!LS!Appended, P!LS!Full, P!LS!RotatedFrom, P!LS!Slots,
     P!LS!Base, P!LS!TimerFlushes, P!LS!Killed, P!LS!Restart, P!LS!vars
<1>3. LS!LinesAreInOrder <=> P!LS!LinesAreInOrder
  BY DEF LS!LinesAreInOrder, LS!Slots, LS!Newer, LS!Range, P!LS!LinesAreInOrder, P!LS!Slots,
     P!LS!Newer, P!LS!Range
<1>4. LS!EvictionStep <=> P!LS!EvictionStep
  BY DEF LS!EvictionStep, LS!OnDisk, LS!Slots, LS!Range, P!LS!EvictionStep, P!LS!OnDisk,
     P!LS!Slots, P!LS!Range
<1> QED BY <1>1, <1>2, <1>3, <1>4

LEMMA LedgerSame ==
    /\ LE!Init <=> P!LE!Init
    /\ [LE!Next]_LE!vars <=> [P!LE!Next]_P!LE!vars
    /\ LE!TypeOK <=> P!LE!TypeOK
    /\ LE!HistoryIsTail <=> P!LE!HistoryIsTail
    /\ LE!ChainIsWhole <=> P!LE!ChainIsWhole
    /\ LE!PruneStep <=> P!LE!PruneStep
<1>1. LE!Init <=> P!LE!Init
  BY DEF LE!Init, P!LE!Init
<1>2. [LE!Next]_LE!vars <=> [P!LE!Next]_P!LE!vars
  BY DEF LE!Next, LE!PostMessage, LE!NextRowid, LE!AppendReceipt, LE!Of, LE!None, LE!Ascending,
     LE!Rank, LE!Before, LE!PruneOldReceipts, LE!Kinds, LE!Upsert, LE!PruneExpiredCache,
     LE!Expired, LE!Tick, LE!vars, LE!Cardinality, LE!Last, LE!Max, P!LE!Next,
     P!LE!PostMessage, P!LE!NextRowid, P!LE!AppendReceipt, P!LE!Of, P!LE!None, P!LE!Ascending,
     P!LE!Rank, P!LE!Before, P!LE!PruneOldReceipts, P!LE!Kinds, P!LE!Upsert,
     P!LE!PruneExpiredCache, P!LE!Expired, P!LE!Tick, P!LE!vars, P!LE!Cardinality, P!LE!Last,
     P!LE!Max
<1>3. LE!TypeOK <=> P!LE!TypeOK
  BY DEF LE!TypeOK, LE!Cardinality, P!LE!TypeOK, P!LE!Cardinality
<1>4. LE!HistoryIsTail <=> P!LE!HistoryIsTail
  BY DEF LE!HistoryIsTail, LE!History, LE!Ascending, LE!Rank, LE!Before, LE!Cardinality,
     LE!Reverse, P!LE!HistoryIsTail, P!LE!History, P!LE!Ascending, P!LE!Rank, P!LE!Before,
     P!LE!Cardinality, P!LE!Reverse
<1>5. LE!ChainIsWhole <=> P!LE!ChainIsWhole
  BY DEF LE!ChainIsWhole, LE!Ascending, LE!Rank, LE!Before, LE!Of, LE!Cardinality,
     P!LE!ChainIsWhole, P!LE!Ascending, P!LE!Rank, P!LE!Before, P!LE!Of, P!LE!Cardinality
<1>6. LE!PruneStep <=> P!LE!PruneStep
  BY DEF LE!PruneStep, LE!Kinds, LE!Read, LE!Expired, LE!None, P!LE!PruneStep, P!LE!Kinds,
     P!LE!Read, P!LE!Expired, P!LE!None
<1> QED BY <1>1, <1>2, <1>3, <1>4, <1>5, <1>6

LEMMA CommitteeSame ==
    /\ CM!Init <=> P!CM!Init
    /\ [CM!Next]_CM!vars <=> [P!CM!Next]_P!CM!vars
    /\ CM!AcceptedHasQuorum <=> P!CM!AcceptedHasQuorum
    /\ CM!ApprovalNeverHurts <=> P!CM!ApprovalNeverHurts
<1>1. CM!Init <=> P!CM!Init
  BY DEF CM!Init, P!CM!Init
<1>2. [CM!Next]_CM!vars <=> [P!CM!Next]_P!CM!vars
  BY DEF CM!Next, CM!Cast, CM!Vote, CM!Agents, CM!Range, CM!Verdicts, CM!SynthesizeVotes, CM!vars,
     P!CM!Next, P!CM!Cast, P!CM!Vote, P!CM!Agents, P!CM!Range, P!CM!Verdicts, P!CM!SynthesizeVotes,
     P!CM!vars
<1>3. \A vs : CM!Completed(vs) = P!CM!Completed(vs)
  BY DEF CM!Completed, CM!LastVote, CM!Absent, CM!Given, CM!Outside, CM!Range, P!CM!Completed,
     P!CM!LastVote, P!CM!Absent, P!CM!Given, P!CM!Outside, P!CM!Range
<1>4. /\ \A v : CM!Normalized(v) = P!CM!Normalized(v)
      /\ \A f : CM!Total(f) = P!CM!Total(f)
  BY DEF CM!Normalized, CM!ClampRange, CM!Total, P!CM!Normalized, P!CM!ClampRange, P!CM!Total
<1>5. \A vs : CM!Status(vs) = P!CM!Status(vs)
  <2> TAKE vs
  <2> DEFINE all     == [i \in DOMAIN CM!Completed(vs) |-> CM!Normalized(CM!Completed(vs)[i])]
             all2    == [i \in DOMAIN P!CM!Completed(vs) |-> P!CM!Normalized(P!CM!Completed(vs)[i])]
             weights(l)  == [i \in DOMAIN l |-> l[i].weight]
             supports(l) == [i \in DOMAIN l |->
                               IF l[i].verdict = "approve" THEN l[i].weight * l[i].confidence ELSE 0]
             trusts(l)   == [i \in DOMAIN l |-> l[i].confidence]
             Clears(l, t)  == CM!Reaches(CM!Total(supports(l)), CM!Total(weights(l)), t)
                              /\ CM!Reaches(CM!Total(trusts(l)), Len(l), t)
             Clears2(l, t) == P!CM!Reaches(P!CM!Total(supports(l)), P!CM!Total(weights(l)), t)
                              /\ P!CM!Reaches(P!CM!Total(trusts(l)), Len(l), t)
  <2>1. all = all2
    <3>1. CM!Completed(vs) = P!CM!Completed(vs)
      BY <1>3
    <3>2. \A v : CM!Normalized(v) = P!CM!Normalized(v)
      BY <1>4
    <3> QED BY <3>1, <3>2
  <2>2. ASSUME NEW l, NEW t PROVE Clears(l, t) <=> Clears2(l, t)
    <3>1. CM!Total(supports(l)) = P!CM!Total(supports(l)) /\ CM!Total(weights(l)) = P!CM!Total(weights(l))
          /\ CM!Total(trusts(l)) = P!CM!Total(trusts(l))
      BY <1>4
    <3> HIDE DEF supports, weights, trusts
    <3> QED BY <3>1 DEF CM!Reaches, P!CM!Reaches
  <2>3. CM!QuorumThreshold = P!CM!QuorumThreshold /\ CM!FailureThreshold = P!CM!FailureThreshold
    BY DEF CM!QuorumThreshold, CM!FailureThreshold, CM!ClampRange, P!CM!QuorumThreshold,
       P!CM!FailureThreshold, P!CM!ClampRange
  <2>4. CM!Status(vs) = IF Clears(all, CM!QuorumThreshold) THEN "accepted"
                        ELSE IF Clears(all, CM!FailureThreshold) THEN "failed" ELSE "needs_sidecar"
    BY DEF CM!Status
  <2>5. P!CM!Status(vs) = IF Clears2(all2, P!CM!QuorumThreshold) THEN "accepted"
                          ELSE IF Clears2(all2, P!CM!FailureThreshold) THEN "failed" ELSE "needs_sidecar"
    BY DEF P!CM!Status
  <2> HIDE DEF all, all2, Clears, Clears2
  <2> QED BY <2>1, <2>2, <2>3, <2>4, <2>5
<1>6. CM!AcceptedHasQuorum <=> P!CM!AcceptedHasQuorum
  BY <1>3, <1>4, <1>5 DEF CM!AcceptedHasQuorum, CM!Counted, CM!Given, CM!Range, CM!Cardinality,
     P!CM!AcceptedHasQuorum, P!CM!Counted, P!CM!Given, P!CM!Range, P!CM!Cardinality
<1>7. CM!ApprovalNeverHurts <=> P!CM!ApprovalNeverHurts
  BY <1>5 DEF CM!ApprovalNeverHurts, CM!Vote, CM!Agents, CM!Range, CM!Verdicts, CM!Given,
     P!CM!ApprovalNeverHurts, P!CM!Vote, P!CM!Agents, P!CM!Range, P!CM!Verdicts, P!CM!Given
<1> QED BY <1>1, <1>2, <1>6, <1>7

LEMMA YamlSame ==
    /\ YS!Init <=> P!YS!Init
    /\ [YS!Next]_x1 <=> [P!YS!Next]_x1
    /\ YS!ParseIsNesting <=> P!YS!ParseIsNesting
<1>1. YS!Init <=> P!YS!Init
  BY DEF YS!Init, P!YS!Init
<1>2. [YS!Next]_x1 <=> [P!YS!Next]_x1
  BY DEF YS!Next, YS!Line, P!YS!Next, P!YS!Line
<1>3. \A d : YS!Parsed(d) = P!YS!Parsed(d)
  BY DEF YS!Parsed, YS!Start, YS!NoList, YS!ParseLine, YS!Skipped, YS!ParseItem, YS!ParseKey, YS!Popped,
     YS!PeekNext, YS!Assign, YS!IsPrefix, YS!Last, P!YS!Parsed, P!YS!Start, P!YS!NoList, P!YS!ParseLine,
     P!YS!Skipped, P!YS!ParseItem, P!YS!ParseKey, P!YS!Popped, P!YS!PeekNext, P!YS!Assign,
     P!YS!IsPrefix, P!YS!Last
<1>4. /\ \A d : YS!KeyLines(d) = P!YS!KeyLines(d)
      /\ \A d : YS!ListKeys(d) = P!YS!ListKeys(d)
      /\ \A d, n, i : YS!ItemOf(d, n, i) <=> P!YS!ItemOf(d, n, i)
      /\ \A d : YS!Malformed(d) <=> P!YS!Malformed(d)
  BY DEF YS!KeyLines, YS!ListKeys, YS!IsKey, YS!ItemOf, YS!Malformed, YS!PeekNext, YS!Skipped,
     P!YS!KeyLines, P!YS!ListKeys, P!YS!IsKey, P!YS!ItemOf, P!YS!Malformed, P!YS!PeekNext, P!YS!Skipped
<1>5. \A d : YS!Paths(d) = P!YS!Paths(d)
  BY DEF YS!Paths, YS!Parent, YS!Enclosing, YS!KeyLines, YS!ListKeys, YS!IsKey, YS!PeekNext,
     P!YS!Paths, P!YS!Parent, P!YS!Enclosing, P!YS!KeyLines, P!YS!ListKeys, P!YS!IsKey, P!YS!PeekNext
<1>6. \A d : YS!Living(d) = P!YS!Living(d)
  BY <1>4, <1>5 DEF YS!Living, YS!IsPrefix, P!YS!Living, P!YS!IsPrefix
<1>7. \A d, i, v : YS!Means(d, i, v) <=> P!YS!Means(d, i, v)
  BY <1>4 DEF YS!Means, YS!Range, P!YS!Means, P!YS!Range
<1>8. YS!ParseIsNesting <=> P!YS!ParseIsNesting
  BY <1>3, <1>4, <1>5, <1>6, <1>7 DEF YS!ParseIsNesting, P!YS!ParseIsNesting
<1> QED BY <1>1, <1>2, <1>8

LEMMA TriadSame ==
    /\ TC!Init <=> Q!TC!Init
    /\ [TC!Next]_TC!vars <=> [Q!TC!Next]_Q!TC!vars
    /\ TC!WindowHolds <=> Q!TC!WindowHolds
    /\ TC!TypeOK <=> Q!TC!TypeOK
    /\ TC!ReceiptAccounts <=> Q!TC!ReceiptAccounts
    /\ TC!TraceIsWhole <=> Q!TC!TraceIsWhole
    /\ TC!DisplayStep <=> Q!TC!DisplayStep
<1>1. TC!Init <=> Q!TC!Init
  BY DEF TC!Init, TC!Cycles, TC!Configs, Q!TC!Init, Q!TC!Cycles, Q!TC!Configs
<1>2. [TC!Next]_TC!vars <=> [Q!TC!Next]_Q!TC!vars
  BY ZenonT(60) DEF TC!Next, TC!Cycles, TC!Execute, TC!Recorded, TC!Pruned, TC!StopsAfter,
     TC!Route, TC!CanDispatch, TC!Shown, TC!Show, TC!Listed, TC!traces, TC!StallReleases,
     TC!limits, TC!ArchitectEnds, TC!RoleEnds1, TC!Children, TC!OperatorEnds, TC!RoleThrows,
     TC!RootEnds, TC!VerifierEnds, TC!NoteActivity, TC!flow, TC!EnterIdle, TC!TracingReady,
     TC!Configs, TC!Reload, TC!Tick, TC!Older, TC!InWindow, TC!vars, TC!Cardinality, Q!TC!Next,
     Q!TC!Cycles, Q!TC!Execute, Q!TC!Recorded, Q!TC!Pruned, Q!TC!StopsAfter, Q!TC!Route,
     Q!TC!CanDispatch, Q!TC!Shown, Q!TC!Show, Q!TC!Listed, Q!TC!traces, Q!TC!StallReleases,
     Q!TC!limits, Q!TC!ArchitectEnds, Q!TC!RoleEnds1, Q!TC!Children, Q!TC!OperatorEnds,
     Q!TC!RoleThrows, Q!TC!RootEnds, Q!TC!VerifierEnds, Q!TC!NoteActivity, Q!TC!flow,
     Q!TC!EnterIdle, Q!TC!TracingReady, Q!TC!Configs, Q!TC!Reload, Q!TC!Tick, Q!TC!Older,
     Q!TC!InWindow, Q!TC!vars, Q!TC!Cardinality
<1>3. TC!WindowHolds <=> Q!TC!WindowHolds
  BY DEF TC!WindowHolds, Q!TC!WindowHolds
<1>4. TC!TypeOK <=> Q!TC!TypeOK
  BY DEF TC!TypeOK, TC!Cycles, TC!Stages, TC!Phases, TC!NextPhases, TC!Terminal, TC!Configs,
     Q!TC!TypeOK, Q!TC!Cycles, Q!TC!Stages, Q!TC!Phases, Q!TC!NextPhases, Q!TC!Terminal,
     Q!TC!Configs
<1>5. TC!ReceiptAccounts <=> Q!TC!ReceiptAccounts
  BY DEF TC!ReceiptAccounts, TC!Cycles, TC!LegalTrail, TC!NextPhases, TC!Terminal,
     TC!Cardinality, TC!Last, Q!TC!ReceiptAccounts, Q!TC!Cycles, Q!TC!LegalTrail,
     Q!TC!NextPhases, Q!TC!Terminal, Q!TC!Cardinality, Q!TC!Last
<1>6. TC!TraceIsWhole <=> Q!TC!TraceIsWhole
  BY DEF TC!TraceIsWhole, TC!Cycles, TC!Cardinality, TC!ToSet, Q!TC!TraceIsWhole, Q!TC!Cycles,
     Q!TC!Cardinality, Q!TC!ToSet
<1>7. TC!DisplayStep <=> Q!TC!DisplayStep
  BY DEF TC!DisplayStep, TC!Cycles, TC!Listed, TC!Last, Q!TC!DisplayStep, Q!TC!Cycles,
     Q!TC!Listed, Q!TC!Last
<1> QED BY <1>1, <1>2, <1>3, <1>4, <1>5, <1>6, <1>7

LEMMA DoorSame ==
    /\ FD!Init <=> Q!FD!Init
    /\ [FD!Next]_FD!vars <=> [Q!FD!Next]_Q!FD!vars
    /\ FD!RateIsBounded <=> Q!FD!RateIsBounded
    /\ FD!RetryAfterIsEnough <=> Q!FD!RetryAfterIsEnough
    /\ FD!AnsweredOnce <=> Q!FD!AnsweredOnce
    /\ FD!DeadlineWatchesSilence <=> Q!FD!DeadlineWatchesSilence
    /\ FD!ClientsAreCapped <=> Q!FD!ClientsAreCapped
    /\ FD!DatabaseOutlivesClients <=> Q!FD!DatabaseOutlivesClients
<1>1. FD!Init <=> Q!FD!Init
  BY DEF FD!Init, FD!Fresh, Q!FD!Init, Q!FD!Fresh
<1>2. [FD!Next]_FD!vars <=> [Q!FD!Next]_Q!FD!vars
  BY ZenonT(60) DEF FD!Next, FD!Connect, FD!CutSilent, FD!AskUngated, FD!Asking, FD!Ungated,
     FD!Answering, FD!Busy, FD!AskMetrics, FD!Authorised, FD!AskApi, FD!Limited, FD!Consume,
     FD!Touched, FD!Known, FD!Refill, FD!BucketOf, FD!Position, FD!NewBucket, FD!Kept,
     FD!Others, FD!Allowed, FD!Given, FD!Refused, FD!RetryAfter, FD!Handled, FD!WithBody,
     FD!Noted, FD!Flushed, FD!Leaves, FD!BodyEnds, FD!Answer, FD!BodyTooLarge, FD!BodyTimesOut,
     FD!BodyErrors, FD!HandlerAnswers, FD!Upgrade, FD!Upgraded, FD!SetReady, FD!Close,
     FD!CloseDatabase, FD!Connected, FD!Tick, FD!vars, FD!Cardinality, FD!RemoveAt, Q!FD!Next,
     Q!FD!Connect, Q!FD!CutSilent, Q!FD!AskUngated, Q!FD!Asking, Q!FD!Ungated, Q!FD!Answering,
     Q!FD!Busy, Q!FD!AskMetrics, Q!FD!Authorised, Q!FD!AskApi, Q!FD!Limited, Q!FD!Consume,
     Q!FD!Touched, Q!FD!Known, Q!FD!Refill, Q!FD!BucketOf, Q!FD!Position, Q!FD!NewBucket,
     Q!FD!Kept, Q!FD!Others, Q!FD!Allowed, Q!FD!Given, Q!FD!Refused, Q!FD!RetryAfter,
     Q!FD!Handled, Q!FD!WithBody, Q!FD!Noted, Q!FD!Flushed, Q!FD!Leaves, Q!FD!BodyEnds,
     Q!FD!Answer, Q!FD!BodyTooLarge, Q!FD!BodyTimesOut, Q!FD!BodyErrors, Q!FD!HandlerAnswers,
     Q!FD!Upgrade, Q!FD!Upgraded, Q!FD!SetReady, Q!FD!Close, Q!FD!CloseDatabase,
     Q!FD!Connected, Q!FD!Tick, Q!FD!vars, Q!FD!Cardinality, Q!FD!RemoveAt
<1>3. FD!RateIsBounded <=> Q!FD!RateIsBounded
  BY DEF FD!RateIsBounded, Q!FD!RateIsBounded
<1>4. FD!RetryAfterIsEnough <=> Q!FD!RetryAfterIsEnough
  BY DEF FD!RetryAfterIsEnough, Q!FD!RetryAfterIsEnough
<1>5. FD!AnsweredOnce <=> Q!FD!AnsweredOnce
  BY DEF FD!AnsweredOnce, Q!FD!AnsweredOnce
<1>6. FD!DeadlineWatchesSilence <=> Q!FD!DeadlineWatchesSilence
  BY DEF FD!DeadlineWatchesSilence, Q!FD!DeadlineWatchesSilence
<1>7. FD!ClientsAreCapped <=> Q!FD!ClientsAreCapped
  BY DEF FD!ClientsAreCapped, FD!Cardinality, Q!FD!ClientsAreCapped, Q!FD!Cardinality
<1>8. FD!DatabaseOutlivesClients <=> Q!FD!DatabaseOutlivesClients
  BY DEF FD!DatabaseOutlivesClients, Q!FD!DatabaseOutlivesClients
<1> QED BY <1>1, <1>2, <1>3, <1>4, <1>5, <1>6, <1>7, <1>8

LEMMA ConfigSame ==
    /\ CO!Init <=> Q!CO!Init
    /\ [CO!Next]_CO!vars <=> [Q!CO!Next]_Q!CO!vars
    /\ CO!CachedHasFile <=> Q!CO!CachedHasFile
    /\ CO!QuietIsLoaded <=> Q!CO!QuietIsLoaded
    /\ CO!LastGoodIsApplied <=> Q!CO!LastGoodIsApplied
<1>1. CO!Init <=> Q!CO!Init
  BY DEF CO!Init, CO!Broken, Q!CO!Init, Q!CO!Broken
<1>2. [CO!Next]_CO!vars <=> [Q!CO!Next]_Q!CO!vars
  BY DEF CO!Next, CO!Edit, CO!Broken, CO!Absent, CO!workflow, CO!Reload, CO!Loaded, CO!NoDoc,
     CO!EditWorkflow, CO!personas, CO!Look, CO!ReloadWorkflow, CO!Read, CO!Applied, CO!Stop,
     CO!vars, Q!CO!Next, Q!CO!Edit, Q!CO!Broken, Q!CO!Absent, Q!CO!workflow, Q!CO!Reload,
     Q!CO!Loaded, Q!CO!NoDoc, Q!CO!EditWorkflow, Q!CO!personas, Q!CO!Look, Q!CO!ReloadWorkflow,
     Q!CO!Read, Q!CO!Applied, Q!CO!Stop, Q!CO!vars
<1>3. CO!CachedHasFile <=> Q!CO!CachedHasFile
  BY DEF CO!CachedHasFile, CO!NoDoc, CO!Absent, Q!CO!CachedHasFile, Q!CO!NoDoc, Q!CO!Absent
<1>4. CO!QuietIsLoaded <=> Q!CO!QuietIsLoaded
  BY DEF CO!QuietIsLoaded, CO!NoDoc, Q!CO!QuietIsLoaded, Q!CO!NoDoc
<1>5. CO!LastGoodIsApplied <=> Q!CO!LastGoodIsApplied
  BY DEF CO!LastGoodIsApplied, CO!Broken, Q!CO!LastGoodIsApplied, Q!CO!Broken
<1> QED BY <1>1, <1>2, <1>3, <1>4, <1>5

LEMMA RequestsSame ==
    /\ CR!Init <=> Q!CR!Init
    /\ [CR!Next]_CR!vars <=> [Q!CR!Next]_Q!CR!vars
    /\ CR!PendingIsInFlight <=> Q!CR!PendingIsInFlight
    /\ CR!RefreshStep <=> Q!CR!RefreshStep
<1>1. CR!Init <=> Q!CR!Init
  BY DEF CR!Init, CR!Reads, CR!NoRead, CR!Nothing, CR!NoRequest, Q!CR!Init, Q!CR!Reads,
     Q!CR!NoRead, Q!CR!Nothing, Q!CR!NoRequest
<1>2. [CR!Next]_CR!vars <=> [Q!CR!Next]_Q!CR!vars
  BY DEF CR!Next, CR!Poll, CR!Asked, CR!Nothing, CR!Open, CR!Reads, CR!ServerReads,
     CR!ReadArrives, CR!NoRead, CR!View, CR!Normalized, CR!RequestEnds, CR!NoRequest,
     CR!ReadFails, CR!ServerChanges, CR!Becomes, CR!ServerHandles, CR!Outcomes, CR!Managed,
     CR!Click, CR!Actions, CR!Offered, CR!Refresh, CR!RequestFails, CR!Ends, CR!vars,
     Q!CR!Next, Q!CR!Poll, Q!CR!Asked, Q!CR!Nothing, Q!CR!Open, Q!CR!Reads, Q!CR!ServerReads,
     Q!CR!ReadArrives, Q!CR!NoRead, Q!CR!View, Q!CR!Normalized, Q!CR!RequestEnds,
     Q!CR!NoRequest, Q!CR!ReadFails, Q!CR!ServerChanges, Q!CR!Becomes, Q!CR!ServerHandles,
     Q!CR!Outcomes, Q!CR!Managed, Q!CR!Click, Q!CR!Actions, Q!CR!Offered, Q!CR!Refresh,
     Q!CR!RequestFails, Q!CR!Ends, Q!CR!vars
<1>3. CR!PendingIsInFlight <=> Q!CR!PendingIsInFlight
  BY DEF CR!PendingIsInFlight, Q!CR!PendingIsInFlight
<1>4. CR!RefreshStep <=> Q!CR!RefreshStep
  BY DEF CR!RefreshStep, Q!CR!RefreshStep
<1> QED BY <1>1, <1>2, <1>3, <1>4

LEMMA FeedSame ==
    /\ CF!Init <=> Q!CF!Init
    /\ [CF!Next]_CF!vars <=> [Q!CF!Next]_Q!CF!vars
    /\ CF!TypeOK <=> Q!CF!TypeOK
    /\ CF!OneLine <=> Q!CF!OneLine
    /\ CF!LoopFollowsSwitch <=> Q!CF!LoopFollowsSwitch
    /\ CF!ShownIsTrue <=> Q!CF!ShownIsTrue
<1>1. CF!Init <=> Q!CF!Init
  BY DEF CF!Init, CF!Empty, CF!Buckets, CF!Dialled, CF!NothingBuffered, Q!CF!Init, Q!CF!Empty,
     Q!CF!Buckets, Q!CF!Dialled, Q!CF!NothingBuffered
<1>2. [CF!Next]_CF!vars <=> [Q!CF!Next]_Q!CF!vars
  BY ZenonT(60) DEF CF!Next, CF!Event, CF!NewsOf, CF!TelemetryNews, CF!Stamp, CF!Told,
     CF!Merge, CF!Frame, CF!Keys, CF!HardwareNews, CF!TaskNews, CF!LastOf, CF!ChairNews,
     CF!Presences, CF!PhaseNews, CF!Newest, CF!ClaimNews, CF!Legal, CF!RetryNews,
     CF!ReceiptNews, CF!LogNews, CF!LatestNews, CF!ChatNews, CF!Banter, CF!DebateNews,
     CF!ApplyMessageDelta, CF!Broadcast, CF!Sent, CF!page, CF!ToggleChat, CF!SetChatMode,
     CF!NoteActivity, CF!Woken, CF!EnterIdle, CF!Redial, CF!Dialled, CF!server, CF!Flush,
     CF!NothingBuffered, CF!Flushed, CF!Remount, CF!Close, CF!ClearTimeout, CF!Accept, CF!Open,
     CF!Replay, CF!Cards, CF!When, CF!Refuse, CF!Lose, CF!Receive, CF!EnqueueTelemetry,
     CF!EnqueueHardware, CF!Apply, CF!Stored, CF!UpsertAgentNode, CF!RecordPhaseEvent,
     CF!RecordChairEvent, CF!ApplyChairRoster, CF!RecordClaimEvent, CF!RecordRetryEvent,
     CF!AddTask, CF!AddVerificationReceipt, CF!RecordInLog, CF!RecordLatest,
     CF!SetInterAgentChat, CF!AddInterAgentMessage, CF!OpenConversation, CF!CloseConversation,
     CF!AgUiRuns, CF!vars, CF!Cardinality, CF!SetToSeq, CF!IsInjective, Q!CF!Next, Q!CF!Event,
     Q!CF!NewsOf, Q!CF!TelemetryNews, Q!CF!Stamp, Q!CF!Told, Q!CF!Merge, Q!CF!Frame, Q!CF!Keys,
     Q!CF!HardwareNews, Q!CF!TaskNews, Q!CF!LastOf, Q!CF!ChairNews, Q!CF!Presences,
     Q!CF!PhaseNews, Q!CF!Newest, Q!CF!ClaimNews, Q!CF!Legal, Q!CF!RetryNews, Q!CF!ReceiptNews,
     Q!CF!LogNews, Q!CF!LatestNews, Q!CF!ChatNews, Q!CF!Banter, Q!CF!DebateNews,
     Q!CF!ApplyMessageDelta, Q!CF!Broadcast, Q!CF!Sent, Q!CF!page, Q!CF!ToggleChat,
     Q!CF!SetChatMode, Q!CF!NoteActivity, Q!CF!Woken, Q!CF!EnterIdle, Q!CF!Redial,
     Q!CF!Dialled, Q!CF!server, Q!CF!Flush, Q!CF!NothingBuffered, Q!CF!Flushed, Q!CF!Remount,
     Q!CF!Close, Q!CF!ClearTimeout, Q!CF!Accept, Q!CF!Open, Q!CF!Replay, Q!CF!Cards, Q!CF!When,
     Q!CF!Refuse, Q!CF!Lose, Q!CF!Receive, Q!CF!EnqueueTelemetry, Q!CF!EnqueueHardware,
     Q!CF!Apply, Q!CF!Stored, Q!CF!UpsertAgentNode, Q!CF!RecordPhaseEvent,
     Q!CF!RecordChairEvent, Q!CF!ApplyChairRoster, Q!CF!RecordClaimEvent,
     Q!CF!RecordRetryEvent, Q!CF!AddTask, Q!CF!AddVerificationReceipt, Q!CF!RecordInLog,
     Q!CF!RecordLatest, Q!CF!SetInterAgentChat, Q!CF!AddInterAgentMessage,
     Q!CF!OpenConversation, Q!CF!CloseConversation, Q!CF!AgUiRuns, Q!CF!vars, Q!CF!Cardinality,
     Q!CF!SetToSeq, Q!CF!IsInjective
<1>3. CF!TypeOK <=> Q!CF!TypeOK
  BY DEF CF!TypeOK, CF!Buckets, CF!Presences, Q!CF!TypeOK, Q!CF!Buckets, Q!CF!Presences
<1>4. CF!OneLine <=> Q!CF!OneLine
  BY DEF CF!OneLine, CF!Cardinality, Q!CF!OneLine, Q!CF!Cardinality
<1>5. CF!LoopFollowsSwitch <=> Q!CF!LoopFollowsSwitch
  BY DEF CF!LoopFollowsSwitch, Q!CF!LoopFollowsSwitch
<1>6. CF!ShownIsTrue <=> Q!CF!ShownIsTrue
  BY DEF CF!ShownIsTrue, CF!CaughtUp, CF!NothingBuffered, CF!Repaired, CF!Followed, CF!Buckets,
     CF!ToSet, CF!Cardinality, Q!CF!ShownIsTrue, Q!CF!CaughtUp, Q!CF!NothingBuffered,
     Q!CF!Repaired, Q!CF!Followed, Q!CF!Buckets, Q!CF!ToSet, Q!CF!Cardinality
<1> QED BY <1>1, <1>2, <1>3, <1>4, <1>5, <1>6

-----------------------------------------------------------------------------
(* The service of a behaviour                                              *)

LEMMA TheServiceStarts ==
    Init => /\ service = "healer" => SH!Init
            /\ service = "child" => RC!Init
            /\ service = "portraits" => PR!Init
            /\ service = "vram" => VG!Init
            /\ service = "hub" => HU!Init
            /\ service = "exchange" => SE!Init
            /\ service = "storage" => HS!Init
            /\ service = "sink" => LS!Init
            /\ service = "ledgers" => LE!Init
            /\ service = "committee" => CM!Init
            /\ service = "yaml" => YS!Init
            /\ service = "triad" => TC!Init
            /\ service = "door" => FD!Init
            /\ service = "config" => CO!Init
            /\ service = "requests" => CR!Init
            /\ service = "feed" => CF!Init
BY DEF Init

LEMMA TheServiceMoves ==
    [Next]_vars => /\ service' = service
                   /\ service = "healer" => [SH!Next]_SH!vars
                   /\ service = "child" => [RC!Next]_RC!vars
                   /\ service = "portraits" => [PR!Next]_PR!vars
                   /\ service = "vram" => [VG!Next]_VG!vars
                   /\ service = "hub" => [HU!Next]_HU!vars
                   /\ service = "exchange" => [SE!Next]_SE!vars
                   /\ service = "storage" => [HS!Next]_HS!vars
                   /\ service = "sink" => [LS!Next]_LS!vars
                   /\ service = "ledgers" => [LE!Next]_LE!vars
                   /\ service = "committee" => [CM!Next]_CM!vars
                   /\ service = "yaml" => [YS!Next]_x1
                   /\ service = "triad" => [TC!Next]_TC!vars
                   /\ service = "door" => [FD!Next]_FD!vars
                   /\ service = "config" => [CO!Next]_CO!vars
                   /\ service = "requests" => [CR!Next]_CR!vars
                   /\ service = "feed" => [CF!Next]_CF!vars
<1>1. CASE Next
  BY <1>1 DEF Next
<1>2. CASE UNCHANGED vars
  <2>1. UNCHANGED <<SH!vars, RC!vars, PR!vars, VG!vars, LS!vars, LE!vars, CM!vars>>
    BY <1>2 DEF vars, SH!vars, RC!vars, PR!vars, VG!vars, LS!vars, LE!vars, CM!vars
  <2>2. UNCHANGED HU!vars
    BY <1>2 DEF vars, HU!vars, HU!db
  <2>3. UNCHANGED SE!vars
    BY <1>2 DEF vars, SE!vars, SE!clock, SE!hostVars, SE!inboxVars
  <2>4. UNCHANGED HS!vars
    BY <1>2 DEF vars, HS!vars, HS!database
  <2>5. UNCHANGED TC!vars
    BY <1>2 DEF vars, TC!vars, TC!flow, TC!limits, TC!traces
  <2>6. UNCHANGED FD!vars
    BY <1>2 DEF vars, FD!vars
  <2>7. UNCHANGED CO!vars
    BY <1>2 DEF vars, CO!vars, CO!personas, CO!workflow
  <2>8. UNCHANGED <<CR!vars, CF!vars>>
    BY <1>2 DEF vars, CR!vars, CF!vars, CF!server, CF!page
  <2>9. service' = service /\ x1' = x1
    BY <1>2 DEF vars
  <2> QED BY <2>1, <2>2, <2>3, <2>4, <2>5, <2>6, <2>7, <2>8, <2>9
<1> QED BY <1>1, <1>2

\* The inductive invariant of the service that runs.
ServiceInv ==
    /\ service = "healer" => P!RepairInv
    /\ service = "child" => P!ChildInv
    /\ service = "portraits" => P!PictureInv
    /\ service = "vram" => P!GateInv
    /\ service = "hub" => P!HubInv
    /\ service = "exchange" => P!ExchangeInv
    /\ service = "storage" => P!StorageInv
    /\ service = "sink" => P!SinkInv
    /\ service = "ledgers" => P!LedgerInv
    /\ service = "committee" => P!CommitteeInv
    /\ service = "triad" => Q!TriadMaps /\ Q!TriadInv /\ Q!DisplayInv
    /\ service = "door" => Q!DoorInv
    /\ service = "config" => Q!ConfigInv
    /\ service = "requests" => Q!RequestsInv
    /\ service = "feed" => Q!FeedInv /\ Q!FeedTells
    /\ service = "yaml" => P!YamlInv

\* The two files of the model, and the one path they are stored under.
LEMMA IndexHolds == P!IndexAssumption
<1>1. DOMAIN Indexed = {1, 2} /\ Indexed[1] = "x/a.md" /\ Indexed[2] = "y/a.md"
  BY DEF Indexed
<1>2. P!HS!Range(Indexed) = {"x/a.md", "y/a.md"}
  BY <1>1 DEF P!HS!Range
<1>3. Indexed \in Seq({"x/a.md", "y/a.md"})
  BY DEF Indexed
<1>4. DOMAIN StoredAs = {"x/a.md", "y/a.md"}
  BY DEF StoredAs
<1> QED BY <1>2, <1>3, <1>4, ServicesAssumption DEF P!IndexAssumption

\* The two participants of the model, and the numbers of the votes.
LEMMA PanelHolds == P!PanelAssumption
<1>1. DOMAIN Participants = {1, 2} /\ Participants[1] = "p1" /\ Participants[2] = "p2" /\ Len(Participants) = 2
  BY DEF Participants
<1>2. P!CM!Range(Participants) = {"p1", "p2"}
  BY <1>1 DEF P!CM!Range
<1>3. Participants \in Seq({"p1", "p2"})
  BY DEF Participants
<1>4. \A i, j \in 1..2 : Participants[i] = Participants[j] => i = j
  BY <1>1
<1> QED BY <1>1, <1>2, <1>3, <1>4, ServicesAssumption DEF P!PanelAssumption

\* The bounds of the services, as each module of proofs assumes them.
LEMMA BoundsHold ==
    /\ P!LedgerBounds /\ P!Configured
    /\ Q!TriadBounds /\ Q!DoorBounds /\ Q!ConfigNames /\ Q!AdapterNames /\ Q!FeedBounds
<1>1. IsFiniteSet(Conns) /\ IsFiniteSet(Speakers) /\ IsFiniteSet(Things)
  BY ServicesAssumption
<1>2. Q!IsFiniteSet(Conns) /\ Q!IsFiniteSet(Speakers) /\ Q!IsFiniteSet(Things)
  BY <1>1 DEF IsFiniteSet, Q!IsFiniteSet
<1>3. Q!DoorBounds
  BY <1>2, ServicesAssumption DEF Q!DoorBounds
<1>4. Q!FeedBounds
  BY <1>2, ServicesAssumption DEF Q!FeedBounds
<1>5. Q!TriadBounds /\ Q!ConfigNames /\ Q!AdapterNames
  BY ServicesAssumption DEF Q!TriadBounds, Q!ConfigNames, Q!AdapterNames
<1> QED BY <1>3, <1>4, <1>5, ServicesAssumption DEF P!LedgerBounds, P!Configured, HostSkews

LEMMA ServiceInit == Init => ServiceInv
<1> SUFFICES ASSUME Init PROVE ServiceInv
  OBVIOUS
<1>1. service = "healer" => P!RepairInv
  BY TheServiceStarts, HealerSame, P!RepairInit
<1>2. service = "child" => P!ChildInv
  BY TheServiceStarts, ChildSame, P!ChildInit, ServicesAssumption
<1>3. service = "portraits" => P!PictureInv
  BY TheServiceStarts, PictureSame, P!PictureInit
<1>4. service = "vram" => P!GateInv
  BY TheServiceStarts, GateSame, P!GateInit, ServicesAssumption
<1>5. service = "hub" => P!HubInv
  BY TheServiceStarts, HubSame, P!HubInit, ServicesAssumption
<1>6. service = "exchange" => P!ExchangeInv
  BY TheServiceStarts, ExchangeSame, P!ExchangeInit, BoundsHold
<1>7. service = "storage" => P!StorageInv
  BY TheServiceStarts, StorageSame, P!StorageInit, IndexHolds
<1>8. service = "sink" => P!SinkInv
  BY TheServiceStarts, SinkSame, P!SinkInit, ServicesAssumption
<1>9. service = "ledgers" => P!LedgerInv
  BY TheServiceStarts, LedgerSame, P!LedgerInit, BoundsHold
<1>10. service = "triad" => Q!TriadMaps /\ Q!TriadInv /\ Q!DisplayInv
  BY TheServiceStarts, TriadSame, Q!TriadMapsInit, Q!TriadInit, Q!DisplayStarts, BoundsHold
<1>11. service = "door" => Q!DoorInv
  BY TheServiceStarts, DoorSame, Q!DoorInit, BoundsHold
<1>12. service = "config" => Q!ConfigInv
  BY TheServiceStarts, ConfigSame, Q!ConfigInit, BoundsHold
<1>13. service = "requests" => Q!RequestsInv
  BY TheServiceStarts, RequestsSame, Q!RequestsInit
<1>14. service = "feed" => Q!FeedInv /\ Q!FeedTells
  BY TheServiceStarts, FeedSame, Q!FeedInit, Q!FeedTellsInit, BoundsHold
<1>15. service = "committee" => P!CommitteeInv
  BY TheServiceStarts, CommitteeSame, P!CommitteeInit, PanelHolds
<1>16. service = "yaml" => P!YamlInv
  BY TheServiceStarts, YamlSame, P!YamlInit
<1> QED BY <1>1, <1>2, <1>3, <1>4, <1>5, <1>6, <1>7, <1>8, <1>9, <1>10, <1>11, <1>12,
     <1>13, <1>14, <1>15, <1>16 DEF ServiceInv

LEMMA ServiceStep == ServiceInv /\ [Next]_vars => ServiceInv'
<1> SUFFICES ASSUME ServiceInv, [Next]_vars PROVE ServiceInv'
  OBVIOUS
<1>1. (service = "healer" => P!RepairInv)'
  BY TheServiceMoves, HealerSame, P!RepairStep DEF ServiceInv
<1>2. (service = "child" => P!ChildInv)'
  BY TheServiceMoves, ChildSame, P!ChildStep, ServicesAssumption DEF ServiceInv
<1>3. (service = "portraits" => P!PictureInv)'
  BY TheServiceMoves, PictureSame, P!PictureStep DEF ServiceInv
<1>4. (service = "vram" => P!GateInv)'
  BY TheServiceMoves, GateSame, P!GateStep, ServicesAssumption DEF ServiceInv
<1>5. (service = "hub" => P!HubInv)'
  BY TheServiceMoves, HubSame, P!HubStep, ServicesAssumption DEF ServiceInv
<1>6. (service = "exchange" => P!ExchangeInv)'
  BY TheServiceMoves, ExchangeSame, P!ExchangeStep, BoundsHold DEF ServiceInv
<1>7. (service = "storage" => P!StorageInv)'
  BY TheServiceMoves, StorageSame, P!StorageStep, IndexHolds DEF ServiceInv
<1>8. (service = "sink" => P!SinkInv)'
  BY TheServiceMoves, SinkSame, P!SinkStep, ServicesAssumption DEF ServiceInv
<1>9. (service = "ledgers" => P!LedgerInv)'
  BY TheServiceMoves, LedgerSame, P!LedgerStep, BoundsHold DEF ServiceInv
<1>10. (service = "triad" => Q!TriadMaps /\ Q!TriadInv /\ Q!DisplayInv)'
  <2>1. (service = "triad" => Q!TriadMaps /\ Q!TriadInv)'
    BY TheServiceMoves, TriadSame, Q!TriadMapsStep, Q!TriadStep, BoundsHold DEF ServiceInv
  <2>2. (service = "triad" => Q!DisplayInv)'
    BY <2>1, TheServiceMoves, TriadSame, Q!DisplayIsTrue, ServicesAssumption DEF ServiceInv
  <2> QED BY <2>1, <2>2
<1>11. (service = "door" => Q!DoorInv)'
  BY TheServiceMoves, DoorSame, Q!DoorStep, BoundsHold DEF ServiceInv
<1>12. (service = "config" => Q!ConfigInv)'
  BY TheServiceMoves, ConfigSame, Q!ConfigStep, BoundsHold DEF ServiceInv
<1>13. (service = "requests" => Q!RequestsInv)'
  BY TheServiceMoves, RequestsSame, Q!RequestsStep, BoundsHold DEF ServiceInv
<1>14. (service = "feed" => Q!FeedInv /\ Q!FeedTells)'
  <2>1. (service = "feed" => Q!FeedInv)'
    BY TheServiceMoves, FeedSame, Q!FeedStep, BoundsHold DEF ServiceInv
  <2>2. (service = "feed" => Q!FeedTells)'
    BY TheServiceMoves, FeedSame, Q!FeedTellsStep, BoundsHold DEF ServiceInv
  <2> QED BY <2>1, <2>2
<1>15. (service = "committee" => P!CommitteeInv)'
  BY TheServiceMoves, CommitteeSame, P!CommitteeStep, PanelHolds DEF ServiceInv
<1>16. (service = "yaml" => P!YamlInv)'
  BY TheServiceMoves, YamlSame, P!YamlStep DEF ServiceInv
<1> QED BY <1>1, <1>2, <1>3, <1>4, <1>5, <1>6, <1>7, <1>8, <1>9, <1>10, <1>11, <1>12,
     <1>13, <1>14, <1>15, <1>16 DEF ServiceInv

\* Whichever service runs keeps its invariant.
THEOREM ServiceInvariance == Spec => []ServiceInv
BY ServiceInit, ServiceStep, PTL DEF Spec

-----------------------------------------------------------------------------
(* What follows                                                            *)

\* Wherever a process was cut off, what it stored is right: the schema of the
\* host matches its versions and its anchors and its matrix do not accumulate;
\* the rows of the hub have one salt and the columns its version says; a topic
\* is read back in the order it was posted, receipts are a chain; and the
\* files of the log are in order.
THEOREM StorageIsSound == Spec => []StoresAreSound
<1>1. ServiceInv => StoresAreSound
  <2> SUFFICES ASSUME ServiceInv PROVE StoresAreSound
    OBVIOUS
  <2>1. service = "storage" => HS!SchemaMatchesVersions /\ HS!OneAnchorPerPath /\ HS!MatrixIsNewest
    BY P!StorageTrue, StorageSame DEF ServiceInv
  <2>2. service = "hub" => HU!TypeOK /\ HU!StampedIsFilled /\ HU!OneSalt
    BY P!HubTrue, HubSame DEF ServiceInv
  <2>3. service = "ledgers" => LE!TypeOK /\ LE!HistoryIsTail /\ LE!ChainIsWhole
    BY P!LedgerTrue, LedgerSame, BoundsHold DEF ServiceInv
  <2>4. service = "sink" => LS!LinesAreInOrder
    BY P!SinkTrue, SinkSame DEF ServiceInv
  <2> QED BY <2>1, <2>2, <2>3, <2>4 DEF StoresAreSound
<1> QED BY <1>1, ServiceInvariance, PTL

\* A success that is reported is one, of a repair, a runtime, a portrait and a
\* sealed dispatch; and what waits has a deadline.
THEOREM SuccessIsEarned == Spec => []SuccessIsTrue
<1>1. ServiceInv => SuccessIsTrue
  <2> SUFFICES ASSUME ServiceInv PROVE SuccessIsTrue
    OBVIOUS
  <2>1. service = "healer" => SH!OutcomeIsTrue
    BY P!RepairTrue, HealerSame DEF ServiceInv
  <2>2. service = "child" => RC!TypeOK /\ RC!AnswerIsClean /\ RC!AliveHasDeadline
    BY P!ChildTrue, ChildSame DEF ServiceInv
  <2>3. service = "portraits" => PR!TypeOK /\ PR!SourceIsTrue /\ PR!DeadlineStands
    BY P!PictureTrue, PictureSame DEF ServiceInv
  <2>4. service = "exchange" => SE!TypeOK /\ SE!OnlyAgreedIsOpened /\ SE!TimelyIsOpened
    BY P!ExchangeTrue, ExchangeSame DEF ServiceInv
  <2> QED BY <2>1, <2>2, <2>3, <2>4 DEF SuccessIsTrue
<1> QED BY <1>1, ServiceInvariance, PTL

\* Whatever cycles, ticks of the clock and reloads of the configuration
\* interleave, an agent that serves as architect of choice only is called at
\* most maxPerWindow times in any closed window of the rate limit.
THEOREM LimitIsKept == Spec => []WindowHolds
<1>1. ServiceInv => WindowHolds
  BY Q!TriadTrue, TriadSame, BoundsHold DEF ServiceInv, WindowHolds
<1> QED BY <1>1, ServiceInvariance, PTL

\* A cycle is accounted for whoever throws where: its receipt is stored and
\* announced exactly if its task is told that it returned, with the whole legal
\* trail; and its trace holds one span for each role that was awaited.
THEOREM CycleIsAccounted == Spec => []CycleIsWhole
<1>1. ServiceInv => CycleIsWhole
  BY Q!TriadTrue, TriadSame, BoundsHold DEF ServiceInv, CycleIsWhole
<1> QED BY <1>1, ServiceInvariance, PTL

\* No key gets more through the rate limiter than its bucket refills, one that
\* comes back after Retry-After is served, a request is answered once, no more
\* sockets are served than the cap allows, and the database closes only after
\* the requests and sockets that use it, in whatever order clients come.
THEOREM DoorKeepsFair == Spec => []DoorIsFair
<1>1. ServiceInv => DoorIsFair
  BY Q!DoorTrue, DoorSame, BoundsHold DEF ServiceInv, DoorIsFair
<1> QED BY <1>1, ServiceInvariance, PTL

\* A persona that is loaded has a file that is there and is the newest of it,
\* the settings in use are those of the last workflow that parsed, and the VRAM
\* gate answers by the reading on display, whatever is edited meanwhile.
THEOREM CachesFollow == Spec => []CachesAreCurrent
<1>1. ServiceInv => CachesAreCurrent
  BY Q!ConfigTrue, P!GateTrue, ConfigSame, GateSame, BoundsHold DEF ServiceInv, CachesAreCurrent
<1> QED BY <1>1, ServiceInvariance, PTL

\* The page has one socket or one timer to dial it, through lost and refused
\* sockets and remounts, and says it is connected only while it is; the chat
\* loop runs exactly while its switch is on and the mode is active; and a
\* button waits exactly while its request is in flight.
THEOREM CockpitIsProved == Spec => []CockpitIsTrue
<1>1. ServiceInv => CockpitIsTrue
  BY Q!FeedTrue, Q!RequestsTrue, FeedSame, RequestsSame, BoundsHold DEF ServiceInv, CockpitIsTrue
<1> QED BY <1>1, ServiceInvariance, PTL

\* An accepted proposal has the weight, the mean and the votes that its quorum
\* asks for, and one more approval at full confidence never turns it down; the
\* parser of the front matter refuses exactly the malformed documents, and reads
\* the others as their lines are nested; and a page that has applied all that
\* was sent to it shows what the host knows, after lost sockets, idle caches and
\* dropped frames.
THEOREM SumsAreProved == Spec => []SumsAreTrue
<1>1. ServiceInv => SumsAreTrue
  <2> SUFFICES ASSUME ServiceInv PROVE SumsAreTrue
    OBVIOUS
  <2>1. service = "committee" => CM!AcceptedHasQuorum /\ CM!ApprovalNeverHurts
    BY P!CommitteeTrue, CommitteeSame, PanelHolds DEF ServiceInv
  <2>2. service = "yaml" => YS!ParseIsNesting
    BY P!YamlTrue, YamlSame, ServicesAssumption DEF ServiceInv
  <2>3. service = "feed" => CF!ShownIsTrue
    BY Q!FeedShowsTruth, FeedSame DEF ServiceInv
  <2> QED BY <2>1, <2>2, <2>3 DEF SumsAreTrue
<1> QED BY <1>1, ServiceInvariance, PTL

\* No step shows a cycle twice, in an old phase, or not at all when it enters
\* one; evicts a file of the log but the oldest; makes a read of the hub tell
\* that it was pruned; or frees a button with a snapshot that is older than
\* what the button did.
THEOREM StepsAreProved == Spec => StepsAreLawful
<1>1. ASSUME ServiceInv, ServiceInv', [Next]_vars
      PROVE  /\ service = "triad" => TC!DisplayStep
             /\ service = "sink" => LS!EvictionStep
             /\ service = "ledgers" => LE!PruneStep
             /\ service = "requests" => CR!RefreshStep
  <2>1. service = "triad" => TC!DisplayStep
    BY <1>1, TheServiceMoves, TriadSame, Q!DisplayIsTrue, ServicesAssumption DEF ServiceInv
  <2>2. service = "sink" => LS!EvictionStep
    BY <1>1, TheServiceMoves, SinkSame, P!OldestGoes, ServicesAssumption DEF ServiceInv
  <2>3. service = "ledgers" => LE!PruneStep
    BY <1>1, TheServiceMoves, LedgerSame, P!PruneIsQuiet DEF ServiceInv
  <2>4. service = "requests" => CR!RefreshStep
    BY <1>1, TheServiceMoves, RequestsSame, Q!RefreshIsFresh, BoundsHold DEF ServiceInv
  <2> QED BY <2>1, <2>2, <2>3, <2>4
<1> QED BY <1>1, ServiceInvariance, PTL DEF Spec, StepsAreLawful
=============================================================================
