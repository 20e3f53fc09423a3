----------------------------- MODULE ServiceProofs ----------------------------
(***************************************************************************)
(* Proofs about the services of the host that share no state with one      *)
(* another, each under the variables of its own module: an inductive       *)
(* invariant of each, that its initial states satisfy it, that its steps   *)
(* keep it, and what follows from it.  MCServicesProofs takes them over to *)
(* the specification that the runs check.                                  *)
(*                                                                         *)
(* A variable that two modules have a use for under one name has the name  *)
(* of its module before it here, unless it is the first of both.           *)
(***************************************************************************)
EXTENDS Integers, Sequences, FiniteSets, SequenceTheorems, FiniteSetTheorems,
        WellFoundedInduction, TLAPS

CONSTANTS
    \* SelfHeal
    Receipts, Fitting, MaxAttempts, CommitOnGreen,
    \* RuntimeChild
    Runs, Runtimes, OutputLimit, MaxOutput,
    \* PortraitRender
    Portraits,
    \* VramGate
    FreeLevels, Floors, IdleAfter,
    \* HubUpgrade
    Procs, HubSecrets, NoSecret, Rows, NumColumns, MaxOpens,
    \* SealedExchange
    DispatchSecrets, HostSkews, ClockWindow, MaxTries, MaxPosts,
    DispatchTimeout, ReplyTimeout, MaxRest, MaxInstant,
    \* HostStorage
    Indexed, StoredAs, MaxLearnt, MaxRewrites, MaxEnded,
    \* LogSink
    MaxQueue, MaxBatch, MaxBytes, MaxFiles, MaxLogged,
    \* Ledgers
    Requests, MemoryKeys, Limit, Ttl, Retention, MaxRows, MaxClock,
    \* Committee
    Participants, Outsiders, Confidences, Weights, Thresholds, MaxVotes,
    \* YamlSubset
    Indents, KeyNames, MaxDocument

VARIABLES
    tree, index, head, repairAt, attempt,
    runtime, allowed, child, wrote, last, code, timer, awaits, outcome,
    enabled, asked, pictureAwaits, pictureTimer, queued, reply,
    gate, floor, reading, poll, gateMode, quiet,
    version, salt, columns, made, rows, pc, prior, key, hubAt, missing, todo, opens,
    now, skew, hostSecret, inboxSecret, host, letter, tries, hostAge,
    inbox, answer, posts, inboxAge, refused,
    stage, bootAt, schema, versions, texts, anchors, matrix, cycles, fileEdits,
    next, queue, files, bytes, dropped, process,
    messages, receipts, memory, appended, written,
    votes, quorumOption, failureOption,
    doc

SH == INSTANCE SelfHeal WITH at <- repairAt
RC == INSTANCE RuntimeChild
PR == INSTANCE PortraitRender WITH awaits <- pictureAwaits, timer <- pictureTimer
VG == INSTANCE VramGate WITH cache <- reading, mode <- gateMode
HU == INSTANCE HubUpgrade WITH at <- hubAt, Secrets <- HubSecrets
SE == INSTANCE SealedExchange WITH Skews <- HostSkews
HS == INSTANCE HostStorage WITH at <- bootAt, edits <- fileEdits, Files <- Indexed,
    MaxEntries <- MaxLearnt, MaxEdits <- MaxRewrites, MaxCycles <- MaxEnded
LS == INSTANCE LogSink WITH MaxLines <- MaxLogged
LE == INSTANCE Ledgers WITH MaxTime <- MaxClock
CM == INSTANCE Committee WITH Others <- Outsiders
YS == INSTANCE YamlSubset WITH MaxLines <- MaxDocument

-----------------------------------------------------------------------------
(* SelfHeal                                                                *)

\* Where the patch of a repair is, at each of its calls.  Nobody else touches
\* it, but whoever commits takes along what was added by others.
Patched == {"test", "add", "commit", "applied", "reverse"}

RepairInv ==
    /\ repairAt \in [Receipts -> {"new", "branch", "status", "check", "apply", "test", "add", "commit",
                                  "reverse", "applied", "skipped", "failed", "reverted"}]
    /\ \A r \in Receipts :
       /\ r \in tree <=> repairAt[r] \in Patched
       /\ repairAt[r] = "commit" => r \in index
       /\ CommitOnGreen /\ repairAt[r] = "applied" => r \in head /\ r \in index
       /\ repairAt[r] \in {"add", "commit"} => CommitOnGreen

LEMMA RepairInit == SH!Init => RepairInv
BY DEF SH!Init, RepairInv, Patched

\* The awaited call of r moves on, and touches no other patch in the tree.
LEMMA RepairMoves ==
    ASSUME RepairInv, NEW r \in Receipts,
           NEW step \in {"branch", "status", "check", "apply", "test", "add", "commit", "reverse",
                         "applied", "skipped", "failed", "reverted"},
           SH!Goto(r, step),
           r \in tree' <=> step \in Patched,
           \A s \in Receipts \ {r} : s \in tree' <=> s \in tree,
           \A s \in Receipts \ {r} : s \in index /\ s \in tree => s \in index',
           \A s \in Receipts \ {r} : s \in head /\ s \in index => s \in head',
           step = "commit" => r \in index',
           CommitOnGreen /\ step = "applied" => r \in head' /\ r \in index',
           step \in {"add", "commit"} => CommitOnGreen
    PROVE  RepairInv'
<1>1. repairAt'[r] = step /\ \A s \in Receipts \ {r} : repairAt'[s] = repairAt[s]
  BY DEF SH!Goto, RepairInv
<1>2. repairAt' \in [Receipts -> {"new", "branch", "status", "check", "apply", "test", "add", "commit",
                                  "reverse", "applied", "skipped", "failed", "reverted"}]
  BY DEF SH!Goto, RepairInv
<1>3. ASSUME NEW s \in Receipts
      PROVE  /\ s \in tree' <=> repairAt'[s] \in Patched
             /\ repairAt'[s] = "commit" => s \in index'
             /\ CommitOnGreen /\ repairAt'[s] = "applied" => s \in head' /\ s \in index'
             /\ repairAt'[s] \in {"add", "commit"} => CommitOnGreen
  <2>1. CASE s = r
    BY <1>1, <2>1
  <2>2. CASE s # r
    BY <1>1, <2>2 DEF RepairInv, Patched
  <2> QED BY <2>1, <2>2
<1> QED BY <1>2, <1>3 DEF RepairInv

LEMMA RepairStep == RepairInv /\ [SH!Next]_SH!vars => RepairInv'
<1> SUFFICES ASSUME RepairInv, [SH!Next]_SH!vars PROVE RepairInv'
  OBVIOUS
<1>1. ASSUME NEW r \in Receipts, SH!Begin(r) PROVE RepairInv'
  BY <1>1, RepairMoves DEF SH!Begin, RepairInv, Patched
<1>2. ASSUME NEW r \in Receipts, SH!Branch(r) PROVE RepairInv'
  BY <1>2, RepairMoves DEF SH!Branch, RepairInv, Patched
<1>3. ASSUME NEW r \in Receipts, SH!Status(r) PROVE RepairInv'
  <2>1. SH!Goto(r, "skipped") \/ SH!Goto(r, "check")
    BY <1>3 DEF SH!Status
  <2> QED BY <1>3, <2>1, RepairMoves DEF SH!Status, RepairInv, Patched
<1>4. ASSUME NEW r \in Receipts, SH!Check(r) PROVE RepairInv'
  <2>1. SH!Goto(r, "apply") \/ SH!Goto(r, "failed")
    BY <1>4 DEF SH!Check
  <2> QED BY <1>4, <2>1, RepairMoves DEF SH!Check, RepairInv, Patched
<1>5. ASSUME NEW r \in Receipts, SH!Apply(r) PROVE RepairInv'
  <2>1. CASE SH!Applies(r)
    BY <1>5, <2>1, RepairMoves DEF SH!Apply, RepairInv, Patched
  <2>2. CASE ~SH!Applies(r)
    BY <1>5, <2>2, RepairMoves DEF SH!Apply, RepairInv, Patched
  <2> QED BY <2>1, <2>2
<1>6. ASSUME NEW r \in Receipts, SH!Test(r) PROVE RepairInv'
  <2>1. CASE CommitOnGreen /\ SH!Goto(r, "add")
    BY <1>6, <2>1, RepairMoves DEF SH!Test, RepairInv, Patched
  <2>2. CASE ~CommitOnGreen /\ SH!Goto(r, "applied")
    BY <1>6, <2>2, RepairMoves DEF SH!Test, RepairInv, Patched
  <2>3. CASE SH!Goto(r, "reverse")
    BY <1>6, <2>3, RepairMoves DEF SH!Test, RepairInv, Patched
  <2> QED BY <1>6, <2>1, <2>2, <2>3 DEF SH!Test
<1>7. ASSUME NEW r \in Receipts, SH!Add(r) PROVE RepairInv'
  BY <1>7, RepairMoves DEF SH!Add, RepairInv, Patched
<1>8. ASSUME NEW r \in Receipts, SH!Commit(r) PROVE RepairInv'
  BY <1>8, RepairMoves DEF SH!Commit, RepairInv, Patched
<1>9. ASSUME NEW r \in Receipts, SH!Reverse(r) PROVE RepairInv'
  <2>1. r \in tree /\ tree' = tree \ {r}
    BY <1>9 DEF SH!Reverse, RepairInv, Patched
  <2>2. SH!Goto(r, "reverted") \/ SH!Goto(r, "check")
    BY <1>9, <2>1 DEF SH!Reverse
  <2> QED BY <1>9, <2>1, <2>2, RepairMoves DEF SH!Reverse, RepairInv, Patched
<1>10. CASE UNCHANGED SH!vars
  BY <1>10 DEF SH!vars, RepairInv
<1> QED BY <1>1, <1>2, <1>3, <1>4, <1>5, <1>6, <1>7, <1>8, <1>9, <1>10 DEF SH!Next

\* What a repair reports is so.
LEMMA RepairTrue == RepairInv => SH!OutcomeIsTrue
BY DEF RepairInv, SH!OutcomeIsTrue, Patched

-----------------------------------------------------------------------------
(* RuntimeChild                                                            *)

\* How far a dispatch is, by what spawnCapture's promise is: a child lives
\* only after it was spawned; one that is doomed has been given up; and who
\* has a child has a tool for it.
ChildPhase(r) ==
    /\ awaits[r] = "new" => child[r] = "none" /\ outcome[r] = "none"
    /\ awaits[r] = "pending" => child[r] = "alive" /\ outcome[r] = "none"
    /\ child[r] = "alive" => awaits[r] = "pending" /\ timer[r]
    /\ child[r] = "none" => awaits[r] \in {"new", "closed"}
    /\ child[r] # "none" => runtime[r] \in RC!Tools
    /\ awaits[r] = "closed" /\ child[r] = "none" =>
           (outcome[r] = "text" => runtime[r] \notin RC!Tools)
    /\ awaits[r] = "closed" /\ child[r] # "none" =>
           child[r] = "gone" /\ (outcome[r] = "text" => code[r] = 0)
    /\ awaits[r] = "threw" => outcome[r] = "failed"

ChildInv == RC!TypeOK /\ \A r \in Runs : ChildPhase(r)

LEMMA ChildInit == MaxOutput \in Nat /\ RC!Init => ChildInv
BY DEF RC!Init, ChildInv, RC!TypeOK, RC!Messages, ChildPhase, RC!Tools

\* What a step of r leaves alone in the other dispatches.
OtherRunsStay(r) ==
    \A q \in Runs \ {r} :
       /\ child'[q] = child[q] /\ code'[q] = code[q] /\ timer'[q] = timer[q]
       /\ awaits'[q] = awaits[q] /\ outcome'[q] = outcome[q]

LEMMA ChildKeeps ==
    ASSUME ChildInv, NEW r \in Runs, RC!TypeOK', OtherRunsStay(r), runtime' = runtime, ChildPhase(r)'
    PROVE  ChildInv'
<1>1. ASSUME NEW q \in Runs PROVE ChildPhase(q)'
  <2>1. CASE q = r
    BY <2>1
  <2>2. CASE q # r
    BY <2>2 DEF ChildInv, ChildPhase, OtherRunsStay
  <2> QED BY <2>1, <2>2
<1> QED BY <1>1 DEF ChildInv

LEMMA ChildStep == MaxOutput \in Nat /\ ChildInv /\ [RC!Next]_RC!vars => ChildInv'
<1> SUFFICES ASSUME MaxOutput \in Nat, ChildInv, [RC!Next]_RC!vars PROVE ChildInv'
  OBVIOUS
<1> USE DEF RC!Settle
<1>1. ASSUME NEW r \in Runs, RC!AnswerAtOnce(r) PROVE ChildInv'
  <2>1. RC!TypeOK'
    BY <1>1 DEF RC!AnswerAtOnce, ChildInv, RC!TypeOK
  <2>2. ChildPhase(r)'
    BY <1>1 DEF RC!AnswerAtOnce, ChildInv, ChildPhase, RC!TypeOK, RC!Tools
  <2>3. OtherRunsStay(r) /\ runtime' = runtime
    BY <1>1 DEF RC!AnswerAtOnce, OtherRunsStay, ChildInv, RC!TypeOK
  <2> QED BY <2>1, <2>2, <2>3, ChildKeeps
<1>2. ASSUME NEW r \in Runs, RC!Spawn(r) PROVE ChildInv'
  <2>1. RC!TypeOK'
    BY <1>2 DEF RC!Spawn, ChildInv, RC!TypeOK
  <2>2. ChildPhase(r)'
    BY <1>2 DEF RC!Spawn, ChildInv, ChildPhase, RC!TypeOK
  <2>3. OtherRunsStay(r) /\ runtime' = runtime
    BY <1>2 DEF RC!Spawn, OtherRunsStay, ChildInv, RC!TypeOK
  <2> QED BY <2>1, <2>2, <2>3, ChildKeeps
<1>3. ASSUME NEW r \in Runs, RC!SpawnFails(r) PROVE ChildInv'
  <2>1. RC!TypeOK'
    BY <1>3 DEF RC!SpawnFails, ChildInv, RC!TypeOK
  <2>2. ChildPhase(r)'
    BY <1>3 DEF RC!SpawnFails, ChildInv, ChildPhase, RC!TypeOK
  <2>3. OtherRunsStay(r) /\ runtime' = runtime
    BY <1>3 DEF RC!SpawnFails, OtherRunsStay, ChildInv, RC!TypeOK
  <2> QED BY <2>1, <2>2, <2>3, ChildKeeps
<1>4. ASSUME NEW r \in Runs, RC!ChildWrites(r) PROVE ChildInv'
  <2>1. RC!TypeOK'
    BY <1>4 DEF RC!ChildWrites, ChildInv, RC!TypeOK
  <2> QED BY <1>4, <2>1 DEF RC!ChildWrites, ChildInv, ChildPhase
<1>5. ASSUME NEW r \in Runs, RC!ChildLeavesMessage(r) PROVE ChildInv'
  <2>1. RC!TypeOK'
    BY <1>5 DEF RC!ChildLeavesMessage, ChildInv, RC!TypeOK, RC!Messages
  <2> QED BY <1>5, <2>1 DEF RC!ChildLeavesMessage, ChildInv, ChildPhase
<1>6. ASSUME NEW r \in Runs, RC!TimesOut(r) PROVE ChildInv'
  <2>1. RC!TypeOK'
    BY <1>6 DEF RC!TimesOut, ChildInv, RC!TypeOK
  <2>2. ChildPhase(r)'
    BY <1>6 DEF RC!TimesOut, ChildInv, ChildPhase, RC!TypeOK
  <2>3. OtherRunsStay(r) /\ runtime' = runtime
    BY <1>6 DEF RC!TimesOut, OtherRunsStay, ChildInv, RC!TypeOK
  <2> QED BY <2>1, <2>2, <2>3, ChildKeeps
<1>7. ASSUME NEW r \in Runs, NEW c \in -1..1, RC!ChildCloses(r, c) PROVE ChildInv'
  <2>1. CASE awaits[r] = "pending"
    <3>1. PICK how \in RC!Outcomes(r, c) : outcome' = [outcome EXCEPT ![r] = how]
      BY <1>7, <2>1 DEF RC!ChildCloses
    <3>2. how \in {"text", "failed"} /\ (how = "text" => c = 0)
      BY <3>1 DEF RC!Outcomes, RC!Answers
    <3>3. RC!TypeOK'
      BY <1>7, <2>1, <3>1, <3>2 DEF RC!ChildCloses, ChildInv, RC!TypeOK, RC!Messages
    <3>4. ChildPhase(r)'
      BY <1>7, <2>1, <3>1, <3>2 DEF RC!ChildCloses, ChildInv, ChildPhase, RC!TypeOK
    <3>5. OtherRunsStay(r) /\ runtime' = runtime
      BY <1>7, <2>1, <3>1 DEF RC!ChildCloses, OtherRunsStay, ChildInv, RC!TypeOK
    <3> QED BY <3>3, <3>4, <3>5, ChildKeeps
  <2>2. CASE awaits[r] # "pending"
    <3>1. RC!TypeOK'
      BY <1>7, <2>2 DEF RC!ChildCloses, ChildInv, RC!TypeOK
    <3>2. ChildPhase(r)'
      BY <1>7, <2>2 DEF RC!ChildCloses, ChildInv, ChildPhase, RC!TypeOK
    <3>3. OtherRunsStay(r) /\ runtime' = runtime
      BY <1>7, <2>2 DEF RC!ChildCloses, OtherRunsStay, ChildInv, RC!TypeOK
    <3> QED BY <3>1, <3>2, <3>3, ChildKeeps
  <2> QED BY <2>1, <2>2
<1>8. CASE UNCHANGED RC!vars
  BY <1>8 DEF RC!vars, ChildInv, ChildPhase, RC!TypeOK
<1> QED BY <1>1, <1>2, <1>3, <1>4, <1>5, <1>6, <1>7, <1>8 DEF RC!Next

\* A success is a clean one, and no living child is without its deadline.
LEMMA ChildTrue == ChildInv => RC!TypeOK /\ RC!AnswerIsClean /\ RC!AliveHasDeadline
BY DEF ChildInv, ChildPhase, RC!AnswerIsClean, RC!AliveHasDeadline, RC!TypeOK

-----------------------------------------------------------------------------
(* PortraitRender                                                          *)

\* Only a render that waits or was answered by ComfyUI has reached it, and
\* ComfyUI answers with a body only what it has taken.
PictureInv ==
    /\ PR!TypeOK /\ PR!SourceIsTrue /\ PR!DeadlineStands
    /\ \A p \in Portraits :
       /\ pictureAwaits[p] # "none" => asked[p] = "render" /\ enabled /\ reply[p] = "none"
       /\ pictureAwaits[p] = "body" => queued[p]
       /\ asked[p] = "none" => reply[p] = "none"

LEMMA PictureInit == PR!Init => PictureInv
BY DEF PR!Init, PictureInv, PR!TypeOK, PR!SourceIsTrue, PR!DeadlineStands

LEMMA RefusalIsReply ==
    ASSUME NEW what \in PR!Asks \ {"stream-url", "render"}
    PROVE  PR!Refusal(what) \in PR!Replies
BY Zenon DEF PR!Asks, PR!Replies, PR!Refusal

\* A request that is answered is done: nothing waits, and no timer runs.
LEMMA AnswerKeeps ==
    ASSUME PictureInv, NEW p \in Portraits, NEW what \in PR!Replies, PR!Answer(p, what),
           UNCHANGED <<enabled, queued>>, asked' \in [Portraits -> PR!Asks \cup {"none"}],
           asked'[p] # "none", \A q \in Portraits \ {p} : asked'[q] = asked[q],
           asked'[p] = "render" =>
               what = "fallback" \/ (what \in {"comfyui", "comfyui-stream"} /\ queued[p] /\ enabled)
    PROVE  PictureInv'
<1>1. /\ reply' = [reply EXCEPT ![p] = what]
      /\ pictureAwaits' = [pictureAwaits EXCEPT ![p] = "none"]
      /\ pictureTimer' = [pictureTimer EXCEPT ![p] = FALSE]
  BY DEF PR!Answer
<1>2. PR!TypeOK'
  BY <1>1 DEF PictureInv, PR!TypeOK
<1>3. ASSUME NEW q \in Portraits
      PROVE  /\ asked'[q] = "render" =>
                   \/ reply'[q] \in {"none", "fallback"}
                   \/ reply'[q] \in {"comfyui", "comfyui-stream"} /\ queued'[q] /\ enabled'
             /\ pictureTimer'[q] <=> pictureAwaits'[q] # "none"
             /\ pictureAwaits'[q] # "none" => asked'[q] = "render" /\ enabled' /\ reply'[q] = "none"
             /\ pictureAwaits'[q] = "body" => queued'[q]
             /\ asked'[q] = "none" => reply'[q] = "none"
  <2>1. CASE q = p
    <3>1. /\ reply'[q] = what /\ pictureAwaits'[q] = "none"
          /\ pictureTimer'[q] = FALSE
      BY <1>1, <2>1 DEF PictureInv, PR!TypeOK
    <3> QED BY <2>1, <3>1 DEF PR!Asks
  <2>2. CASE q # p
    <3>1. /\ asked'[q] = asked[q] /\ reply'[q] = reply[q] /\ pictureAwaits'[q] = pictureAwaits[q]
          /\ pictureTimer'[q] = pictureTimer[q]
      BY <1>1, <2>2 DEF PictureInv, PR!TypeOK
    <3> QED BY <3>1 DEF PictureInv, PR!SourceIsTrue, PR!DeadlineStands
  <2> QED BY <2>1, <2>2
<1> QED BY <1>2, <1>3 DEF PictureInv, PR!SourceIsTrue, PR!DeadlineStands

LEMMA PictureStep == PictureInv /\ [PR!Next]_PR!vars => PictureInv'
<1> SUFFICES ASSUME PictureInv, [PR!Next]_PR!vars PROVE PictureInv'
  OBVIOUS
<1>1. ASSUME NEW p \in Portraits, PR!Refuse(p) PROVE PictureInv'
  <2>1. PICK what \in PR!Asks \ {"stream-url", "render"} :
           asked' = [asked EXCEPT ![p] = what] /\ PR!Answer(p, PR!Refusal(what))
    BY <1>1 DEF PR!Refuse
  <2>2. PR!Refusal(what) \in PR!Replies /\ what \in PR!Asks /\ what # "render" /\ what # "none"
    BY <2>1, RefusalIsReply DEF PR!Asks
  <2>3. /\ asked' \in [Portraits -> PR!Asks \cup {"none"}] /\ asked'[p] = what
        /\ \A q \in Portraits \ {p} : asked'[q] = asked[q]
    BY <2>1, <2>2 DEF PictureInv, PR!TypeOK
  <2> QED BY <1>1, <2>1, <2>2, <2>3, AnswerKeeps DEF PR!Refuse
<1>2. ASSUME NEW p \in Portraits, PR!StreamUrl(p) PROVE PictureInv'
  <2>1. "stream" \in PR!Replies
    BY DEF PR!Replies
  <2>2. /\ asked' \in [Portraits -> PR!Asks \cup {"none"}] /\ asked'[p] = "stream-url"
        /\ \A q \in Portraits \ {p} : asked'[q] = asked[q]
    BY <1>2 DEF PR!StreamUrl, PictureInv, PR!TypeOK, PR!Asks
  <2>3. PR!Answer(p, "stream") /\ UNCHANGED <<enabled, queued>>
    BY <1>2 DEF PR!StreamUrl
  <2> QED BY <2>1, <2>2, <2>3, AnswerKeeps
<1>3. ASSUME NEW p \in Portraits, PR!Render(p) PROVE PictureInv'
  <2>1. /\ asked' \in [Portraits -> PR!Asks \cup {"none"}] /\ asked'[p] = "render"
        /\ \A q \in Portraits \ {p} : asked'[q] = asked[q]
    BY <1>3 DEF PR!Render, PictureInv, PR!TypeOK, PR!Asks
  <2>2. CASE enabled
    <3>1. /\ asked[p] = "none" /\ reply' = reply
          /\ pictureAwaits' = [pictureAwaits EXCEPT ![p] = "head"]
          /\ pictureTimer' = [pictureTimer EXCEPT ![p] = TRUE]
          /\ UNCHANGED <<enabled, queued>>
      BY <1>3, <2>2 DEF PR!Render
    <3>2. reply[p] = "none"
      BY <3>1 DEF PictureInv
    <3>3. PR!TypeOK'
      BY <2>1, <3>1 DEF PictureInv, PR!TypeOK
    <3>4. PR!SourceIsTrue' /\ PR!DeadlineStands'
      BY <2>1, <3>1, <3>2 DEF PictureInv, PR!TypeOK, PR!SourceIsTrue, PR!DeadlineStands
    <3> QED BY <2>1, <2>2, <3>1, <3>2, <3>3, <3>4 DEF PictureInv, PR!TypeOK
  <2>3. CASE ~enabled
    <3>1. "fallback" \in PR!Replies /\ PR!Answer(p, "fallback") /\ UNCHANGED <<enabled, queued>>
      BY <1>3, <2>3 DEF PR!Replies, PR!Render
    <3> QED BY <2>1, <3>1, AnswerKeeps
  <2> QED BY <2>2, <2>3
<1>4. ASSUME NEW p \in Portraits, PR!ComfyQueues(p) PROVE PictureInv'
  BY <1>4 DEF PR!ComfyQueues, PictureInv, PR!TypeOK, PR!SourceIsTrue, PR!DeadlineStands
<1>5. ASSUME NEW p \in Portraits, NEW what \in {"fallback", "comfyui", "comfyui-stream"},
             PR!Answer(p, what), pictureAwaits[p] # "none",
             pictureAwaits[p] = "body" \/ what = "fallback", UNCHANGED <<enabled, asked, queued>>
      PROVE  PictureInv'
  <2>1. asked' \in [Portraits -> PR!Asks \cup {"none"}] /\ asked'[p] = "render" /\ what \in PR!Replies
    BY <1>5 DEF PR!Replies, PictureInv, PR!TypeOK
  <2>2. enabled /\ (what # "fallback" => queued[p])
    BY <1>5 DEF PictureInv
  <2> QED BY <1>5, <2>1, <2>2, AnswerKeeps
<1>6. ASSUME NEW p \in Portraits, NEW ok \in BOOLEAN, PR!HeadArrives(p, ok) PROVE PictureInv'
  <2>1. CASE ok
    BY <1>6, <2>1 DEF PR!HeadArrives, PictureInv, PR!TypeOK, PR!SourceIsTrue, PR!DeadlineStands
  <2>2. CASE ~ok
    BY <1>5, <1>6, <2>2 DEF PR!HeadArrives
  <2> QED BY <2>1, <2>2
<1>7. ASSUME NEW p \in Portraits, PR!BodyArrives(p) \/ PR!Throws(p) PROVE PictureInv'
  BY <1>5, <1>7 DEF PR!BodyArrives, PR!Throws
<1>8. CASE UNCHANGED PR!vars
  BY <1>8 DEF PR!vars, PictureInv, PR!TypeOK, PR!SourceIsTrue, PR!DeadlineStands
<1> QED BY <1>1, <1>2, <1>3, <1>4, <1>6, <1>7, <1>8 DEF PR!Next

LEMMA PictureTrue == PictureInv => PR!TypeOK /\ PR!SourceIsTrue /\ PR!DeadlineStands
BY DEF PictureInv

-----------------------------------------------------------------------------
(* VramGate                                                                *)

\* A poll of the current generation is under way only while the monitor runs,
\* and what is on display is what the gate was given last.
GateInv ==
    /\ VG!TypeOK /\ VG!GateFollowsCache
    /\ reading # VG!NoReading => gateMode = "active"
    /\ poll = "current" => gateMode = "active"

LEMMA GateInit == IdleAfter \in Nat /\ VG!Init => GateInv
BY DEF VG!Init, GateInv, VG!TypeOK, VG!GateFollowsCache, VG!Readings, VG!Unavailable

LEMMA GateStep == IdleAfter \in Nat /\ GateInv /\ [VG!Next]_VG!vars => GateInv'
<1> SUFFICES ASSUME IdleAfter \in Nat, GateInv, [VG!Next]_VG!vars PROVE GateInv'
  OBVIOUS
<1> USE DEF GateInv, VG!TypeOK, VG!GateFollowsCache, VG!Headroom
<1>1. VG!Unavailable \in VG!Readings
  BY DEF VG!Readings
<1>2. CASE VG!PollStarts
  BY <1>1, <1>2 DEF VG!PollStarts, VG!Poll, VG!Publish
<1>3. ASSUME NEW r \in VG!Readings, VG!PollEnds(r) PROVE GateInv'
  BY <1>3 DEF VG!PollEnds, VG!Publish
<1>4. CASE VG!NoteActivity
  BY <1>1, <1>4 DEF VG!NoteActivity, VG!Poll, VG!Publish
<1>5. ASSUME NEW busy \in BOOLEAN, VG!Sweep(busy) PROVE GateInv'
  BY <1>5 DEF VG!Sweep
<1>6. CASE VG!Tick
  BY <1>6 DEF VG!Tick
<1>7. ASSUME NEW f \in Floors, VG!Reload(f) PROVE GateInv'
  BY <1>7 DEF VG!Reload
<1>8. CASE UNCHANGED VG!vars
  BY <1>8 DEF VG!vars
<1> QED BY <1>2, <1>3, <1>4, <1>5, <1>6, <1>7, <1>8 DEF VG!Next

LEMMA GateTrue == GateInv => VG!TypeOK /\ VG!GateFollowsCache
BY DEF GateInv

-----------------------------------------------------------------------------
(* HubUpgrade                                                              *)

\* Past the salt: the key of the process is settled.
Keyed == {"tables", "look", "alter", "fill", "open"}

\* The tables are made, for this process.
Tabled == {"look", "alter", "fill", "open"}

\* What a process has passed stays done, though others step in between.
Progress(p) ==
    /\ pc[p] # "closed" => opens[p] \in 1..MaxOpens /\ (prior[p] = 2 => version = 2)
    /\ pc[p] \in {"salt", "newsalt"} => key[p][1] \in HubSecrets
    /\ pc[p] \in {"salt", "newsalt", "tables"} => hubAt[p] = 1
    /\ pc[p] \in Tabled => made
    /\ pc[p] \in {"look", "alter"} => 1..(hubAt[p] - 1) \subseteq columns
    /\ pc[p] = "alter" => hubAt[p] \in 1..NumColumns
    /\ pc[p] \in {"fill", "open"} => columns = 1..NumColumns

\* The rows a backfill has yet to fill are on its list.
Listed(p) ==
    pc[p] = "fill" => \A r \in Rows : rows[r].there /\ ~rows[r].filled => r \in todo[p]

\* A key in use has the salt the hub keeps, which is there.
Salted(k) == k = HU!NoKey \/ (k \in HU!Keys /\ k[2] = salt /\ salt # HU!None)

KeysAgree ==
    /\ \A p \in Procs : pc[p] \in Keyed => Salted(key[p])
    /\ \A r \in Rows : Salted(rows[r].key)

HubInv ==
    /\ HU!TypeOK
    /\ \A p \in Procs : Progress(p)
    /\ \A p \in Procs : Listed(p)
    /\ HU!StampedIsFilled
    /\ KeysAgree

-----------------------------------------------------------------------------
(* The initial states                                                      *)

LEMMA HubInit == ASSUME NumColumns \in Nat, MaxOpens \in Nat PROVE HU!Init => HubInv
<1> SUFFICES ASSUME NumColumns \in Nat, MaxOpens \in Nat, HU!Init PROVE HubInv
  OBVIOUS
<1>1. HU!TypeOK
  <2>1. HU!Absent \in [there : BOOLEAN, filled : BOOLEAN, key : {HU!NoKey} \cup HU!Keys]
    BY DEF HU!Absent
  <2>2. HU!Legacy \in [there : BOOLEAN, filled : BOOLEAN, key : {HU!NoKey} \cup HU!Keys]
    BY DEF HU!Legacy
  <2>3. rows \in [Rows -> [there : BOOLEAN, filled : BOOLEAN, key : {HU!NoKey} \cup HU!Keys]]
    BY <2>1, <2>2 DEF HU!Init
  <2>4. version \in 0..2 /\ columns \in SUBSET (1..NumColumns)
    BY DEF HU!Init
  <2>5. made \in BOOLEAN
    BY Zenon DEF HU!Init
  <2>6. hubAt \in [Procs -> 1..(NumColumns + 1)] /\ opens \in [Procs -> 0..MaxOpens]
    BY DEF HU!Init
  <2> QED BY <2>3, <2>4, <2>5, <2>6 DEF HU!Init, HU!TypeOK
<1>2. \A p \in Procs : Progress(p) /\ Listed(p)
  BY DEF HU!Init, Progress, Listed, Tabled
<1>3. version # 2
  BY DEF HU!Init
<1>4. \A r \in Rows : rows[r].key = HU!NoKey
  BY DEF HU!Init, HU!Absent, HU!Legacy
<1>5. KeysAgree
  BY <1>4 DEF HU!Init, KeysAgree, Salted, Keyed
<1> QED BY <1>1, <1>2, <1>3, <1>5 DEF HubInv, HU!StampedIsFilled

-----------------------------------------------------------------------------
(* The steps of one process                                                *)

\* What a step of p leaves alone in the other processes.
OthersStay(p) ==
    \A q \in Procs \ {p} :
       /\ pc'[q] = pc[q] /\ opens'[q] = opens[q] /\ prior'[q] = prior[q]
       /\ key'[q] = key[q] /\ hubAt'[q] = hubAt[q] /\ todo'[q] = todo[q]

\* Nothing that is done is undone: tables, columns and the stamp stay, a row
\* that comes or changes is filled, and a salt once there is there for good.
Advances ==
    /\ made => made'
    /\ columns \subseteq columns' /\ columns' \subseteq 1..NumColumns
    /\ version = 2 => version' = 2
    /\ \A r \in Rows : rows'[r].there /\ ~rows'[r].filled => rows[r].there /\ ~rows[r].filled
    /\ salt # HU!None => salt' = salt

\* What another process has passed is not disturbed by a step of p.
LEMMA OthersKeep ==
    ASSUME HubInv, NEW p \in Procs, OthersStay(p), Advances, NEW q \in Procs, q # p
    PROVE  /\ Progress(q)' /\ Listed(q)'
           /\ pc'[q] \in Keyed => Salted(key[q])' /\ key'[q] = key[q]
<1>1. /\ pc'[q] = pc[q] /\ opens'[q] = opens[q] /\ prior'[q] = prior[q]
      /\ key'[q] = key[q] /\ hubAt'[q] = hubAt[q] /\ todo'[q] = todo[q]
  BY DEF OthersStay
<1>2. Progress(q) /\ Listed(q)
  BY DEF HubInv
<1>3. Progress(q)'
  BY <1>1, <1>2 DEF Progress, Advances
<1>4. Listed(q)'
  BY <1>1, <1>2 DEF Listed, Advances
<1>5. pc'[q] \in Keyed => Salted(key[q])' /\ key'[q] = key[q]
  BY <1>1 DEF HubInv, KeysAgree, Salted, Advances
<1> QED BY <1>3, <1>4, <1>5

\* A step of p keeps the invariant if it keeps p's part of it.
LEMMA StepKeeps ==
    ASSUME HubInv, NEW p \in Procs, HU!TypeOK', OthersStay(p), Advances,
           Progress(p)', Listed(p)', pc'[p] \in Keyed => Salted(key[p])',
           HU!StampedIsFilled', \A r \in Rows : Salted(rows[r].key)'
    PROVE  HubInv'
<1>1. \A q \in Procs : Progress(q)' /\ Listed(q)' /\ (pc'[q] \in Keyed => Salted(key[q])')
  BY OthersKeep
<1> QED BY <1>1 DEF HubInv, KeysAgree

LEMMA BeginKeeps ==
    ASSUME NumColumns \in Nat, MaxOpens \in Nat, NoSecret \notin HubSecrets, HubInv,
           NEW p \in Procs, NEW secret \in HubSecrets \cup {NoSecret}, HU!Begin(p, secret)
    PROVE  HubInv'
<1> USE DEF HU!goto, HU!db
<1>1. HU!TypeOK
  BY DEF HubInv
<1>2. <<secret, HU!None>> \in {HU!NoKey} \cup (HubSecrets \X {HU!None})
  BY DEF HU!NoKey
<1>3. HU!TypeOK'
  BY <1>1, <1>2 DEF HU!TypeOK, HU!Begin
<1>4. OthersStay(p) /\ Advances
  BY <1>1 DEF HU!TypeOK, HU!Begin, OthersStay, Advances
<1>5. pc'[p] \in {"tables", "salt"} /\ opens'[p] = opens[p] + 1 /\ prior'[p] = version
      /\ key'[p] = <<secret, HU!None>>
  BY <1>1 DEF HU!TypeOK, HU!Begin
<1>6. Progress(p)'
  BY <1>1, <1>5 DEF HU!TypeOK, HU!Begin, Progress, Tabled
<1>7. Listed(p)'
  BY <1>5 DEF Listed
<1>8. pc'[p] \in Keyed => Salted(key[p])'
  BY <1>1, <1>5 DEF HU!TypeOK, HU!Begin, Keyed, Salted, HU!NoKey
<1>9. HU!StampedIsFilled' /\ \A r \in Rows : Salted(rows[r].key)'
  BY DEF HubInv, HU!StampedIsFilled, KeysAgree, Salted, HU!Begin
<1> QED BY <1>3, <1>4, <1>6, <1>7, <1>8, <1>9, StepKeeps

LEMMA ReadSaltKeeps ==
    ASSUME NumColumns \in Nat, HubInv, NEW p \in Procs, HU!ReadSalt(p)
    PROVE  HubInv'
<1> USE DEF HU!goto, HU!db
<1>1. HU!TypeOK /\ Progress(p)
  BY DEF HubInv
<1>2. salt # HU!None => <<key[p][1], salt>> \in HU!Keys
  BY <1>1 DEF HU!TypeOK, Progress, HU!ReadSalt, HU!Keys
<1>3. HU!TypeOK'
  BY <1>1, <1>2, SMTT(40) DEF HU!TypeOK, HU!ReadSalt
<1>4. OthersStay(p) /\ Advances
  BY <1>1 DEF HU!TypeOK, HU!ReadSalt, OthersStay, Advances
<1>5. \/ pc'[p] = "tables" /\ salt # HU!None /\ key'[p] = <<key[p][1], salt>>
      \/ pc'[p] = "newsalt" /\ key'[p] = key[p]
  BY <1>1 DEF HU!TypeOK, HU!ReadSalt
<1>6. Progress(p)'
  BY <1>1, <1>5 DEF HU!TypeOK, HU!ReadSalt, Progress, Tabled
<1>7. Listed(p)'
  BY <1>5 DEF Listed
<1>8. pc'[p] \in Keyed => Salted(key[p])'
  BY <1>2, <1>5 DEF HU!ReadSalt, Keyed, Salted
<1>9. HU!StampedIsFilled' /\ \A r \in Rows : Salted(rows[r].key)'
  BY DEF HubInv, HU!StampedIsFilled, KeysAgree, Salted, HU!ReadSalt
<1> QED BY <1>3, <1>4, <1>6, <1>7, <1>8, <1>9, StepKeeps

\* The salt is only ever set when no key in use has one.
LEMMA InsertSaltKeeps ==
    ASSUME NumColumns \in Nat, MaxOpens \in Nat, HubInv, NEW p \in Procs, HU!InsertSalt(p)
    PROVE  HubInv'
<1> USE DEF HU!goto
<1>1. HU!TypeOK /\ Progress(p)
  BY DEF HubInv
<1>2. <<p, opens[p]>> \in HU!Salts
  BY <1>1 DEF Progress, HU!InsertSalt, HU!Salts
<1>3. HU!TypeOK'
  BY <1>1, <1>2 DEF HU!TypeOK, HU!InsertSalt
<1>4. OthersStay(p) /\ Advances
  BY <1>1 DEF HU!TypeOK, HU!InsertSalt, OthersStay, Advances
<1>5. pc'[p] = "salt" /\ pc[p] = "newsalt"
  BY <1>1 DEF HU!TypeOK, HU!InsertSalt
<1>6. Progress(p)'
  BY <1>1, <1>5 DEF HU!InsertSalt, Progress, Tabled
<1>7. Listed(p)'
  BY <1>5 DEF Listed
<1>8. pc'[p] \notin Keyed
  BY <1>5 DEF Keyed
<1>9. HU!StampedIsFilled' /\ \A r \in Rows : Salted(rows[r].key)'
  BY DEF HubInv, HU!StampedIsFilled, KeysAgree, Salted, HU!InsertSalt
<1> QED BY <1>3, <1>4, <1>6, <1>7, <1>8, <1>9, StepKeeps

LEMMA MakeTablesKeeps ==
    ASSUME NumColumns \in Nat, HubInv, NEW p \in Procs, HU!MakeTables(p)
    PROVE  HubInv'
<1> USE DEF HU!goto
<1>1. HU!TypeOK /\ Progress(p) /\ (pc[p] \in Keyed => Salted(key[p]))
  BY DEF HubInv, KeysAgree
<1>2. HU!TypeOK'
  BY <1>1 DEF HU!TypeOK, HU!MakeTables
<1>3. OthersStay(p) /\ Advances
  BY <1>1 DEF HU!TypeOK, HU!MakeTables, OthersStay, Advances
<1>4. pc'[p] = "look" /\ pc[p] = "tables" /\ key' = key /\ salt' = salt
  BY <1>1 DEF HU!TypeOK, HU!MakeTables
<1>5. hubAt[p] = 1
  BY <1>1, <1>4 DEF Progress
<1>6. Progress(p)'
  BY <1>1, <1>4, <1>5 DEF HU!MakeTables, Progress, Tabled
<1>7. Listed(p)' /\ (pc'[p] \in Keyed => Salted(key[p])')
  BY <1>1, <1>4 DEF Listed, Keyed, Salted
<1>8. HU!StampedIsFilled' /\ \A r \in Rows : Salted(rows[r].key)'
  BY DEF HubInv, HU!StampedIsFilled, KeysAgree, Salted, HU!MakeTables
<1> QED BY <1>2, <1>3, <1>6, <1>7, <1>8, StepKeeps

LEMMA LookForColumnKeeps ==
    ASSUME NumColumns \in Nat, HubInv, NEW p \in Procs, HU!LookForColumn(p)
    PROVE  HubInv'
<1> USE DEF HU!goto, HU!db
<1>1. HU!TypeOK /\ Progress(p) /\ (pc[p] \in Keyed => Salted(key[p]))
  BY DEF HubInv, KeysAgree
<1>2. HU!TypeOK'
  BY <1>1 DEF HU!TypeOK, HU!LookForColumn
<1>3. OthersStay(p) /\ Advances
  BY <1>1 DEF HU!TypeOK, HU!LookForColumn, OthersStay, Advances
<1>4. pc'[p] = "alter" /\ pc[p] = "look" /\ hubAt[p] \in 1..NumColumns
  BY <1>1 DEF HU!TypeOK, HU!LookForColumn
<1>5. Progress(p)'
  BY <1>1, <1>4 DEF HU!LookForColumn, Progress, Tabled
<1>6. Listed(p)' /\ (pc'[p] \in Keyed => Salted(key[p])')
  BY <1>1, <1>4 DEF Listed, Keyed, Salted, HU!LookForColumn
<1>7. HU!StampedIsFilled' /\ \A r \in Rows : Salted(rows[r].key)'
  BY DEF HubInv, HU!StampedIsFilled, KeysAgree, Salted, HU!LookForColumn
<1> QED BY <1>2, <1>3, <1>5, <1>6, <1>7, StepKeeps

LEMMA AddColumnKeeps ==
    ASSUME NumColumns \in Nat, HubInv, NEW p \in Procs, HU!AddColumn(p)
    PROVE  HubInv'
<1>1. HU!TypeOK /\ Progress(p) /\ (pc[p] \in Keyed => Salted(key[p]))
  BY DEF HubInv, KeysAgree
<1>2. pc[p] = "alter" /\ hubAt[p] \in 1..NumColumns /\ 1..(hubAt[p] - 1) \subseteq columns /\ made
  BY <1>1 DEF HU!AddColumn, Progress, Tabled
<1>3. /\ \/ pc' = [pc EXCEPT ![p] = "closed"] /\ UNCHANGED <<columns, hubAt>>
         \/ /\ pc' = [pc EXCEPT ![p] = "look"]
            /\ columns' = columns \cup {hubAt[p]} /\ hubAt' = [hubAt EXCEPT ![p] = hubAt[p] + 1]
      /\ UNCHANGED <<version, salt, made, rows, prior, key, missing, todo, opens>>
  BY DEF HU!AddColumn, HU!goto
<1>4. columns' \in SUBSET (1..NumColumns) /\ columns \subseteq columns'
  BY <1>1, <1>2, <1>3 DEF HU!TypeOK
<1>5. HU!TypeOK'
  <2>1. hubAt' \in [Procs -> 1..(NumColumns + 1)]
    BY <1>1, <1>2, <1>3 DEF HU!TypeOK
  <2>2. pc' \in [Procs -> {"closed", "salt", "newsalt", "tables", "look", "alter", "fill", "open"}]
    BY <1>1, <1>3 DEF HU!TypeOK
  <2> QED BY <1>1, <1>3, <1>4, <2>1, <2>2 DEF HU!TypeOK
<1>6. OthersStay(p)
  BY <1>1, <1>3 DEF HU!TypeOK, OthersStay
<1>7. Advances
  BY <1>3, <1>4 DEF Advances
<1>8. \/ pc'[p] = "closed"
      \/ pc'[p] = "look" /\ columns' = columns \cup {hubAt[p]} /\ hubAt'[p] = hubAt[p] + 1
  BY <1>1, <1>3 DEF HU!TypeOK
<1>9. Progress(p)'
  BY <1>1, <1>2, <1>3, <1>8 DEF Progress, Tabled
<1>10. Listed(p)' /\ (pc'[p] \in Keyed => Salted(key[p])')
  BY <1>1, <1>2, <1>3, <1>8 DEF Listed, Keyed, Salted
<1>11. HU!StampedIsFilled' /\ \A r \in Rows : Salted(rows[r].key)'
  BY <1>3, <1>4 DEF HubInv, HU!StampedIsFilled, KeysAgree, Salted
<1> QED BY <1>5, <1>6, <1>7, <1>9, <1>10, <1>11, StepKeeps

\* A process that read version 2 finds every row filled; any other lists those
\* there are.
LEMMA ListRowsKeeps ==
    ASSUME NumColumns \in Nat, HubInv, NEW p \in Procs, HU!ListRows(p)
    PROVE  HubInv'
<1> USE DEF HU!goto, HU!db
<1>1. HU!TypeOK /\ Progress(p) /\ HU!StampedIsFilled /\ (pc[p] \in Keyed => Salted(key[p]))
  BY DEF HubInv, KeysAgree
<1>2. HU!TypeOK'
  BY <1>1 DEF HU!TypeOK, HU!ListRows
<1>3. OthersStay(p) /\ Advances
  BY <1>1 DEF HU!TypeOK, HU!ListRows, OthersStay, Advances
<1>4. pc'[p] = "fill" /\ pc[p] = "look" /\ hubAt[p] = NumColumns + 1
      /\ todo'[p] = IF prior[p] = 2 THEN {} ELSE {r \in Rows : rows[r].there}
  BY <1>1 DEF HU!TypeOK, HU!ListRows
<1>5. columns = 1..NumColumns
  <2>1. hubAt[p] - 1 = NumColumns /\ 1..(hubAt[p] - 1) \subseteq columns
    BY <1>1, <1>4 DEF Progress
  <2> QED BY <1>1, <2>1 DEF HU!TypeOK
<1>6. Progress(p)'
  BY <1>1, <1>4, <1>5 DEF HU!ListRows, Progress, Tabled
<1>7. Listed(p)'
  BY <1>1, <1>4 DEF Listed, HU!ListRows, Progress, HU!StampedIsFilled
<1>8. pc'[p] \in Keyed => Salted(key[p])'
  BY <1>1, <1>4 DEF Keyed, Salted, HU!ListRows
<1>9. HU!StampedIsFilled' /\ \A r \in Rows : Salted(rows[r].key)'
  BY DEF HubInv, HU!StampedIsFilled, KeysAgree, Salted, HU!ListRows
<1> QED BY <1>2, <1>3, <1>6, <1>7, <1>8, <1>9, StepKeeps

LEMMA FillRowKeeps ==
    ASSUME NumColumns \in Nat, HubInv, NEW p \in Procs, HU!FillRow(p)
    PROVE  HubInv'
<1> USE DEF HU!goto
<1>1. HU!TypeOK /\ Progress(p) /\ Listed(p) /\ HU!StampedIsFilled
  BY DEF HubInv
<1>2. PICK r \in todo[p] :
        /\ pc[p] = "fill"
        /\ \/ /\ rows' = [rows EXCEPT ![r].filled = TRUE]
              /\ todo' = [todo EXCEPT ![p] = @ \ {r}] /\ UNCHANGED pc
           \/ pc' = [pc EXCEPT ![p] = "closed"] /\ UNCHANGED <<rows, todo>>
        /\ UNCHANGED <<version, salt, columns, made, prior, key, hubAt, missing, opens>>
  BY DEF HU!FillRow
<1>3. r \in Rows
  BY <1>1, <1>2 DEF HU!TypeOK
<1>4. \A q \in Rows : /\ rows'[q].there = rows[q].there /\ rows'[q].key = rows[q].key
                      /\ rows[q].filled => rows'[q].filled
  BY <1>1, <1>2, <1>3 DEF HU!TypeOK
<1>5. HU!TypeOK'
  <2> DEFINE R == [there : BOOLEAN, filled : BOOLEAN, key : {HU!NoKey} \cup HU!Keys]
  <2>1. rows \in [Rows -> R]
    BY <1>1 DEF HU!TypeOK
  <2>2. [rows[r] EXCEPT !.filled = TRUE] \in R
    BY <1>3, <2>1
  <2>3. rows' \in [Rows -> R]
    BY <1>2, <1>3, <2>1, <2>2
  <2>4. todo' \in [Procs -> SUBSET Rows]
    BY <1>1, <1>2 DEF HU!TypeOK
  <2>5. pc' \in [Procs -> {"closed", "salt", "newsalt", "tables", "look", "alter", "fill", "open"}]
    BY <1>1, <1>2 DEF HU!TypeOK
  <2> QED BY <1>1, <1>2, <2>3, <2>4, <2>5 DEF HU!TypeOK
<1>6. OthersStay(p) /\ Advances
  BY <1>1, <1>2, <1>4 DEF HU!TypeOK, OthersStay, Advances
<1>7. pc'[p] = "closed" \/ (pc'[p] = "fill" /\ todo'[p] = todo[p] \ {r} /\ rows'[r].filled)
  BY <1>1, <1>2, <1>3 DEF HU!TypeOK
<1>8. Progress(p)'
  BY <1>1, <1>2, <1>7 DEF Progress, Tabled
<1>9. Listed(p)'
  BY <1>1, <1>2, <1>4, <1>7 DEF Listed
<1>10. pc'[p] \in Keyed => Salted(key[p])'
  BY <1>2, <1>7 DEF HubInv, KeysAgree, Keyed, Salted
<1>11. HU!StampedIsFilled' /\ \A q \in Rows : Salted(rows[q].key)'
  BY <1>1, <1>2, <1>4 DEF HubInv, HU!StampedIsFilled, KeysAgree, Salted
<1> QED BY <1>5, <1>6, <1>8, <1>9, <1>10, <1>11, StepKeeps

\* A hub is stamped when the list is empty, so that no row is left to fill.
LEMMA StampKeeps ==
    ASSUME NumColumns \in Nat, HubInv, NEW p \in Procs, HU!Stamp(p)
    PROVE  HubInv'
<1> USE DEF HU!goto
<1>1. HU!TypeOK /\ Progress(p) /\ Listed(p) /\ (pc[p] \in Keyed => Salted(key[p]))
  BY DEF HubInv, KeysAgree
<1>2. HU!TypeOK'
  BY <1>1 DEF HU!TypeOK, HU!Stamp
<1>3. OthersStay(p) /\ Advances
  BY <1>1 DEF HU!TypeOK, HU!Stamp, OthersStay, Advances
<1>4. pc'[p] = "open" /\ pc[p] = "fill" /\ todo[p] = {}
  BY <1>1 DEF HU!TypeOK, HU!Stamp
<1>5. Progress(p)'
  BY <1>1, <1>4 DEF HU!Stamp, Progress, Tabled
<1>6. Listed(p)' /\ (pc'[p] \in Keyed => Salted(key[p])')
  BY <1>1, <1>4 DEF Listed, Keyed, Salted, HU!Stamp
<1>7. made /\ columns = 1..NumColumns
  BY <1>1, <1>4 DEF Progress, Tabled
<1>8. \A r \in Rows : rows[r].there => rows[r].filled
  BY <1>1, <1>4 DEF Listed
<1>9. HU!StampedIsFilled'
  BY <1>7, <1>8 DEF HU!StampedIsFilled, HU!Stamp
<1>10. \A r \in Rows : Salted(rows[r].key)'
  BY DEF HubInv, KeysAgree, Salted, HU!Stamp
<1> QED BY <1>2, <1>3, <1>5, <1>6, <1>9, <1>10, StepKeeps

LEMMA WriteRowKeeps ==
    ASSUME NumColumns \in Nat, HubInv, NEW p \in Procs, NEW r \in Rows, HU!WriteRow(p, r)
    PROVE  HubInv'
<1>1. HU!TypeOK /\ Progress(p) /\ pc[p] = "open" /\ Salted(key[p])
  BY DEF HubInv, KeysAgree, Keyed, HU!WriteRow
<1>2. key[p] \in {HU!NoKey} \cup HU!Keys
  BY <1>1 DEF Salted
<1>3. /\ rows' = [rows EXCEPT ![r] = [there |-> TRUE, filled |-> TRUE, key |-> key[p]]]
      /\ UNCHANGED <<version, salt, columns, made, pc, prior, key, hubAt, missing, todo, opens>>
  BY DEF HU!WriteRow
<1>4. HU!TypeOK'
  <2>1. rows' \in [Rows -> [there : BOOLEAN, filled : BOOLEAN, key : {HU!NoKey} \cup HU!Keys]]
    BY <1>1, <1>2, <1>3 DEF HU!TypeOK
  <2> QED BY <1>1, <1>3, <2>1 DEF HU!TypeOK
<1>5. /\ rows'[r] = [there |-> TRUE, filled |-> TRUE, key |-> key[p]]
      /\ \A q \in Rows \ {r} : rows'[q] = rows[q]
  BY <1>1, <1>3 DEF HU!TypeOK
<1>6. OthersStay(p) /\ Advances
  BY <1>1, <1>3, <1>5 DEF HU!TypeOK, OthersStay, Advances
<1>7. Progress(p)' /\ Listed(p)'
  BY <1>1, <1>3 DEF Progress, Tabled, Listed
<1>8. (pc'[p] \in Keyed => Salted(key[p])') /\ HU!StampedIsFilled'
  BY <1>1, <1>3, <1>5 DEF HubInv, Salted, HU!StampedIsFilled
<1>9. \A q \in Rows : Salted(rows[q].key)'
  BY <1>1, <1>3, <1>5 DEF HubInv, KeysAgree, Salted
<1> QED BY <1>4, <1>6, <1>7, <1>8, <1>9, StepKeeps

LEMMA LeaveKeeps ==
    ASSUME NumColumns \in Nat, HubInv, NEW p \in Procs, HU!Leave(p)
    PROVE  HubInv'
<1> USE DEF HU!goto, HU!db
<1>1. HU!TypeOK
  BY DEF HubInv
<1>2. HU!TypeOK'
  BY <1>1 DEF HU!TypeOK, HU!Leave
<1>3. OthersStay(p) /\ Advances
  BY <1>1 DEF HU!TypeOK, HU!Leave, OthersStay, Advances
<1>4. pc'[p] = "closed"
  BY <1>1 DEF HU!TypeOK, HU!Leave
<1>5. Progress(p)' /\ Listed(p)' /\ pc'[p] \notin Keyed
  BY <1>4 DEF Progress, Tabled, Listed, Keyed
<1>6. HU!StampedIsFilled' /\ \A r \in Rows : Salted(rows[r].key)'
  BY DEF HubInv, HU!StampedIsFilled, KeysAgree, Salted, HU!Leave
<1> QED BY <1>2, <1>3, <1>5, <1>6, StepKeeps

-----------------------------------------------------------------------------
(* Theorems                                                                *)

LEMMA HubStep ==
    ASSUME NumColumns \in Nat, MaxOpens \in Nat, NoSecret \notin HubSecrets, HubInv, [HU!Next]_HU!vars
    PROVE  HubInv'
<1>1. ASSUME NEW p \in Procs, HU!Step(p) PROVE HubInv'
  BY <1>1, BeginKeeps, ReadSaltKeeps, InsertSaltKeeps, MakeTablesKeeps, LookForColumnKeeps,
     AddColumnKeeps, ListRowsKeeps, FillRowKeeps, StampKeeps, WriteRowKeeps, LeaveKeeps DEF HU!Step
<1>2. CASE UNCHANGED HU!vars
  BY <1>2 DEF HU!vars, HU!db, HubInv, HU!TypeOK, Progress, Listed, HU!StampedIsFilled, KeysAgree, Salted
<1> QED BY <1>1, <1>2 DEF HU!Next

LEMMA HubTrue == HubInv => HU!TypeOK /\ HU!StampedIsFilled /\ HU!OneSalt
BY DEF HubInv, KeysAgree, Salted, HU!OneSalt

\* The invariant above holds in every reachable state.
THEOREM HubInvariance ==
    ASSUME NumColumns \in Nat, MaxOpens \in Nat, NoSecret \notin HubSecrets
    PROVE  HU!Spec => []HubInv
<1>1. HU!Init => HubInv
  BY HubInit
<1>2. HubInv /\ [HU!Next]_HU!vars => HubInv'
  BY HubStep
<1> QED BY <1>1, <1>2, PTL DEF HU!Spec

\* Every variable keeps its type, for any processes, columns and rows.
THEOREM HubTypeCorrect ==
    ASSUME NumColumns \in Nat, MaxOpens \in Nat, NoSecret \notin HubSecrets
    PROVE  HU!Spec => []HU!TypeOK
<1>1. HubInv => HU!TypeOK
  BY DEF HubInv
<1> QED BY <1>1, HubInvariance, PTL

\* A hub that is stamped as version 2 has all its columns and no row that the
\* backfill should have filled, whichever processes were killed on the way.
THEOREM StampsAreEarned ==
    ASSUME NumColumns \in Nat, MaxOpens \in Nat, NoSecret \notin HubSecrets
    PROVE  HU!Spec => []HU!StampedIsFilled
<1>1. HubInv => HU!StampedIsFilled
  BY DEF HubInv
<1> QED BY <1>1, HubInvariance, PTL

\* Whatever is sealed in a hub is sealed under the one salt that it keeps.
THEOREM SaltIsOne ==
    ASSUME NumColumns \in Nat, MaxOpens \in Nat, NoSecret \notin HubSecrets
    PROVE  HU!Spec => []HU!OneSalt
<1>1. HubInv => HU!OneSalt
  BY DEF HubInv, KeysAgree, Salted, HU!OneSalt
<1> QED BY <1>1, HubInvariance, PTL

-----------------------------------------------------------------------------
(* SealedExchange                                                          *)

\* What the code's configuration guarantees: at least one attempt each way.
Configured ==
    /\ HostSkews \subseteq Int
    /\ ClockWindow \in Nat /\ MaxInstant \in Nat
    /\ DispatchTimeout \in Nat /\ ReplyTimeout \in Nat /\ MaxRest \in Nat
    /\ MaxTries \in Nat \ {0} /\ MaxPosts \in Nat \ {0}

\* An attempt of a dispatch and the rest after it.
Round == DispatchTimeout + MaxRest

\* The rounds before attempt n.
Spent(n) == (n - 1) * Round

LetterAge == SE!HostClock - letter.at

\* The letter is as old as the attempts that were made with it.
HostSound ==
    /\ host # "idle" => tries \in 1..MaxTries /\ letter.key = hostSecret
    /\ host = "posting" =>
           hostAge <= DispatchTimeout /\ LetterAge \in 0..(Spent(tries) + hostAge)
    /\ host = "resting" =>
           /\ tries < MaxTries /\ hostAge <= MaxRest
           /\ LetterAge \in 0..(Spent(tries) + DispatchTimeout + hostAge)

\* The answer is as old as its present attempt.
InboxSound ==
    /\ inbox \in {"idle", "running"} => posts = 0
    /\ inbox = "due" => posts < MaxPosts
    /\ inbox = "posting" =>
           /\ answer.key = inboxSecret
           /\ inboxAge <= ReplyTimeout /\ now - answer.at \in 0..inboxAge

ExchangeInv == SE!TypeOK /\ HostSound /\ InboxSound /\ SE!OnlyAgreedIsOpened /\ SE!TimelyIsOpened

-----------------------------------------------------------------------------
(* Arithmetic                                                              *)

LEMMA SpentFacts ==
    ASSUME Configured, NEW n \in 1..MaxTries
    PROVE  /\ Spent(n) \in Nat
           /\ Spent(1) = 0
           /\ Spent(n + 1) = Spent(n) + Round
           /\ Spent(n) + Round <= MaxTries * Round
<1>1. Round \in Nat /\ n \in Nat /\ n - 1 \in Nat /\ MaxTries - n \in Nat
  BY DEF Configured, Round
<1>2. Spent(n) \in Nat /\ Spent(n) + Round = n * Round
  BY <1>1 DEF Spent
<1>3. Spent(1) = 0 /\ Spent(n + 1) = n * Round
  BY <1>1 DEF Spent
<1>4. (MaxTries - n) * Round \in Nat
  BY <1>1
<1>5. MaxTries * Round = n * Round + (MaxTries - n) * Round
  BY <1>1 DEF Configured
<1> QED BY <1>2, <1>3, <1>4, <1>5, <1>1 DEF Configured

\* A body that is refused as stale is further from the reader's clock than the
\* window allows.
LEMMA StaleIsFar ==
    ASSUME NEW s, NEW body, NEW time, SE!Verdict(s, body, time) = "stale"
    PROVE  SE!Distance(time, body.at) > ClockWindow
BY DEF SE!Verdict

LEMMA OpenIsAgreed ==
    ASSUME NEW s, NEW body, NEW time, SE!Verdict(s, body, time) = "open"
    PROVE  s = body.key
BY DEF SE!Verdict

LEMMA VerdictType ==
    ASSUME NEW s, NEW body, NEW time
    PROVE  SE!Verdict(s, body, time) \in {"open", "key", "stale"}
BY DEF SE!Verdict

\* Ages and skews add up.
LEMMA FarIsOld ==
    ASSUME Configured, NEW gap \in Int, NEW age \in Nat, NEW most \in Nat, age <= most,
           NEW a \in Int, NEW b \in Int, a - b = age - gap \/ a - b = age + gap,
           SE!Distance(a, b) > ClockWindow
    PROVE  SE!Distance(gap, 0) + most > ClockWindow
BY DEF SE!Distance, Configured

-----------------------------------------------------------------------------
LEMMA ExchangeInit == ASSUME Configured PROVE SE!Init => ExchangeInv
<1> SUFFICES ASSUME Configured, SE!Init PROVE ExchangeInv
  OBVIOUS
<1>1. SE!Sealed(SE!Plain, 0) \in [key : SE!Secrets, at : Int]
  BY DEF SE!Sealed, SE!Secrets
<1>2. SE!TypeOK
  BY <1>1 DEF SE!Init, SE!TypeOK, Configured
<1>3. HostSound /\ InboxSound
  BY DEF SE!Init, HostSound, InboxSound
<1>4. SE!OnlyAgreedIsOpened /\ SE!TimelyIsOpened
  BY DEF SE!Init, SE!OnlyAgreedIsOpened, SE!TimelyIsOpened
<1> QED BY <1>2, <1>3, <1>4 DEF ExchangeInv

LEMMA TickKeeps ==
    ASSUME Configured, ExchangeInv, SE!Tick PROVE ExchangeInv'
<1>1. SE!TypeOK /\ HostSound /\ InboxSound
  BY DEF ExchangeInv
<1>2. now' = now + 1 /\ UNCHANGED <<skew, hostSecret, inboxSecret, host, letter, tries, inbox,
                                    answer, posts, refused>>
  BY DEF SE!Tick
<1>3. now \in Nat /\ skew \in Int /\ letter.at \in Int /\ answer.at \in Int /\ hostAge \in Nat
      /\ inboxAge \in Nat
  BY <1>1 DEF SE!TypeOK, Configured
<1>4. SE!TypeOK'
  BY <1>1, <1>2, <1>3 DEF SE!TypeOK, SE!Tick, Configured
<1>5. HostSound'
  <2>1. LetterAge' = LetterAge + 1 /\ LetterAge \in Int
    BY <1>2, <1>3 DEF LetterAge, SE!HostClock
  <2>2. host # "idle" => Spent(tries) \in Nat /\ Spent(tries)' = Spent(tries)
    BY <1>1, <1>2, SpentFacts DEF HostSound, Spent, Round
  <2>3. CASE host = "posting"
    BY <1>1, <1>2, <1>3, <2>1, <2>2, <2>3 DEF HostSound, SE!Tick, Configured
  <2>4. CASE host = "resting"
    BY <1>1, <1>2, <1>3, <2>1, <2>2, <2>4 DEF HostSound, SE!Tick, Configured
  <2>5. CASE host \notin {"posting", "resting"}
    BY <1>1, <1>2, <2>5 DEF HostSound
  <2> QED BY <2>3, <2>4, <2>5
<1>6. InboxSound'
  BY <1>1, <1>2, <1>3 DEF InboxSound, SE!Tick, Configured
<1>7. SE!OnlyAgreedIsOpened' /\ SE!TimelyIsOpened'
  BY <1>2 DEF ExchangeInv, SE!OnlyAgreedIsOpened, SE!TimelyIsOpened
<1> QED BY <1>4, <1>5, <1>6, <1>7 DEF ExchangeInv

-----------------------------------------------------------------------------
(* Steps of the host                                                       *)

LEMMA SealedType ==
    ASSUME NEW secret \in SE!Secrets, NEW time \in Int
    PROVE  SE!Sealed(secret, time) \in [key : SE!Secrets, at : Int]
BY DEF SE!Sealed

LEMMA DispatchKeeps ==
    ASSUME Configured, ExchangeInv, SE!Dispatch PROVE ExchangeInv'
<1> USE DEF SE!HostGoes, SE!clock, SE!inboxVars
<1>1. SE!TypeOK /\ InboxSound
  BY DEF ExchangeInv
<1>2. SE!HostClock \in Int
  BY <1>1 DEF SE!TypeOK, SE!HostClock, Configured
<1>3. letter' \in [key : SE!Secrets, at : Int]
  BY <1>1, <1>2, SealedType DEF SE!Dispatch, SE!TypeOK
<1>4. SE!TypeOK'
  BY <1>1, <1>3 DEF SE!TypeOK, SE!Dispatch, Configured
<1>5. HostSound'
  <2>1. host' = "posting" /\ tries' = 1 /\ hostAge' = 0 /\ letter'.key = hostSecret'
    BY DEF SE!Dispatch, SE!Sealed
  <2>2. LetterAge' = 0
    BY <1>2 DEF SE!Dispatch, SE!Sealed, LetterAge, SE!HostClock
  <2>3. Spent(1) = 0 /\ 1 \in 1..MaxTries
    BY SpentFacts DEF Configured
  <2>4. Spent(tries)' = 0
    BY <2>1, <2>3 DEF Spent, Round
  <2> QED BY <2>1, <2>2, <2>3, <2>4 DEF HostSound, Configured
<1>6. InboxSound'
  BY <1>1 DEF InboxSound, SE!Dispatch
<1>7. SE!OnlyAgreedIsOpened' /\ SE!TimelyIsOpened'
  BY DEF ExchangeInv, SE!OnlyAgreedIsOpened, SE!TimelyIsOpened, SE!Dispatch
<1> QED BY <1>4, <1>5, <1>6, <1>7 DEF ExchangeInv

LEMMA PostAgainKeeps ==
    ASSUME Configured, ExchangeInv, SE!PostAgain PROVE ExchangeInv'
<1> USE DEF SE!HostGoes, SE!clock, SE!inboxVars
<1>1. SE!TypeOK /\ HostSound /\ InboxSound
  BY DEF ExchangeInv
<1>2. tries \in 1..MaxTries /\ tries < MaxTries /\ hostAge \in Nat /\ hostAge <= MaxRest
      /\ LetterAge \in 0..(Spent(tries) + DispatchTimeout + hostAge) /\ letter.key = hostSecret
  BY <1>1 DEF SE!PostAgain, HostSound, SE!TypeOK
<1>3. SE!TypeOK'
  BY <1>1, <1>2 DEF SE!TypeOK, SE!PostAgain, Configured
<1>4. HostSound'
  <2>1. host' = "posting" /\ tries' = tries + 1 /\ hostAge' = 0 /\ letter'.key = hostSecret'
        /\ LetterAge' = LetterAge
    BY <1>2 DEF SE!PostAgain, LetterAge, SE!HostClock
  <2>2. Spent(tries)' = Spent(tries) + Round /\ Spent(tries) \in Nat
    BY <1>2, <2>1, SpentFacts DEF Spent, Round
  <2>3. LetterAge' \in 0..(Spent(tries) + Round)
    BY <1>2, <2>1, <2>2 DEF Round, Configured
  <2>4. Round \in Nat /\ tries + 1 \in 1..MaxTries
    BY <1>2 DEF Round, Configured
  <2>5. hostAge' <= DispatchTimeout /\ LetterAge' \in 0..(Spent(tries)' + hostAge')
    BY <2>1, <2>2, <2>3, <2>4 DEF Configured
  <2> QED BY <2>1, <2>4, <2>5 DEF HostSound, Configured
<1>5. InboxSound'
  BY <1>1 DEF InboxSound, SE!PostAgain
<1>6. SE!OnlyAgreedIsOpened' /\ SE!TimelyIsOpened'
  BY DEF ExchangeInv, SE!OnlyAgreedIsOpened, SE!TimelyIsOpened, SE!PostAgain
<1> QED BY <1>3, <1>4, <1>5, <1>6 DEF ExchangeInv

\* An attempt that fails leaves the host resting or failed, with the letter as
\* old as it was.
LEMMA AttemptFailsSound ==
    ASSUME Configured, ExchangeInv, host = "posting", SE!AttemptFails,
           UNCHANGED <<now, skew, hostSecret, letter, tries>>
    PROVE  HostSound' /\ host' \in {"resting", "failed"} /\ hostAge' = 0
<1>1. tries \in 1..MaxTries /\ letter.key = hostSecret /\ hostAge \in Nat
      /\ hostAge <= DispatchTimeout /\ LetterAge \in 0..(Spent(tries) + hostAge)
  BY DEF ExchangeInv, HostSound, SE!TypeOK
<1>2. hostAge' = 0 /\ host' = IF tries < MaxTries THEN "resting" ELSE "failed"
  BY DEF SE!AttemptFails, SE!HostGoes
<1>3. LetterAge' = LetterAge /\ Spent(tries)' = Spent(tries) /\ Spent(tries) \in Nat
  BY <1>1, SpentFacts DEF LetterAge, SE!HostClock, Spent, Round
<1>4. LetterAge \in 0..(Spent(tries) + DispatchTimeout + 0)
  BY <1>1, <1>3 DEF Configured
<1> QED BY <1>1, <1>2, <1>3, <1>4 DEF HostSound, Configured

LEMMA DispatchLostKeeps ==
    ASSUME Configured, ExchangeInv, SE!DispatchLost PROVE ExchangeInv'
<1> USE DEF SE!clock, SE!inboxVars
<1>1. HostSound' /\ host' \in {"resting", "failed"} /\ hostAge' = 0
  BY AttemptFailsSound DEF SE!DispatchLost
<1>2. SE!TypeOK' /\ InboxSound'
  BY <1>1 DEF ExchangeInv, SE!TypeOK, InboxSound, SE!DispatchLost
<1>3. SE!OnlyAgreedIsOpened' /\ SE!TimelyIsOpened'
  BY <1>1 DEF ExchangeInv, SE!OnlyAgreedIsOpened, SE!TimelyIsOpened, SE!DispatchLost
<1> QED BY <1>1, <1>2, <1>3 DEF ExchangeInv

LEMMA GiveUpKeeps ==
    ASSUME Configured, ExchangeInv, SE!GiveUp PROVE ExchangeInv'
<1> USE DEF SE!HostGoes, SE!clock, SE!inboxVars
<1>1. SE!TypeOK' /\ InboxSound'
  BY DEF ExchangeInv, SE!TypeOK, InboxSound, SE!GiveUp
<1>2. HostSound'
  BY DEF ExchangeInv, HostSound, SE!GiveUp
<1>3. SE!OnlyAgreedIsOpened' /\ SE!TimelyIsOpened'
  BY DEF ExchangeInv, SE!OnlyAgreedIsOpened, SE!TimelyIsOpened, SE!GiveUp
<1> QED BY <1>1, <1>2, <1>3 DEF ExchangeInv

-----------------------------------------------------------------------------
(* Steps of the adapter                                                    *)

LEMMA RuntimeEndsKeeps ==
    ASSUME Configured, ExchangeInv, SE!RuntimeEnds PROVE ExchangeInv'
<1> USE DEF SE!clock, SE!hostVars
<1>1. SE!TypeOK' /\ InboxSound'
  BY DEF ExchangeInv, SE!TypeOK, InboxSound, SE!RuntimeEnds, Configured
<1>2. HostSound'
  BY DEF ExchangeInv, HostSound, SE!RuntimeEnds, LetterAge, SE!HostClock, Spent, Round
<1>3. SE!OnlyAgreedIsOpened' /\ SE!TimelyIsOpened'
  BY DEF ExchangeInv, SE!OnlyAgreedIsOpened, SE!TimelyIsOpened, SE!RuntimeEnds
<1> QED BY <1>1, <1>2, <1>3 DEF ExchangeInv

LEMMA PostReplyKeeps ==
    ASSUME Configured, ExchangeInv, SE!PostReply PROVE ExchangeInv'
<1> USE DEF SE!clock, SE!hostVars
<1>1. SE!TypeOK /\ InboxSound /\ now \in Nat
  BY DEF ExchangeInv, SE!TypeOK, Configured
<1>2. answer' \in [key : SE!Secrets, at : Int] /\ answer'.key = inboxSecret /\ answer'.at = now
  BY <1>1, SealedType DEF SE!PostReply, SE!TypeOK, SE!Sealed
<1>3. posts' \in 0..MaxPosts
  BY <1>1 DEF SE!TypeOK, InboxSound, SE!PostReply, Configured
<1>4. SE!TypeOK'
  BY <1>1, <1>2, <1>3 DEF SE!TypeOK, SE!PostReply
<1>5. InboxSound'
  BY <1>1, <1>2 DEF InboxSound, SE!PostReply, Configured
<1>6. HostSound'
  BY DEF ExchangeInv, HostSound, SE!PostReply, LetterAge, SE!HostClock, Spent, Round
<1>7. SE!OnlyAgreedIsOpened' /\ SE!TimelyIsOpened'
  BY DEF ExchangeInv, SE!OnlyAgreedIsOpened, SE!TimelyIsOpened, SE!PostReply
<1> QED BY <1>4, <1>5, <1>6, <1>7 DEF ExchangeInv

LEMMA ReplyLostKeeps ==
    ASSUME Configured, ExchangeInv, SE!ReplyLost PROVE ExchangeInv'
<1> USE DEF SE!clock, SE!hostVars, SE!PostFails
<1>1. SE!TypeOK' /\ InboxSound'
  BY DEF ExchangeInv, SE!TypeOK, InboxSound, SE!ReplyLost
<1>2. HostSound'
  BY DEF ExchangeInv, HostSound, SE!ReplyLost, LetterAge, SE!HostClock, Spent, Round
<1>3. SE!OnlyAgreedIsOpened' /\ SE!TimelyIsOpened'
  BY DEF ExchangeInv, SE!OnlyAgreedIsOpened, SE!TimelyIsOpened, SE!ReplyLost
<1> QED BY <1>1, <1>2, <1>3 DEF ExchangeInv

-----------------------------------------------------------------------------
(* A body arrives                                                          *)

\* A dispatch refused as stale is as old as all its attempts, at most.
LEMMA StaleDispatch ==
    ASSUME Configured, SE!TypeOK, HostSound, host = "posting",
           SE!Verdict(inboxSecret, letter, now) = "stale"
    PROVE  SE!Distance(skew, 0) + MaxTries * Round > ClockWindow
<1>1. tries \in 1..MaxTries /\ hostAge \in Nat /\ hostAge <= DispatchTimeout
      /\ LetterAge \in 0..(Spent(tries) + hostAge)
  BY DEF HostSound, SE!TypeOK
<1>2. /\ Round \in Nat /\ hostAge <= Round
      /\ Spent(tries) \in Nat /\ Spent(tries) + Round <= MaxTries * Round
      /\ MaxTries * Round \in Nat
  BY <1>1, SpentFacts DEF Round, Configured
<1>3. LetterAge \in Nat /\ LetterAge <= MaxTries * Round
  BY <1>1, <1>2
<1>4. now \in Int /\ skew \in Int /\ letter.at \in Int
  BY DEF SE!TypeOK, Configured
<1>5. now - letter.at = LetterAge - skew
  BY <1>4 DEF LetterAge, SE!HostClock
<1>6. SE!Distance(now, letter.at) > ClockWindow
  BY StaleIsFar
<1> QED BY <1>2, <1>3, <1>4, <1>5, <1>6, FarIsOld

\* A reply refused as stale is as old as its one attempt, at most.
LEMMA StaleReply ==
    ASSUME Configured, SE!TypeOK, InboxSound, inbox = "posting",
           SE!Verdict(hostSecret, answer, SE!HostClock) = "stale"
    PROVE  SE!Distance(skew, 0) + ReplyTimeout > ClockWindow
<1>1. now \in Int /\ skew \in Int /\ answer.at \in Int /\ inboxAge \in Nat
      /\ ReplyTimeout \in Nat /\ SE!HostClock \in Int
  BY DEF SE!TypeOK, Configured, SE!HostClock
<1>2. now - answer.at \in Nat /\ now - answer.at <= ReplyTimeout
  BY <1>1 DEF InboxSound
<1>3. SE!HostClock - answer.at = (now - answer.at) + skew
  BY <1>1 DEF SE!HostClock
<1>4. SE!Distance(SE!HostClock, answer.at) > ClockWindow
  BY StaleIsFar
<1> QED BY <1>1, <1>2, <1>3, <1>4, FarIsOld

LEMMA InboxOpensKeeps ==
    ASSUME Configured, ExchangeInv, NEW heard \in BOOLEAN, SE!InboxOpens(heard) PROVE ExchangeInv'
<1> DEFINE verdict == SE!Verdict(inboxSecret, letter, now)
<1>1. SE!TypeOK /\ HostSound /\ InboxSound /\ SE!OnlyAgreedIsOpened /\ SE!TimelyIsOpened
  BY DEF ExchangeInv
<1>2. /\ host = "posting"
      /\ \/ SE!AttemptFails
         \/ hostAge' = 0 /\ host' \in {"awaiting", "failed"}
      /\ \/ verdict = "open" /\ inbox = "idle" /\ inbox' = "running"
         \/ inbox' = inbox
      /\ \/ verdict = "open" /\ refused' = refused
         \/ verdict \in {"key", "stale"} /\ refused' = refused \cup {<<"dispatch", verdict>>}
      /\ UNCHANGED <<now, skew, hostSecret, inboxSecret, letter, tries, answer, posts, inboxAge>>
  BY VerdictType DEF SE!InboxOpens, SE!HostGoes, SE!clock
<1> HIDE DEF verdict
<1>3. HostSound' /\ host' \in {"awaiting", "failed", "resting"} /\ hostAge' = 0
  <2>1. CASE SE!AttemptFails
    BY <1>2, <2>1, AttemptFailsSound
  <2>2. CASE hostAge' = 0 /\ host' \in {"awaiting", "failed"}
    BY <1>1, <1>2, <2>2 DEF HostSound
  <2> QED BY <1>2, <2>1, <2>2
<1>4. refused' \subseteq {"dispatch", "reply"} \X {"key", "stale"}
  BY <1>1, <1>2 DEF SE!TypeOK
<1>5. SE!TypeOK'
  BY <1>1, <1>2, <1>3, <1>4 DEF SE!TypeOK
<1>6. InboxSound'
  BY <1>1, <1>2 DEF InboxSound
<1>7. SE!OnlyAgreedIsOpened'
  <2>1. verdict = "open" => inboxSecret = hostSecret
    BY <1>1, <1>2, OpenIsAgreed DEF HostSound, verdict
  <2> QED BY <1>1, <1>2, <1>3, <2>1 DEF SE!OnlyAgreedIsOpened
<1>8. SE!TimelyIsOpened'
  <2>1. verdict = "stale" => SE!Distance(skew, 0) + MaxTries * Round > ClockWindow
    BY <1>1, <1>2, StaleDispatch DEF verdict
  <2>2. <<"reply", "stale">> \in refused' => <<"reply", "stale">> \in refused
    BY <1>2
  <2>3. <<"dispatch", "stale">> \in refused' =>
            <<"dispatch", "stale">> \in refused \/ verdict = "stale"
    BY <1>2
  <2> QED BY <1>1, <1>2, <2>1, <2>2, <2>3 DEF SE!TimelyIsOpened, Round
<1> QED BY <1>3, <1>5, <1>6, <1>7, <1>8 DEF ExchangeInv

LEMMA HostOpensKeeps ==
    ASSUME Configured, ExchangeInv, NEW heard \in BOOLEAN, SE!HostOpens(heard) PROVE ExchangeInv'
<1> DEFINE verdict == SE!Verdict(hostSecret, answer, SE!HostClock)
<1>1. SE!TypeOK /\ HostSound /\ InboxSound /\ SE!OnlyAgreedIsOpened /\ SE!TimelyIsOpened
  BY DEF ExchangeInv
<1>2. /\ inbox = "posting"
      /\ \/ verdict = "open" /\ host' = "answered" /\ hostAge' = 0 /\ host # "idle"
         \/ host' = host /\ hostAge' = hostAge
      /\ inbox' \in {"sent", "dead"} \/ (inbox' = "due" /\ posts < MaxPosts)
      /\ \/ verdict = "open" /\ refused' = refused
         \/ verdict \in {"key", "stale"} /\ refused' = refused \cup {<<"reply", verdict>>}
      /\ UNCHANGED <<now, skew, hostSecret, inboxSecret, letter, tries, answer, posts, inboxAge>>
  BY VerdictType DEF SE!HostOpens, SE!HostGoes, SE!PostFails, SE!clock
<1> HIDE DEF verdict
<1>3. HostSound'
  BY <1>1, <1>2 DEF HostSound, LetterAge, SE!HostClock, Spent, Round
<1>4. refused' \subseteq {"dispatch", "reply"} \X {"key", "stale"}
  BY <1>1, <1>2 DEF SE!TypeOK
<1>5. SE!TypeOK' /\ InboxSound'
  BY <1>1, <1>2, <1>4 DEF SE!TypeOK, InboxSound
<1>6. SE!OnlyAgreedIsOpened'
  BY <1>1, <1>2 DEF SE!OnlyAgreedIsOpened
<1>7. SE!TimelyIsOpened'
  <2>1. verdict = "stale" => SE!Distance(skew, 0) + ReplyTimeout > ClockWindow
    BY <1>1, <1>2, StaleReply DEF verdict
  <2>2. <<"dispatch", "stale">> \in refused' => <<"dispatch", "stale">> \in refused
    BY <1>2
  <2>3. <<"reply", "stale">> \in refused' => <<"reply", "stale">> \in refused \/ verdict = "stale"
    BY <1>2
  <2> QED BY <1>1, <1>2, <2>1, <2>2, <2>3 DEF SE!TimelyIsOpened
<1> QED BY <1>3, <1>5, <1>6, <1>7 DEF ExchangeInv

-----------------------------------------------------------------------------
(* Theorems                                                                *)

LEMMA ExchangeStep == ASSUME Configured, ExchangeInv, [SE!Next]_SE!vars PROVE ExchangeInv'
<1>1. CASE SE!Next
  BY <1>1, TickKeeps, DispatchKeeps, PostAgainKeeps, DispatchLostKeeps, GiveUpKeeps,
     RuntimeEndsKeeps, PostReplyKeeps, ReplyLostKeeps, InboxOpensKeeps, HostOpensKeeps DEF SE!Next
<1>2. CASE UNCHANGED SE!vars
  BY <1>2 DEF SE!vars, SE!clock, SE!hostVars, SE!inboxVars, ExchangeInv, SE!TypeOK, HostSound, InboxSound,
     SE!OnlyAgreedIsOpened, SE!TimelyIsOpened, LetterAge, SE!HostClock, Spent, Round
<1> QED BY <1>1, <1>2

LEMMA ExchangeTrue == ExchangeInv => SE!TypeOK /\ SE!OnlyAgreedIsOpened /\ SE!TimelyIsOpened
BY DEF ExchangeInv

\* The invariant above holds in every reachable state.
THEOREM ExchangeInvariance == ASSUME Configured PROVE SE!Spec => []ExchangeInv
<1>1. SE!Init => ExchangeInv
  BY ExchangeInit
<1>2. ExchangeInv /\ [SE!Next]_SE!vars => ExchangeInv'
  BY ExchangeStep
<1> QED BY <1>1, <1>2, PTL DEF SE!Spec

\* Every variable keeps its type, and attempts stay within their budgets.
THEOREM ExchangeTypeCorrect == ASSUME Configured PROVE SE!Spec => []SE!TypeOK
<1>1. ExchangeInv => SE!TypeOK
  BY DEF ExchangeInv
<1> QED BY <1>1, ExchangeInvariance, PTL

\* A dispatch is run, and a reply taken, only between processes that have one
\* secret, or both none.
THEOREM OpenedIsAgreed == ASSUME Configured PROVE SE!Spec => []SE!OnlyAgreedIsOpened
<1>1. ExchangeInv => SE!OnlyAgreedIsOpened
  BY DEF ExchangeInv
<1> QED BY <1>1, ExchangeInvariance, PTL

\* A reply is refused as stale only when the clocks differ by more than the
\* window less one timeout; a dispatch, less all of its attempts and rests.
THEOREM TimelyBodies == ASSUME Configured PROVE SE!Spec => []SE!TimelyIsOpened
<1>1. ExchangeInv => SE!TimelyIsOpened
  BY DEF ExchangeInv
<1> QED BY <1>1, ExchangeInvariance, PTL

-----------------------------------------------------------------------------
(* HostStorage                                                             *)

\* The versions are those up to one of them; those before the migration whose
\* turn it is are recorded.
SchemaSound ==
    /\ stage \in {"down", "migrating", "crawling", "serving"} /\ bootAt \in Nat
    /\ versions \subseteq 1..4 /\ \A v \in versions : 1..v \subseteq versions
    /\ stage = "migrating" => bootAt \in 1..5 /\ 1..(bootAt - 1) \subseteq versions
    /\ stage \in {"crawling", "serving"} => versions = 1..4
    /\ stage = "crawling" => bootAt >= 1
    /\ schema = UNION {HS!Migrations[v] : v \in versions}

AnchorsSound ==
    /\ DOMAIN anchors = HS!Range(StoredAs)
    /\ \A p \in DOMAIN anchors : Len(anchors[p]) <= 1

\* The cycles in the matrix have ended, so that a torn file is none of its states.
MatrixSound ==
    /\ cycles \in Nat
    /\ matrix # HS!Torn => /\ matrix \in Seq(Nat) /\ Len(matrix) <= MaxLearnt
                           /\ \A i \in DOMAIN matrix : matrix[i] \in 1..cycles
                           /\ \A i, j \in DOMAIN matrix : i < j => matrix[i] > matrix[j]

TextsSound == fileEdits \in Nat /\ texts \in [HS!Range(Indexed) -> Nat]

StorageInv == SchemaSound /\ AnchorsSound /\ MatrixSound /\ TextsSound

\* What is indexed is a sequence of files, each with a path to store it under.
IndexAssumption ==
    /\ Indexed \in Seq(HS!Range(Indexed)) /\ DOMAIN StoredAs = HS!Range(Indexed)
    /\ MaxLearnt \in Nat

LEMMA StorageInit == IndexAssumption /\ HS!Init => StorageInv
<1> SUFFICES ASSUME IndexAssumption, HS!Init PROVE StorageInv
  OBVIOUS
<1>1. SchemaSound
  <2>1. {HS!Migrations[v] : v \in {}} = {}
    OBVIOUS
  <2> QED BY <2>1 DEF HS!Init, SchemaSound
<1>2. AnchorsSound
  BY DEF HS!Init, AnchorsSound
<1>3. MatrixSound
  BY DEF HS!Init, MatrixSound, IndexAssumption
<1>4. TextsSound
  BY DEF HS!Init, TextsSound
<1> QED BY <1>1, <1>2, <1>3, <1>4 DEF StorageInv

LEMMA FourMigrations == Len(HS!Migrations) = 4 /\ DOMAIN HS!Migrations = 1..4
BY DEF HS!Migrations

\* The file is replaced by one that starts with a newer cycle, or torn.
LEMMA RecordKeeps == ASSUME MaxLearnt \in Nat, MatrixSound, HS!Record PROVE MatrixSound'
<1>1. cycles \in Nat /\ cycles' = cycles + 1
  BY DEF HS!Record, MatrixSound
<1>2. CASE matrix' = HS!Torn
  BY <1>1, <1>2 DEF MatrixSound
<1>3. CASE matrix' = matrix
  BY <1>1, <1>3 DEF MatrixSound
<1>4. CASE matrix' = HS!Entries(cycles')
  <2> DEFINE old == HS!ReadMatrix
             n == IF Len(old) < MaxLearnt THEN Len(old) + 1 ELSE MaxLearnt
             long == <<cycles'>> \o old
  <2>1. /\ old \in Seq(Nat) /\ \A i \in DOMAIN old : old[i] \in 1..cycles
        /\ \A i, j \in DOMAIN old : i < j => old[i] > old[j]
    <3>1. CASE matrix = HS!Torn
      <4>1. old = << >>
        BY <3>1 DEF HS!ReadMatrix
      <4> QED BY <4>1
    <3>2. CASE matrix # HS!Torn
      BY <3>2 DEF HS!ReadMatrix, MatrixSound
    <3> QED BY <3>1, <3>2
  <2> HIDE DEF old
  <2>2. Len(old) \in Nat /\ DOMAIN old = 1..Len(old) /\ \A i \in 1..Len(old) : old[i] \in 1..cycles
    BY <2>1
  <2>3. n \in 0..(Len(old) + 1) /\ n <= MaxLearnt
    BY <2>2
  <2>4. cycles' \in Nat /\ <<cycles'>> \in Seq(Nat)
    BY <1>1
  <2>5. /\ long \in Seq(Nat) /\ Len(long) = Len(old) + 1
        /\ long[1] = cycles' /\ \A i \in 2..(Len(old) + 1) : long[i] = old[i - 1]
    BY <2>1, <2>2, <2>4
  <2> HIDE DEF long, n
  <2>6. ASSUME NEW i \in 1..(Len(old) + 1), NEW j \in 1..(Len(old) + 1), i < j PROVE long[i] > long[j]
    <3>1. j - 1 \in 1..Len(old) /\ long[j] = old[j - 1] /\ old[j - 1] \in 1..cycles
      BY <2>2, <2>5, <2>6
    <3>2. CASE i = 1
      BY <3>1, <3>2, <2>5, <1>1
    <3>3. CASE i # 1
      <4>1. i - 1 \in 1..Len(old) /\ i - 1 < j - 1 /\ long[i] = old[i - 1]
        BY <3>3, <2>2, <2>5, <2>6
      <4> QED BY <4>1, <3>1, <2>1, <2>2
    <3> QED BY <3>2, <3>3
  <2>7. matrix' = SubSeq(long, 1, n)
    BY <1>4 DEF HS!Entries, n, long, old
  <2>8. matrix' \in Seq(Nat) /\ Len(matrix') = n /\ \A i \in 1..n : matrix'[i] = long[i]
    BY <2>2, <2>3, <2>5, <2>7
  <2>9. \A i \in 1..n : matrix'[i] \in 1..cycles'
    <3>1. \A i \in 1..(Len(old) + 1) : long[i] \in 1..cycles'
      <4> TAKE i \in 1..(Len(old) + 1)
      <4>1. CASE i = 1
        BY <4>1, <2>5, <1>1
      <4>2. CASE i # 1
        <5>1. i - 1 \in 1..Len(old) /\ long[i] = old[i - 1]
          BY <4>2, <2>2, <2>5
        <5>2. long[i] \in 1..cycles
          BY <5>1, <2>2
        <5> QED BY <5>2, <1>1
      <4> QED BY <4>1, <4>2
    <3>2. ASSUME NEW i \in 1..n PROVE matrix'[i] \in 1..cycles'
      <4>1. i \in 1..(Len(old) + 1)
        BY <2>2, <2>3
      <4>2. matrix'[i] = long[i]
        BY <2>8
      <4> QED BY <3>1, <4>1, <4>2
    <3> QED BY <3>2
  <2>10. \A i, j \in DOMAIN matrix' : i < j => matrix'[i] > matrix'[j]
    <3>1. DOMAIN matrix' = 1..n
      BY <2>8
    <3>2. ASSUME NEW i \in 1..n, NEW j \in 1..n, i < j PROVE matrix'[i] > matrix'[j]
      <4>1. i \in 1..(Len(old) + 1) /\ j \in 1..(Len(old) + 1)
        BY <2>2, <2>3
      <4>2. matrix'[i] = long[i] /\ matrix'[j] = long[j]
        BY <2>8
      <4>3. long[i] > long[j]
        BY <2>6, <3>2, <4>1
      <4> QED BY <4>2, <4>3
    <3> QED BY <3>1, <3>2
  <2> QED BY <2>3, <2>8, <2>9, <2>10, <1>1 DEF MatrixSound
<1> QED BY <1>2, <1>3, <1>4 DEF HS!Record

\* The anchors of a path become none or the file's text.
LEMMA AnchorKeeps ==
    ASSUME AnchorsSound, TextsSound, NEW f \in HS!Range(Indexed), DOMAIN StoredAs = HS!Range(Indexed),
           anchors' \in {anchors, [anchors EXCEPT ![StoredAs[f]] = << >>],
                         [anchors EXCEPT ![StoredAs[f]] = <<texts[f]>>]}
    PROVE  AnchorsSound'
<1>1. texts[f] \in Nat /\ StoredAs[f] \in HS!Range(StoredAs)
  BY DEF TextsSound, HS!Range
<1>2. Len(<< >>) <= 1 /\ Len(<<texts[f]>>) <= 1
  OBVIOUS
<1> QED BY <1>1, <1>2 DEF AnchorsSound

LEMMA MigrateKeeps == ASSUME SchemaSound, HS!Migrate PROVE SchemaSound'
<1>1. stage = "migrating" /\ bootAt \in 1..4 /\ 1..(bootAt - 1) \subseteq versions
  BY FourMigrations DEF HS!Migrate, SchemaSound
<1>2. CASE /\ bootAt' = bootAt + 1 /\ stage' = stage
           /\ versions' = versions \cup {bootAt}
           /\ schema' = IF bootAt \in versions THEN schema ELSE schema \cup HS!Migrations[bootAt]
  <2>1. versions' \subseteq 1..4 /\ 1..(bootAt' - 1) \subseteq versions' /\ bootAt' \in 1..5
    BY <1>1, <1>2 DEF SchemaSound
  <2>2. \A v \in versions' : 1..v \subseteq versions'
    BY <1>1, <1>2 DEF SchemaSound
  <2>3. schema' = UNION {HS!Migrations[v] : v \in versions'}
    <3>1. CASE bootAt \in versions
      <4>1. versions' = versions /\ schema' = schema
        BY <1>2, <3>1
      <4> QED BY <4>1 DEF SchemaSound
    <3>2. CASE bootAt \notin versions
      BY <1>2, <3>2 DEF SchemaSound
    <3> QED BY <3>1, <3>2
  <2> QED BY <1>1, <1>2, <2>1, <2>2, <2>3 DEF SchemaSound
<1>3. CASE bootAt' = bootAt /\ stage' = "down" /\ UNCHANGED <<schema, versions>>
  BY <1>3 DEF SchemaSound
<1> QED BY <1>2, <1>3 DEF HS!Migrate

LEMMA StorageStep == IndexAssumption /\ StorageInv /\ [HS!Next]_HS!vars => StorageInv'
<1> SUFFICES ASSUME IndexAssumption, StorageInv, [HS!Next]_HS!vars PROVE StorageInv'
  OBVIOUS
<1> USE DEF HS!database
<1>1. SchemaSound /\ AnchorsSound /\ MatrixSound /\ TextsSound
  BY DEF StorageInv
<1>2. ASSUME HS!Boot \/ HS!Migrated \/ HS!Serve PROVE StorageInv'
  <2>1. UNCHANGED <<schema, versions, anchors, texts, matrix, cycles, fileEdits>>
    BY <1>2 DEF HS!Boot, HS!Migrated, HS!Serve
  <2>2. SchemaSound'
    <3>1. CASE HS!Boot
      BY <1>1, <2>1, <3>1 DEF HS!Boot, SchemaSound
    <3>2. CASE HS!Migrated
      <4>1. bootAt = 5 /\ stage = "migrating" /\ stage' = "crawling" /\ bootAt' = 1
        BY <3>2, FourMigrations DEF HS!Migrated
      <4>2. versions = 1..4
        <5>1. versions \subseteq 1..4 /\ 1..(bootAt - 1) \subseteq versions
          BY <1>1, <4>1 DEF SchemaSound
        <5>2. bootAt - 1 = 4
          BY <4>1
        <5>3. 1..4 \subseteq versions
          BY <5>1, <5>2, Zenon
        <5> QED BY <5>1, <5>3
      <4> QED BY <1>1, <2>1, <4>1, <4>2 DEF SchemaSound
    <3>3. CASE HS!Serve
      BY <1>1, <2>1, <3>3 DEF HS!Serve, SchemaSound
    <3> QED BY <1>2, <3>1, <3>2, <3>3
  <2>3. AnchorsSound' /\ MatrixSound' /\ TextsSound'
    BY <1>1, <2>1 DEF AnchorsSound, MatrixSound, TextsSound
  <2> QED BY <2>2, <2>3 DEF StorageInv
<1>3. ASSUME HS!Migrate PROVE StorageInv'
  <2>1. SchemaSound'
    BY <1>1, <1>3, MigrateKeeps
  <2>2. AnchorsSound' /\ MatrixSound' /\ TextsSound'
    BY <1>1, <1>3 DEF HS!Migrate, AnchorsSound, MatrixSound, TextsSound
  <2> QED BY <2>1, <2>2 DEF StorageInv
<1>4. ASSUME HS!Index PROVE StorageInv'
  <2> DEFINE f == Indexed[bootAt]
  <2>1. UNCHANGED <<stage, schema, versions, texts, matrix, cycles, fileEdits>>
    BY <1>4 DEF HS!Index
  <2>2. bootAt \in Nat /\ bootAt' = bootAt + 1 /\ stage = "crawling"
    BY <1>1, <1>4 DEF HS!Index, SchemaSound
  <2>3. SchemaSound' /\ MatrixSound' /\ TextsSound'
    BY <1>1, <2>1, <2>2 DEF SchemaSound, MatrixSound, TextsSound
  <2>4. AnchorsSound'
    <3>2. CASE bootAt \in DOMAIN Indexed
      <4>1. f \in HS!Range(Indexed)
        BY <3>2 DEF HS!Range
      <4>2. anchors' \in {anchors, [anchors EXCEPT ![StoredAs[f]] = << >>],
                          [anchors EXCEPT ![StoredAs[f]] = <<texts[f]>>]}
        BY <1>4, Zenon DEF HS!Index
      <4> QED BY <1>1, <4>1, <4>2, AnchorKeeps DEF IndexAssumption
    <3>1. bootAt \in DOMAIN Indexed
      BY <1>1, <1>4, <2>2 DEF HS!Index, SchemaSound, IndexAssumption
    <3> QED BY <3>1, <3>2
  <2> QED BY <2>3, <2>4 DEF StorageInv
<1>5. ASSUME HS!Record PROVE StorageInv'
  <2>1. MatrixSound'
    BY <1>1, <1>5, RecordKeeps DEF IndexAssumption
  <2>2. SchemaSound' /\ AnchorsSound' /\ TextsSound'
    BY <1>1, <1>5 DEF HS!Record, SchemaSound, AnchorsSound, TextsSound
  <2> QED BY <2>1, <2>2 DEF StorageInv
<1>6. ASSUME NEW f \in HS!Range(Indexed), HS!Edit(f) PROVE StorageInv'
  <2>1. SchemaSound' /\ AnchorsSound' /\ MatrixSound'
    BY <1>1, <1>6 DEF HS!Edit, SchemaSound, AnchorsSound, MatrixSound
  <2>2. TextsSound'
    BY <1>1, <1>6 DEF HS!Edit, TextsSound
  <2> QED BY <2>1, <2>2 DEF StorageInv
<1>7. ASSUME HS!Crash PROVE StorageInv'
  <2>1. SchemaSound' /\ TextsSound'
    BY <1>1, <1>7 DEF HS!Crash, SchemaSound, TextsSound
  <2>2. MatrixSound'
    BY <1>1, <1>7 DEF HS!Crash, MatrixSound
  <2>3. AnchorsSound'
    <3>1. CASE anchors' = anchors
      BY <1>1, <3>1 DEF AnchorsSound
    <3>2. CASE /\ stage = "crawling" /\ bootAt <= Len(Indexed)
               /\ anchors' = [anchors EXCEPT ![StoredAs[Indexed[bootAt]]] = << >>]
      <4>1. bootAt \in DOMAIN Indexed
        BY <1>1, <3>2 DEF SchemaSound, IndexAssumption
      <4>2. Indexed[bootAt] \in HS!Range(Indexed)
        BY <4>1 DEF HS!Range
      <4> QED BY <1>1, <3>2, <4>2, AnchorKeeps DEF IndexAssumption
    <3> QED BY <1>7, <3>1, <3>2 DEF HS!Crash
  <2> QED BY <2>1, <2>2, <2>3 DEF StorageInv
<1>8. CASE UNCHANGED HS!vars
  BY <1>1, <1>8 DEF HS!vars, StorageInv, SchemaSound, AnchorsSound, MatrixSound, TextsSound
<1> QED BY <1>2, <1>3, <1>4, <1>5, <1>6, <1>7, <1>8 DEF HS!Next

LEMMA StorageTrue == StorageInv => HS!SchemaMatchesVersions /\ HS!OneAnchorPerPath /\ HS!MatrixIsNewest
<1> SUFFICES ASSUME StorageInv PROVE HS!SchemaMatchesVersions /\ HS!OneAnchorPerPath /\ HS!MatrixIsNewest
  OBVIOUS
<1>1. HS!SchemaMatchesVersions
  BY FourMigrations DEF StorageInv, SchemaSound, HS!SchemaMatchesVersions
<1>2. HS!OneAnchorPerPath
  BY DEF StorageInv, AnchorsSound, HS!OneAnchorPerPath
<1>3. HS!MatrixIsNewest
  BY DEF StorageInv, MatrixSound, HS!MatrixIsNewest
<1> QED BY <1>1, <1>2, <1>3

-----------------------------------------------------------------------------
(* LogSink                                                                 *)

Slots == 0..MaxFiles

\* Lines in the order they were logged, and lines that are all newer.
Rising(q) == \A i, j \in DOMAIN q : i < j => q[i] < q[j]
Above(q, r) == \A i \in DOMAIN q, j \in DOMAIN r : q[i] > r[j]
Under(q, m) == \A i \in DOMAIN q : q[i] < m

FilesSound(fs) ==
    /\ fs \in [Slots -> Seq(Nat)]
    /\ \A s \in Slots : Rising(fs[s])
    /\ \A s, t \in Slots : s < t => Above(fs[s], fs[t])

\* A batch that may be written: newer than what is in the files.
BatchSound(q) ==
    /\ q \in Seq(Nat) /\ Rising(q)
    /\ \A s \in Slots : Above(q, files[s])

SinkInv ==
    /\ next \in Nat
    /\ FilesSound(files) /\ \A s \in Slots : Under(files[s], next)
    /\ BatchSound(queue) /\ Under(queue, next)

LEMMA SinkInit == MaxFiles \in Nat /\ LS!Init => SinkInv
BY DEF LS!Init, LS!Slots, Slots, SinkInv, FilesSound, BatchSound, Rising, Above, Under

\* Lines in order, each one of q or of b.
Joined(w, q, b) ==
    /\ w \in Seq(Nat) /\ Rising(w)
    /\ \A i \in DOMAIN w : (\E j \in DOMAIN q : w[i] = q[j]) \/ (\E j \in DOMAIN b : w[i] = b[j])

\* What is written of a batch.
LEMMA WrittenLines ==
    ASSUME NEW q \in Seq(Nat), Rising(q), NEW b \in Seq(Nat), Rising(b), Above(b, q), NEW n \in 0..Len(b)
    PROVE  Joined(q \o SubSeq(b, 1, n), q, b)
<1> DEFINE c == SubSeq(b, 1, n)
           r == q \o c
<1>1. Len(b) \in Nat /\ DOMAIN b = 1..Len(b) /\ Len(q) \in Nat /\ DOMAIN q = 1..Len(q)
  OBVIOUS
<1>2. c \in Seq(Nat) /\ Len(c) = n /\ \A i \in 1..n : c[i] = b[i] /\ i \in DOMAIN b
  BY <1>1
<1>3. /\ r \in Seq(Nat) /\ Len(r) = Len(q) + n /\ DOMAIN r = 1..(Len(q) + n)
      /\ \A i \in 1..(Len(q) + n) : r[i] = IF i <= Len(q) THEN q[i] ELSE c[i - Len(q)]
  <2> HIDE DEF c
  <2>1. /\ r \in Seq(Nat) /\ Len(r) = Len(q) + Len(c)
        /\ \A i \in 1..(Len(q) + Len(c)) : r[i] = IF i <= Len(q) THEN q[i] ELSE c[i - Len(q)]
    BY <1>2, ConcatProperties
  <2> HIDE DEF r
  <2> QED BY <1>1, <1>2, <2>1
<1>4. \A i \in DOMAIN r : i \notin 1..Len(q) => i - Len(q) \in 1..n /\ r[i] = c[i - Len(q)]
  BY <1>1, <1>3
<1>5. \A i \in 1..Len(q) : r[i] = q[i]
  BY <1>1, <1>3
<1> HIDE DEF c, r
<1>7. \A i \in DOMAIN r : (\E j \in DOMAIN q : r[i] = q[j]) \/ (\E j \in DOMAIN b : r[i] = b[j])
  <2> TAKE i \in DOMAIN r
  <2>1. CASE i \in 1..Len(q)
    BY <2>1, <1>5, <1>1
  <2>2. CASE i \notin 1..Len(q)
    BY <2>2, <1>2, <1>4
  <2> QED BY <2>1, <2>2
<1>6. ASSUME NEW i \in DOMAIN r, NEW j \in DOMAIN r, i < j PROVE r[i] < r[j]
  <2>1. CASE j \in 1..Len(q)
    <3>1. i \in 1..Len(q)
      BY <1>1, <1>3, <1>6, <2>1
    <3> QED BY <1>5, <1>1, <1>6, <2>1, <3>1 DEF Rising
  <2>2. CASE i \in 1..Len(q) /\ j \notin 1..Len(q)
    <3>1. r[i] = q[i] /\ j - Len(q) \in DOMAIN b /\ r[j] = b[j - Len(q)]
      BY <1>5, <1>2, <1>4, <2>2
    <3>2. r[j] > r[i]
      BY <1>1, <2>2, <3>1 DEF Above
    <3>3. r[i] \in Nat /\ r[j] \in Nat
      BY <1>3, <1>6, ElementOfSeq
    <3> QED BY <3>2, <3>3
  <2>3. CASE i \notin 1..Len(q) /\ j \notin 1..Len(q)
    <3>1. /\ i - Len(q) \in DOMAIN b /\ r[i] = b[i - Len(q)]
          /\ j - Len(q) \in DOMAIN b /\ r[j] = b[j - Len(q)]
      BY <1>2, <1>4, <2>3
    <3>2. i - Len(q) < j - Len(q)
      BY <1>1, <1>3, <1>6
    <3> QED BY <3>1, <3>2 DEF Rising
  <2>4. i \in 1..Len(q) \/ j \notin 1..Len(q)
    BY <1>1, <1>3, <1>6
  <2> QED BY <2>1, <2>2, <2>3, <2>4
<1> QED BY <1>3, <1>6, <1>7 DEF Rising, Joined, r, c

\* A rotation, or what was done of it, keeps the order.
LEMMA RotationKeeps ==
    ASSUME MaxFiles \in Nat, FilesSound(files), NEW i \in 0..(MaxFiles + 1)
    PROVE  /\ FilesSound(LS!RotatedFrom(i))
           /\ \A s \in Slots : \E t \in Slots : LS!RotatedFrom(i)[s] \in {files[t], << >>}
<1> DEFINE fs == LS!RotatedFrom(i)
<1>1. ASSUME NEW s \in Slots
      PROVE  /\ s > i => s - 1 \in Slots /\ fs[s] = files[s - 1]
             /\ s = i => fs[s] = << >>
             /\ s < i => fs[s] = files[s]
  BY DEF LS!RotatedFrom, LS!Slots, Slots
<1>2. ASSUME NEW s \in Slots PROVE \E t \in Slots : fs[s] \in {files[t], << >>}
  BY <1>1 DEF Slots
<1>3. fs = [s \in Slots |-> fs[s]]
  BY DEF LS!RotatedFrom, LS!Slots, Slots
<1> HIDE DEF fs
<1>4. ASSUME NEW s \in Slots PROVE fs[s] \in Seq(Nat) /\ Rising(fs[s])
  <2>1. PICK t \in Slots : fs[s] \in {files[t], << >>}
    BY <1>2
  <2>2. files[t] \in Seq(Nat) /\ Rising(files[t])
    BY DEF FilesSound
  <2>3. << >> \in Seq(Nat) /\ Rising(<< >>)
    BY DEF Rising
  <2> QED BY <2>1, <2>2, <2>3
<1>5. ASSUME NEW s \in Slots, NEW t \in Slots, s < t PROVE Above(fs[s], fs[t])
  <2>1. CASE fs[s] = << >> \/ fs[t] = << >>
    BY <2>1 DEF Above
  <2>2. CASE s > i
    <3>1. fs[s] = files[s - 1] /\ fs[t] = files[t - 1] /\ s - 1 \in Slots /\ t - 1 \in Slots /\ s - 1 < t - 1
      BY <1>1, <1>5, <2>2 DEF Slots
    <3> QED BY <3>1 DEF FilesSound
  <2>3. CASE s < i /\ t > i
    <3>1. fs[s] = files[s] /\ fs[t] = files[t - 1] /\ t - 1 \in Slots /\ s < t - 1
      BY <1>1, <1>5, <2>3 DEF Slots
    <3> QED BY <3>1 DEF FilesSound
  <2>4. CASE t < i
    <3>1. fs[s] = files[s] /\ fs[t] = files[t]
      BY <1>1, <1>5, <2>4 DEF Slots
    <3> QED BY <3>1, <1>5 DEF FilesSound
  <2>5. s = i => fs[s] = << >>
    BY <1>1
  <2>6. t = i => fs[t] = << >>
    BY <1>1
  <2> QED BY <1>5, <2>1, <2>2, <2>3, <2>4, <2>5, <2>6 DEF Slots
<1> QED BY <1>2, <1>3, <1>4, <1>5 DEF FilesSound, fs

\* Lines of the files that are older than m are so after a rotation.
LEMMA RotationUnder ==
    ASSUME MaxFiles \in Nat, FilesSound(files), NEW i \in 0..(MaxFiles + 1),
           NEW m, \A s \in Slots : Under(files[s], m)
    PROVE  \A s \in Slots : Under(LS!RotatedFrom(i)[s], m)
BY RotationKeeps DEF Under

\* The lines of a batch that are written are the newest.
LEMMA AppendedKeeps ==
    ASSUME MaxFiles \in Nat, FilesSound(files), NEW batch, BatchSound(batch), NEW n \in 0..Len(batch),
           NEW m, \A s \in Slots : Under(files[s], m), Under(batch, m)
    PROVE  FilesSound(LS!Appended(batch, n)) /\ \A s \in Slots : Under(LS!Appended(batch, n)[s], m)
<1> DEFINE fs == IF LS!Full(batch) THEN LS!RotatedFrom(0) ELSE files
           gs == [fs EXCEPT ![0] = @ \o SubSeq(batch, 1, n)]
<1>1. /\ FilesSound(fs) /\ \A s \in Slots : Under(fs[s], m)
      /\ \A s \in Slots : \E t \in Slots : fs[s] \in {files[t], << >>}
  <2>1. CASE LS!Full(batch)
    <3>1. fs = LS!RotatedFrom(0)
      BY <2>1
    <3>2. 0 \in 0..(MaxFiles + 1)
      OBVIOUS
    <3>3. /\ FilesSound(LS!RotatedFrom(0)) /\ \A s \in Slots : Under(LS!RotatedFrom(0)[s], m)
          /\ \A s \in Slots : \E t \in Slots : LS!RotatedFrom(0)[s] \in {files[t], << >>}
      BY <3>2, RotationKeeps, RotationUnder
    <3> HIDE DEF fs
    <3> QED BY <3>1, <3>3, Zenon
  <2>2. CASE ~LS!Full(batch)
    BY <2>2
  <2> QED BY <2>1, <2>2
<1>2. \A s \in Slots : Above(batch, fs[s])
  BY <1>1 DEF BatchSound, Above
<1>3. LS!Appended(batch, n) = gs
  BY DEF LS!Appended
<1> HIDE DEF fs
<1>4. 0 \in Slots /\ fs \in [Slots -> Seq(Nat)]
  BY <1>1 DEF Slots, FilesSound
<1>5. gs[0] = fs[0] \o SubSeq(batch, 1, n) /\ \A s \in Slots : s # 0 => gs[s] = fs[s]
  BY <1>4
<1>6. /\ gs[0] \in Seq(Nat) /\ Rising(gs[0])
      /\ \A i \in DOMAIN gs[0] : \/ \E j \in DOMAIN fs[0] : gs[0][i] = fs[0][j]
                                 \/ \E j \in DOMAIN batch : gs[0][i] = batch[j]
  <2>1. fs[0] \in Seq(Nat) /\ Rising(fs[0]) /\ Above(batch, fs[0])
    BY <1>1, <1>2, <1>4 DEF FilesSound
  <2>2. batch \in Seq(Nat) /\ Rising(batch)
    BY DEF BatchSound
  <2>3. gs[0] = fs[0] \o SubSeq(batch, 1, n)
    BY <1>5
  <2>4. n \in 0..Len(batch)
    OBVIOUS
  <2>5. Joined(fs[0] \o SubSeq(batch, 1, n), fs[0], batch)
    BY <2>1, <2>2, <2>4, WrittenLines
  <2> HIDE DEF gs
  <2> QED BY <2>3, <2>5 DEF Joined
<1>7. gs \in [Slots -> Seq(Nat)]
  BY <1>4, <1>5, <1>6
<1> HIDE DEF gs
<1>8. \A s \in Slots : Rising(gs[s]) /\ Under(gs[s], m)
  <2> TAKE s \in Slots
  <2>1. CASE s = 0
    BY <2>1, <1>1, <1>4, <1>6 DEF Under
  <2>2. CASE s # 0
    BY <2>2, <1>1, <1>5 DEF FilesSound
  <2> QED BY <2>1, <2>2
<1>9. ASSUME NEW s \in Slots, NEW t \in Slots, s < t PROVE Above(gs[s], gs[t])
  <2>1. t # 0 /\ gs[t] = fs[t]
    BY <1>5, <1>9 DEF Slots
  <2>2. CASE s # 0
    BY <1>1, <1>5, <1>9, <2>1, <2>2 DEF FilesSound
  <2>3. CASE s = 0
    <3>1. Above(fs[0], fs[t]) /\ Above(batch, fs[t])
      BY <1>1, <1>2, <1>4, <1>9, <2>3 DEF FilesSound
    <3> QED BY <1>6, <2>1, <2>3, <3>1 DEF Above
  <2> QED BY <2>2, <2>3
<1> QED BY <1>3, <1>7, <1>8, <1>9 DEF FilesSound

LEMMA FlushKeeps ==
    ASSUME MaxFiles \in Nat, FilesSound(files), NEW batch, BatchSound(batch), NEW ok \in BOOLEAN,
           NEW m, \A s \in Slots : Under(files[s], m), Under(batch, m),
           LS!Flush(batch, ok)
    PROVE  FilesSound(files') /\ (\A s \in Slots : Under(files'[s], m)) /\ queue' = << >>
<1>1. Len(batch) \in Nat
  BY DEF BatchSound
<1>2. CASE \E n \in 0..Len(batch) : files' = LS!Appended(batch, n)
  BY <1>2, AppendedKeeps DEF LS!Flush
<1>3. CASE \E i \in 1..(MaxFiles + 1) : files' = LS!RotatedFrom(i)
  <2>1. PICK i \in 1..(MaxFiles + 1) : files' = LS!RotatedFrom(i)
    BY <1>3
  <2>2. i \in 0..(MaxFiles + 1)
    OBVIOUS
  <2>3. FilesSound(LS!RotatedFrom(i)) /\ \A s \in Slots : Under(LS!RotatedFrom(i)[s], m)
    BY <2>2, RotationKeeps, RotationUnder
  <2> QED BY <2>1, <2>3 DEF LS!Flush
<1>4. Len(batch) \in 0..Len(batch)
  BY <1>1
<1> QED BY <1>2, <1>3, <1>4 DEF LS!Flush

LEMMA PushedSound ==
    ASSUME MaxQueue \in Nat \ {0}, SinkInv
    PROVE  BatchSound(LS!Pushed) /\ Under(LS!Pushed, next + 1)
<1> DEFINE q == IF Len(queue) >= MaxQueue THEN Tail(queue) ELSE queue
           d == IF Len(queue) >= MaxQueue THEN 1 ELSE 0
<1>1. queue \in Seq(Nat) /\ next \in Nat /\ Len(queue) \in Nat /\ DOMAIN queue = 1..Len(queue)
  BY DEF SinkInv, BatchSound
<1>2. /\ q \in Seq(Nat) /\ DOMAIN q = 1..Len(q) /\ Len(q) = Len(queue) - d /\ d \in 0..1
      /\ \A i \in 1..Len(q) : q[i] = queue[i + d] /\ i + d \in DOMAIN queue
  <2>1. CASE Len(queue) >= MaxQueue
    <3>1. queue # << >> /\ q = Tail(queue) /\ d = 1
      BY <1>1, <2>1
    <3>2. Len(queue) > 0
      BY <1>1, <2>1
    <3>3. /\ Tail(queue) \in Seq(Nat) /\ Len(Tail(queue)) = Len(queue) - 1
          /\ \A i \in 1..Len(Tail(queue)) : Tail(queue)[i] = queue[i + 1]
      BY <1>1, <3>1, HeadTailProperties
    <3>4. \A i \in 1..Len(Tail(queue)) : i + 1 \in DOMAIN queue
      BY <1>1, <3>2, <3>3
    <3> HIDE DEF q, d
    <3> QED BY <1>1, <3>1, <3>3, <3>4
  <2>2. CASE ~(Len(queue) >= MaxQueue)
    BY <1>1, <2>2
  <2> QED BY <2>1, <2>2
<1>3. LS!Pushed = Append(q, next)
  BY DEF LS!Pushed
<1> HIDE DEF q, d
<1>4. /\ LS!Pushed \in Seq(Nat) /\ DOMAIN LS!Pushed = 1..(Len(q) + 1)
      /\ LS!Pushed[Len(q) + 1] = next /\ \A i \in 1..Len(q) : LS!Pushed[i] = q[i]
  BY <1>1, <1>2, <1>3
<1>5. \A i \in DOMAIN queue : queue[i] < next /\ queue[i] \in Nat
  BY <1>1 DEF SinkInv, Under
<1>6. ASSUME NEW i \in DOMAIN LS!Pushed
      PROVE  \/ i = Len(q) + 1 /\ LS!Pushed[i] = next
             \/ i \in 1..Len(q) /\ i + d \in DOMAIN queue /\ LS!Pushed[i] = queue[i + d]
  <2>1. i \in 1..(Len(q) + 1)
    BY <1>4
  <2>2. Len(q) \in Nat
    BY <1>1, <1>2
  <2>3. CASE i \in 1..Len(q)
    BY <2>3, <1>2, <1>4
  <2>4. CASE i \notin 1..Len(q)
    BY <2>1, <2>2, <2>4, <1>4
  <2> QED BY <2>3, <2>4
<1>7. Rising(LS!Pushed)
  <2> SUFFICES ASSUME NEW i \in DOMAIN LS!Pushed, NEW j \in DOMAIN LS!Pushed, i < j
               PROVE  LS!Pushed[i] < LS!Pushed[j]
    BY DEF Rising
  <2>1. i \in 1..Len(q) /\ i + d \in DOMAIN queue /\ LS!Pushed[i] = queue[i + d]
    <3>1. i # Len(q) + 1
      <4>1. j \in 1..(Len(q) + 1) /\ i \in 1..(Len(q) + 1) /\ Len(q) \in Nat
        BY <1>1, <1>2, <1>4
      <4> QED BY <4>1
    <3> QED BY <1>6, <3>1
  <2>2. CASE j = Len(q) + 1
    BY <1>4, <1>5, <2>1, <2>2
  <2>3. CASE j # Len(q) + 1
    <3>1. j + d \in DOMAIN queue /\ LS!Pushed[j] = queue[j + d] /\ i + d < j + d
      BY <1>2, <1>4, <1>6, <2>3
    <3> QED BY <2>1, <3>1 DEF SinkInv, BatchSound, Rising
  <2> QED BY <2>2, <2>3
<1>8. Under(LS!Pushed, next + 1)
  <2> SUFFICES ASSUME NEW i \in DOMAIN LS!Pushed PROVE LS!Pushed[i] < next + 1
    BY DEF Under
  <2>1. LS!Pushed[i] = next \/ (LS!Pushed[i] < next /\ LS!Pushed[i] \in Nat)
    BY <1>5, <1>6
  <2> QED BY <2>1, <1>1
<1>9. ASSUME NEW s \in Slots PROVE Above(LS!Pushed, files[s])
  <2>1. Under(files[s], next) /\ Above(queue, files[s])
    BY DEF SinkInv, BatchSound
  <2>2. files[s] \in Seq(Nat)
    BY DEF SinkInv, FilesSound
  <2> SUFFICES ASSUME NEW i \in DOMAIN LS!Pushed, NEW j \in DOMAIN files[s]
               PROVE  LS!Pushed[i] > files[s][j]
    BY DEF Above
  <2>3. files[s][j] \in Nat /\ files[s][j] < next
    BY <2>1, <2>2 DEF Under
  <2>4. CASE LS!Pushed[i] = next
    BY <1>1, <2>3, <2>4
  <2>5. CASE i + d \in DOMAIN queue /\ LS!Pushed[i] = queue[i + d]
    BY <2>1, <2>5 DEF Above
  <2> QED BY <1>6, <2>4, <2>5
<1> QED BY <1>4, <1>7, <1>8, <1>9 DEF BatchSound

\* Nothing is queued after a flush.
LEMMA EmptyQueue == BatchSound(<< >>) /\ \A m : Under(<< >>, m)
BY DEF BatchSound, Rising, Above, Under

LEMMA SinkStep == MaxFiles \in Nat /\ MaxQueue \in Nat \ {0} /\ SinkInv /\ [LS!Next]_LS!vars => SinkInv'
<1> SUFFICES ASSUME MaxFiles \in Nat, MaxQueue \in Nat \ {0}, SinkInv, [LS!Next]_LS!vars PROVE SinkInv'
  OBVIOUS
<1>1. /\ next \in Nat /\ FilesSound(files) /\ (\A s \in Slots : Under(files[s], next))
      /\ BatchSound(queue) /\ Under(queue, next)
  BY DEF SinkInv
<1>2. (\A s \in Slots : Under(files[s], next + 1)) /\ Under(queue, next + 1)
  <2>1. ASSUME NEW q \in Seq(Nat), Under(q, next) PROVE Under(q, next + 1)
    BY <1>1, <2>1 DEF Under
  <2> QED BY <1>1, <2>1 DEF FilesSound, BatchSound
<1>3. ASSUME FilesSound(files'), next' \in Nat, \A s \in Slots : Under(files'[s], next'), queue' = << >>
      PROVE  SinkInv'
  BY <1>3 DEF SinkInv, BatchSound, Rising, Above, Under
<1>4. ASSUME LS!Log PROVE SinkInv'
  <2>1. next' = next + 1 /\ next' \in Nat
    BY <1>1, <1>4 DEF LS!Log
  <2>2. BatchSound(LS!Pushed) /\ Under(LS!Pushed, next')
    BY PushedSound, <2>1
  <2>3. CASE queue' = LS!Pushed /\ files' = files
    <3>1. BatchSound(queue)'
      BY <2>2, <2>3 DEF BatchSound
    <3> QED BY <1>1, <1>2, <2>1, <2>2, <2>3, <3>1 DEF SinkInv
  <2>4. CASE \E ok \in BOOLEAN : LS!Flush(LS!Pushed, ok)
    <3>1. FilesSound(files') /\ (\A s \in Slots : Under(files'[s], next')) /\ queue' = << >>
      BY <1>1, <1>2, <2>1, <2>2, <2>4, FlushKeeps
    <3> QED BY <1>3, <2>1, <3>1
  <2> QED BY <1>4, <2>3, <2>4 DEF LS!Log
<1>5. ASSUME LS!TimerFlushes PROVE SinkInv'
  <2>1. PICK ok \in BOOLEAN : LS!Flush(queue, ok)
    BY <1>5 DEF LS!TimerFlushes
  <2>2. FilesSound(files') /\ (\A s \in Slots : Under(files'[s], next)) /\ queue' = << >>
    BY <1>1, <2>1, FlushKeeps
  <2> QED BY <1>1, <1>3, <1>5, <2>2 DEF LS!TimerFlushes
<1>6. ASSUME LS!Killed PROVE SinkInv'
  <2>1. next' = next /\ queue' = << >>
    BY <1>6 DEF LS!Killed
  <2>2. CASE files' = files
    BY <1>1, <1>3, <2>1, <2>2
  <2>3. CASE \E i \in Slots : files' = LS!RotatedFrom(i)
    <3>1. PICK i \in Slots : files' = LS!RotatedFrom(i)
      BY <2>3
    <3>2. i \in 0..(MaxFiles + 1)
      BY DEF Slots
    <3>3. FilesSound(files') /\ \A s \in Slots : Under(files'[s], next)
      BY <1>1, <3>1, <3>2, RotationKeeps, RotationUnder
    <3> QED BY <1>1, <1>3, <2>1, <3>3
  <2> QED BY <1>6, <2>2, <2>3 DEF LS!Killed, LS!Slots, Slots
<1>7. ASSUME LS!Restart PROVE SinkInv'
  BY <1>1, <1>3, <1>7 DEF LS!Restart
<1>8. CASE UNCHANGED LS!vars
  BY <1>8 DEF LS!vars, SinkInv, BatchSound
<1> QED BY <1>4, <1>5, <1>6, <1>7, <1>8 DEF LS!Next

LEMMA SinkTrue == SinkInv => LS!LinesAreInOrder
BY DEF SinkInv, FilesSound, Rising, Above, Slots, LS!LinesAreInOrder, LS!Newer, LS!Slots, LS!Range

\* A rotation, complete or cut short, loses the lines of the last file only.
LEMMA RotationEvicts ==
    ASSUME MaxFiles \in Nat, NEW i \in Int, NEW s \in Slots, s # MaxFiles, NEW j \in DOMAIN files[s]
    PROVE  \E t \in Slots : /\ j \in DOMAIN LS!RotatedFrom(i)[t]
                            /\ LS!RotatedFrom(i)[t][j] = files[s][j]
<1>1. CASE s < i
  <2>1. LS!RotatedFrom(i)[s] = files[s]
    BY <1>1 DEF LS!RotatedFrom, LS!Slots, Slots
  <2> QED BY <2>1
<1>2. CASE s >= i
  <2>1. s + 1 \in Slots /\ s + 1 > i /\ s + 1 - 1 = s
    BY <1>2 DEF Slots
  <2>2. LS!RotatedFrom(i)[s + 1] = files[s]
    BY <2>1 DEF LS!RotatedFrom, LS!Slots, Slots
  <2> QED BY <2>1, <2>2
<1> QED BY <1>1, <1>2 DEF Slots

\* What is appended to the files keeps the lines that are in them.
LEMMA AppendEvicts ==
    ASSUME MaxFiles \in Nat, FilesSound(files), NEW batch \in Seq(Nat), NEW n \in 0..Len(batch),
           NEW s \in Slots, s # MaxFiles, NEW j \in DOMAIN files[s]
    PROVE  \E t \in Slots : \E k \in DOMAIN LS!Appended(batch, n)[t] :
               LS!Appended(batch, n)[t][k] = files[s][j]
<1> DEFINE fs == IF LS!Full(batch) THEN LS!RotatedFrom(0) ELSE files
           gs == [fs EXCEPT ![0] = @ \o SubSeq(batch, 1, n)]
           part == SubSeq(batch, 1, n)
<1>1. PICK t \in Slots : j \in DOMAIN fs[t] /\ fs[t][j] = files[s][j]
  <2>1. CASE LS!Full(batch)
    BY <2>1, RotationEvicts
  <2>2. CASE ~LS!Full(batch)
    BY <2>2
  <2> QED BY <2>1, <2>2
<1>2. fs \in [Slots -> Seq(Nat)]
  <2>1. LS!RotatedFrom(0) \in [Slots -> Seq(Nat)]
    <3>1. \A u \in Slots : u > 0 => u - 1 \in Slots
      BY DEF Slots
    <3> QED BY <3>1 DEF LS!RotatedFrom, LS!Slots, Slots, FilesSound
  <2> QED BY <2>1 DEF FilesSound
<1>3. part \in Seq(Nat)
  <2>1. \A u \in 1..n : batch[u] \in Nat
    OBVIOUS
  <2> QED BY <2>1, SubSeqProperties
<1>4. LS!Appended(batch, n) = gs
  BY DEF LS!Appended
<1> HIDE DEF fs, part
<1>5. gs = [fs EXCEPT ![0] = fs[0] \o part] /\ 0 \in Slots
  BY DEF part, Slots
<1> HIDE DEF gs
<1>6. CASE t = 0
  <2>1. j \in 1..Len(fs[0]) /\ fs[0] \in Seq(Nat)
    BY <1>1, <1>2, <1>5, <1>6
  <2>2. /\ Len(fs[0] \o part) = Len(fs[0]) + Len(part) /\ fs[0] \o part \in Seq(Nat)
        /\ (fs[0] \o part)[j] = fs[0][j] /\ Len(part) \in Nat /\ Len(fs[0]) \in Nat
    BY <1>3, <2>1, ConcatProperties
  <2>3. j \in DOMAIN (fs[0] \o part)
    BY <2>1, <2>2
  <2>4. gs[0] = fs[0] \o part
    BY <1>2, <1>5
  <2> QED BY <1>1, <1>4, <1>6, <2>2, <2>3, <2>4
<1>7. CASE t # 0
  <2>1. gs[t] = fs[t]
    BY <1>2, <1>5, <1>7
  <2> QED BY <1>1, <1>4, <2>1
<1> QED BY <1>6, <1>7

\* Whatever a step writes and however it is cut short, it deletes no line but
\* those of the oldest file.
LEMMA OldestGoes ==
    ASSUME MaxFiles \in Nat, MaxQueue \in Nat \ {0}, SinkInv, [LS!Next]_LS!vars PROVE LS!EvictionStep
<1> DEFINE Keeps(fs) == \A s \in Slots : s # MaxFiles => \A j \in DOMAIN files[s] :
                            \E t \in Slots : \E k \in DOMAIN fs[t] : fs[t][k] = files[s][j]
<1>1. FilesSound(files) /\ queue \in Seq(Nat) /\ LS!Pushed \in Seq(Nat)
  BY PushedSound DEF SinkInv, BatchSound
<1>2. Keeps(files)
  OBVIOUS
<1>3. \A i \in Int : Keeps(LS!RotatedFrom(i))
  BY RotationEvicts
<1>4. ASSUME NEW batch \in Seq(Nat), NEW ok \in BOOLEAN, LS!Flush(batch, ok) PROVE Keeps(files')
  <2>1. Len(batch) \in Nat /\ Len(batch) \in 0..Len(batch)
    OBVIOUS
  <2>2. ASSUME NEW n \in 0..Len(batch), files' = LS!Appended(batch, n) PROVE Keeps(files')
    BY <1>1, <2>2, AppendEvicts
  <2>3. ASSUME NEW i \in 1..MaxFiles + 1, files' = LS!RotatedFrom(i) PROVE Keeps(files')
    BY <1>3, <2>3
  <2> HIDE DEF Keeps
  <2> QED BY <1>4, <2>1, <2>2, <2>3 DEF LS!Flush
<1>5. Keeps(files')
  <2>1. CASE LS!Log
    <3>1. files' = files \/ \E ok \in BOOLEAN : LS!Flush(LS!Pushed, ok)
      BY <2>1 DEF LS!Log
    <3> HIDE DEF Keeps
    <3> QED BY <1>1, <1>2, <1>4, <3>1
  <2>2. CASE LS!TimerFlushes
    <3>1. \E ok \in BOOLEAN : LS!Flush(queue, ok)
      BY <2>2 DEF LS!TimerFlushes
    <3> HIDE DEF Keeps
    <3> QED BY <1>1, <1>4, <3>1
  <2>3. CASE LS!Killed
    <3>1. files' = files \/ \E i \in Int : files' = LS!RotatedFrom(i)
      BY <2>3 DEF LS!Killed, LS!Slots
    <3> HIDE DEF Keeps
    <3> QED BY <1>2, <1>3, <3>1
  <2>4. CASE LS!Restart \/ UNCHANGED LS!vars
    <3>1. files' = files
      BY <2>4 DEF LS!Restart, LS!vars
    <3> HIDE DEF Keeps
    <3> QED BY <1>2, <3>1
  <2> QED BY <2>1, <2>2, <2>3, <2>4 DEF LS!Next
<1> QED BY <1>5 DEF LS!EvictionStep, LS!OnDisk, LS!Range, LS!Slots, Slots

-----------------------------------------------------------------------------
(* Ledgers                                                                 *)

\* Rows that their order tells apart.
Apart(S) ==
    /\ IsFiniteSet(S)
    /\ \A r \in S : r.at \in Int /\ r.rowid \in Int
    /\ \A r, s \in S : r.rowid = s.rowid => r = s

\* q lists the rows of S in their order.
Listing(q, S) ==
    /\ q \in Seq(S) /\ Len(q) = Cardinality(S) /\ Cardinality(S) \in Nat
    /\ \A i \in 1..Cardinality(S) : q[i] \in S /\ LE!Rank(S, q[i]) = i - 1
    /\ \A r \in S : \E i \in 1..Cardinality(S) : q[i] = r
    /\ \A i, j \in 1..Cardinality(S) : i < j <=> LE!Before(q[i], q[j])

LEMMA OneCardinality == \A S : LE!Cardinality(S) = Cardinality(S)
BY DEF LE!Cardinality, Cardinality

LEMMA RankIsCount == \A S, r : LE!Rank(S, r) = Cardinality({s \in S : LE!Before(s, r)})
BY OneCardinality DEF LE!Rank

LEMMA BeforeOrders ==
    ASSUME NEW S, Apart(S)
    PROVE  /\ \A r \in S : ~LE!Before(r, r)
           /\ \A r, s, t \in S : LE!Before(r, s) /\ LE!Before(s, t) => LE!Before(r, t)
           /\ \A r, s \in S : r = s \/ LE!Before(r, s) \/ LE!Before(s, r)
BY DEF Apart, LE!Before

\* The rows of S have the ranks from none to all but one.
LEMMA RanksFill ==
    ASSUME NEW S, Apart(S)
    PROVE  /\ Cardinality(S) \in Nat
           /\ \A r \in S : LE!Rank(S, r) \in 0..(Cardinality(S) - 1)
           /\ \A r, s \in S : LE!Before(r, s) => LE!Rank(S, r) < LE!Rank(S, s)
           /\ \A i \in 1..Cardinality(S) : \E r \in S : LE!Rank(S, r) = i - 1
<1> DEFINE n == Cardinality(S)
           below(r) == {s \in S : LE!Before(s, r)}
           place == [r \in S |-> LE!Rank(S, r) + 1]
<1>1. IsFiniteSet(S) /\ n \in Nat
  BY FS_CardinalityType DEF Apart
<1>2. \A T \in SUBSET S : IsFiniteSet(T) /\ Cardinality(T) \in Nat /\ Cardinality(T) <= n
  BY <1>1, FS_Subset, FS_CardinalityType
<1>3. ASSUME NEW r \in S PROVE LE!Rank(S, r) \in 0..(n - 1)
  <2>1. below(r) \in SUBSET S /\ r \notin below(r)
    BY BeforeOrders
  <2>2. Cardinality(below(r)) # n
    BY <1>1, <2>1, FS_Subset
  <2> QED BY <1>1, <1>2, <2>1, <2>2, RankIsCount
<1>4. ASSUME NEW r \in S, NEW s \in S, LE!Before(r, s) PROVE LE!Rank(S, r) < LE!Rank(S, s)
  <2>1. below(r) \in SUBSET below(s) /\ r \in below(s) /\ r \notin below(r)
    BY <1>4, BeforeOrders
  <2>2. below(s) \in SUBSET S /\ below(r) \in SUBSET S
    OBVIOUS
  <2> HIDE DEF below
  <2>3. Cardinality(below(r)) <= Cardinality(below(s)) /\ Cardinality(below(r)) # Cardinality(below(s))
    BY <1>2, <2>1, <2>2, FS_Subset
  <2>4. Cardinality(below(r)) < Cardinality(below(s))
    BY <1>2, <2>2, <2>3
  <2> QED BY <2>4, RankIsCount DEF below
<1>5. place \in Injection(S, 1..n)
  <2>1. place \in [S -> 1..n]
    BY <1>1, <1>3
  <2>2. ASSUME NEW r \in S, NEW s \in S, place[r] = place[s] PROVE r = s
    <3>1. LE!Rank(S, r) = LE!Rank(S, s)
      BY <1>3, <2>2
    <3>2. ~(LE!Rank(S, r) < LE!Rank(S, s)) /\ ~(LE!Rank(S, s) < LE!Rank(S, r))
      BY <1>3, <3>1
    <3> QED BY <1>4, <3>2, BeforeOrders
  <2> QED BY <2>1, <2>2 DEF Injection, IsInjective
<1>6. IsFiniteSet(1..n) /\ Cardinality(1..n) = n
  BY <1>1, FS_Interval
<1>7. place \in Surjection(S, 1..n)
  <2> HIDE DEF place, n
  <2> QED BY <1>5, <1>6, FS_Injection DEF n
<1>8. \A i \in 1..n : \E r \in S : LE!Rank(S, r) = i - 1
  <2> TAKE i \in 1..n
  <2>1. PICK r \in S : place[r] = i
    BY <1>7 DEF Surjection
  <2> QED BY <2>1, <1>3
<1> QED BY <1>1, <1>3, <1>4, <1>8

LEMMA AscendingLists == ASSUME NEW S, Apart(S) PROVE Listing(LE!Ascending(S), S)
<1> DEFINE n == Cardinality(S)
           q == LE!Ascending(S)
<1>1. /\ n \in Nat /\ \A r \in S : LE!Rank(S, r) \in 0..(n - 1)
      /\ \A r, s \in S : LE!Before(r, s) => LE!Rank(S, r) < LE!Rank(S, s)
      /\ \A i \in 1..n : \E r \in S : LE!Rank(S, r) = i - 1
  BY RanksFill
<1>2. q = [i \in 1..n |-> CHOOSE r \in S : LE!Rank(S, r) = i - 1]
  BY OneCardinality DEF LE!Ascending
<1> HIDE DEF n, q
<1>3. ASSUME NEW i \in 1..n PROVE q[i] \in S /\ LE!Rank(S, q[i]) = i - 1
  BY <1>1, <1>2
<1>4. q \in Seq(S) /\ Len(q) = n
  <2>1. q \in [1..n -> S]
    BY <1>2, <1>3
  <2> QED BY <1>1, <2>1, IsASeq, LenProperties
<1>5. \A r, s \in S : LE!Rank(S, r) = LE!Rank(S, s) => r = s
  <2> SUFFICES ASSUME NEW r \in S, NEW s \in S, LE!Rank(S, r) = LE!Rank(S, s) PROVE r = s
    OBVIOUS
  <2>1. ~(LE!Rank(S, r) < LE!Rank(S, s)) /\ ~(LE!Rank(S, s) < LE!Rank(S, r))
    BY <1>1
  <2> QED BY <1>1, <2>1, BeforeOrders
<1>6. ASSUME NEW r \in S PROVE \E i \in 1..n : q[i] = r
  <2>1. LE!Rank(S, r) + 1 \in 1..n /\ (LE!Rank(S, r) + 1) - 1 = LE!Rank(S, r)
    BY <1>1
  <2> QED BY <1>3, <1>5, <2>1
<1>7. ASSUME NEW i \in 1..n, NEW j \in 1..n PROVE i < j <=> LE!Before(q[i], q[j])
  <2>1. /\ q[i] \in S /\ q[j] \in S
        /\ LE!Rank(S, q[i]) = i - 1 /\ LE!Rank(S, q[j]) = j - 1
    BY <1>3
  <2>2. LE!Before(q[i], q[j]) => i < j
    <3>1. LE!Before(q[i], q[j]) => i - 1 < j - 1
      BY <1>1, <2>1
    <3> QED BY <3>1
  <2>3. LE!Before(q[j], q[i]) => j < i
    <3>1. LE!Before(q[j], q[i]) => j - 1 < i - 1
      BY <1>1, <2>1
    <3> QED BY <3>1
  <2>4. q[i] = q[j] => i = j
    BY <2>1
  <2> QED BY <2>1, <2>2, <2>3, <2>4, BeforeOrders
<1> QED BY <1>1, <1>3, <1>4, <1>6, <1>7 DEF Listing, n, q

\* The identities of the messages are those up to their number, and their
\* order by time and rowid is that of their identities.
MessagesSound ==
    /\ IsFiniteSet(messages) /\ Cardinality(messages) \in 0..MaxRows
    /\ \A m \in messages : /\ m.id \in 1..Cardinality(messages) /\ m.rowid = m.id
                           /\ m.at \in 1..now
    /\ \A i \in 1..Cardinality(messages) : \E m \in messages : m.id = i
    /\ \A m, o \in messages : /\ m.id = o.id => m = o
                              /\ m.id < o.id => m.at <= o.at

\* r is the next receipt after s of the request of both that is left.
Follows(r, s) ==
    /\ r.request = s.request /\ s.id < r.id
    /\ \A t \in receipts : t.request = r.request => ~(s.id < t.id /\ t.id < r.id)

ReceiptsSound ==
    /\ IsFiniteSet(receipts)
    /\ \A r \in receipts : /\ r.id \in 1..appended /\ r.rowid \in 1..r.id
                           /\ r.at \in 1..now /\ r.prev \in 0..MaxRows
    /\ \A r, s \in receipts : /\ r.id = s.id => r = s
                              /\ r.id < s.id => r.rowid < s.rowid /\ r.at <= s.at
    /\ \A r, s \in receipts : Follows(r, s) => r.prev = s.id

LedgerInv ==
    /\ now \in 1..MaxClock /\ appended \in 0..MaxRows /\ written \in 0..MaxRows
    /\ \A k \in MemoryKeys : IsFiniteSet(memory[k]) /\ Cardinality(memory[k]) <= 1
    /\ DOMAIN memory = MemoryKeys
    /\ MessagesSound
    /\ ReceiptsSound

LedgerBounds == MaxRows \in Nat /\ MaxClock \in Nat \ {0} /\ Limit \in Nat /\ Retention \in Nat

LEMMA LedgerInit == LedgerBounds /\ LE!Init => LedgerInv
<1> SUFFICES ASSUME LedgerBounds, LE!Init PROVE LedgerInv
  OBVIOUS
<1>1. IsFiniteSet({}) /\ Cardinality({}) = 0
  BY FS_EmptySet
<1>2. MessagesSound
  BY <1>1 DEF LE!Init, MessagesSound, LedgerBounds
<1>3. ReceiptsSound
  BY <1>1 DEF LE!Init, ReceiptsSound
<1>4. \A k \in MemoryKeys : IsFiniteSet(memory[k]) /\ Cardinality(memory[k]) <= 1
  BY <1>1 DEF LE!Init
<1> QED BY <1>2, <1>3, <1>4 DEF LE!Init, LedgerInv, LedgerBounds

LEMMA MessagesApart ==
    ASSUME now \in Nat, MessagesSound
    PROVE  Apart(messages) /\ \A m, o \in messages : LE!Before(m, o) <=> m.id < o.id
BY DEF MessagesSound, Apart, LE!Before

LEMMA ReceiptsApart ==
    ASSUME now \in Nat, appended \in Nat, ReceiptsSound, NEW S \in SUBSET receipts
    PROVE  Apart(S) /\ \A r, s \in S : LE!Before(r, s) <=> r.id < s.id
<1>1. IsFiniteSet(S)
  BY FS_Subset DEF ReceiptsSound
<1> QED BY <1>1 DEF ReceiptsSound, Apart, LE!Before

\* The last row of a table that is not empty.
LEMMA LastRow ==
    ASSUME NEW S, Apart(S), S # {}
    PROVE  LET row == LE!Last(LE!Ascending(S))
           IN  row \in S /\ \A r \in S : r = row \/ LE!Before(r, row)
<1> DEFINE n == Cardinality(S)
           q == LE!Ascending(S)
<1>1. Listing(q, S)
  BY AscendingLists
<1> HIDE DEF q
<1>2. n \in Nat /\ Len(q) = n /\ n # 0
  <2>1. IsFiniteSet(S)
    BY DEF Apart
  <2> QED BY <1>1, <2>1, FS_EmptySet DEF Listing
<1>3. n \in 1..n /\ q[n] \in S
  BY <1>1, <1>2 DEF Listing
<1>4. ASSUME NEW r \in S PROVE r = q[n] \/ LE!Before(r, q[n])
  <2>1. PICK i \in 1..n : q[i] = r
    BY <1>1 DEF Listing
  <2>2. i = n \/ i < n
    BY <1>2
  <2> QED BY <1>1, <1>3, <2>1, <2>2 DEF Listing
<1> QED BY <1>2, <1>3, <1>4 DEF LE!Last, q

\* The rowid that SQLite gives is larger than those there are.
LEMMA NextIsLarger ==
    ASSUME NEW S, \A r \in S : r.rowid \in Nat,
           NEW top \in S, \A r \in S : r.rowid <= top.rowid
    PROVE  LE!NextRowid(S) = top.rowid + 1
<1> DEFINE ids == {r.rowid : r \in S}
<1>1. top.rowid \in ids /\ \A x \in ids : top.rowid >= x
  OBVIOUS
<1>2. LE!Max(ids) \in ids /\ \A x \in ids : LE!Max(ids) >= x
  BY <1>1 DEF LE!Max
<1>3. LE!Max(ids) = top.rowid
  <2>1. LE!Max(ids) \in Nat /\ top.rowid \in Nat
    BY <1>1, <1>2
  <2> QED BY <1>1, <1>2, <2>1
<1> QED BY <1>3 DEF LE!NextRowid

LEMMA PostMessageKeeps == ASSUME LedgerBounds, LedgerInv, LE!PostMessage PROVE LedgerInv'
<1> DEFINE n == Cardinality(messages)
           m == [rowid |-> LE!NextRowid(messages), at |-> now, id |-> n + 1]
<1>1. MessagesSound /\ now \in 1..MaxClock /\ now \in Nat /\ n \in Nat
  BY DEF LedgerInv, MessagesSound
<1>2. messages' = messages \cup {m} /\ n < MaxRows /\ UNCHANGED <<now, receipts, memory, appended, written>>
  BY OneCardinality DEF LE!PostMessage
<1>3. LE!NextRowid(messages) = n + 1
  <2>1. CASE messages = {}
    <3>1. n = 0
      BY <2>1, FS_EmptySet
    <3> QED BY <2>1, <3>1 DEF LE!NextRowid
  <2>2. CASE messages # {}
    <3>1. n # 0
      BY <2>2, <1>1, FS_EmptySet DEF MessagesSound
    <3>2. PICK top \in messages : top.id = n
      BY <1>1, <3>1 DEF MessagesSound
    <3>3. \A o \in messages : o.rowid \in Nat /\ o.rowid <= top.rowid
      BY <1>1, <3>2 DEF MessagesSound
    <3> QED BY <3>2, <3>3, <1>1, NextIsLarger DEF MessagesSound
  <2> QED BY <2>1, <2>2
<1>4. m.rowid = n + 1 /\ m.at = now /\ m.id = n + 1
  BY <1>3
<1> HIDE DEF m
<1>5. \A o \in messages : o.id < m.id /\ o.id \in 1..n /\ o.at <= m.at
  BY <1>1, <1>4 DEF MessagesSound
<1>6. m \notin messages
  BY <1>1, <1>5
<1>7. IsFiniteSet(messages') /\ Cardinality(messages') = n + 1
  BY <1>1, <1>2, <1>6, FS_AddElement DEF MessagesSound
<1>8. \A o \in messages' : o.id \in 1..(n + 1) /\ o.rowid = o.id /\ o.at \in 1..now
  BY <1>1, <1>2, <1>4 DEF MessagesSound
<1>9. \A i \in 1..(n + 1) : \E o \in messages' : o.id = i
  <2> TAKE i \in 1..(n + 1)
  <2>1. CASE i = n + 1
    BY <2>1, <1>2, <1>4
  <2>2. CASE i \in 1..n
    BY <2>2, <1>1, <1>2 DEF MessagesSound
  <2> QED BY <2>1, <2>2, <1>1
<1>10. \A o, p \in messages' : (o.id = p.id => o = p) /\ (o.id < p.id => o.at <= p.at)
  <2> TAKE o, p \in messages'
  <2>1. CASE o \in messages /\ p \in messages
    BY <2>1, <1>1 DEF MessagesSound
  <2>2. CASE o \in messages /\ p = m
    BY <2>2, <1>1, <1>4, <1>5
  <2>3. CASE o = m /\ p \in messages
    <3>1. p.id < o.id /\ p.id \in Nat /\ o.id \in Nat
      BY <2>3, <1>1, <1>4, <1>5
    <3> QED BY <3>1
  <2>4. CASE o = m /\ p = m
    BY <2>4, <1>1, <1>4
  <2> QED BY <1>2, <2>1, <2>2, <2>3, <2>4
<1>11. MessagesSound'
  BY <1>1, <1>2, <1>7, <1>8, <1>9, <1>10 DEF MessagesSound, LedgerBounds
<1>12. ReceiptsSound'
  BY <1>2 DEF LedgerInv, ReceiptsSound, Follows
<1> QED BY <1>2, <1>11, <1>12 DEF LedgerInv

LEMMA AppendReceiptKeeps ==
    ASSUME LedgerBounds, LedgerInv, NEW request \in Requests, LE!AppendReceipt(request)
    PROVE  LedgerInv'
<1> DEFINE mine == LE!Of(request)
           newest == LE!Last(LE!Ascending(mine))
           r == [rowid |-> LE!NextRowid(receipts), at |-> now, id |-> appended', request |-> request,
                 prev |-> IF mine = {} THEN LE!None ELSE newest.id]
<1>1. /\ ReceiptsSound /\ now \in 1..MaxClock /\ now \in Nat
      /\ appended \in 0..MaxRows /\ appended \in Nat
  BY DEF LedgerInv
<1>2. /\ receipts' = receipts \cup {r} /\ appended' = appended + 1 /\ appended < MaxRows
      /\ UNCHANGED <<now, messages, memory, written>>
  BY DEF LE!AppendReceipt
<1>3. appended' \in 1..MaxRows
  BY <1>1, <1>2 DEF LedgerBounds
<1>4. mine \in SUBSET receipts
  BY DEF LE!Of
<1>5. mine # {} => newest \in mine /\ \A s \in mine : s = newest \/ s.id < newest.id
  BY <1>1, <1>4, LastRow, ReceiptsApart
<1>6. LE!NextRowid(receipts) \in 1..appended' /\ \A s \in receipts : s.rowid < LE!NextRowid(receipts)
  <2>1. CASE receipts = {}
    BY <1>3, <2>1 DEF LE!NextRowid
  <2>2. CASE receipts # {}
    <3> DEFINE top == LE!Last(LE!Ascending(receipts))
    <3>1. top \in receipts /\ \A s \in receipts : s = top \/ s.id < top.id
      BY <1>1, <2>2, LastRow, ReceiptsApart
    <3> HIDE DEF top
    <3>2. \A s \in receipts : s.rowid \in Nat /\ s.rowid <= top.rowid /\ top.rowid <= appended
      BY <1>1, <3>1 DEF ReceiptsSound
    <3>3. LE!NextRowid(receipts) = top.rowid + 1
      BY <3>1, <3>2, NextIsLarger
    <3> QED BY <1>1, <1>2, <3>1, <3>2, <3>3
  <2> QED BY <2>1, <2>2
<1>7. /\ r.rowid = LE!NextRowid(receipts) /\ r.at = now /\ r.id = appended' /\ r.request = request
      /\ r.prev = IF mine = {} THEN 0 ELSE newest.id
  BY DEF LE!None
<1> HIDE DEF r, newest
<1>8. \A s \in receipts : s.id < r.id /\ s.id \in 1..appended /\ s.rowid < r.rowid /\ s.at <= r.at /\ s # r
  BY <1>1, <1>2, <1>6, <1>7 DEF ReceiptsSound
<1>9. r.prev \in 0..MaxRows
  BY <1>1, <1>4, <1>5, <1>7 DEF ReceiptsSound, LedgerBounds
<1>10. IsFiniteSet(receipts')
  BY <1>1, <1>2, FS_AddElement DEF ReceiptsSound
<1>11. \A s \in receipts' : s.id \in 1..appended' /\ s.rowid \in 1..s.id /\ s.at \in 1..now' /\ s.prev \in 0..MaxRows
  BY <1>1, <1>2, <1>3, <1>6, <1>7, <1>9 DEF ReceiptsSound
<1>12. \A s, t \in receipts' : (s.id = t.id => s = t) /\ (s.id < t.id => s.rowid < t.rowid /\ s.at <= t.at)
  <2> TAKE s, t \in receipts'
  <2>1. CASE s \in receipts /\ t \in receipts
    BY <2>1, <1>1 DEF ReceiptsSound
  <2>2. CASE s \in receipts /\ t = r
    <3>1. s.id \in Nat /\ r.id \in Nat
      BY <2>2, <1>1, <1>3, <1>7, <1>8
    <3> QED BY <2>2, <1>8, <3>1
  <2>3. CASE s = r /\ t \in receipts
    <3>1. t.id < s.id /\ t.id \in Nat /\ s.id \in Nat
      BY <2>3, <1>1, <1>3, <1>7, <1>8
    <3> QED BY <3>1
  <2>4. CASE s = r /\ t = r
    BY <2>4, <1>3, <1>7
  <2> QED BY <1>2, <2>1, <2>2, <2>3, <2>4
<1>13. ASSUME NEW s \in receipts', NEW t \in receipts', Follows(s, t)' PROVE s.prev = t.id
  <2>1. CASE s \in receipts /\ t \in receipts
    <3>1. Follows(s, t)
      BY <1>2, <1>13 DEF Follows
    <3> QED BY <2>1, <3>1, <1>1 DEF ReceiptsSound
  <2>2. CASE s = r /\ t \in receipts
    <3>1. t \in mine /\ newest \in mine /\ newest \in receipts
      BY <2>2, <1>5, <1>7, <1>13 DEF Follows, LE!Of
    <3>2. newest.request = request /\ newest.id < r.id /\ newest \in receipts'
      BY <3>1, <1>2, <1>8 DEF LE!Of
    <3>3. ~(t.id < newest.id)
      BY <1>7, <1>13, <2>2, <3>2 DEF Follows
    <3>4. t = newest
      BY <1>5, <3>1, <3>3
    <3> QED BY <1>7, <2>2, <3>1, <3>4
  <2>3. CASE t = r
    <3>1. r.id < s.id /\ (s = r \/ s \in receipts)
      BY <1>2, <1>13, <2>3 DEF Follows
    <3>2. s.id <= r.id /\ s.id \in Nat /\ r.id \in Nat
      BY <1>1, <1>3, <1>7, <1>8, <3>1
    <3> QED BY <3>1, <3>2
  <2> QED BY <1>2, <2>1, <2>2, <2>3
<1>14. ReceiptsSound'
  BY <1>10, <1>11, <1>12, <1>13 DEF ReceiptsSound
<1>15. MessagesSound'
  BY <1>2 DEF LedgerInv, MessagesSound
<1> QED BY <1>2, <1>3, <1>14, <1>15 DEF LedgerInv

\* What is old goes first: no receipt is left without one that came after it.
LEMMA PruneReceiptsKeeps == ASSUME LedgerBounds, LedgerInv, LE!PruneOldReceipts PROVE LedgerInv'
<1>1. /\ ReceiptsSound /\ now \in Nat
      /\ receipts' = {r \in receipts : r.at >= now - Retention}
      /\ UNCHANGED <<now, messages, memory, appended, written>>
  BY DEF LedgerInv, LE!PruneOldReceipts
<1>2. receipts' \in SUBSET receipts
  BY <1>1
<1>3. IsFiniteSet(receipts')
  BY <1>1, <1>2, FS_Subset DEF ReceiptsSound
<1>4. ASSUME NEW r \in receipts', NEW s \in receipts', Follows(r, s)' PROVE r.prev = s.id
  <2>1. r \in receipts /\ s \in receipts /\ s.at >= now - Retention
    BY <1>1
  <2>2. ASSUME NEW t \in receipts, t.request = r.request, s.id < t.id, t.id < r.id PROVE FALSE
    <3>1. s.at <= t.at /\ s.at \in Nat /\ t.at \in Nat
      BY <1>1, <2>1, <2>2 DEF ReceiptsSound
    <3>2. t \in receipts'
      BY <1>1, <2>1, <3>1 DEF LedgerBounds
    <3> QED BY <1>4, <2>2, <3>2 DEF Follows
  <2>3. Follows(r, s)
    BY <1>4, <2>2 DEF Follows
  <2> QED BY <1>1, <2>1, <2>3 DEF ReceiptsSound
<1>5. ReceiptsSound'
  BY <1>1, <1>2, <1>3, <1>4 DEF ReceiptsSound
<1>6. MessagesSound'
  BY <1>1 DEF LedgerInv, MessagesSound
<1> QED BY <1>1, <1>5, <1>6 DEF LedgerInv

LEMMA LedgerStep == LedgerBounds /\ LedgerInv /\ [LE!Next]_LE!vars => LedgerInv'
<1> SUFFICES ASSUME LedgerBounds, LedgerInv, [LE!Next]_LE!vars PROVE LedgerInv'
  OBVIOUS
<1>1. MessagesSound /\ ReceiptsSound /\ now \in 1..MaxClock /\ written \in 0..MaxRows
  BY DEF LedgerInv
<1>2. ASSUME UNCHANGED <<messages, receipts, appended>>, now' \in now..MaxClock, written' \in 0..MaxRows,
             DOMAIN memory' = MemoryKeys,
             \A k \in MemoryKeys : IsFiniteSet(memory'[k]) /\ Cardinality(memory'[k]) <= 1
      PROVE  LedgerInv'
  <2>1. now' \in 1..MaxClock /\ \A x \in 1..now : x \in 1..now'
    BY <1>1, <1>2 DEF LedgerBounds
  <2>2. MessagesSound'
    BY <1>1, <1>2, <2>1 DEF MessagesSound
  <2>3. ReceiptsSound'
    BY <1>1, <1>2, <2>1 DEF ReceiptsSound, Follows
  <2> QED BY <1>2, <2>1, <2>2, <2>3 DEF LedgerInv
<1>3. ASSUME LE!PostMessage PROVE LedgerInv'
  BY <1>3, PostMessageKeeps
<1>4. ASSUME NEW r \in Requests, LE!AppendReceipt(r) PROVE LedgerInv'
  BY <1>4, AppendReceiptKeeps
<1>5. ASSUME LE!PruneOldReceipts PROVE LedgerInv'
  BY <1>5, PruneReceiptsKeeps
<1>6. ASSUME NEW k \in MemoryKeys, NEW kind, NEW ttl, LE!Upsert(k, kind, ttl) PROVE LedgerInv'
  <2>1. PICK row : memory' = [memory EXCEPT ![k] = {row}]
    BY <1>6 DEF LE!Upsert
  <2>2. IsFiniteSet({row}) /\ Cardinality({row}) <= 1
    <3>1. IsFiniteSet({row}) /\ Cardinality({row}) = 1
      BY FS_Singleton
    <3> QED BY <3>1
  <2>3. \A j \in MemoryKeys : IsFiniteSet(memory'[j]) /\ Cardinality(memory'[j]) <= 1
    BY <2>1, <2>2 DEF LedgerInv
  <2>4. UNCHANGED <<now, messages, receipts, appended>> /\ written' = written + 1 /\ written < MaxRows
    BY <1>6 DEF LE!Upsert
  <2> QED BY <1>1, <1>2, <2>1, <2>3, <2>4 DEF LedgerInv, LedgerBounds
<1>7. ASSUME LE!PruneExpiredCache PROVE LedgerInv'
  <2>1. UNCHANGED <<now, messages, receipts, appended, written>> /\ DOMAIN memory' = MemoryKeys
    BY <1>7 DEF LE!PruneExpiredCache
  <2>2. ASSUME NEW k \in MemoryKeys PROVE IsFiniteSet(memory'[k]) /\ Cardinality(memory'[k]) <= 1
    <3>1. memory'[k] \in SUBSET memory[k] /\ IsFiniteSet(memory[k]) /\ Cardinality(memory[k]) <= 1
      BY <1>7 DEF LE!PruneExpiredCache, LedgerInv
    <3>2. /\ IsFiniteSet(memory'[k]) /\ Cardinality(memory'[k]) <= Cardinality(memory[k])
          /\ Cardinality(memory[k]) \in Nat /\ Cardinality(memory'[k]) \in Nat
      BY <3>1, FS_Subset, FS_CardinalityType
    <3> QED BY <3>1, <3>2
  <2> QED BY <1>1, <1>2, <2>1, <2>2 DEF LedgerBounds
<1>8. ASSUME LE!Tick PROVE LedgerInv'
  BY <1>1, <1>2, <1>8 DEF LE!Tick, LedgerInv, LedgerBounds
<1>9. CASE UNCHANGED LE!vars
  BY <1>1, <1>2, <1>9 DEF LE!vars, LedgerInv, LedgerBounds
<1> QED BY <1>3, <1>4, <1>5, <1>6, <1>7, <1>8, <1>9 DEF LE!Next

\* The message of identity i is the i-th of the topic.
LEMMA MessageRank ==
    ASSUME LedgerInv, NEW m \in messages PROVE LE!Rank(messages, m) = m.id - 1
<1> DEFINE n == Cardinality(messages)
           older == {o \in messages : LE!Before(o, m)}
           ids == [o \in older |-> o.id]
<1>1. now \in Nat /\ MessagesSound /\ n \in Nat /\ m.id \in 1..n
  BY DEF LedgerInv, MessagesSound
<1>2. older = {o \in messages : o.id < m.id}
  BY <1>1, MessagesApart
<1>3. IsFiniteSet(older)
  BY <1>1, FS_Subset DEF MessagesSound
<1>4. ids \in [older -> 1..(m.id - 1)]
  BY <1>1, <1>2 DEF MessagesSound
<1>5. ids \in Injection(older, 1..(m.id - 1))
  BY <1>1, <1>2, <1>4 DEF MessagesSound, Injection, IsInjective
<1>6. ASSUME NEW i \in 1..(m.id - 1) PROVE \E o \in older : ids[o] = i
  <2>1. i \in 1..n /\ i < m.id
    BY <1>1
  <2>2. PICK o \in messages : o.id = i
    BY <1>1, <2>1 DEF MessagesSound
  <2> QED BY <1>2, <2>1, <2>2
<1>7. ExistsBijection(older, 1..(m.id - 1))
  BY <1>4, <1>5, <1>6 DEF ExistsBijection, Bijection, Surjection
<1>8. Cardinality(1..(m.id - 1)) = m.id - 1
  <2>1. 1 \in Int /\ m.id - 1 \in Int /\ m.id - 1 >= 0
    BY <1>1
  <2>2. Cardinality(1..(m.id - 1)) = IF 1 > m.id - 1 THEN 0 ELSE (m.id - 1) - 1 + 1
    BY <2>1, FS_Interval
  <2> QED BY <2>1, <2>2
<1>9. Cardinality(older) = m.id - 1
  BY <1>3, <1>7, <1>8, FS_Bijection
<1> QED BY <1>9, RankIsCount

LEMMA HistoryTrue == LedgerBounds /\ LedgerInv => LE!HistoryIsTail
<1> SUFFICES ASSUME LedgerBounds, LedgerInv PROVE LE!HistoryIsTail
  OBVIOUS
<1> DEFINE n == Cardinality(messages)
           q == LE!Ascending(messages)
           l == IF n < Limit THEN n ELSE Limit
           down == LE!Reverse(q)
<1>1. n \in Nat /\ Limit \in Nat /\ l \in 0..n /\ l \in Nat
  BY DEF LedgerInv, MessagesSound, LedgerBounds
<1>2. Listing(q, messages)
  BY MessagesApart, AscendingLists DEF LedgerInv
<1> HIDE DEF q
<1>3. Len(q) = n /\ q \in Seq(messages) /\ \A i \in 1..n : q[i] \in messages /\ q[i].id = i
  <2>1. Len(q) = n /\ \A i \in 1..n : q[i] \in messages /\ LE!Rank(messages, q[i]) = i - 1
    BY <1>2 DEF Listing
  <2>2. ASSUME NEW i \in 1..n PROVE q[i].id = i
    <3>1. q[i].id - 1 = i - 1 /\ q[i].id \in Nat
      BY <2>1, MessageRank DEF LedgerInv, MessagesSound
    <3> QED BY <3>1
  <2> QED BY <1>2, <2>1, <2>2 DEF Listing
<1>4. /\ down \in Seq(messages) /\ Len(down) = n
      /\ \A i \in 1..n : down[i] \in messages /\ down[i].id = (n - i) + 1
  <2>1. down = [i \in 1..n |-> q[(n - i) + 1]]
    BY <1>3 DEF LE!Reverse
  <2>2. \A i \in 1..n : (n - i) + 1 \in 1..n
    BY <1>1
  <2>3. down \in [1..n -> messages]
    BY <1>3, <2>1, <2>2
  <2>4. \A i \in 1..n : down[i].id = (n - i) + 1
    BY <1>3, <2>1, <2>2
  <2> HIDE DEF down, n
  <2> QED BY <1>1, <2>3, <2>4, IsASeq, LenProperties
<1> HIDE DEF down, l
<1>5. /\ Len(SubSeq(down, 1, l)) = l
      /\ \A i \in 1..l : SubSeq(down, 1, l)[i] = down[i]
  <2>1. \A i \in 1..l : down[i] \in messages
    BY <1>1, <1>4
  <2>2. /\ Len(SubSeq(down, 1, l)) = IF 1 <= l THEN l - 1 + 1 ELSE 0
        /\ \A i \in 1..(l - 1 + 1) : SubSeq(down, 1, l)[i] = down[1 + i - 1]
    BY <1>1, <2>1, SubSeqProperties
  <2>3. \A i \in 1..l : SubSeq(down, 1, l)[i] = down[i]
    <3> TAKE i \in 1..l
    <3>1. i \in 1..(l - 1 + 1) /\ 1 + i - 1 = i
      BY <1>1
    <3> QED BY <2>2, <3>1
  <2> QED BY <1>1, <2>2, <2>3
<1> DEFINE shown == LE!History(Limit)
<1>6. shown = [i \in 1..l |-> SubSeq(down, 1, l)[(l - i) + 1]]
  BY <1>4, <1>5 DEF LE!History, LE!Reverse, down, q, l
<1> HIDE DEF shown, n
<1>7. DOMAIN shown = 1..l /\ Len(shown) = l
  <2>1. shown \in [1..l -> {shown[i] : i \in 1..l}]
    BY <1>6
  <2> QED BY <1>1, <1>6, <2>1, LenProperties, IsASeq
<1>8. ASSUME NEW i \in 1..l PROVE shown[i].id = n - l + i
  <2>1. (l - i) + 1 \in 1..l /\ (l - i) + 1 \in 1..n
    BY <1>1
  <2>2. shown[i] = down[(l - i) + 1]
    BY <1>5, <1>6, <2>1
  <2>3. shown[i].id = (n - ((l - i) + 1)) + 1
    BY <1>4, <2>1, <2>2
  <2> QED BY <1>1, <2>3
<1> QED BY <1>7, <1>8, OneCardinality DEF LE!HistoryIsTail, shown, n, l

LEMMA ChainTrue == LedgerInv => LE!ChainIsWhole
<1> SUFFICES ASSUME LedgerInv, NEW request \in Requests,
                    NEW i \in 2..Len(LE!Ascending(LE!Of(request)))
             PROVE  LE!Ascending(LE!Of(request))[i].prev = LE!Ascending(LE!Of(request))[i - 1].id
  BY DEF LE!ChainIsWhole
<1> DEFINE S == LE!Of(request)
           q == LE!Ascending(S)
<1>1. S \in SUBSET receipts /\ \A r \in receipts : r \in S <=> r.request = request
  BY DEF LE!Of
<1>2. Apart(S) /\ \A r, s \in S : LE!Before(r, s) <=> r.id < s.id
  BY <1>1, ReceiptsApart DEF LedgerInv
<1>3. Listing(q, S)
  BY <1>2, AscendingLists
<1> HIDE DEF q, S
<1>4. i \in 1..Cardinality(S) /\ i - 1 \in 1..Cardinality(S) /\ i - 1 < i
  BY <1>3 DEF Listing, q, S
<1>5. q[i] \in S /\ q[i - 1] \in S /\ q[i - 1].id < q[i].id
  BY <1>2, <1>3, <1>4 DEF Listing
<1>6. ASSUME NEW t \in receipts, t.request = request, q[i - 1].id < t.id, t.id < q[i].id PROVE FALSE
  <2>1. t \in S
    BY <1>1, <1>6
  <2>2. PICK j \in 1..Cardinality(S) : q[j] = t
    BY <1>3, <2>1 DEF Listing
  <2>3. LE!Before(q[i - 1], q[j]) /\ LE!Before(q[j], q[i])
    BY <1>2, <1>5, <1>6, <2>1, <2>2
  <2>4. i - 1 < j /\ j < i
    BY <1>3, <1>4, <2>3 DEF Listing
  <2> QED BY <2>4
<1>7. Follows(q[i], q[i - 1])
  BY <1>1, <1>5, <1>6 DEF Follows
<1> QED BY <1>1, <1>5, <1>7 DEF LedgerInv, ReceiptsSound, q, S

LEMMA LedgerTrue == LedgerBounds /\ LedgerInv => LE!TypeOK /\ LE!HistoryIsTail /\ LE!ChainIsWhole
<1> SUFFICES ASSUME LedgerBounds, LedgerInv PROVE LE!TypeOK
  BY HistoryTrue, ChainTrue
<1>1. \A m \in messages : m.rowid \in 1..MaxRows /\ m.at \in 1..MaxClock
  BY DEF LedgerInv, MessagesSound, LedgerBounds
<1>2. \A r \in receipts : r.rowid \in 1..MaxRows /\ r.prev \in 0..MaxRows
  BY DEF LedgerInv, ReceiptsSound, LedgerBounds
<1> QED BY <1>1, <1>2, OneCardinality DEF LedgerInv, LE!TypeOK

\* A value that is pruned is one that no read returned any more.
LEMMA PruneIsQuiet == ASSUME LedgerInv, [LE!Next]_LE!vars PROVE LE!PruneStep
<1> SUFFICES ASSUME now' = now, written' = written, NEW k \in MemoryKeys, NEW kind \in LE!Kinds
             PROVE  LE!Read(k, kind)' = LE!Read(k, kind)
  BY DEF LE!PruneStep
<1>1. CASE memory' = memory
  BY <1>1 DEF LE!Read, LE!Expired
<1>2. CASE LE!PruneExpiredCache
  <2>1. memory'[k] = {row \in memory[k] : ~(row.kind = "cache" /\ LE!Expired(row))}
    BY <1>2 DEF LE!PruneExpiredCache
  <2> QED BY <2>1 DEF LE!Read, LE!Expired
<1>3. CASE \E m \in MemoryKeys, kd \in LE!Kinds, ttl \in {LE!None, Ttl} : LE!Upsert(m, kd, ttl)
  <2>1. written' = written + 1 /\ written \in Nat
    BY <1>3 DEF LE!Upsert, LedgerInv
  <2> QED BY <2>1
<1> QED BY <1>1, <1>2, <1>3 DEF LE!Next, LE!vars, LE!PostMessage, LE!AppendReceipt, LE!PruneOldReceipts, LE!Tick

-----------------------------------------------------------------------------
(* Induction up to a bound, over a set of the numbers that are good so far *)

LEMMA UpTo ==
    ASSUME NEW L \in Nat, NEW Good, 0 \in Good, \A n \in 1..L : n - 1 \in Good => n \in Good
    PROVE  L \in Good /\ \A n \in 0..L : n \in Good
<1> DEFINE Bad == {n \in 0..L : n \notin Good}
<1> SUFFICES ASSUME NEW b \in Bad PROVE FALSE
  <2>1. L \in 0..L
    OBVIOUS
  <2> QED BY <2>1
<1>1. Bad \in SUBSET Nat
  OBVIOUS
<1>2. PICK n \in Bad : \A m \in Bad : n <= m
  <2> DEFINE Less == {p \in Nat \X Nat : p[1] < p[2]}
  <2>1. IsWellFoundedOn(Less, Nat)
    BY NatLessThanWellFounded DEF OpToRel
  <2>2. PICK n \in Bad : \A m \in Bad : <<m, n>> \notin Less
    <3> HIDE DEF Less, Bad
    <3> QED BY <1>1, <2>1, WFMin
  <2>3. \A m \in Bad : n <= m
    <3> SUFFICES ASSUME NEW m \in Bad PROVE n <= m
      OBVIOUS
    <3>1. <<m, n>> \notin Less
      <4> HIDE DEF Less
      <4> QED BY <2>2
    <3> QED BY <3>1
  <2> HIDE DEF Less
  <2> QED BY <2>3
<1>3. n \in 1..L /\ n - 1 \in 0..L
  BY <1>2
<1>4. n - 1 \in Bad
  BY <1>2, <1>3
<1> QED BY <1>2, <1>3, <1>4

\* From one index to the next.
Walk(f, L, base, step) == f[0] = base /\ \A n \in 1..L : f[n] = step[<<f[n - 1], n>>]

\* What is defined from one index to the next exists.
LEMMA StepByStep ==
    ASSUME NEW L \in Nat, NEW S, NEW base \in S, NEW step \in [S \X (1..L) -> S]
    PROVE  \E f \in [0..L -> S] : Walk(f, L, base, step)
<1> DEFINE Kept(f, k) == /\ f \in [0..k -> S] /\ f[0] = base
                         /\ \A n \in 1..k : f[n] = step[<<f[n - 1], n>>]
           Good == {k \in 0..L : \E f : Kept(f, k)}
<1>1. 0 \in Good
  <2>1. Kept([n \in 0..0 |-> base], 0)
    OBVIOUS
  <2> HIDE DEF Kept
  <2> QED BY <2>1
<1>2. ASSUME NEW k \in 1..L, k - 1 \in Good PROVE k \in Good
  <2>1. PICK f : Kept(f, k - 1)
    BY <1>2
  <2>2. f[k - 1] \in S
    BY <2>1
  <2> DEFINE after == step[<<f[k - 1], k>>]
             g == [n \in 0..k |-> IF n = k THEN after ELSE f[n]]
  <2>3. after \in S
    BY <2>2
  <2> HIDE DEF after
  <2>4. g \in [0..k -> S] /\ g[0] = base
    BY <2>1, <2>3
  <2>5. \A n \in 1..k : g[n] = step[<<g[n - 1], n>>]
    <3> SUFFICES ASSUME NEW n \in 1..k PROVE g[n] = step[<<g[n - 1], n>>]
      OBVIOUS
    <3>1. g[n - 1] = f[n - 1]
      OBVIOUS
    <3>2. CASE n = k
      <4>1. g[k] = after /\ g[k - 1] = f[k - 1]
        OBVIOUS
      <4> HIDE DEF g
      <4> QED BY <3>2, <4>1 DEF after
    <3>3. CASE n # k
      <4>1. n \in 1..k - 1 /\ g[n] = f[n]
        BY <3>3
      <4>2. f[n] = step[<<f[n - 1], n>>]
        BY <2>1, <4>1
      <4> HIDE DEF g
      <4> QED BY <3>1, <4>1, <4>2
    <3> QED BY <3>2, <3>3
  <2>6. Kept(g, k)
    <3> HIDE DEF g
    <3> QED BY <2>4, <2>5
  <2> HIDE DEF Kept
  <2> QED BY <2>6
<1>3. L \in Good
  <2> HIDE DEF Good
  <2> QED BY <1>1, <1>2, UpTo
<1> QED BY <1>3 DEF Walk

-----------------------------------------------------------------------------
(* Committee                                                               *)

\* The running sums of a list of numbers.
Sums(f, L, s) == /\ s \in [0..L -> Int] /\ s[0] = 0
                 /\ \A n \in 1..L : s[n] = s[n - 1] + f[n]

LEMMA TotalSums ==
    ASSUME NEW L \in Nat, NEW f \in [1..L -> Int]
    PROVE  \E s : Sums(f, L, s) /\ CM!Total(f) = s[L]
<1> DEFINE Kept(s) == s = [n \in 0..L |-> IF n = 0 THEN 0 ELSE s[n - 1] + f[n]]
           sum == CHOOSE s : Kept(s)
<1>1. \E s : Kept(s)
  <2> DEFINE step == [p \in Int \X (1..L) |-> p[1] + f[p[2]]]
  <2>1. step \in [Int \X (1..L) -> Int]
    OBVIOUS
  <2>2. \A a \in Int, n \in 1..L : step[<<a, n>>] = a + f[n]
    OBVIOUS
  <2> HIDE DEF step
  <2>3. \E s \in [0..L -> Int] : Walk(s, L, 0, step)
    <3>1. 0 \in Int
      OBVIOUS
    <3> QED BY <2>1, <3>1, StepByStep, Zenon
  <2>4. PICK s \in [0..L -> Int] : s[0] = 0 /\ \A n \in 1..L : s[n] = step[<<s[n - 1], n>>]
    BY <2>3 DEF Walk
  <2>5. \A n \in 0..L : s[n] = IF n = 0 THEN 0 ELSE s[n - 1] + f[n]
    <3> SUFFICES ASSUME NEW n \in 1..L PROVE s[n] = s[n - 1] + f[n]
      BY <2>4
    <3>1. s[n - 1] \in Int
      BY <2>4
    <3> QED BY <2>2, <2>4, <3>1
  <2> HIDE DEF step
  <2>6. s = [n \in 0..L |-> IF n = 0 THEN 0 ELSE s[n - 1] + f[n]]
    BY <2>4, <2>5
  <2> QED BY <2>6
<1>2. Kept(sum)
  <2> HIDE DEF Kept
  <2> QED BY <1>1
<1>3. CM!Total(f) = sum[L]
  <2>1. Len(f) = L
    OBVIOUS
  <2> QED BY <2>1 DEF CM!Total
<1> HIDE DEF sum
<1>4. sum[0] = 0 /\ \A n \in 1..L : sum[n] = sum[n - 1] + f[n]
  BY <1>2
<1> DEFINE Good == {n \in 0..L : sum[n] \in Int}
<1>5. 0 \in Good
  BY <1>4
<1>6. \A n \in 1..L : n - 1 \in Good => n \in Good
  BY <1>4
<1>7. \A n \in 0..L : n \in Good
  <2> HIDE DEF Good
  <2> QED BY <1>5, <1>6, UpTo, Zenon
<1>8. sum \in [0..L -> Int]
  BY <1>2, <1>7
<1> QED BY <1>3, <1>4, <1>8 DEF Sums

LEMMA TotalIsInt == ASSUME NEW L \in Nat, NEW f \in [1..L -> Int] PROVE CM!Total(f) \in Int
BY TotalSums DEF Sums

\* A list that is at most a multiple of another sums up to at most that.
LEMMA TotalAtMost ==
    ASSUME NEW L \in Nat, NEW f \in [1..L -> Int], NEW g \in [1..L -> Int], NEW c \in Int,
           \A n \in 1..L : f[n] <= c * g[n]
    PROVE  CM!Total(f) <= c * CM!Total(g)
<1>1. PICK s : Sums(f, L, s) /\ CM!Total(f) = s[L]
  BY TotalSums
<1>2. PICK t : Sums(g, L, t) /\ CM!Total(g) = t[L]
  BY TotalSums
<1> DEFINE Good == {n \in 0..L : s[n] <= c * t[n]}
<1>3. 0 \in Good
  BY <1>1, <1>2 DEF Sums
<1>4. ASSUME NEW n \in 1..L, n - 1 \in Good PROVE n \in Good
  <2>1. s[n - 1] \in Int /\ t[n - 1] \in Int /\ f[n] \in Int /\ g[n] \in Int
    BY <1>1, <1>2 DEF Sums
  <2>2. s[n] = s[n - 1] + f[n] /\ t[n] = t[n - 1] + g[n]
    BY <1>1, <1>2 DEF Sums
  <2>3. s[n - 1] <= c * t[n - 1] /\ f[n] <= c * g[n]
    BY <1>4
  <2>4. c * (t[n - 1] + g[n]) = c * t[n - 1] + c * g[n]
    BY <2>1
  <2>5. c * t[n - 1] \in Int /\ c * g[n] \in Int
    BY <2>1
  <2>6. s[n] <= c * t[n]
    BY <2>1, <2>2, <2>3, <2>4, <2>5
  <2> QED BY <2>6
<1>5. L \in Good
  <2> HIDE DEF Good
  <2> QED BY <1>3, <1>4, UpTo, Zenon
<1> QED BY <1>1, <1>2, <1>5

\* A sum that is positive has something positive in it.
LEMMA TotalHasMore ==
    ASSUME NEW L \in Nat, NEW f \in [1..L -> Int], CM!Total(f) > 0 PROVE \E n \in 1..L : f[n] > 0
<1> SUFFICES ASSUME \A n \in 1..L : ~(f[n] > 0) PROVE FALSE
  OBVIOUS
<1>1. \A n \in 1..L : f[n] <= 0 * f[n]
  OBVIOUS
<1>2. CM!Total(f) <= 0 * CM!Total(f)
  BY <1>1, TotalAtMost
<1> QED BY <1>2, TotalIsInt

\* Two lists that differ in one place, if at all.
AlikeBut(f, g, L, k) == /\ f \in [1..L -> Int] /\ g \in [1..L -> Int] /\ k \in 1..L
                        /\ \A n \in 1..L : n # k => f[n] = g[n]

\* Their sums differ by as much as they do.
LEMMA TotalChanges ==
    ASSUME NEW L \in Nat, NEW f, NEW g, NEW k, AlikeBut(f, g, L, k)
    PROVE  CM!Total(g) = CM!Total(f) + (g[k] - f[k])
<1> USE DEF AlikeBut
<1>1. PICK s : Sums(f, L, s) /\ CM!Total(f) = s[L]
  BY TotalSums
<1>2. PICK t : Sums(g, L, t) /\ CM!Total(g) = t[L]
  BY TotalSums
<1> DEFINE d == g[k] - f[k]
           From(n) == IF n >= k THEN d ELSE 0
           Good == {n \in 0..L : t[n] = s[n] + From(n)}
<1>3. d \in Int
  OBVIOUS
<1>4. 0 \in Good
  <2>1. From(0) = 0
    OBVIOUS
  <2>2. t[0] = 0 /\ s[0] = 0
    BY <1>1, <1>2 DEF Sums
  <2> HIDE DEF From
  <2> QED BY <2>1, <2>2
<1>5. ASSUME NEW n \in 1..L, n - 1 \in Good PROVE n \in Good
  <2>1. s[n - 1] \in Int /\ t[n - 1] \in Int /\ f[n] \in Int /\ g[n] \in Int
    BY <1>1, <1>2 DEF Sums
  <2>2. s[n] = s[n - 1] + f[n] /\ t[n] = t[n - 1] + g[n]
    BY <1>1, <1>2 DEF Sums
  <2>3. t[n - 1] = s[n - 1] + From(n - 1)
    BY <1>5
  <2>4. CASE n = k
    <3>1. From(n - 1) = 0 /\ From(n) = g[n] - f[n]
      BY <2>4
    <3> HIDE DEF From
    <3>2. t[n] = s[n] + From(n)
      BY <2>1, <2>2, <2>3, <3>1
    <3> QED BY <3>2
  <2>5. CASE n # k
    <3>1. f[n] = g[n]
      BY <2>5
    <3> HIDE DEF d
    <3>2. From(n - 1) = From(n) /\ From(n) \in Int
      BY <1>3, <2>5
    <3> HIDE DEF From
    <3>3. t[n] = s[n] + From(n)
      BY <2>1, <2>2, <2>3, <3>1, <3>2
    <3> QED BY <3>3
  <2> QED BY <2>4, <2>5
<1>6. L \in Good
  <2> HIDE DEF Good
  <2> QED BY <1>4, <1>5, UpTo, Zenon
<1> QED BY <1>1, <1>2, <1>3, <1>6

\* The sum of two lists one after the other.
LEMMA TotalOfBoth ==
    ASSUME NEW L \in Nat, NEW f \in [1..L -> Int], NEW M \in Nat, NEW g \in [1..M -> Int],
           NEW h \in [1..L + M -> Int],
           \A n \in 1..L : h[n] = f[n], \A n \in 1..M : h[L + n] = g[n]
    PROVE  CM!Total(h) = CM!Total(f) + CM!Total(g)
<1>1. PICK s : Sums(f, L, s) /\ CM!Total(f) = s[L]
  BY TotalSums
<1>2. PICK t : Sums(g, M, t) /\ CM!Total(g) = t[M]
  BY TotalSums
<1> DEFINE K == L + M
<1>3. K \in Nat /\ h \in [1..K -> Int]
  OBVIOUS
<1>4. PICK u : Sums(h, K, u) /\ CM!Total(h) = u[K]
  <2> HIDE DEF K
  <2> QED BY <1>3, TotalSums
<1>5. u[L] = s[L]
  <2> DEFINE Good == {n \in 0..L : u[n] = s[n]}
  <2>1. 0 \in Good
    BY <1>1, <1>4 DEF Sums
  <2>2. ASSUME NEW n \in 1..L, n - 1 \in Good PROVE n \in Good
    <3>1. u[n - 1] = s[n - 1] /\ f[n] = h[n] /\ n \in 1..K
      BY <2>2
    <3> HIDE DEF K
    <3>2. s[n] = s[n - 1] + f[n] /\ u[n] = u[n - 1] + h[n]
      BY <1>1, <1>4, <3>1 DEF Sums
    <3> QED BY <3>1, <3>2
  <2>3. L \in Good
    <3> HIDE DEF Good
    <3> QED BY <2>1, <2>2, UpTo, Zenon
  <2> QED BY <2>3
<1> DEFINE Good == {n \in 0..M : u[L + n] = s[L] + t[n]}
<1>6. s[L] \in Int /\ s[L] + 0 = s[L] /\ L + 0 = L
  BY <1>1 DEF Sums
<1>7. 0 \in Good
  <2>1. t[0] = 0
    BY <1>2 DEF Sums
  <2> QED BY <1>5, <1>6, <2>1
<1>8. ASSUME NEW n \in 1..M, n - 1 \in Good PROVE n \in Good
  <2>1. u[L + (n - 1)] = s[L] + t[n - 1]
    BY <1>8
  <2>2. t[n] = t[n - 1] + g[n] /\ t[n - 1] \in Int /\ g[n] \in Int
    BY <1>2 DEF Sums
  <2>3. L + n \in 1..K /\ (L + n) - 1 = L + (n - 1)
    OBVIOUS
  <2>4. u[L + n] = u[L + (n - 1)] + g[n]
    <3> HIDE DEF K
    <3>1. u[L + n] = u[(L + n) - 1] + h[L + n]
      BY <1>4, <2>3 DEF Sums
    <3> QED BY <2>3, <3>1
  <2>5. u[L + n] = s[L] + t[n]
    BY <1>6, <2>1, <2>2, <2>4
  <2> QED BY <2>5
<1>9. M \in Good
  <2> HIDE DEF Good
  <2> QED BY <1>7, <1>8, UpTo, Zenon
<1> QED BY <1>1, <1>2, <1>4, <1>9

\* A one for each of the first L of ps that is in T; nobody is there twice.
Ones(f, L, ps, T) == /\ f \in [1..L -> Int]
                     /\ \A i \in 1..L : f[i] = IF ps[i] \in T THEN 1 ELSE 0
                     /\ \A i, j \in 1..L : ps[i] = ps[j] => i = j
AmongFirst(L, ps, T) == {ps[i] : i \in 1..L} \cap T

\* As many of a list without repetition are in a set as the sum of ones says.
LEMMA TotalOfOnes ==
    ASSUME NEW L \in Nat, NEW ps, NEW T, NEW f, Ones(f, L, ps, T)
    PROVE  CM!Total(f) = Cardinality(AmongFirst(L, ps, T))
<1> USE DEF Ones
<1>1. PICK s : Sums(f, L, s) /\ CM!Total(f) = s[L]
  BY TotalSums
<1> DEFINE Of(n) == {ps[i] : i \in 1..n} \cap T
           Good == {n \in 0..L : IsFiniteSet(Of(n)) /\ Cardinality(Of(n)) = s[n]}
<1>3. 0 \in Good
  <2>1. Of(0) = {}
    OBVIOUS
  <2>2. s[0] = 0
    BY <1>1 DEF Sums
  <2>3. 0 \in 0..L
    OBVIOUS
  <2> HIDE DEF Of
  <2>4. IsFiniteSet(Of(0)) /\ Cardinality(Of(0)) = s[0]
    BY <2>1, <2>2, FS_EmptySet
  <2> QED BY <2>3, <2>4
<1>4. ASSUME NEW n \in 1..L, n - 1 \in Good PROVE n \in Good
  <2>1. s[n] = s[n - 1] + f[n] /\ s[n - 1] \in Int
    BY <1>1 DEF Sums
  <2>2. IsFiniteSet(Of(n - 1)) /\ Cardinality(Of(n - 1)) = s[n - 1]
    BY <1>4
  <2>3. IsFiniteSet(Of(n)) /\ Cardinality(Of(n)) = s[n]
    <3>1. CASE ps[n] \in T
      <4>1. Of(n) = Of(n - 1) \cup {ps[n]} /\ ps[n] \notin Of(n - 1)
        BY <3>1
      <4>2. f[n] = 1
        BY <3>1
      <4> HIDE DEF Of
      <4> DEFINE S == Of(n - 1)
      <4>3. IsFiniteSet(S) /\ ps[n] \notin S
        BY <2>2, <4>1
      <4> HIDE DEF S
      <4>4. IsFiniteSet(S \cup {ps[n]}) /\ Cardinality(S \cup {ps[n]}) = Cardinality(S) + 1
        BY <4>3, FS_AddElement
      <4> QED BY <2>1, <2>2, <4>1, <4>2, <4>4 DEF S
    <3>2. CASE ps[n] \notin T
      <4>1. Of(n) = Of(n - 1)
        BY <3>2
      <4>2. f[n] = 0
        BY <3>2
      <4> HIDE DEF Of
      <4> QED BY <2>1, <2>2, <4>1, <4>2
    <3> QED BY <3>1, <3>2
  <2> HIDE DEF Of
  <2> QED BY <2>3
<1>5. L \in Good
  <2> HIDE DEF Good
  <2> QED BY <1>3, <1>4, UpTo, Zenon
<1> QED BY <1>1, <1>5 DEF AmongFirst

-----------------------------------------------------------------------------
\* The votes.
Ballot == [agent : CM!Agents, verdict : CM!Verdicts, confidence : Int, weight : Int]

\* Who is on a panel is there once, and what callers give are numbers.
PanelAssumption ==
    /\ Participants \in Seq(CM!Range(Participants))
    /\ \A i, j \in 1..Len(Participants) : Participants[i] = Participants[j] => i = j
    /\ Confidences \cup Weights \cup Thresholds \subseteq Int

CommitteeInv ==
    /\ votes \in Seq(Ballot)
    /\ quorumOption \in Int /\ failureOption \in Int

\* How many of n votes are of outsiders, step by step, and what they are.
Filters(vs, kept) ==
    /\ kept[0] = << >>
    /\ \A n \in 1..Len(vs) : kept[n] = IF vs[n].agent \in CM!Range(Participants) THEN kept[n - 1]
                                       ELSE Append(kept[n - 1], vs[n])

LEMMA OutsideFilters ==
    ASSUME NEW vs \in Seq(Ballot)
    PROVE  \E kept : /\ Filters(vs, kept) /\ CM!Outside(vs) = kept[Len(vs)]
                     /\ \A n \in 0..Len(vs) : /\ kept[n] \in Seq(Ballot) /\ Len(kept[n]) <= n
                                              /\ \A i \in 1..Len(kept[n]) : \E j \in 1..n : kept[n][i] = vs[j]
<1> DEFINE L == Len(vs)
           In(n) == vs[n].agent \in CM!Range(Participants)
           Next(w, n) == IF In(n) THEN w ELSE Append(w, vs[n])
           Kept(f) == f = [n \in 0..L |-> IF n = 0 THEN << >> ELSE Next(f[n - 1], n)]
           kept == CHOOSE f : Kept(f)
<1>1. L \in Nat /\ \A n \in 1..L : vs[n] \in Ballot
  OBVIOUS
<1>2. CM!Outside(vs) = kept[L]
  BY DEF CM!Outside
<1> HIDE DEF In, L
<1>3. \E f : Kept(f)
  <2> DEFINE step == [p \in Seq(Ballot) \X (1..L) |-> Next(p[1], p[2])]
  <2>1. step \in [Seq(Ballot) \X (1..L) -> Seq(Ballot)]
    BY <1>1
  <2>2. \A w \in Seq(Ballot), n \in 1..L : step[<<w, n>>] = Next(w, n)
    OBVIOUS
  <2> HIDE DEF step
  <2>3. << >> \in Seq(Ballot)
    OBVIOUS
  <2>4. \E f \in [0..L -> Seq(Ballot)] : Walk(f, L, << >>, step)
    BY <1>1, <2>1, <2>3, StepByStep, Zenon
  <2>5. PICK f \in [0..L -> Seq(Ballot)] :
            f[0] = << >> /\ \A n \in 1..L : f[n] = step[<<f[n - 1], n>>]
    BY <2>4 DEF Walk
  <2>6. ASSUME NEW n \in 1..L PROVE f[n] = Next(f[n - 1], n)
    <3>1. f[n - 1] \in Seq(Ballot)
      BY <1>1, <2>5
    <3> HIDE DEF Next
    <3> QED BY <2>2, <2>5, <3>1
  <2> HIDE DEF Next
  <2>7. \A n \in 0..L : f[n] = IF n = 0 THEN << >> ELSE Next(f[n - 1], n)
    BY <1>1, <2>5, <2>6
  <2>8. Kept(f)
    BY <2>5, <2>7
  <2> HIDE DEF Kept
  <2> QED BY <2>8
<1>4. Kept(kept)
  <2> HIDE DEF Kept
  <2> QED BY <1>3
<1> HIDE DEF kept
<1>5. kept[0] = << >> /\ \A n \in 1..L : kept[n] = Next(kept[n - 1], n)
  <2> HIDE DEF Next
  <2> QED BY <1>1, <1>4
<1> DEFINE Fine(n) == /\ kept[n] \in Seq(Ballot) /\ Len(kept[n]) <= n
                      /\ \A i \in 1..Len(kept[n]) : \E j \in 1..n : kept[n][i] = vs[j]
           Good == {n \in 0..L : Fine(n)}
<1>6. 0 \in Good
  <2>1. 0 \in 0..L
    BY <1>1
  <2>2. << >> \in Seq(Ballot) /\ Len(<< >>) <= 0 /\ 1..Len(<< >>) = {}
    OBVIOUS
  <2>3. Fine(0)
    BY <1>5, <2>2
  <2> QED BY <2>1, <2>3
<1>7. ASSUME NEW n \in 1..L, n - 1 \in Good PROVE n \in Good
  <2> DEFINE w == kept[n - 1]
  <2>1. w \in Seq(Ballot) /\ Len(w) <= n - 1 /\ \A i \in 1..Len(w) : \E j \in 1..n - 1 : w[i] = vs[j]
    BY <1>7
  <2>2. kept[n] = Next(w, n)
    BY <1>5
  <2> HIDE DEF w
  <2>3. CASE In(n)
    <3>1. kept[n] = w
      BY <2>2, <2>3
    <3>2. \A i \in 1..Len(w) : \E j \in 1..n : w[i] = vs[j]
      BY <2>1
    <3>3. Fine(n)
      BY <2>1, <3>1, <3>2
    <3> QED BY <3>3
  <2>4. CASE ~In(n)
    <3>1. kept[n] = Append(w, vs[n])
      BY <2>2, <2>4
    <3> DEFINE v == vs[n]
               u == Append(w, v)
    <3>2. v \in Ballot
      BY <1>1
    <3> HIDE DEF v
    <3>3. u \in Seq(Ballot) /\ Len(u) = Len(w) + 1 /\ Len(w) \in Nat
      BY <2>1, <3>2
    <3>4. ASSUME NEW i \in 1..Len(u) PROVE \E j \in 1..n : u[i] = vs[j]
      <4>1. CASE i \in 1..Len(w)
        <5>1. u[i] = w[i]
          BY <2>1, <4>1
        <5>2. PICK j \in 1..n - 1 : w[i] = vs[j]
          BY <2>1, <4>1
        <5> HIDE DEF u
        <5> QED BY <5>1, <5>2
      <4>2. CASE i \notin 1..Len(w)
        <5>1. i = Len(w) + 1
          BY <3>3, <4>2
        <5>2. u[i] = v
          BY <2>1, <5>1
        <5>3. n \in 1..n
          OBVIOUS
        <5> HIDE DEF u
        <5> QED BY <5>2, <5>3 DEF v
      <4> QED BY <4>1, <4>2
    <3>5. kept[n] = u
      BY <3>1 DEF v
    <3> HIDE DEF u
    <3>6. Fine(n)
      BY <2>1, <3>3, <3>4, <3>5
    <3> QED BY <3>6
  <2> QED BY <2>3, <2>4
<1>8. \A n \in 0..L : n \in Good
  <2> HIDE DEF Good
  <2> QED BY <1>1, <1>6, <1>7, UpTo, Zenon
<1>9. Filters(vs, kept)
  BY <1>5 DEF Filters, In, L
<1>10. \A n \in 0..L : Fine(n)
  BY <1>8
<1> QED BY <1>2, <1>9, <1>10 DEF L

\* One vote more of an outsider comes last, one of a participant not at all.
LEMMA OutsideGrows ==
    ASSUME NEW vs \in Seq(Ballot), NEW v \in Ballot
    PROVE  CM!Outside(Append(vs, v)) = IF v.agent \in CM!Range(Participants) THEN CM!Outside(vs)
                                       ELSE Append(CM!Outside(vs), v)
<1> DEFINE L == Len(vs)
           ws == Append(vs, v)
<1>1. ws \in Seq(Ballot) /\ Len(ws) = L + 1 /\ L \in Nat
  OBVIOUS
<1>2. (\A n \in 1..L : ws[n] = vs[n]) /\ ws[L + 1] = v
  OBVIOUS
<1> HIDE DEF ws
<1>3. PICK kept : Filters(vs, kept) /\ CM!Outside(vs) = kept[L]
  BY OutsideFilters
<1>4. PICK more : Filters(ws, more) /\ CM!Outside(ws) = more[L + 1]
  BY <1>1, OutsideFilters
<1> HIDE DEF L
<1> DEFINE Good == {n \in 0..L : more[n] = kept[n]}
<1>5. 0 \in Good
  BY <1>1, <1>3, <1>4 DEF Filters
<1>6. ASSUME NEW n \in 1..L, n - 1 \in Good PROVE n \in Good
  <2>1. more[n - 1] = kept[n - 1] /\ ws[n] = vs[n] /\ n \in 1..L + 1
    BY <1>1, <1>2, <1>6
  <2>2. kept[n] = IF vs[n].agent \in CM!Range(Participants) THEN kept[n - 1] ELSE Append(kept[n - 1], vs[n])
    BY <1>3 DEF Filters, L
  <2>3. more[n] = IF ws[n].agent \in CM!Range(Participants) THEN more[n - 1] ELSE Append(more[n - 1], ws[n])
    BY <1>1, <1>4, <2>1 DEF Filters
  <2> QED BY <2>1, <2>2, <2>3
<1>7. L \in Good
  <2> HIDE DEF Good
  <2> QED BY <1>1, <1>5, <1>6, UpTo, Zenon
<1>8. L + 1 \in 1..L + 1 /\ (L + 1) - 1 = L
  BY <1>1
<1>9. more[L + 1] = IF ws[L + 1].agent \in CM!Range(Participants) THEN more[(L + 1) - 1]
                    ELSE Append(more[(L + 1) - 1], ws[L + 1])
  BY <1>1, <1>4, <1>8 DEF Filters
<1> QED BY <1>2, <1>3, <1>4, <1>7, <1>8, <1>9 DEF ws, L

\* Among the votes somebody gave there is a last one.
LEMMA LastGiven ==
    ASSUME NEW vs \in Seq(Ballot), NEW a, CM!Given(vs, a) # {}
    PROVE  \E m \in CM!Given(vs, a) : \A j \in CM!Given(vs, a) : j <= m
<1> DEFINE G == CM!Given(vs, a)
           L == Len(vs)
           LessFrom == {n \in 0..L : \A j \in G : j <= L - n}
<1>1. L \in Nat /\ G \subseteq 1..L
  BY DEF CM!Given
<1> HIDE DEF G, L
<1> SUFFICES ASSUME \A m \in G : \E j \in G : ~(j <= m) PROVE FALSE
  BY DEF G
<1>2. 0 \in LessFrom
  BY <1>1
<1>3. ASSUME NEW n \in 1..L, n - 1 \in LessFrom PROVE n \in LessFrom
  <2>1. \A j \in G : j <= L - (n - 1)
    BY <1>3
  <2>2. L - (n - 1) \notin G
    BY <2>1
  <2>3. \A j \in G : j <= L - n
    BY <1>1, <2>1, <2>2
  <2> QED BY <1>1, <2>3
<1>4. L \in LessFrom
  <2> HIDE DEF LessFrom
  <2> QED BY <1>1, <1>2, <1>3, UpTo, Zenon
<1>5. \A j \in G : j <= L - L
  BY <1>4
<1> QED BY <1>1, <1>5 DEF G

\* The vote that counts of one who gave some is one of them.
LEMMA LastVoteIsGiven ==
    ASSUME NEW vs \in Seq(Ballot), NEW a, CM!Given(vs, a) # {}
    PROVE  \E m \in CM!Given(vs, a) : /\ CM!LastVote(vs, a) = vs[m]
                                      /\ m = CHOOSE i \in CM!Given(vs, a) : \A j \in CM!Given(vs, a) : j <= i
BY LastGiven DEF CM!LastVote

\* What one vote more changes of the votes that count: only that of its agent.
LEMMA LastVoteGrows ==
    ASSUME NEW vs \in Seq(Ballot), NEW v \in Ballot, NEW a
    PROVE  /\ a # v.agent => CM!LastVote(Append(vs, v), a) = CM!LastVote(vs, a)
           /\ a = v.agent /\ CM!Given(vs, a) = {} => CM!LastVote(Append(vs, v), a) = v
<1> DEFINE L == Len(vs)
           ws == Append(vs, v)
<1>1. ws \in Seq(Ballot) /\ DOMAIN ws = 1..L + 1 /\ DOMAIN vs = 1..L /\ L \in Nat
  OBVIOUS
<1>2. (\A n \in 1..L : ws[n] = vs[n]) /\ ws[L + 1] = v
  OBVIOUS
<1> HIDE DEF ws, L
<1>3. 1..L + 1 = 1..L \cup {L + 1} /\ L + 1 \notin 1..L
  BY <1>1
<1>4. ASSUME a # v.agent PROVE CM!LastVote(ws, a) = CM!LastVote(vs, a)
  <2>1. CM!Given(ws, a) = CM!Given(vs, a)
    BY <1>1, <1>2, <1>3, <1>4 DEF CM!Given
  <2>2. CASE CM!Given(vs, a) = {}
    BY <2>1, <2>2 DEF CM!LastVote
  <2>3. CASE CM!Given(vs, a) # {}
    <3> DEFINE G == CM!Given(vs, a)
               m == CHOOSE i \in G : \A j \in G : j <= i
    <3>1. G \subseteq 1..L
      BY <1>1 DEF CM!Given
    <3>2. CM!LastVote(vs, a) = vs[m] /\ CM!LastVote(ws, a) = ws[m]
      BY <2>1, <2>3 DEF CM!LastVote
    <3>3. \A i \in G : vs[i] = ws[i]
      BY <1>2, <3>1
    <3>4. m \in G
      BY <2>3, LastVoteIsGiven
    <3> HIDE DEF m, G
    <3> QED BY <3>2, <3>3, <3>4
  <2> QED BY <2>2, <2>3
<1>5. ASSUME a = v.agent, CM!Given(vs, a) = {} PROVE CM!LastVote(ws, a) = v
  <2>1. CM!Given(ws, a) = {L + 1}
    BY <1>1, <1>2, <1>3, <1>5 DEF CM!Given
  <2>2. (CHOOSE i \in {L + 1} : \A j \in {L + 1} : j <= i) = L + 1
    BY <1>1
  <2> QED BY <1>2, <2>1, <2>2 DEF CM!LastVote
<1> QED BY <1>4, <1>5 DEF ws

-----------------------------------------------------------------------------
\* What each vote of a list adds to the three sums of the verdict.
Heavy(c) == [i \in 1..Len(c) |-> CM!Normalized(c[i]).weight]
Trusting(c) == [i \in 1..Len(c) |-> CM!Normalized(c[i]).confidence]
Backing(c) == [i \in 1..Len(c) |-> IF c[i].verdict = "approve"
                                   THEN CM!Normalized(c[i]).weight * CM!Normalized(c[i]).confidence ELSE 0]

LEMMA NormalizedIs ==
    ASSUME NEW v \in Ballot
    PROVE  /\ CM!Normalized(v).weight \in Nat /\ CM!Normalized(v).confidence \in 0..100
           /\ CM!Normalized(v).verdict = v.verdict
           /\ v.weight >= 0 => CM!Normalized(v).weight = v.weight
           /\ v.confidence = 0 => CM!Normalized(v).confidence = 0
           /\ v.confidence >= 100 => CM!Normalized(v).confidence = 100
<1>1. v.weight \in Int /\ v.confidence \in Int
  BY DEF Ballot
<1>2. CM!Normalized(v).weight = IF v.weight < 0 THEN 0 ELSE v.weight
  BY DEF CM!Normalized, Ballot
<1>3. CM!Normalized(v).confidence = CM!ClampRange(v.confidence, 0, 100)
  BY DEF CM!Normalized, Ballot
<1>4. CM!Normalized(v).verdict = v.verdict
  BY DEF CM!Normalized, Ballot
<1> QED BY <1>1, <1>2, <1>3, <1>4 DEF CM!ClampRange

LEMMA QuorumIs == ASSUME quorumOption \in Int PROVE CM!QuorumThreshold \in 60..100
BY DEF CM!QuorumThreshold, CM!ClampRange

LEMMA SumsAreLists ==
    ASSUME NEW c \in Seq(Ballot)
    PROVE  /\ Heavy(c) \in [1..Len(c) -> Nat] /\ Trusting(c) \in [1..Len(c) -> 0..100]
           /\ Backing(c) \in [1..Len(c) -> Nat]
           /\ Len(c) \in Nat
           /\ \A i \in 1..Len(c) : Backing(c)[i] <= 100 * Heavy(c)[i]
<1>1. \A i \in 1..Len(c) : c[i] \in Ballot
  OBVIOUS
<1>2. \A i \in 1..Len(c) : /\ CM!Normalized(c[i]).weight \in Nat
                           /\ CM!Normalized(c[i]).confidence \in 0..100
  BY <1>1, NormalizedIs
<1>3. \A w \in Nat, k \in 0..100 : w * k \in Nat /\ w * k <= 100 * w
  <2> SUFFICES ASSUME NEW w \in Nat, NEW k \in 0..100 PROVE w * k \in Nat /\ w * k <= 100 * w
    OBVIOUS
  <2>1. w * (100 - k) \in Nat /\ w * (100 - k) = w * 100 - w * k
    OBVIOUS
  <2> QED BY <2>1
<1>4. ASSUME NEW i \in 1..Len(c)
      PROVE  Backing(c)[i] \in Nat /\ Heavy(c)[i] \in Nat /\ Backing(c)[i] <= 100 * Heavy(c)[i]
  <2>1. Heavy(c)[i] = CM!Normalized(c[i]).weight /\ Heavy(c)[i] \in Nat
    BY <1>2 DEF Heavy
  <2>2. CASE c[i].verdict = "approve"
    <3>1. Backing(c)[i] = Heavy(c)[i] * CM!Normalized(c[i]).confidence
      BY <2>1, <2>2 DEF Backing
    <3> QED BY <1>2, <1>3, <2>1, <3>1
  <2>3. CASE c[i].verdict # "approve"
    <3>1. Backing(c)[i] = 0
      BY <2>3 DEF Backing
    <3> QED BY <2>1, <3>1
  <2> QED BY <2>2, <2>3
<1>5. Heavy(c) \in [1..Len(c) -> Nat] /\ Trusting(c) \in [1..Len(c) -> 0..100]
  BY <1>2 DEF Heavy, Trusting
<1>6. Backing(c) \in [1..Len(c) -> Nat]
  <2>1. Backing(c) = [i \in 1..Len(c) |-> Backing(c)[i]]
    BY DEF Backing
  <2> QED BY <1>4, <2>1
<1>7. Len(c) \in Nat
  OBVIOUS
<1> QED BY <1>4, <1>5, <1>6, <1>7

LEMMA SumsAreNumbers ==
    ASSUME NEW c \in Seq(Ballot)
    PROVE  /\ Heavy(c) \in [1..Len(c) -> Int] /\ Trusting(c) \in [1..Len(c) -> Int]
           /\ Backing(c) \in [1..Len(c) -> Int] /\ Len(c) \in Nat
<1>1. 0..100 \subseteq Int /\ Nat \subseteq Int
  OBVIOUS
<1> QED BY <1>1, SumsAreLists

LEMMA CompletedIs ==
    ASSUME PanelAssumption, NEW vs \in Seq(Ballot)
    PROVE  /\ CM!Completed(vs) \in Seq(Ballot)
           /\ CM!Outside(vs) \in Seq(Ballot) /\ Len(CM!Outside(vs)) <= Len(vs)
           /\ Len(CM!Completed(vs)) = Len(Participants) + Len(CM!Outside(vs))
           /\ \A i \in 1..Len(Participants) : CM!Completed(vs)[i] = CM!LastVote(vs, Participants[i])
           /\ \A i \in 1..Len(CM!Outside(vs)) : CM!Completed(vs)[Len(Participants) + i] = CM!Outside(vs)[i]
           /\ \A i \in 1..Len(CM!Outside(vs)) : \E j \in 1..Len(vs) : CM!Outside(vs)[i] = vs[j]
<1> DEFINE P == Participants
           L == Len(P)
           part == [i \in 1..L |-> CM!LastVote(vs, P[i])]
           out == CM!Outside(vs)
<1>1. L \in Nat /\ \A i \in 1..L : P[i] \in CM!Range(P)
  BY DEF PanelAssumption
<1>2. /\ out \in Seq(Ballot) /\ Len(out) <= Len(vs)
      /\ \A i \in 1..Len(out) : \E j \in 1..Len(vs) : out[i] = vs[j]
  <2>1. PICK kept : /\ CM!Outside(vs) = kept[Len(vs)]
                    /\ \A n \in 0..Len(vs) : /\ kept[n] \in Seq(Ballot) /\ Len(kept[n]) <= n
                                             /\ \A i \in 1..Len(kept[n]) : \E j \in 1..n : kept[n][i] = vs[j]
    BY OutsideFilters
  <2>2. Len(vs) \in 0..Len(vs)
    OBVIOUS
  <2> QED BY <2>1, <2>2
<1>3. ASSUME NEW i \in 1..L PROVE CM!LastVote(vs, P[i]) \in Ballot
  <2>1. CASE CM!Given(vs, P[i]) = {}
    <3>1. CM!LastVote(vs, P[i]) = [agent |-> P[i], verdict |-> "abstain", confidence |-> 0, weight |-> 100]
      BY <2>1 DEF CM!LastVote, CM!Absent
    <3>2. P[i] \in CM!Agents
      BY <1>1 DEF CM!Agents
    <3> HIDE DEF P
    <3> QED BY <3>1, <3>2 DEF Ballot, CM!Verdicts
  <2>2. CASE CM!Given(vs, P[i]) # {}
    <3>1. PICK m \in CM!Given(vs, P[i]) : CM!LastVote(vs, P[i]) = vs[m]
      BY <2>2, LastVoteIsGiven
    <3>2. m \in 1..Len(vs)
      BY DEF CM!Given
    <3> QED BY <3>1, <3>2
  <2> QED BY <2>1, <2>2
<1>4. part \in Seq(Ballot) /\ Len(part) = L
  BY <1>1, <1>3
<1>5. \A i \in 1..L : part[i] = CM!LastVote(vs, P[i])
  OBVIOUS
<1>6. CM!Completed(vs) = part \o out
  BY DEF CM!Completed
<1> HIDE DEF part, out, L
<1>7. /\ part \o out \in Seq(Ballot) /\ Len(part \o out) = L + Len(out)
      /\ \A i \in 1..L : (part \o out)[i] = part[i]
      /\ \A i \in 1..Len(out) : (part \o out)[L + i] = out[i]
  <2>1. part \in Seq(Ballot) /\ out \in Seq(Ballot) /\ Len(part) = L /\ L \in Nat /\ Len(out) \in Nat
    BY <1>1, <1>2, <1>4
  <2>2. part \o out \in Seq(Ballot) /\ Len(part \o out) = L + Len(out)
    BY <2>1, ConcatProperties
  <2>3. \A i \in 1..L + Len(out) : (part \o out)[i] = IF i <= L THEN part[i] ELSE out[i - L]
    BY <2>1, ConcatProperties
  <2>4. \A i \in 1..L : (part \o out)[i] = part[i]
    BY <2>1, <2>3
  <2>5. ASSUME NEW i \in 1..Len(out) PROVE (part \o out)[L + i] = out[i]
    <3>1. L + i \in 1..L + Len(out) /\ ~(L + i <= L) /\ (L + i) - L = i
      BY <2>1
    <3> QED BY <2>3, <3>1
  <2> QED BY <2>2, <2>4, <2>5
<1> QED BY <1>2, <1>5, <1>6, <1>7 DEF out, L

\* What the verdict asks of the three sums.
Accepts(c) ==
    /\ CM!Total(Heavy(c)) > 0 /\ CM!Total(Backing(c)) >= CM!QuorumThreshold * CM!Total(Heavy(c))
    /\ Len(c) > 0 /\ CM!Total(Trusting(c)) >= CM!QuorumThreshold * Len(c)

LEMMA AcceptedMeans ==
    ASSUME PanelAssumption, NEW vs \in Seq(Ballot)
    PROVE  CM!Status(vs) = "accepted" <=> Accepts(CM!Completed(vs))
<1> DEFINE c == CM!Completed(vs)
           all == [i \in DOMAIN c |-> CM!Normalized(c[i])]
           weights == [i \in DOMAIN all |-> all[i].weight]
           supports == [i \in DOMAIN all |->
                          IF all[i].verdict = "approve" THEN all[i].weight * all[i].confidence ELSE 0]
           trusts == [i \in DOMAIN all |-> all[i].confidence]
           Clears(t) == /\ CM!Reaches(CM!Total(supports), CM!Total(weights), t)
                        /\ CM!Reaches(CM!Total(trusts), Len(all), t)
<1>1. c \in Seq(Ballot) /\ DOMAIN c = 1..Len(c) /\ Len(c) \in Nat
  BY CompletedIs
<1>2. CM!Status(vs) = IF Clears(CM!QuorumThreshold) THEN "accepted"
                      ELSE IF Clears(CM!FailureThreshold) THEN "failed" ELSE "needs_sidecar"
  BY DEF CM!Status
<1> HIDE DEF c
<1>3. DOMAIN all = 1..Len(c) /\ Len(all) = Len(c)
  BY <1>1
<1>4. \A i \in 1..Len(c) : all[i] = CM!Normalized(c[i]) /\ CM!Normalized(c[i]).verdict = c[i].verdict
  BY <1>1, NormalizedIs
<1> HIDE DEF all
<1>5. weights = Heavy(c) /\ trusts = Trusting(c)
  BY <1>3, <1>4 DEF Heavy, Trusting
<1>6. supports = Backing(c)
  BY <1>3, <1>4 DEF Backing
<1> HIDE DEF weights, trusts, supports
<1>7. Clears(CM!QuorumThreshold) <=> Accepts(c)
  BY <1>3, <1>5, <1>6 DEF Accepts, CM!Reaches
<1> HIDE DEF Clears
<1> QED BY <1>2, <1>7 DEF c

-----------------------------------------------------------------------------
LEMMA PanelCardinality == \A S : CM!Cardinality(S) = Cardinality(S)
BY DEF CM!Cardinality, Cardinality

\* A mean of the confidences that reaches a quorum leaves few participants out.
LEMMA MeanCountsPresent ==
    ASSUME PanelAssumption, votes \in Seq(Ballot)
    PROVE  /\ CM!Total(Trusting(CM!Completed(votes)))
                  <= 100 * (Cardinality(CM!Counted) + Len(CM!Outside(votes)))
           /\ Cardinality(CM!Counted) \in Int
<1> DEFINE P == Participants
           L == Len(P)
           out == CM!Outside(votes)
           M == Len(out)
           c == CM!Completed(votes)
           N == L + M
           T == CM!Counted
           present == [i \in 1..L |-> IF P[i] \in T THEN 1 ELSE 0]
           ones == [i \in 1..M |-> 1]
           both == [i \in 1..N |-> IF i <= L THEN present[i] ELSE 1]
           trust == Trusting(c)
<1>1. /\ L \in Nat /\ M \in Nat /\ c \in Seq(Ballot) /\ Len(c) = N
      /\ \A i \in 1..L : c[i] = CM!LastVote(votes, P[i])
  BY CompletedIs DEF PanelAssumption
<1>2. trust \in [1..N -> 0..100] /\ \A i \in 1..N : trust[i] = CM!Normalized(c[i]).confidence
  <2>1. trust \in [1..N -> 0..100]
    BY <1>1, SumsAreLists
  <2> QED BY <1>1, <2>1 DEF Trusting
<1> HIDE DEF trust, c, out, M
<1>3. present \in [1..L -> Int] /\ ones \in [1..M -> Int] /\ both \in [1..N -> Int]
  BY <1>1
<1>4. (\A i \in 1..L : both[i] = present[i]) /\ \A i \in 1..M : both[L + i] = ones[i]
  <2>1. \A i \in 1..L : both[i] = present[i]
    BY <1>1
  <2>2. ASSUME NEW i \in 1..M PROVE both[L + i] = ones[i]
    <3>1. L + i \in 1..N /\ ~(L + i <= L)
      BY <1>1
    <3> QED BY <3>1
  <2> QED BY <2>1, <2>2
<1>5. \A i \in 1..L : present[i] = IF P[i] \in T THEN 1 ELSE 0
  OBVIOUS
<1>6. ASSUME NEW i \in 1..N PROVE trust[i] <= 100 * both[i]
  <2>1. trust[i] \in 0..100
    BY <1>2
  <2>2. CASE i <= L /\ P[i] \notin T
    <3>1. i \in 1..L
      BY <1>1, <2>2
    <3>2. P[i] \in CM!Range(P)
      BY <3>1 DEF PanelAssumption
    <3>3. CM!Given(votes, P[i]) = {}
      BY <2>2, <3>2 DEF CM!Counted
    <3>4. c[i] = [agent |-> P[i], verdict |-> "abstain", confidence |-> 0, weight |-> 100]
      BY <1>1, <3>1, <3>3 DEF CM!LastVote, CM!Absent
    <3>5. c[i] \in Ballot
      BY <1>1
    <3>6. trust[i] = 0
      BY <1>2, <3>4, <3>5, NormalizedIs
    <3>7. both[i] = 0
      BY <2>2, <3>1
    <3> QED BY <3>6, <3>7
  <2>3. CASE ~(i <= L /\ P[i] \notin T)
    <3>1. both[i] = 1
      BY <1>1, <2>3
    <3> DEFINE t == trust[i]
               b == both[i]
    <3>2. t \in 0..100 /\ b = 1
      BY <2>1, <3>1
    <3> HIDE DEF t, b
    <3>3. t <= 100 * b
      BY <3>2
    <3> QED BY <3>3 DEF t, b
  <2> QED BY <2>2, <2>3
<1> HIDE DEF present, ones, both
<1>7. CM!Total(trust) <= 100 * CM!Total(both)
  <2>1. N \in Nat /\ 100 \in Int
    BY <1>1
  <2>2. trust \in [1..N -> Int]
    <3>1. 0..100 \subseteq Int
      OBVIOUS
    <3> HIDE DEF N
    <3> QED BY <1>2, <3>1
  <2>3. \A i \in 1..N : trust[i] <= 100 * both[i]
    BY <1>6
  <2> HIDE DEF N
  <2> QED BY <1>3, <2>1, <2>2, <2>3, TotalAtMost, Zenon
<1>8. CM!Total(both) = CM!Total(present) + CM!Total(ones)
  BY <1>1, <1>3, <1>4, TotalOfBoth
<1>9. CM!Total(present) = Cardinality(T)
  <2>1. CM!Total(present) = Cardinality({P[i] : i \in 1..L} \cap T)
    <3> HIDE DEF T
    <3>1. \A i, j \in 1..L : P[i] = P[j] => i = j
      BY DEF PanelAssumption
    <3> HIDE DEF L, P
    <3>2. Ones(present, L, P, T)
      BY <1>3, <1>5, <3>1 DEF Ones
    <3> QED BY <1>1, <3>2, TotalOfOnes DEF AmongFirst
  <2>2. {P[i] : i \in 1..L} \cap T = T
    <3>1. DOMAIN P = 1..L
      BY DEF PanelAssumption
    <3> QED BY <3>1 DEF CM!Counted, CM!Range
  <2> QED BY <2>1, <2>2
<1>10. CM!Total(ones) = M
  <2> DEFINE ps == [i \in 1..M |-> i]
  <2>1. (\A i, j \in 1..M : ps[i] = ps[j] => i = j) /\ \A i \in 1..M : ones[i] = IF ps[i] \in 1..M THEN 1 ELSE 0
    BY DEF ones
  <2>2. {ps[i] : i \in 1..M} \cap 1..M = 1..M
    OBVIOUS
  <2> HIDE DEF ps
  <2>3. CM!Total(ones) = Cardinality({ps[i] : i \in 1..M} \cap 1..M)
    <3>1. Ones(ones, M, ps, 1..M)
      BY <1>3, <2>1 DEF Ones
    <3> QED BY <1>1, <3>1, TotalOfOnes DEF AmongFirst
  <2>4. Cardinality(1..M) = M
    <3>1. 1 \in Int /\ M \in Int
      BY <1>1
    <3>2. Cardinality(1..M) = IF 1 > M THEN 0 ELSE M - 1 + 1
      BY <3>1, FS_Interval
    <3> QED BY <1>1, <3>2
  <2> QED BY <2>2, <2>3, <2>4
<1>11. CM!Total(present) \in Int
  BY <1>1, <1>3, TotalIsInt
<1> QED BY <1>1, <1>7, <1>8, <1>9, <1>10, <1>11 DEF trust, c, M, out

LEMMA AcceptanceHasQuorum == ASSUME PanelAssumption, CommitteeInv PROVE CM!AcceptedHasQuorum
<1> SUFFICES ASSUME CM!Status(votes) = "accepted" PROVE CM!AcceptedHasQuorum
  BY DEF CM!AcceptedHasQuorum
<1> DEFINE c == CM!Completed(votes)
           N == Len(c)
           L == Len(Participants)
           W == CM!Total(Heavy(c))
           B == CM!Total(Backing(c))
           Q == CM!QuorumThreshold
           weights == [i \in DOMAIN c |-> CM!Normalized(c[i]).weight]
           approved == [i \in DOMAIN c |-> IF c[i].verdict = "approve" THEN weights[i] ELSE 0]
<1>1. votes \in Seq(Ballot) /\ Q \in 60..100
  BY QuorumIs DEF CommitteeInv
<1>2. c \in Seq(Ballot) /\ N = L + Len(CM!Outside(votes)) /\ Len(CM!Outside(votes)) <= Len(votes)
  BY <1>1, CompletedIs
<1>3. W > 0 /\ B >= Q * W /\ CM!Total(Trusting(c)) >= Q * N
  BY <1>1, AcceptedMeans DEF Accepts
<1>4. /\ N \in Nat /\ DOMAIN c = 1..N
      /\ Heavy(c) \in [1..N -> Nat] /\ Backing(c) \in [1..N -> Nat]
      /\ \A i \in 1..N : Backing(c)[i] <= 100 * Heavy(c)[i]
  BY <1>2, SumsAreLists
<1>5. Heavy(c) \in [1..N -> Int] /\ Backing(c) \in [1..N -> Int]
  BY <1>4
<1>6. W \in Int /\ B \in Int
  BY <1>4, <1>5, TotalIsInt
<1> HIDE DEF c, N, W, B, Q
<1>7. Q * W >= 60 * W
  <2>1. (Q - 60) * W >= 0
    BY <1>1, <1>3, <1>6
  <2> QED BY <1>1, <1>6, <2>1
<1>8. 100 * CM!Total(approved) >= 60 * CM!Total(weights)
  <2>1. weights = Heavy(c)
    BY <1>4 DEF Heavy, N
  <2>2. approved \in [1..N -> Int]
    <3>1. \A i \in 1..N : weights[i] \in Int
      BY <1>5, <2>1
    <3> HIDE DEF weights
    <3> QED BY <1>4, <3>1
  <2>3. ASSUME NEW i \in 1..N PROVE Backing(c)[i] <= 100 * approved[i]
    <3>1. CASE c[i].verdict = "approve"
      <4>1. approved[i] = Heavy(c)[i]
        BY <1>4, <2>1, <3>1
      <4> QED BY <1>4, <4>1
    <3>2. CASE c[i].verdict # "approve"
      <4>1. approved[i] = 0
        BY <1>4, <3>2
      <4>2. Backing(c)[i] = 0
        BY <3>2 DEF Backing, N
      <4> QED BY <4>1, <4>2
    <3> QED BY <3>1, <3>2
  <2> HIDE DEF approved
  <2>4. B <= 100 * CM!Total(approved)
    <3>1. 100 \in Int /\ \A i \in 1..N : Backing(c)[i] <= 100 * approved[i]
      BY <2>3
    <3> QED BY <1>4, <1>5, <2>2, <3>1, TotalAtMost, Zenon DEF B
  <2>5. CM!Total(approved) \in Int
    BY <1>4, <2>2, TotalIsInt
  <2> HIDE DEF weights
  <2> QED BY <1>1, <1>3, <1>6, <1>7, <2>1, <2>4, <2>5 DEF W
<1>9. \E i \in DOMAIN votes : votes[i].verdict = "approve"
  <2>1. B > 0
    BY <1>1, <1>3, <1>6, <1>7
  <2>2. PICK n \in 1..N : Backing(c)[n] > 0
    BY <1>4, <1>5, <2>1, TotalHasMore DEF B
  <2>3. c[n].verdict = "approve"
    BY <2>2 DEF Backing, N
  <2>4. CASE n \in 1..L
    <3>1. c[n] = CM!LastVote(votes, Participants[n])
      BY <1>1, <2>4, CompletedIs DEF c
    <3>2. CASE CM!Given(votes, Participants[n]) = {}
      <4>1. c[n] = [agent |-> Participants[n], verdict |-> "abstain", confidence |-> 0, weight |-> 100]
        BY <3>1, <3>2 DEF CM!LastVote, CM!Absent
      <4> QED BY <2>3, <4>1
    <3>3. CASE CM!Given(votes, Participants[n]) # {}
      <4>1. PICK m \in CM!Given(votes, Participants[n]) : c[n] = votes[m]
        BY <1>1, <3>1, <3>3, LastVoteIsGiven
      <4>2. m \in DOMAIN votes
        BY DEF CM!Given
      <4> QED BY <2>3, <4>1, <4>2
    <3> QED BY <3>2, <3>3
  <2>5. CASE n \notin 1..L
    <3>1. L \in Nat
      BY DEF PanelAssumption
    <3>2. n - L \in 1..Len(CM!Outside(votes)) /\ L + (n - L) = n
      BY <1>2, <2>5, <3>1
    <3>3. c[n] = CM!Outside(votes)[n - L]
      BY <1>1, <3>2, CompletedIs DEF c
    <3>4. PICK j \in 1..Len(votes) : c[n] = votes[j]
      <4>1. \A i \in 1..Len(CM!Outside(votes)) : \E j \in 1..Len(votes) : CM!Outside(votes)[i] = votes[j]
        BY <1>1, CompletedIs
      <4> QED BY <3>2, <3>3, <4>1
    <3> QED BY <1>1, <2>3, <3>4
  <2> QED BY <2>4, <2>5
<1>10. 100 * (L - CM!Cardinality(CM!Counted)) <= 40 * (L + Len(votes))
  <2> DEFINE k == Cardinality(CM!Counted)
             m == Len(CM!Outside(votes))
             v == Len(votes)
             T == CM!Total(Trusting(c))
  <2>1. T <= 100 * (k + m) /\ k \in Int
    BY <1>1, MeanCountsPresent DEF c
  <2>2. m \in Nat /\ v \in Nat /\ L \in Nat /\ m <= v
    BY <1>1, <1>2, CompletedIs DEF PanelAssumption
  <2>3. T \in Int
    <3>1. Trusting(c) \in [1..N -> Int]
      <4>1. Trusting(c) \in [1..N -> 0..100]
        BY <1>2, SumsAreLists DEF N
      <4>2. 0..100 \subseteq Int
        OBVIOUS
      <4> HIDE DEF N
      <4> QED BY <4>1, <4>2
    <3> QED BY <1>4, <3>1, TotalIsInt
  <2>4. (Q - 60) * N >= 0
    BY <1>1, <1>4
  <2>5. T >= 60 * (L + m)
    <3> HIDE DEF T, m
    <3>1. T >= Q * N
      BY <1>3 DEF T
    <3>2. Q * N >= 60 * N
      BY <1>1, <1>4, <2>4
    <3>3. Q * N \in Int
      BY <1>1, <1>4
    <3>4. N = L + m
      BY <1>2 DEF m
    <3> QED BY <1>4, <2>2, <2>3, <3>1, <3>2, <3>3, <3>4
  <2>6. CM!Cardinality(CM!Counted) = k
    BY PanelCardinality
  <2> HIDE DEF T, k, m, v
  <2>7. 100 * (L - k) <= 40 * (L + v)
    BY <2>1, <2>2, <2>3, <2>5
  <2> QED BY <2>6, <2>7 DEF v
<1> QED BY <1>8, <1>9, <1>10 DEF CM!AcceptedHasQuorum, c

\* A vote is a ballot.
LEMMA VoteIsBallot == ASSUME PanelAssumption PROVE CM!Vote \subseteq Ballot
BY DEF CM!Vote, Ballot, PanelAssumption

\* What an approval for sure adds to each sum, whatever it takes the place of.
LEMMA SureApproval ==
    ASSUME NEW c \in Seq(Ballot), NEW i \in 1..Len(c), c[i].verdict = "approve", c[i].confidence >= 100
    PROVE  /\ Heavy(c)[i] \in Nat /\ Trusting(c)[i] = 100 /\ Backing(c)[i] = 100 * Heavy(c)[i]
<1>1. c[i] \in Ballot
  OBVIOUS
<1>2. /\ CM!Normalized(c[i]).weight \in Nat /\ CM!Normalized(c[i]).confidence = 100
  BY <1>1, NormalizedIs
<1>3. /\ Heavy(c)[i] = CM!Normalized(c[i]).weight
      /\ Trusting(c)[i] = CM!Normalized(c[i]).confidence
      /\ Backing(c)[i] = CM!Normalized(c[i]).weight * CM!Normalized(c[i]).confidence
  BY DEF Heavy, Trusting, Backing
<1> QED BY <1>2, <1>3

\* The sums of a list that is accepted are the sums of one that is accepted
\* when a weight w, all of it approving, is added, if n in N + n at most one is.
LEMMA MoreIsAccepted ==
    ASSUME NEW W \in Int, NEW B \in Int, NEW T \in Int, NEW N \in Nat, NEW Q \in 60..100,
           NEW w \in Int, NEW b \in Int, NEW n \in {0, 1},
           W > 0, B >= Q * W, N > 0, T >= Q * N, W + w > 0, b >= 0, b >= 100 * w
    PROVE  B + b >= Q * (W + w) /\ N + n > 0 /\ T + 100 >= Q * (N + n)
<1>1. Q * (W + w) = Q * W + Q * w /\ Q * (N + n) = Q * N + Q * n
  OBVIOUS
<1>2. Q * w <= b
  <2>1. CASE w >= 0
    <3>1. (100 - Q) * w >= 0 /\ (100 - Q) * w = 100 * w - Q * w
      BY <2>1
    <3>2. Q * w \in Int
      OBVIOUS
    <3> QED BY <3>1, <3>2
  <2>2. CASE w < 0
    <3>1. Q * w <= 0
      BY <2>2
    <3> QED BY <3>1
  <2> QED BY <2>1, <2>2
<1>3. Q * n <= 100
  OBVIOUS
<1>4. Q * W \in Int /\ Q * w \in Int /\ Q * N \in Int /\ Q * n \in Int
  OBVIOUS
<1> QED BY <1>1, <1>2, <1>3, <1>4

\* Two lists of ballots, the same except that the second has a sure approval
\* where the first has nobody's vote.
LEMMA ReplacedIsAccepted ==
    ASSUME quorumOption \in Int, NEW c \in Seq(Ballot), NEW d \in Seq(Ballot), Len(d) = Len(c), Accepts(c),
           NEW k \in 1..Len(c), \A i \in 1..Len(c) : i # k => d[i] = c[i],
           c[k].verdict = "abstain", c[k].weight = 100, c[k].confidence = 0,
           d[k].verdict = "approve", d[k].confidence >= 100
    PROVE  Accepts(d)
<1> DEFINE N == Len(c)
           Q == CM!QuorumThreshold
           W == CM!Total(Heavy(c))
           B == CM!Total(Backing(c))
           T == CM!Total(Trusting(c))
           w == Heavy(d)[k]
<1>1. /\ N \in Nat /\ Q \in 60..100
      /\ Heavy(c) \in [1..N -> Int] /\ Backing(c) \in [1..N -> Int] /\ Trusting(c) \in [1..N -> Int]
      /\ Heavy(d) \in [1..N -> Int] /\ Backing(d) \in [1..N -> Int] /\ Trusting(d) \in [1..N -> Int]
  BY SumsAreNumbers, QuorumIs
<1>2. Heavy(c)[k] = 100 /\ Backing(c)[k] = 0 /\ Trusting(c)[k] = 0
  <2>1. c[k] \in Ballot
    OBVIOUS
  <2> QED BY <2>1, NormalizedIs DEF Heavy, Backing, Trusting
<1>3. w \in Nat /\ Trusting(d)[k] = 100 /\ Backing(d)[k] = 100 * w
  BY SureApproval
<1>4. \A i \in 1..N : i # k => /\ Heavy(c)[i] = Heavy(d)[i] /\ Backing(c)[i] = Backing(d)[i]
                               /\ Trusting(c)[i] = Trusting(d)[i]
  BY DEF Heavy, Backing, Trusting
<1>5. W \in Int /\ B \in Int /\ T \in Int
  BY <1>1, TotalIsInt
<1>6. /\ CM!Total(Heavy(d)) = W + (w - 100) /\ CM!Total(Backing(d)) = B + (100 * w - 0)
      /\ CM!Total(Trusting(d)) = T + (100 - 0)
  <2> HIDE DEF N
  <2>1. k \in 1..N
    BY DEF N
  <2>2. CM!Total(Heavy(d)) = W + (Heavy(d)[k] - Heavy(c)[k])
    <3>1. \A i \in 1..N : i # k => Heavy(c)[i] = Heavy(d)[i]
      BY <1>4
    <3>2. AlikeBut(Heavy(c), Heavy(d), N, k)
      BY <1>1, <2>1, <3>1 DEF AlikeBut
    <3>3. N \in Nat
      BY <1>1
    <3> QED BY <3>2, <3>3, TotalChanges
  <2>3. CM!Total(Backing(d)) = B + (Backing(d)[k] - Backing(c)[k])
    <3>1. \A i \in 1..N : i # k => Backing(c)[i] = Backing(d)[i]
      BY <1>4
    <3>2. AlikeBut(Backing(c), Backing(d), N, k)
      BY <1>1, <2>1, <3>1 DEF AlikeBut
    <3>3. N \in Nat
      BY <1>1
    <3> QED BY <3>2, <3>3, TotalChanges
  <2>4. CM!Total(Trusting(d)) = T + (Trusting(d)[k] - Trusting(c)[k])
    <3>1. \A i \in 1..N : i # k => Trusting(c)[i] = Trusting(d)[i]
      BY <1>4
    <3>2. AlikeBut(Trusting(c), Trusting(d), N, k)
      BY <1>1, <2>1, <3>1 DEF AlikeBut
    <3>3. N \in Nat
      BY <1>1
    <3> QED BY <3>2, <3>3, TotalChanges
  <2> QED BY <1>2, <1>3, <2>2, <2>3, <2>4
<1>7. W > 0 /\ B >= Q * W /\ N > 0 /\ T >= Q * N
  BY DEF Accepts
<1>8. W + (w - 100) > 0
  <2> DEFINE rest == [i \in 1..N |-> IF i = k THEN 0 ELSE Heavy(c)[i]]
  <2>1. rest \in [1..N -> Int] /\ rest[k] = 0 /\ \A i \in 1..N : i # k => Heavy(c)[i] = rest[i]
    BY <1>1
  <2>2. \A i \in 1..N : Backing(c)[i] <= 100 * rest[i]
    <3> SUFFICES ASSUME NEW i \in 1..N PROVE Backing(c)[i] <= 100 * rest[i]
      OBVIOUS
    <3>1. CASE i = k
      BY <1>2, <3>1
    <3>2. CASE i # k
      <4>1. Backing(c)[i] <= 100 * Heavy(c)[i]
        BY SumsAreLists
      <4> QED BY <3>2, <4>1
    <3> QED BY <3>1, <3>2
  <2> HIDE DEF rest, N
  <2>3. CM!Total(rest) = W + (rest[k] - Heavy(c)[k])
    <3>1. k \in 1..N
      BY DEF N
    <3>2. AlikeBut(Heavy(c), rest, N, k)
      BY <1>1, <2>1, <3>1 DEF AlikeBut
    <3>3. N \in Nat
      BY <1>1
    <3> QED BY <3>2, <3>3, TotalChanges
  <2>4. B <= 100 * CM!Total(rest)
    <3>1. 100 \in Int
      OBVIOUS
    <3> QED BY <1>1, <2>1, <2>2, <3>1, TotalAtMost, Zenon DEF B
  <2>5. Q * W > 0
    <3> HIDE DEF Q, W
    <3>1. (Q - 60) * W >= 0 /\ (Q - 60) * W = Q * W - 60 * W /\ 60 * W > 0
      BY <1>1, <1>5, <1>7
    <3>2. Q * W \in Int
      BY <1>1, <1>5
    <3> QED BY <1>5, <3>1, <3>2
  <2>6. Q * W \in Int
    BY <1>1, <1>5
  <2> HIDE DEF W, B, Q, w
  <2>7. CM!Total(rest) = W - 100
    BY <1>2, <1>5, <2>1, <2>3
  <2> QED BY <1>3, <1>5, <1>7, <2>4, <2>5, <2>6, <2>7
<1>9. /\ B + 100 * w >= Q * (W + (w - 100)) /\ T + 100 >= Q * (N + 0)
  <2> HIDE DEF N, Q, W, B, T, w
  <2> DEFINE x == w - 100
             b == 100 * w
  <2>1. x \in Int /\ b \in Int /\ b >= 0 /\ b >= 100 * x /\ W + x > 0 /\ 0 \in {0, 1}
    BY <1>3, <1>8
  <2> HIDE DEF x, b
  <2>2. B + b >= Q * (W + x) /\ T + 100 >= Q * (N + 0)
    BY <1>1, <1>5, <1>7, <2>1, MoreIsAccepted
  <2> QED BY <2>2 DEF x, b
<1> QED BY <1>1, <1>3, <1>5, <1>6, <1>7, <1>8, <1>9 DEF Accepts

\* Two lists of ballots, the second with a sure approval more at its end.
LEMMA AppendedIsAccepted ==
    ASSUME quorumOption \in Int, NEW c \in Seq(Ballot), NEW d \in Seq(Ballot), Len(d) = Len(c) + 1, Accepts(c),
           \A i \in 1..Len(c) : d[i] = c[i],
           d[Len(c) + 1].verdict = "approve", d[Len(c) + 1].confidence >= 100
    PROVE  Accepts(d)
<1> DEFINE N == Len(c)
           k == N + 1
           Q == CM!QuorumThreshold
           W == CM!Total(Heavy(c))
           B == CM!Total(Backing(c))
           T == CM!Total(Trusting(c))
           w == Heavy(d)[k]
           One(x) == [i \in 1..1 |-> x]
<1>1. /\ N \in Nat /\ Q \in 60..100
      /\ Heavy(c) \in [1..N -> Int] /\ Backing(c) \in [1..N -> Int] /\ Trusting(c) \in [1..N -> Int]
      /\ Heavy(d) \in [1..N + 1 -> Int] /\ Backing(d) \in [1..N + 1 -> Int] /\ Trusting(d) \in [1..N + 1 -> Int]
  BY SumsAreNumbers, QuorumIs
<1>2. k \in 1..Len(d)
  BY <1>1
<1>3. w \in Nat /\ Trusting(d)[k] = 100 /\ Backing(d)[k] = 100 * w
  BY <1>2, SureApproval
<1>4. \A i \in 1..N : /\ Heavy(c)[i] = Heavy(d)[i] /\ Backing(c)[i] = Backing(d)[i]
                      /\ Trusting(c)[i] = Trusting(d)[i]
  BY <1>1 DEF Heavy, Backing, Trusting
<1>5. W \in Int /\ B \in Int /\ T \in Int
  BY <1>1, TotalIsInt
<1>6. ASSUME NEW f \in [1..N -> Int], NEW g \in [1..N + 1 -> Int], \A i \in 1..N : f[i] = g[i]
      PROVE  CM!Total(g) = CM!Total(f) + g[k]
  <2> DEFINE h == [g EXCEPT ![k] = 0]
             x == g[k]
  <2>1. x \in Int /\ One(x) \in [1..1 -> Int] /\ One(x)[1] = x
    BY <1>1
  <2>2. \A i \in 1..1 : g[N + i] = One(x)[i]
    BY <2>1
  <2> HIDE DEF One, N
  <2>3. CM!Total(g) = CM!Total(f) + CM!Total(One(x))
    <3>1. 1 \in Nat /\ \A i \in 1..N : g[i] = f[i]
      BY <1>6
    <3> QED BY <1>1, <1>6, <2>1, <2>2, <3>1, TotalOfBoth, Zenon
  <2>4. PICK s : Sums(One(x), 1, s) /\ CM!Total(One(x)) = s[1]
    BY <2>1, TotalSums
  <2>5. s[1] = s[1 - 1] + One(x)[1] /\ s[0] = 0
    BY <2>4 DEF Sums
  <2>6. CM!Total(One(x)) = x
    BY <2>1, <2>4, <2>5
  <2> QED BY <2>3, <2>6
<1>7. /\ CM!Total(Heavy(d)) = W + w /\ CM!Total(Backing(d)) = B + 100 * w /\ CM!Total(Trusting(d)) = T + 100
  <2> HIDE DEF N, k
  <2>1. CM!Total(Heavy(d)) = W + Heavy(d)[k]
    BY <1>1, <1>4, <1>6
  <2>2. CM!Total(Backing(d)) = B + Backing(d)[k]
    BY <1>1, <1>4, <1>6
  <2>3. CM!Total(Trusting(d)) = T + Trusting(d)[k]
    BY <1>1, <1>4, <1>6
  <2> QED BY <1>3, <2>1, <2>2, <2>3
<1>8. W > 0 /\ B >= Q * W /\ N > 0 /\ T >= Q * N
  BY DEF Accepts
<1>9. /\ B + 100 * w >= Q * (W + w) /\ T + 100 >= Q * (N + 1)
  <2> HIDE DEF N, Q, W, B, T, w
  <2> DEFINE b == 100 * w
  <2>1. w \in Int /\ b \in Int /\ b >= 0 /\ b >= 100 * w /\ W + w > 0 /\ 1 \in {0, 1}
    BY <1>3, <1>5, <1>8
  <2> HIDE DEF b
  <2>2. B + b >= Q * (W + w) /\ T + 100 >= Q * (N + 1)
    BY <1>1, <1>5, <1>8, <2>1, MoreIsAccepted
  <2> QED BY <2>2 DEF b
<1> QED BY <1>1, <1>3, <1>5, <1>7, <1>8, <1>9 DEF Accepts

LEMMA ApprovalIsWelcome == ASSUME PanelAssumption, CommitteeInv PROVE CM!ApprovalNeverHurts
<1> SUFFICES ASSUME NEW v \in CM!Vote, v.verdict = "approve", v.confidence >= 100,
                    CM!Given(votes, v.agent) = {}, CM!Status(votes) = "accepted"
             PROVE  CM!Status(Append(votes, v)) = "accepted"
  BY DEF CM!ApprovalNeverHurts
<1> DEFINE P == Participants
           a == v.agent
           ws == Append(votes, v)
           c == CM!Completed(votes)
           d == CM!Completed(ws)
<1>1. v \in Ballot
  BY VoteIsBallot
<1>2. votes \in Seq(Ballot) /\ ws \in Seq(Ballot) /\ quorumOption \in Int
  BY <1>1 DEF CommitteeInv
<1>3. /\ c \in Seq(Ballot) /\ Len(c) = Len(P) + Len(CM!Outside(votes))
      /\ \A i \in 1..Len(P) : c[i] = CM!LastVote(votes, P[i])
      /\ CM!Outside(votes) \in Seq(Ballot)
      /\ \A i \in 1..Len(CM!Outside(votes)) : c[Len(P) + i] = CM!Outside(votes)[i]
  BY <1>2, CompletedIs
<1>4. /\ d \in Seq(Ballot) /\ Len(d) = Len(P) + Len(CM!Outside(ws))
      /\ \A i \in 1..Len(P) : d[i] = CM!LastVote(ws, P[i])
      /\ \A i \in 1..Len(CM!Outside(ws)) : d[Len(P) + i] = CM!Outside(ws)[i]
  BY <1>2, CompletedIs
<1>5. Accepts(c)
  BY <1>2, AcceptedMeans
<1>6. \A i \in 1..Len(P) : P[i] # a => d[i] = c[i]
  BY <1>1, <1>2, <1>3, <1>4, LastVoteGrows
<1>7. Len(P) \in Nat /\ DOMAIN P = 1..Len(P)
  BY DEF PanelAssumption
<1> HIDE DEF c, d, ws, a
<1>8. Accepts(d)
  <2>1. CASE a \in CM!Range(P)
    <3>1. CM!Outside(ws) = CM!Outside(votes)
      BY <1>1, <1>2, <2>1, OutsideGrows DEF ws, a
    <3>2. PICK k \in 1..Len(P) : P[k] = a
      BY <1>7, <2>1 DEF CM!Range
    <3>3. \A i \in 1..Len(P) : i # k => P[i] # a
      BY <3>2 DEF PanelAssumption
    <3>4. Len(d) = Len(c) /\ k \in 1..Len(c)
      BY <1>3, <1>4, <1>7, <3>1
    <3>5. d[k] = v
      <4>1. CM!LastVote(Append(votes, v), a) = v
        BY <1>1, <1>2, LastVoteGrows DEF a
      <4> QED BY <1>4, <3>2, <4>1 DEF ws
    <3>6. c[k] = [agent |-> a, verdict |-> "abstain", confidence |-> 0, weight |-> 100]
      BY <1>3, <3>2 DEF CM!LastVote, CM!Absent, a
    <3>7. ASSUME NEW i \in 1..Len(c), i # k PROVE d[i] = c[i]
      <4>1. CASE i \in 1..Len(P)
        BY <1>6, <3>3, <3>7, <4>1
      <4>2. CASE i \notin 1..Len(P)
        <5> DEFINE j == i - Len(P)
        <5>1. j \in 1..Len(CM!Outside(votes)) /\ Len(P) + j = i
          BY <1>3, <1>7, <4>2
        <5> HIDE DEF j
        <5>2. c[Len(P) + j] = CM!Outside(votes)[j]
          BY <1>3, <5>1
        <5>3. d[Len(P) + j] = CM!Outside(votes)[j]
          BY <1>4, <3>1, <5>1
        <5> QED BY <5>1, <5>2, <5>3
      <4> QED BY <4>1, <4>2
    <3>8. c[k].verdict = "abstain" /\ c[k].weight = 100 /\ c[k].confidence = 0
      BY <3>6
    <3>9. d[k].verdict = "approve" /\ d[k].confidence >= 100
      BY <3>5
    <3> QED BY <1>2, <1>3, <1>4, <1>5, <3>4, <3>7, <3>8, <3>9, ReplacedIsAccepted
  <2>2. CASE a \notin CM!Range(P)
    <3> DEFINE out == CM!Outside(votes)
               L == Len(P)
               M == Len(out)
    <3>1. CM!Outside(ws) = Append(out, v)
      BY <1>1, <1>2, <2>2, OutsideGrows DEF ws, a
    <3>2. /\ M \in Nat /\ Len(Append(out, v)) = M + 1 /\ Append(out, v)[M + 1] = v
          /\ \A i \in 1..M : Append(out, v)[i] = out[i]
      BY <1>3
    <3>3. Len(c) = L + M /\ Len(d) = Len(c) + 1 /\ M + 1 \in 1..M + 1 /\ Len(c) + 1 = L + (M + 1)
      BY <1>3, <1>4, <1>7, <3>1, <3>2
    <3> HIDE DEF out, L, M
    <3>4. d[Len(c) + 1] = v
      <4>1. d[L + (M + 1)] = CM!Outside(ws)[M + 1]
        BY <1>4, <3>1, <3>2, <3>3 DEF L
      <4> QED BY <3>1, <3>2, <3>3, <4>1
    <3>5. ASSUME NEW i \in 1..Len(c) PROVE d[i] = c[i]
      <4>1. CASE i \in 1..L
        <5>1. P[i] # a
          BY <1>7, <2>2, <4>1 DEF L, CM!Range
        <5> QED BY <1>6, <4>1, <5>1 DEF L
      <4>2. CASE i \notin 1..L
        <5> DEFINE j == i - L
        <5>1. j \in 1..M /\ L + j = i /\ j \in 1..M + 1
          BY <1>7, <3>2, <3>3, <4>2 DEF L
        <5> HIDE DEF j
        <5>2. c[L + j] = out[j]
          BY <1>3, <5>1 DEF L, M, out
        <5>3. d[L + j] = Append(out, v)[j]
          BY <1>4, <3>1, <3>2, <5>1 DEF L
        <5> QED BY <3>2, <5>1, <5>2, <5>3
      <4> QED BY <4>1, <4>2
    <3>6. d[Len(c) + 1].verdict = "approve" /\ d[Len(c) + 1].confidence >= 100
      BY <3>4
    <3> QED BY <1>2, <1>3, <1>4, <1>5, <3>3, <3>5, <3>6, AppendedIsAccepted
  <2> QED BY <2>1, <2>2
<1> QED BY <1>2, <1>8, AcceptedMeans DEF d, ws

LEMMA CommitteeInit == ASSUME PanelAssumption, CM!Init PROVE CommitteeInv
BY DEF PanelAssumption, CM!Init, CommitteeInv

LEMMA CommitteeStep == ASSUME PanelAssumption, CommitteeInv, [CM!Next]_CM!vars PROVE CommitteeInv'
<1> USE DEF CommitteeInv
<1>1. CASE CM!Cast
  <2>1. PICK v \in CM!Vote : votes' = Append(votes, v)
    BY <1>1 DEF CM!Cast
  <2>2. v \in Ballot
    BY VoteIsBallot
  <2> HIDE DEF CM!Vote
  <2> QED BY <1>1, <2>1, <2>2 DEF CM!Cast
<1>2. CASE CM!SynthesizeVotes
  <2>1. PICK verdict \in [DOMAIN Participants -> {"approve", "reject"}],
             confidence \in [DOMAIN Participants -> {62, 79, 96}] :
          votes' = [i \in DOMAIN Participants |->
              [agent |-> Participants[i], verdict |-> verdict[i], confidence |-> confidence[i],
               weight |-> IF i = Len(Participants) THEN 135 ELSE 100]]
    BY <1>2 DEF CM!SynthesizeVotes
  <2>2. DOMAIN Participants = 1..Len(Participants) /\ Len(Participants) \in Nat
    BY DEF PanelAssumption
  <2>3. \A i \in DOMAIN Participants :
           [agent |-> Participants[i], verdict |-> verdict[i], confidence |-> confidence[i],
            weight |-> IF i = Len(Participants) THEN 135 ELSE 100] \in Ballot
    <3> SUFFICES ASSUME NEW i \in DOMAIN Participants
                 PROVE  [agent |-> Participants[i], verdict |-> verdict[i], confidence |-> confidence[i],
                         weight |-> IF i = Len(Participants) THEN 135 ELSE 100] \in Ballot
      OBVIOUS
    <3>1. Participants[i] \in CM!Agents
      BY DEF CM!Agents, CM!Range
    <3>2. verdict[i] \in CM!Verdicts /\ confidence[i] \in Int
      BY DEF CM!Verdicts
    <3> QED BY <3>1, <3>2 DEF Ballot
  <2>4. votes' \in Seq(Ballot)
    BY <2>1, <2>2, <2>3
  <2> QED BY <1>2, <2>4 DEF CM!SynthesizeVotes
<1>3. CASE UNCHANGED CM!vars
  BY <1>3 DEF CM!vars
<1> QED BY <1>1, <1>2, <1>3 DEF CM!Next

LEMMA CommitteeTrue ==
    ASSUME PanelAssumption, CommitteeInv PROVE CM!AcceptedHasQuorum /\ CM!ApprovalNeverHurts
BY AcceptanceHasQuorum, ApprovalIsWelcome

-----------------------------------------------------------------------------
(* YamlSubset                                                              *)

Document(d) == d \in Seq(YS!Line) /\ Indents \subseteq Nat

Words == KeyNames \cup {"-"}

LEMMA LinesAre ==
    ASSUME NEW d, Document(d)
    PROVE  /\ Len(d) \in Nat /\ DOMAIN d = 1..Len(d)
           /\ \A i \in 1..Len(d) :
                 /\ d[i].indent \in Nat /\ d[i].key \in Words
                 /\ d[i].kind \in {"value", "open", "item", "blank", "comment", "bad"}
           /\ YS!KeyLines(d) = {i \in 1..Len(d) : d[i].kind \in {"value", "open"}}
           /\ YS!ListKeys(d) = {i \in 1..Len(d) : d[i].kind = "open" /\ YS!PeekNext(d, i + 1).kind = "item"}
<1>1. Len(d) \in Nat /\ DOMAIN d = 1..Len(d) /\ \A i \in 1..Len(d) : d[i] \in YS!Line
  BY DEF Document
<1>2. \A l \in YS!Line : /\ l.indent \in Nat /\ l.key \in Words
                         /\ l.kind \in {"value", "open", "item", "blank", "comment", "bad"}
  <2> SUFFICES ASSUME NEW l \in YS!Line
               PROVE  /\ l.indent \in Nat /\ l.key \in Words
                      /\ l.kind \in {"value", "open", "item", "blank", "comment", "bad"}
    OBVIOUS
  <2>1. CASE l \in [kind : {"value", "open"}, indent : Indents, key : KeyNames]
    BY <2>1 DEF Document, Words
  <2>2. CASE l \in [kind : {"item"}, indent : Indents, key : {"-"}]
    BY <2>2 DEF Document, Words
  <2>3. CASE l \in [kind : {"blank", "comment", "bad"}, indent : {0}, key : {"-"}]
    BY <2>3 DEF Words
  <2> QED BY <2>1, <2>2, <2>3 DEF YS!Line
<1>3. YS!KeyLines(d) = {i \in 1..Len(d) : d[i].kind \in {"value", "open"}}
  BY <1>1 DEF YS!KeyLines, YS!IsKey
<1>4. YS!ListKeys(d) = {i \in 1..Len(d) : d[i].kind = "open" /\ YS!PeekNext(d, i + 1).kind = "item"}
  BY <1>3 DEF YS!ListKeys
<1> QED BY <1>1, <1>2, <1>3, <1>4

\* A set of line numbers has a last one, if it has any.
LEMMA LatestIs ==
    ASSUME NEW L \in Nat, NEW S, S \subseteq 1..L, S # {}
    PROVE  \E m \in S : \A k \in S : k <= m
<1> DEFINE Good == {n \in 0..L : S \cap (1..n) = {} \/ \E m \in S : \A k \in S \cap (1..n) : k <= m}
<1>1. 0 \in Good
  OBVIOUS
<1>2. ASSUME NEW n \in 1..L, n - 1 \in Good PROVE n \in Good
  <2>1. CASE n \in S
    <3>1. \A k \in S \cap (1..n) : k <= n
      OBVIOUS
    <3> QED BY <2>1, <3>1
  <2>2. CASE n \notin S
    <3>1. S \cap (1..n) = S \cap (1..(n - 1))
      BY <2>2
    <3> QED BY <1>2, <3>1
  <2> QED BY <2>1, <2>2
<1>3. L \in Good
  <2> HIDE DEF Good
  <2> QED BY <1>1, <1>2, UpTo, Zenon
<1>4. S \cap (1..L) = S
  OBVIOUS
<1> QED BY <1>3, <1>4

\* The line around a line is the nearest of those that enclose it.
LEMMA ParentIs ==
    ASSUME NEW d, Document(d), NEW i \in 1..Len(d)
    PROVE  /\ YS!Enclosing(d, i) \subseteq 1..i - 1
           /\ YS!Parent(d, i) \in 0..i - 1
           /\ IF YS!Enclosing(d, i) = {} THEN YS!Parent(d, i) = 0
              ELSE YS!Parent(d, i) \in YS!Enclosing(d, i) /\ \A k \in YS!Enclosing(d, i) : k <= YS!Parent(d, i)
<1>1. Len(d) \in Nat /\ YS!KeyLines(d) \subseteq 1..Len(d)
  BY LinesAre
<1>2. YS!Enclosing(d, i) \subseteq 1..i - 1 /\ i - 1 \in Nat
  BY <1>1 DEF YS!Enclosing
<1>3. CASE YS!Enclosing(d, i) = {}
  BY <1>3, <1>2 DEF YS!Parent
<1>4. CASE YS!Enclosing(d, i) # {}
  <2> DEFINE E == YS!Enclosing(d, i)
  <2>1. E # {} /\ E \subseteq 1..i - 1 /\ i - 1 \in Nat
    BY <1>2, <1>4
  <2>2. YS!Parent(d, i) = CHOOSE j \in E : \A k \in E : k <= j
    BY <1>4 DEF YS!Parent
  <2> HIDE DEF E
  <2>3. \E j \in E : \A k \in E : k <= j
    BY <2>1, LatestIs
  <2>4. YS!Parent(d, i) \in E /\ \A k \in E : k <= YS!Parent(d, i)
    BY <2>2, <2>3
  <2>5. YS!Parent(d, i) \in 0..i - 1
    <3>1. \A m \in 1..i - 1 : m \in 0..i - 1
      BY <2>1
    <3>2. YS!Parent(d, i) \in 1..i - 1
      BY <2>1, <2>4
    <3> QED BY <3>1, <3>2
  <2> QED BY <1>2, <1>4, <2>4, <2>5 DEF E
<1> QED BY <1>3, <1>4

\* The path of a key goes through the line around it.
LEMMA PathsAre ==
    ASSUME NEW d, Document(d)
    PROVE  /\ YS!Paths(d) \in [0..Len(d) -> Seq(Words)] /\ YS!Paths(d)[0] = << >>
           /\ \A i \in YS!KeyLines(d) : YS!Paths(d)[i] = Append(YS!Paths(d)[YS!Parent(d, i)], d[i].key)
<1> DEFINE L == Len(d)
           To(f, i) == IF i = 0 THEN << >>
                       ELSE IF ~YS!IsKey(d[i]) THEN <<"-">> ELSE Append(f[YS!Parent(d, i)], d[i].key)
           Kept(f, k) == f = [i \in 0..k |-> f[i]] /\ \A i \in 0..k : f[i] = To(f, i)
           Good == {k \in 0..L : \E f : Kept(f, k)}
           All(f) == f = [i \in 0..L |-> To(f, i)]
           path == CHOOSE f : All(f)
<1>1. L \in Nat /\ \A i \in 1..L : YS!Parent(d, i) \in 0..i - 1 /\ d[i].key \in Words
  BY LinesAre, ParentIs
<1>2. YS!Paths(d) = path
  BY DEF YS!Paths
<1>3. 0 \in Good
  <2>1. Kept([i \in 0..0 |-> << >>], 0)
    OBVIOUS
  <2>2. 0 \in 0..L
    BY <1>1
  <2> HIDE DEF Kept
  <2> QED BY <2>1, <2>2
<1>4. ASSUME NEW k \in 1..L, k - 1 \in Good PROVE k \in Good
  <2>1. PICK f : Kept(f, k - 1)
    BY <1>4
  <2> DEFINE new == To(f, k)
             g == [i \in 0..k |-> IF i = k THEN new ELSE f[i]]
  <2>2. \A i \in 0..k - 1 : g[i] = f[i]
    BY <1>1
  <2>3. g[k] = new
    BY <1>1
  <2>4. g = [i \in 0..k |-> g[i]]
    BY <1>1
  <2> HIDE DEF g
  <2>5. \A i \in 0..k - 1 : To(g, i) = To(f, i)
    <3> SUFFICES ASSUME NEW i \in 0..k - 1 PROVE To(g, i) = To(f, i)
      OBVIOUS
    <3>1. CASE i = 0
      BY <3>1
    <3>2. CASE i # 0
      <4>1. i \in 1..L /\ YS!Parent(d, i) \in 0..k - 1
        BY <1>1, <3>2
      <4>2. g[YS!Parent(d, i)] = f[YS!Parent(d, i)]
        BY <2>2, <4>1
      <4> QED BY <4>2
    <3> QED BY <3>1, <3>2
  <2>6. To(g, k) = To(f, k)
    <3>1. YS!Parent(d, k) \in 0..k - 1
      BY <1>1
    <3>2. g[YS!Parent(d, k)] = f[YS!Parent(d, k)]
      BY <2>2, <3>1
    <3> QED BY <3>2
  <2>7. \A i \in 0..k : g[i] = To(g, i)
    <3> SUFFICES ASSUME NEW i \in 0..k PROVE g[i] = To(g, i)
      OBVIOUS
    <3>1. CASE i = k
      BY <2>3, <2>6, <3>1
    <3>2. CASE i # k
      <4>1. i \in 0..k - 1
        BY <1>1, <3>2
      <4>2. f[i] = To(f, i)
        BY <2>1, <4>1
      <4> HIDE DEF To
      <4> QED BY <2>2, <2>5, <4>1, <4>2
    <3> QED BY <3>1, <3>2
  <2>8. Kept(g, k)
    BY <2>4, <2>7
  <2> HIDE DEF Kept
  <2> QED BY <2>8
<1>5. \E f : Kept(f, L)
  <2>1. L \in Good
    <3> HIDE DEF Good, L
    <3> QED BY <1>1, <1>3, <1>4, UpTo, Zenon
  <2> QED BY <2>1
<1>6. path = [i \in 0..L |-> To(path, i)]
  <2>1. PICK f : Kept(f, L)
    BY <1>5
  <2>2. All(f)
    <3> HIDE DEF To
    <3> QED BY <2>1
  <2> HIDE DEF All
  <2>3. All(path)
    BY <2>2
  <2> QED BY <2>3 DEF All
<1> HIDE DEF path
<1>7. DOMAIN path = 0..L /\ \A i \in 0..L : path[i] = To(path, i)
  BY <1>6
<1> DEFINE Typed == {k \in 0..L : \A i \in 0..k : path[i] \in Seq(Words)}
<1>8. 0 \in Typed
  <2>1. 0 \in 0..L /\ \A i \in 0..0 : i = 0
    BY <1>1
  <2>2. path[0] = << >> /\ << >> \in Seq(Words)
    BY <1>7, <2>1
  <2>3. \A i \in 0..0 : path[i] \in Seq(Words)
    BY <2>1, <2>2
  <2> QED BY <2>1, <2>3
<1>9. ASSUME NEW k \in 1..L, k - 1 \in Typed PROVE k \in Typed
  <2>1. path[k] \in Seq(Words)
    <3>1. YS!Parent(d, k) \in 0..k - 1 /\ d[k].key \in Words
      BY <1>1
    <3>2. path[YS!Parent(d, k)] \in Seq(Words)
      BY <1>9, <3>1
    <3>3. <<"-">> \in Seq(Words)
      BY DEF Words
    <3>4. Append(path[YS!Parent(d, k)], d[k].key) \in Seq(Words)
      BY <3>1, <3>2
    <3>5. path[k] = To(path, k)
      <4>1. k \in 0..L
        BY <1>1
      <4> HIDE DEF To
      <4> QED BY <1>7, <4>1
    <3>6. k # 0
      BY <1>1
    <3> QED BY <3>3, <3>4, <3>5, <3>6
  <2>2. \A i \in 0..k : i = k \/ i \in 0..k - 1
    BY <1>1
  <2> QED BY <1>9, <2>1, <2>2
<1>10. L \in Typed
  <2> HIDE DEF Typed, L
  <2> QED BY <1>1, <1>8, <1>9, UpTo, Zenon
<1>11. path \in [0..L -> Seq(Words)]
  BY <1>6, <1>10
<1>12. path[0] = << >> /\ \A i \in YS!KeyLines(d) : path[i] = Append(path[YS!Parent(d, i)], d[i].key)
  <2>1. 0 \in 0..L
    BY <1>1
  <2>2. \A i \in YS!KeyLines(d) : i \in 0..L /\ i # 0 /\ YS!IsKey(d[i])
    BY LinesAre DEF YS!IsKey
  <2> QED BY <1>7, <2>1, <2>2
<1> QED BY <1>2, <1>11, <1>12

\* The parser goes from line to line.
LEMMA StatesAre ==
    ASSUME NEW d, Document(d)
    PROVE  \E f : /\ f[0] = YS!Start /\ (\A n \in 1..Len(d) : f[n] = YS!ParseLine(d, n, f[n - 1]))
                  /\ YS!Parsed(d) = f[Len(d)]
<1> DEFINE L == Len(d)
           Kept(f, k) == f[0] = YS!Start /\ \A n \in 1..k : f[n] = YS!ParseLine(d, n, f[n - 1])
           Good == {k \in 0..L : \E f : Kept(f, k)}
           All(f) == f = [i \in 0..L |-> IF i = 0 THEN YS!Start ELSE YS!ParseLine(d, i, f[i - 1])]
           state == CHOOSE f : All(f)
<1>1. L \in Nat
  BY LinesAre
<1>2. YS!Parsed(d) = state[L]
  BY DEF YS!Parsed
<1>3. 0 \in Good
  <2>1. Kept([i \in {0} |-> YS!Start], 0)
    OBVIOUS
  <2> HIDE DEF Kept
  <2> QED BY <1>1, <2>1
<1>4. ASSUME NEW k \in 1..L, k - 1 \in Good PROVE k \in Good
  <2>1. PICK f : Kept(f, k - 1)
    BY <1>4
  <2> DEFINE new == YS!ParseLine(d, k, f[k - 1])
             g == [i \in 0..k |-> IF i = k THEN new ELSE f[i]]
  <2>2. \A i \in 0..k - 1 : g[i] = f[i]
    BY <1>1
  <2>3. g[k] = new
    BY <1>1
  <2> HIDE DEF g
  <2>4. g[0] = YS!Start
    BY <1>1, <2>1, <2>2
  <2>5. \A n \in 1..k : g[n] = YS!ParseLine(d, n, g[n - 1])
    <3> SUFFICES ASSUME NEW n \in 1..k PROVE g[n] = YS!ParseLine(d, n, g[n - 1])
      OBVIOUS
    <3>1. n - 1 \in 0..k - 1
      BY <1>1
    <3>2. g[n - 1] = f[n - 1]
      BY <2>2, <3>1
    <3>3. CASE n = k
      BY <2>3, <3>2, <3>3
    <3>4. CASE n # k
      <4>1. n \in 1..k - 1 /\ n \in 0..k - 1
        BY <1>1, <3>4
      <4>2. g[n] = f[n]
        BY <2>2, <4>1
      <4>3. f[n] = YS!ParseLine(d, n, f[n - 1])
        BY <2>1, <4>1
      <4> QED BY <3>2, <4>2, <4>3
    <3> QED BY <3>3, <3>4
  <2>6. Kept(g, k)
    BY <2>4, <2>5
  <2> HIDE DEF Kept
  <2> QED BY <2>6
<1>5. \E f : All(f)
  <2>1. L \in Good
    <3> HIDE DEF Good, L
    <3> QED BY <1>1, <1>3, <1>4, UpTo, Zenon
  <2>2. PICK f : Kept(f, L)
    BY <2>1
  <2> DEFINE g == [i \in 0..L |-> f[i]]
  <2>3. \A i \in 0..L : g[i] = IF i = 0 THEN YS!Start ELSE YS!ParseLine(d, i, g[i - 1])
    <3> SUFFICES ASSUME NEW i \in 0..L PROVE g[i] = IF i = 0 THEN YS!Start ELSE YS!ParseLine(d, i, g[i - 1])
      OBVIOUS
    <3>1. CASE i = 0
      BY <2>2, <3>1
    <3>2. CASE i # 0
      <4>1. i \in 1..L /\ i - 1 \in 0..L
        BY <1>1, <3>2
      <4>2. g[i] = f[i] /\ g[i - 1] = f[i - 1]
        BY <4>1
      <4> HIDE DEF g
      <4> QED BY <2>2, <3>2, <4>1, <4>2
    <3> QED BY <3>1, <3>2
  <2>4. g = [i \in 0..L |-> g[i]]
    OBVIOUS
  <2> HIDE DEF g
  <2>5. All(g)
    BY <2>3, <2>4
  <2> QED BY <2>5
<1>6. All(state)
  <2> HIDE DEF All
  <2> QED BY <1>5
<1> HIDE DEF state
<1>7. state[0] = YS!Start /\ \A n \in 1..L : state[n] = YS!ParseLine(d, n, state[n - 1])
  <2>1. \A i \in 0..L : state[i] = IF i = 0 THEN YS!Start ELSE YS!ParseLine(d, i, state[i - 1])
    BY <1>6
  <2>2. 0 \in 0..L /\ \A n \in 1..L : n \in 0..L /\ n # 0
    BY <1>1
  <2> QED BY <2>1, <2>2
<1> QED BY <1>2, <1>7

\* What the parser knows after the first n lines of d.

BadTo(d, n) ==
    \E m \in 1..n : \/ d[m].kind = "bad"
                    \/ d[m].kind = "item" /\ ~\E i \in YS!ListKeys(d) : YS!ItemOf(d, m, i)

\* The maps that no key has closed.
OpenAt(d, n) ==
    {j \in YS!KeyLines(d) \ YS!ListKeys(d) :
        /\ j <= n /\ d[j].kind = "open"
        /\ \A k \in YS!KeyLines(d) : j < k /\ k <= n => d[k].indent > d[j].indent}

Depth(d, j) == IF j = 0 THEN -1 ELSE d[j].indent

\* They are on the stack, under the document itself, in the order of their lines.
StackOf(d, o, M, stack) ==
    /\ M \in Nat \ {0} /\ o \in [1..M -> 0..Len(d)] /\ o[1] = 0
    /\ \A a, b \in 1..M : a < b => o[a] < o[b] /\ Depth(d, o[a]) < Depth(d, o[b])
    /\ stack = [a \in 1..M |-> [indent |-> Depth(d, o[a]), path |-> YS!Paths(d)[o[a]]]]

StackTells(d, n, stack) ==
    \E M, o : StackOf(d, o, M, stack) /\ {o[a] : a \in 1..M} = {0} \cup OpenAt(d, n)

\* The last key, if it opened a list.
ListsAt(d, n) == {i \in YS!ListKeys(d) : i <= n /\ \A k \in YS!KeyLines(d) : k <= n => k <= i}

ListTells(d, n, list) ==
    \/ list = YS!NoList /\ ListsAt(d, n) = {}
    \/ \E i \in ListsAt(d, n) :
          list = [indent |-> YS!PeekNext(d, i + 1).indent, path |-> YS!Paths(d)[i]]

LivingAt(d, n) ==
    {i \in YS!KeyLines(d) :
        i <= n /\ ~\E k \in YS!KeyLines(d) : k > i /\ k <= n /\ YS!IsPrefix(YS!Paths(d)[k], YS!Paths(d)[i])}

Ascending(q) == \A k \in 2..Len(q) : q[k - 1] < q[k]

\* The value of a key, and of a list the items so far.
MeansAt(d, n, i, q) ==
    IF i \notin YS!ListKeys(d) THEN q = <<i>>
    ELSE q \in Seq(1..n) /\ YS!Range(q) = {m \in 1..n : YS!ItemOf(d, m, i)} /\ Ascending(q)

MapTells(d, n, map) ==
    /\ map = [p \in DOMAIN map |-> map[p]]
    /\ DOMAIN map = {YS!Paths(d)[i] : i \in LivingAt(d, n)}
    /\ \A i \in LivingAt(d, n) : MeansAt(d, n, i, map[YS!Paths(d)[i]])

\* A state of the parser.
IsState(s) == s = [stack |-> s.stack, list |-> s.list, tree |-> s.tree, failed |-> s.failed]

ParseTells(d, n, s) ==
    IF BadTo(d, n) THEN s.failed = TRUE
    ELSE /\ IsState(s) /\ s.failed = FALSE
         /\ StackTells(d, n, s.stack) /\ ListTells(d, n, s.list) /\ MapTells(d, n, s.tree)

\* A path is a beginning of itself, so keys that live have places of their own.
LEMMA LivingApart ==
    ASSUME NEW d, Document(d), NEW n \in 0..Len(d), NEW i \in LivingAt(d, n), NEW j \in LivingAt(d, n),
           YS!Paths(d)[i] = YS!Paths(d)[j]
    PROVE  i = j
<1> DEFINE path == YS!Paths(d)
<1>1. i \in YS!KeyLines(d) /\ j \in YS!KeyLines(d) /\ i <= n /\ j <= n
  BY DEF LivingAt
<1>2. i \in 1..Len(d) /\ j \in 1..Len(d) /\ Len(d) \in Nat
  BY <1>1, LinesAre
<1>3. path[i] \in Seq(Words)
  <2>1. path \in [0..Len(d) -> Seq(Words)] /\ i \in 0..Len(d)
    BY <1>2, PathsAre
  <2> HIDE DEF path
  <2> QED BY <2>1
<1>4. YS!IsPrefix(path[i], path[i])
  <2>1. Len(path[i]) \in Nat
    BY <1>3
  <2> HIDE DEF path
  <2> QED BY <2>1 DEF YS!IsPrefix
<1>5. ~(i < j) /\ ~(j < i)
  BY <1>1, <1>4 DEF LivingAt
<1> QED BY <1>2, <1>5

\* What a line that is no key leaves alone.
LEMMA NoKeyNoChange ==
    ASSUME NEW d, Document(d), NEW n \in 1..Len(d), n \notin YS!KeyLines(d)
    PROVE  /\ OpenAt(d, n) = OpenAt(d, n - 1) /\ ListsAt(d, n) = ListsAt(d, n - 1)
           /\ LivingAt(d, n) = LivingAt(d, n - 1)
<1>1. \A k \in YS!KeyLines(d) : k <= n <=> k <= n - 1
  BY LinesAre
<1>2. OpenAt(d, n) = OpenAt(d, n - 1)
  BY <1>1 DEF OpenAt
<1>3. \A k \in YS!ListKeys(d) : k \in YS!KeyLines(d)
  BY DEF YS!ListKeys
<1>4. ListsAt(d, n) = ListsAt(d, n - 1)
  BY <1>1, <1>3 DEF ListsAt
<1>5. LivingAt(d, n) = LivingAt(d, n - 1)
  BY <1>1 DEF LivingAt
<1> QED BY <1>2, <1>4, <1>5

LEMMA BadSoFar ==
    ASSUME NEW d, Document(d), NEW n \in 1..Len(d)
    PROVE  BadTo(d, n) <=> \/ BadTo(d, n - 1) \/ d[n].kind = "bad"
                           \/ d[n].kind = "item" /\ ~\E i \in YS!ListKeys(d) : YS!ItemOf(d, n, i)
<1>1. \A m : m \in 1..n <=> m \in 1..n - 1 \/ m = n
  BY LinesAre
<1> QED BY <1>1 DEF BadTo

\* An item belongs to the list that is open, at the indentation of its items.
LEMMA ItemIs ==
    ASSUME NEW d, Document(d), NEW n \in 1..Len(d), d[n].kind = "item", ~BadTo(d, n - 1),
           NEW i \in YS!ListKeys(d)
    PROVE  YS!ItemOf(d, n, i) <=> i \in ListsAt(d, n - 1) /\ d[n].indent = YS!PeekNext(d, i + 1).indent
<1> DEFINE at == YS!PeekNext(d, i + 1).indent
<1>1. /\ i \in 1..Len(d) /\ i \in YS!KeyLines(d) /\ Len(d) \in Nat
      /\ YS!KeyLines(d) = {k \in 1..Len(d) : d[k].kind \in {"value", "open"}}
  BY LinesAre DEF YS!ListKeys
<1>2. ASSUME YS!ItemOf(d, n, i) PROVE i \in ListsAt(d, n - 1) /\ d[n].indent = at
  <2>1. i < n /\ \A k \in i + 1..n : YS!Skipped(d[k]) \/ (d[k].kind = "item" /\ d[k].indent = at)
    BY <1>2 DEF YS!ItemOf
  <2>2. n \in i + 1..n
    BY <1>1, <2>1
  <2>3. d[n].indent = at
    BY <2>1, <2>2 DEF YS!Skipped
  <2>4. ASSUME NEW k \in YS!KeyLines(d), k <= n - 1 PROVE k <= i
    <3>1. d[k].kind \in {"value", "open"} /\ k \in 1..Len(d)
      BY <1>1
    <3>2. k \notin i + 1..n
      BY <2>1, <3>1 DEF YS!Skipped
    <3> QED BY <1>1, <2>4, <3>1, <3>2
  <2>5. i <= n - 1
    BY <1>1, <2>1
  <2> QED BY <2>3, <2>4, <2>5 DEF ListsAt
<1>3. ASSUME i \in ListsAt(d, n - 1), d[n].indent = at PROVE YS!ItemOf(d, n, i)
  <2>1. i <= n - 1 /\ \A k \in YS!KeyLines(d) : k <= n - 1 => k <= i
    BY <1>3 DEF ListsAt
  <2>2. ASSUME NEW k \in i + 1..n - 1 PROVE YS!Skipped(d[k]) \/ (d[k].kind = "item" /\ d[k].indent = at)
    <3>1. k \in 1..Len(d) /\ k \in 1..n - 1 /\ k > i
      BY <1>1
    <3>2. k \notin YS!KeyLines(d)
      BY <1>1, <2>1, <3>1
    <3>3. d[k].kind \in {"item", "blank", "comment", "bad"}
      BY <1>1, <3>1, <3>2, LinesAre
    <3>4. d[k].kind # "bad"
      BY <3>1 DEF BadTo
    <3>5. CASE d[k].kind = "item"
      <4>1. PICK j \in YS!ListKeys(d) : YS!ItemOf(d, k, j)
        BY <3>1, <3>5 DEF BadTo
      <4>2. j < k /\ \A m \in j + 1..k : YS!Skipped(d[m]) \/ (d[m].kind = "item" /\ d[m].indent = YS!PeekNext(d, j + 1).indent)
        BY <4>1 DEF YS!ItemOf
      <4>3. j \in 1..Len(d) /\ j \in YS!KeyLines(d)
        BY LinesAre DEF YS!ListKeys
      <4>4. j <= i
        BY <1>1, <2>1, <3>1, <4>2, <4>3
      <4>5. i \notin j + 1..k
        BY <1>1, <4>2 DEF YS!Skipped
      <4>6. j = i
        BY <1>1, <3>1, <4>3, <4>4, <4>5
      <4>7. k \in j + 1..k
        BY <3>1, <4>2, <4>3
      <4> QED BY <3>5, <4>2, <4>6, <4>7 DEF YS!Skipped
    <3> QED BY <3>3, <3>4, <3>5 DEF YS!Skipped
  <2>3. \A k \in i + 1..n : k = n \/ k \in i + 1..n - 1
    BY <1>1
  <2>4. i < n
    BY <1>1, <2>1
  <2> QED BY <1>3, <2>2, <2>3, <2>4 DEF YS!ItemOf
<1> QED BY <1>2, <1>3

LEMMA StartTells ==
    ASSUME NEW d, Document(d)
    PROVE  ParseTells(d, 0, YS!Start)
<1> DEFINE o == [a \in 1..1 |-> 0]
<1>1. Len(d) \in Nat /\ \A k \in YS!KeyLines(d) : k \in Nat /\ k > 0
  BY LinesAre
<1>2. OpenAt(d, 0) = {} /\ LivingAt(d, 0) = {} /\ ListsAt(d, 0) = {}
  BY <1>1 DEF OpenAt, LivingAt, ListsAt, YS!ListKeys
<1>3. ~BadTo(d, 0)
  BY DEF BadTo
<1>4. StackOf(d, o, 1, YS!Start.stack)
  <2>1. YS!Start.stack = <<[indent |-> -1, path |-> << >>]>>
    BY DEF YS!Start
  <2>2. YS!Paths(d)[0] = << >>
    BY PathsAre
  <2>3. o \in [1..1 -> 0..Len(d)] /\ o[1] = 0
    BY <1>1
  <2>4. YS!Start.stack = [a \in 1..1 |-> [indent |-> Depth(d, o[a]), path |-> YS!Paths(d)[o[a]]]]
    BY <2>1, <2>2 DEF Depth
  <2> HIDE DEF o
  <2> QED BY <2>3, <2>4 DEF StackOf
<1>5. {o[a] : a \in 1..1} = {0} \cup OpenAt(d, 0)
  BY <1>2
<1>6. StackTells(d, 0, YS!Start.stack)
  <2> HIDE DEF o
  <2> QED BY <1>4, <1>5 DEF StackTells
<1>7. IsState(YS!Start) /\ YS!Start.failed = FALSE /\ YS!Start.list = YS!NoList /\ YS!Start.tree = << >>
  BY DEF IsState, YS!Start
<1>8. MapTells(d, 0, << >>)
  BY <1>2 DEF MapTells
<1> QED BY <1>2, <1>3, <1>6, <1>7, <1>8 DEF ParseTells, ListTells

\* What was told of a value is told after a line that adds nothing to it.
LEMMA MeansOn ==
    ASSUME NEW d, Document(d), NEW n \in 1..Len(d), NEW i \in YS!KeyLines(d), NEW q,
           MeansAt(d, n - 1, i, q), i \in YS!ListKeys(d) => ~YS!ItemOf(d, n, i)
    PROVE  MeansAt(d, n, i, q)
<1>1. CASE i \notin YS!ListKeys(d)
  BY <1>1 DEF MeansAt
<1>2. CASE i \in YS!ListKeys(d)
  <2>1. /\ q \in Seq(1..n - 1) /\ YS!Range(q) = {m \in 1..n - 1 : YS!ItemOf(d, m, i)} /\ Ascending(q)
    BY <1>2 DEF MeansAt
  <2>2. n \in Nat /\ \A m : m \in 1..n <=> m \in 1..n - 1 \/ m = n
    BY LinesAre
  <2>3. q \in Seq(1..n)
    <3>1. (1..n - 1) \subseteq (1..n)
      BY <2>2
    <3> QED BY <2>1, <3>1
  <2>4. YS!Range(q) = {m \in 1..n : YS!ItemOf(d, m, i)}
    BY <1>2, <2>1, <2>2
  <2> QED BY <1>2, <2>1, <2>3, <2>4 DEF MeansAt
<1> QED BY <1>1, <1>2

\* A blank line or a comment changes nothing.
LEMMA SkippedTells ==
    ASSUME NEW d, Document(d), NEW n \in 1..Len(d), NEW s, ParseTells(d, n - 1, s), ~BadTo(d, n - 1),
           YS!Skipped(d[n])
    PROVE  ParseTells(d, n, YS!ParseLine(d, n, s))
<1>1. d[n].kind \in {"blank", "comment"}
  BY DEF YS!Skipped
<1>2. n \notin YS!KeyLines(d)
  BY <1>1, LinesAre
<1>3. ~BadTo(d, n)
  BY <1>1, BadSoFar
<1>4. /\ IsState(s) /\ s.failed = FALSE /\ StackTells(d, n - 1, s.stack)
      /\ ListTells(d, n - 1, s.list) /\ MapTells(d, n - 1, s.tree)
  BY DEF ParseTells
<1>5. YS!ParseLine(d, n, s) = s
  BY DEF YS!ParseLine
<1>6. StackTells(d, n, s.stack) /\ ListTells(d, n, s.list)
  BY <1>2, <1>4, NoKeyNoChange DEF StackTells, ListTells
<1>7. MapTells(d, n, s.tree)
  <2>1. LivingAt(d, n) = LivingAt(d, n - 1)
    BY <1>2, NoKeyNoChange
  <2>2. ASSUME NEW i \in LivingAt(d, n - 1) PROVE MeansAt(d, n, i, s.tree[YS!Paths(d)[i]])
    <3>1. MeansAt(d, n - 1, i, s.tree[YS!Paths(d)[i]]) /\ i \in YS!KeyLines(d)
      BY <1>4 DEF MapTells, LivingAt
    <3>2. ~YS!ItemOf(d, n, i)
      BY <1>1 DEF YS!ItemOf
    <3> QED BY <3>1, <3>2, MeansOn
  <2> QED BY <1>4, <2>1, <2>2 DEF MapTells
<1> QED BY <1>3, <1>4, <1>5, <1>6, <1>7 DEF ParseTells

\* Text without a colon, and whatever follows what was refused, is refused.
LEMMA BadTells ==
    ASSUME NEW d, Document(d), NEW n \in 1..Len(d), NEW s, ParseTells(d, n - 1, s),
           BadTo(d, n - 1) \/ d[n].kind = "bad"
    PROVE  ParseTells(d, n, YS!ParseLine(d, n, s))
<1>1. BadTo(d, n)
  BY BadSoFar
<1>2. CASE BadTo(d, n - 1)
  <2>1. s.failed = TRUE
    BY <1>2 DEF ParseTells
  <2>2. YS!ParseLine(d, n, s) = s
    BY <2>1 DEF YS!ParseLine
  <2> QED BY <1>1, <2>1, <2>2 DEF ParseTells
<1>3. CASE ~BadTo(d, n - 1) /\ d[n].kind = "bad"
  <2>1. IsState(s) /\ s.failed = FALSE
    BY <1>3 DEF ParseTells
  <2>2. ~YS!Skipped(d[n])
    BY <1>3 DEF YS!Skipped
  <2>3. YS!ParseLine(d, n, s) = [s EXCEPT !.failed = TRUE]
    BY <1>3, <2>1, <2>2 DEF YS!ParseLine
  <2>4. [s EXCEPT !.failed = TRUE].failed = TRUE
    BY <2>1 DEF IsState
  <2> QED BY <1>1, <2>3, <2>4 DEF ParseTells
<1> QED BY <1>2, <1>3

\* The list that takes an item has it last.
LEMMA ItemJoins ==
    ASSUME NEW d, Document(d), NEW n \in 1..Len(d), NEW i \in YS!ListKeys(d), NEW q,
           MeansAt(d, n - 1, i, q), YS!ItemOf(d, n, i)
    PROVE  MeansAt(d, n, i, Append(q, n))
<1>1. /\ q \in Seq(1..n - 1) /\ YS!Range(q) = {m \in 1..n - 1 : YS!ItemOf(d, m, i)} /\ Ascending(q)
  BY DEF MeansAt
<1>2. n \in Nat /\ \A m : m \in 1..n <=> m \in 1..n - 1 \/ m = n
  BY LinesAre
<1>3. q \in Seq(1..n)
  <2>1. (1..n - 1) \subseteq (1..n)
    BY <1>2
  <2> QED BY <1>1, <2>1
<1> DEFINE r == Append(q, n)
<1>4. /\ r \in Seq(1..n) /\ Len(r) = Len(q) + 1 /\ Len(q) \in Nat /\ r[Len(q) + 1] = n
      /\ \A k \in 1..Len(q) : r[k] = q[k]
  <2>1. n \in 1..n
    BY <1>2
  <2> QED BY <1>3, <2>1, AppendProperties
<1>5. DOMAIN q = 1..Len(q) /\ DOMAIN r = 1..Len(r)
  BY <1>3, <1>4
<1> HIDE DEF r
<1>6. YS!Range(r) = YS!Range(q) \cup {n}
  <2>1. \A k : k \in 1..Len(r) <=> k \in 1..Len(q) \/ k = Len(q) + 1
    BY <1>4
  <2>2. YS!Range(r) \subseteq YS!Range(q) \cup {n}
    BY <1>4, <1>5, <2>1 DEF YS!Range
  <2>3. \A k \in DOMAIN q : q[k] \in YS!Range(r)
    BY <1>4, <1>5, <2>1 DEF YS!Range
  <2>4. n \in YS!Range(r)
    BY <1>4, <1>5, <2>1 DEF YS!Range
  <2> QED BY <2>2, <2>3, <2>4 DEF YS!Range
<1>7. YS!Range(r) = {m \in 1..n : YS!ItemOf(d, m, i)}
  BY <1>1, <1>2, <1>6
<1>8. Ascending(r)
  <2> SUFFICES ASSUME NEW k \in 2..Len(r) PROVE r[k - 1] < r[k]
    BY DEF Ascending
  <2>1. CASE k = Len(r)
    <3>1. k - 1 \in 1..Len(q) /\ k = Len(q) + 1
      BY <1>4, <2>1
    <3>2. q[k - 1] \in 1..n - 1
      BY <1>1, <3>1
    <3>3. r[k - 1] = q[k - 1] /\ r[k] = n
      BY <1>4, <3>1
    <3> QED BY <1>2, <3>2, <3>3
  <2>2. CASE k # Len(r)
    <3>1. k - 1 \in 1..Len(q) /\ k \in 1..Len(q) /\ k \in 2..Len(q)
      BY <1>4, <2>2
    <3> QED BY <1>1, <1>4, <3>1 DEF Ascending
  <2> QED BY <2>1, <2>2
<1> QED BY <1>4, <1>7, <1>8 DEF MeansAt, r

LEMMA ItemTells ==
    ASSUME NEW d, Document(d), NEW n \in 1..Len(d), NEW s, ParseTells(d, n - 1, s), ~BadTo(d, n - 1),
           d[n].kind = "item"
    PROVE  ParseTells(d, n, YS!ParseLine(d, n, s))
<1>1. ~YS!Skipped(d[n])
  BY DEF YS!Skipped
<1>2. n \notin YS!KeyLines(d) /\ d[n].indent \in Nat
  BY LinesAre
<1>3. /\ IsState(s) /\ s.failed = FALSE /\ StackTells(d, n - 1, s.stack)
      /\ ListTells(d, n - 1, s.list) /\ MapTells(d, n - 1, s.tree)
  BY DEF ParseTells
<1>4. YS!ParseLine(d, n, s) = YS!ParseItem(d, n, s)
  BY <1>1, <1>3 DEF YS!ParseLine
<1>5. BadTo(d, n) <=> ~\E i \in YS!ListKeys(d) : YS!ItemOf(d, n, i)
  BY BadSoFar
<1>6. BadTo(d, n) <=> ~\E i \in ListsAt(d, n - 1) : d[n].indent = YS!PeekNext(d, i + 1).indent
  <2>1. \A i \in YS!ListKeys(d) : YS!ItemOf(d, n, i) <=> i \in ListsAt(d, n - 1) /\ d[n].indent = YS!PeekNext(d, i + 1).indent
    BY ItemIs
  <2>2. \A i \in ListsAt(d, n - 1) : i \in YS!ListKeys(d)
    BY DEF ListsAt
  <2> QED BY <1>5, <2>1, <2>2
<1>7. CASE s.list = YS!NoList \/ s.list.indent # d[n].indent
  <2>1. BadTo(d, n)
    <3> SUFFICES ASSUME NEW i \in ListsAt(d, n - 1), d[n].indent = YS!PeekNext(d, i + 1).indent PROVE FALSE
      BY <1>6
    <3>1. PICK j \in ListsAt(d, n - 1) : s.list = [indent |-> YS!PeekNext(d, j + 1).indent, path |-> YS!Paths(d)[j]]
      BY <1>3 DEF ListTells
    <3>2. i = j
      <4>1. \A k \in ListsAt(d, n - 1) : k \in YS!KeyLines(d) /\ k <= n - 1 /\ k \in Nat
        BY LinesAre DEF ListsAt, YS!ListKeys
      <4>2. i <= j /\ j <= i
        BY <4>1 DEF ListsAt
      <4> QED BY <4>1, <4>2
    <3>3. s.list.indent = d[n].indent
      BY <3>1, <3>2
    <3>4. YS!NoList.indent = -1
      BY DEF YS!NoList
    <3> QED BY <1>2, <1>7, <3>3, <3>4
  <2>2. YS!ParseItem(d, n, s) = [s EXCEPT !.failed = TRUE]
    BY <1>7 DEF YS!ParseItem
  <2>3. [s EXCEPT !.failed = TRUE].failed = TRUE
    BY <1>3 DEF IsState
  <2> QED BY <1>4, <2>1, <2>2, <2>3 DEF ParseTells
<1>8. CASE ~(s.list = YS!NoList \/ s.list.indent # d[n].indent)
  <2> DEFINE path == YS!Paths(d)
             at == s.list.path
             map == [s.tree EXCEPT ![at] = Append(s.tree[at], n)]
             new == YS!ParseItem(d, n, s)
  <2>1. PICK i \in ListsAt(d, n - 1) : s.list = [indent |-> YS!PeekNext(d, i + 1).indent, path |-> YS!Paths(d)[i]]
    BY <1>3, <1>8 DEF ListTells
  <2>2. d[n].indent = YS!PeekNext(d, i + 1).indent /\ at = path[i]
    BY <1>8, <2>1
  <2>3. ~BadTo(d, n)
    BY <1>6, <2>2
  <2>4. i \in YS!ListKeys(d) /\ i \in YS!KeyLines(d) /\ i <= n - 1 /\ i \in Nat
    BY LinesAre DEF ListsAt, YS!ListKeys
  <2>5. YS!ItemOf(d, n, i)
    BY <2>2, <2>4, ItemIs
  <2>6. i \in LivingAt(d, n - 1)
    <3>1. \A k \in YS!KeyLines(d) : k \in Nat /\ (k <= n - 1 => k <= i)
      BY LinesAre DEF ListsAt
    <3>2. ~\E k \in YS!KeyLines(d) : k > i /\ k <= n - 1
      BY <2>4, <3>1
    <3> HIDE DEF path, at, map, new
    <3> QED BY <2>4, <3>2, Zenon DEF LivingAt
  <2>7. /\ new.stack = s.stack /\ new.list = s.list /\ new.failed = FALSE /\ IsState(new) /\ new.tree = map
    <3>1. new = [s EXCEPT !.tree = [s.tree EXCEPT ![at] = Append(s.tree[at], n)]]
      BY <1>8 DEF YS!ParseItem
    <3>2. s = [stack |-> s.stack, list |-> s.list, tree |-> s.tree, failed |-> s.failed]
      BY <1>3 DEF IsState
    <3>3. new = [stack |-> s.stack, list |-> s.list, tree |-> map, failed |-> s.failed]
      <4> HIDE DEF map
      <4>1. new = [s EXCEPT !.tree = map]
        BY <3>1 DEF map
      <4> HIDE DEF new
      <4> QED BY <3>2, <4>1
    <3> HIDE DEF new, map
    <3> QED BY <1>3, <3>3 DEF IsState
  <2>8. StackTells(d, n, s.stack) /\ ListTells(d, n, s.list)
    BY <1>2, <1>3, NoKeyNoChange DEF StackTells, ListTells
  <2>9. MapTells(d, n, map)
    <3>1. LivingAt(d, n) = LivingAt(d, n - 1)
      BY <1>2, NoKeyNoChange
    <3>2. /\ s.tree = [p \in DOMAIN s.tree |-> s.tree[p]] /\ DOMAIN s.tree = {path[j] : j \in LivingAt(d, n - 1)}
          /\ \A j \in LivingAt(d, n - 1) : MeansAt(d, n - 1, j, s.tree[path[j]])
      BY <1>3 DEF MapTells
    <3> DEFINE T == s.tree
    <3> HIDE DEF path, T
    <3>3. DOMAIN map = DOMAIN s.tree /\ map = [p \in DOMAIN map |-> map[p]]
      BY <3>2
    <3>4. at \in DOMAIN s.tree
      BY <2>2, <2>6, <3>2
    <3>5. map[at] = Append(s.tree[at], n) /\ \A p \in DOMAIN s.tree : p # at => map[p] = s.tree[p]
      BY <3>2, <3>4
    <3> HIDE DEF map
    <3>6. ASSUME NEW j \in LivingAt(d, n - 1) PROVE MeansAt(d, n, j, map[path[j]])
      <4>1. MeansAt(d, n - 1, j, s.tree[path[j]]) /\ path[j] \in DOMAIN s.tree
        BY <3>2
      <4>2. CASE j = i
        <5>1. map[path[j]] = Append(s.tree[path[j]], n)
          BY <2>2, <3>5, <4>2
        <5> QED BY <2>4, <2>5, <4>1, <4>2, <5>1, ItemJoins
      <4>3. CASE j # i
        <5>1. path[j] # path[i]
          <6>1. n - 1 \in 0..Len(d)
            BY LinesAre
          <6> QED BY <2>6, <4>3, <6>1, LivingApart DEF path
        <5>2. map[path[j]] = s.tree[path[j]]
          BY <2>2, <3>5, <4>1, <5>1
        <5>3. j \in YS!ListKeys(d) => ~YS!ItemOf(d, n, j)
          <6> SUFFICES ASSUME j \in YS!ListKeys(d), YS!ItemOf(d, n, j) PROVE FALSE
            OBVIOUS
          <6>1. j \in ListsAt(d, n - 1)
            BY ItemIs
          <6>2. i <= j /\ j <= i /\ j \in Nat
            BY <2>4, <6>1, LinesAre DEF ListsAt, YS!ListKeys
          <6> QED BY <2>4, <4>3, <6>2
        <5>4. j \in YS!KeyLines(d)
          BY DEF LivingAt
        <5> QED BY <4>1, <5>2, <5>3, <5>4, MeansOn
      <4> QED BY <4>2, <4>3
    <3> QED BY <3>1, <3>2, <3>3, <3>6 DEF MapTells, path
  <2> HIDE DEF new, map
  <2>10. ParseTells(d, n, new)
    BY <2>3, <2>7, <2>8, <2>9 DEF ParseTells
  <2> QED BY <1>4, <2>10 DEF new
<1> QED BY <1>7, <1>8

\* A key closes the maps around it that are not less indented.
LEMMA PoppedIs ==
    ASSUME NEW d, Document(d), NEW n \in 1..Len(d), NEW stack, StackTells(d, n - 1, stack)
    PROVE  \E M, o : /\ StackOf(d, o, M, YS!Popped(stack, d[n].indent))
                     /\ {o[a] : a \in 1..M} = {0} \cup YS!Enclosing(d, n)
                     /\ o[M] = YS!Parent(d, n) /\ Depth(d, o[M]) < d[n].indent
<1>1. /\ Len(d) \in Nat /\ n \in Nat /\ \A i \in 1..Len(d) : d[i].indent \in Nat
      /\ YS!KeyLines(d) \subseteq 1..Len(d)
  BY LinesAre
<1>2. PICK M, o : StackOf(d, o, M, stack) /\ {o[a] : a \in 1..M} = {0} \cup OpenAt(d, n - 1)
  BY DEF StackTells
<1>3. /\ M \in Nat \ {0} /\ o \in [1..M -> 0..Len(d)] /\ o[1] = 0
      /\ \A a, b \in 1..M : a < b => o[a] < o[b] /\ Depth(d, o[a]) < Depth(d, o[b])
      /\ stack = [a \in 1..M |-> [indent |-> Depth(d, o[a]), path |-> YS!Paths(d)[o[a]]]]
  BY <1>2 DEF StackOf
<1>4. /\ Len(stack) = M /\ \A a \in 1..M : stack[a].indent = Depth(d, o[a])
  BY <1>3
<1>5. \A j \in 0..Len(d) : Depth(d, j) \in Int
  BY <1>1 DEF Depth
<1> DEFINE deep == d[n].indent
           Cut(c) == /\ stack[c].indent < deep
                     /\ \A m \in c + 1..Len(stack) : stack[m].indent >= deep
           c == CHOOSE b \in 1..Len(stack) : Cut(b)
<1>6. \E b \in 1..Len(stack) : Cut(b)
  <2> DEFINE S == {a \in 1..M : Depth(d, o[a]) < deep}
  <2>1. 1 \in S
    <3>1. Depth(d, o[1]) = -1
      BY <1>3 DEF Depth
    <3> QED BY <1>1, <1>3, <3>1
  <2>2. PICK b \in S : \A k \in S : k <= b
    <3>1. S \subseteq 1..M /\ S # {} /\ M \in Nat
      BY <1>3, <2>1
    <3> HIDE DEF S
    <3> QED BY <3>1, LatestIs
  <2>3. \A m \in b + 1..M : Depth(d, o[m]) >= deep
    <3> SUFFICES ASSUME NEW m \in b + 1..M PROVE Depth(d, o[m]) >= deep
      OBVIOUS
    <3>1. m \in 1..M /\ ~(m <= b)
      BY <1>3, <2>2
    <3>2. ~(Depth(d, o[m]) < deep)
      BY <2>2, <3>1
    <3>3. Depth(d, o[m]) \in Int /\ deep \in Int
      BY <1>1, <1>3, <1>5, <3>1
    <3> QED BY <3>2, <3>3
  <2>4. Cut(b)
    <3>1. \A m \in b + 1..M : m \in 1..M
      BY <1>3, <2>2
    <3>2. b \in 1..M /\ Depth(d, o[b]) < deep
      BY <2>2
    <3> QED BY <1>4, <2>3, <3>1, <3>2
  <2> HIDE DEF Cut
  <2> QED BY <1>4, <2>2, <2>4
<1>7. c \in 1..Len(stack) /\ Cut(c)
  <2> HIDE DEF Cut
  <2> QED BY <1>6
<1>8. YS!Popped(stack, deep) = SubSeq(stack, 1, c)
  BY DEF YS!Popped
<1> HIDE DEF c
<1>9. /\ c \in 1..M /\ Depth(d, o[c]) < deep /\ \A m \in c + 1..M : Depth(d, o[m]) >= deep
  <2>1. \A m \in c + 1..M : m \in 1..M
    BY <1>3, <1>4, <1>7
  <2> QED BY <1>4, <1>7, <2>1
<1> DEFINE p == [a \in 1..c |-> o[a]]
<1>10. c \in Nat \ {0} /\ p \in [1..c -> 0..Len(d)] /\ \A a \in 1..c : a \in 1..M /\ p[a] = o[a]
  BY <1>3, <1>9
<1>11. StackOf(d, p, c, SubSeq(stack, 1, c))
  <2>1. SubSeq(stack, 1, c) = [a \in 1..c |-> stack[a]]
    <3> DEFINE Frames == [indent : Int, path : {YS!Paths(d)[j] : j \in 0..Len(d)}]
    <3>1. \A a \in 1..M : [indent |-> Depth(d, o[a]), path |-> YS!Paths(d)[o[a]]] \in Frames
      BY <1>3, <1>5
    <3>2. stack \in Seq(Frames)
      <4> HIDE DEF Frames
      <4> QED BY <1>3, <3>1
    <3> HIDE DEF Frames
    <3> QED BY <1>4, <1>9, <3>2, SubSeqProperties
  <2>2. SubSeq(stack, 1, c) = [a \in 1..c |-> [indent |-> Depth(d, p[a]), path |-> YS!Paths(d)[p[a]]]]
    <3>1. \A a \in 1..c : stack[a] = [indent |-> Depth(d, p[a]), path |-> YS!Paths(d)[p[a]]]
      <4> HIDE DEF p
      <4> QED BY <1>3, <1>10
    <3> HIDE DEF p
    <3> QED BY <2>1, <3>1
  <2>3. p[1] = 0
    BY <1>3, <1>9
  <2>4. \A a, b \in 1..c : a < b => p[a] < p[b] /\ Depth(d, p[a]) < Depth(d, p[b])
    <3> HIDE DEF p
    <3> QED BY <1>3, <1>10
  <2> HIDE DEF p
  <2> QED BY <1>10, <2>2, <2>3, <2>4 DEF StackOf
<1>12. YS!Enclosing(d, n) = {j \in OpenAt(d, n - 1) : d[j].indent < deep}
  <2>1. \A j \in YS!KeyLines(d) : j < n <=> j <= n - 1
    BY <1>1
  <2> QED BY <2>1 DEF YS!Enclosing, OpenAt
<1>13. \A j \in OpenAt(d, n - 1) : j \in 1..Len(d) /\ Depth(d, j) = d[j].indent
  BY <1>1 DEF OpenAt, Depth
<1>14. {p[a] : a \in 1..c} = {0} \cup YS!Enclosing(d, n)
  <2>1. ASSUME NEW a \in 1..c PROVE p[a] \in {0} \cup YS!Enclosing(d, n)
    <3>1. o[a] \in {0} \cup OpenAt(d, n - 1)
      BY <1>2, <1>10
    <3>2. Depth(d, o[a]) < deep
      <4>1. CASE a = c
        BY <1>9, <4>1
      <4>2. CASE a # c
        <5>1. a < c /\ a \in 1..M
          <6> HIDE DEF p
          <6> QED BY <1>10, <4>2
        <5>2. Depth(d, o[a]) < Depth(d, o[c])
          BY <1>3, <1>9, <5>1
        <5>3. Depth(d, o[a]) \in Int /\ Depth(d, o[c]) \in Int /\ deep \in Int
          BY <1>1, <1>3, <1>5, <1>9, <5>1
        <5> QED BY <1>9, <5>2, <5>3
      <4> QED BY <4>1, <4>2
    <3> QED BY <1>10, <1>12, <1>13, <3>1, <3>2
  <2>2. ASSUME NEW j \in {0} \cup YS!Enclosing(d, n) PROVE \E a \in 1..c : p[a] = j
    <3>1. CASE j = 0
      <4>1. 1 \in 1..c /\ p[1] = 0
        BY <1>3, <1>9
      <4> HIDE DEF p
      <4> QED BY <3>1, <4>1
    <3>2. CASE j \in YS!Enclosing(d, n)
      <4>1. j \in OpenAt(d, n - 1) /\ Depth(d, j) < deep
        BY <1>12, <1>13, <3>2
      <4>2. PICK a \in 1..M : o[a] = j
        BY <1>2, <4>1
      <4>3. a \notin c + 1..M
        <5> SUFFICES ASSUME a \in c + 1..M PROVE FALSE
          OBVIOUS
        <5>1. Depth(d, o[a]) >= deep
          BY <1>9
        <5>2. Depth(d, o[a]) \in Int /\ deep \in Int
          BY <1>1, <1>3, <1>5, <4>2
        <5> QED BY <4>1, <4>2, <5>1, <5>2
      <4>4. a \in 1..c
        BY <1>3, <1>9, <4>3
      <4>5. p[a] = j
        BY <1>10, <4>2, <4>4
      <4> QED BY <4>4, <4>5
    <3> QED BY <3>1, <3>2
  <2> HIDE DEF p
  <2> QED BY <2>1, <2>2
<1>15. p[c] = YS!Parent(d, n)
  <2>1. YS!Parent(d, n) \in {0} \cup YS!Enclosing(d, n)
    BY ParentIs
  <2>2. PICK a \in 1..c : p[a] = YS!Parent(d, n)
    <3> HIDE DEF p
    <3> QED BY <1>14, <2>1
  <2>3. ~(a < c)
    <3> SUFFICES ASSUME a < c PROVE FALSE
      OBVIOUS
    <3>1. a \in 1..M /\ c \in 1..M /\ o[a] < o[c] /\ o[a] \in Nat /\ o[c] \in Nat
      <4>1. a \in 1..M /\ c \in 1..M
        BY <1>9, <1>10
      <4>2. o[a] \in 0..Len(d) /\ o[c] \in 0..Len(d)
        BY <1>3, <4>1
      <4>3. o[a] < o[c]
        BY <1>3, <4>1
      <4> QED BY <1>1, <4>1, <4>2, <4>3
    <3>2. p[c] = o[c] /\ p[a] = o[a] /\ c \in 1..c
      BY <1>10
    <3>3. p[c] \in {0} \cup YS!Enclosing(d, n)
      <4> HIDE DEF p
      <4> QED BY <1>14, <3>2
    <3>4. p[c] \in YS!Enclosing(d, n)
      <4> HIDE DEF p
      <4> QED BY <3>1, <3>2, <3>3
    <3>5. p[c] <= YS!Parent(d, n)
      <4> HIDE DEF p
      <4> QED BY <3>4, ParentIs
    <3> HIDE DEF p
    <3> QED BY <2>2, <3>1, <3>2, <3>5
  <2>4. a = c
    BY <1>10, <2>3
  <2> QED BY <2>2, <2>4
<1>16. Depth(d, p[c]) < deep
  BY <1>9, <1>10
<1> HIDE DEF p
<1> QED BY <1>8, <1>11, <1>14, <1>15, <1>16

\* What is open, listed and living after a key.
LEMMA KeyChanges ==
    ASSUME NEW d, Document(d), NEW n \in YS!KeyLines(d)
    PROVE  /\ OpenAt(d, n) = YS!Enclosing(d, n) \cup IF d[n].kind = "open" /\ n \notin YS!ListKeys(d) THEN {n} ELSE {}
           /\ ListsAt(d, n) = IF n \in YS!ListKeys(d) THEN {n} ELSE {}
           /\ LivingAt(d, n) = {n} \cup {i \in LivingAt(d, n - 1) : ~YS!IsPrefix(YS!Paths(d)[n], YS!Paths(d)[i])}
<1> DEFINE path == YS!Paths(d)
<1>1. Len(d) \in Nat /\ n \in Nat /\ YS!KeyLines(d) \subseteq 1..Len(d)
  BY LinesAre
<1>2. \A j \in YS!KeyLines(d) : (j <= n <=> j < n \/ j = n) /\ (j < n <=> j <= n - 1) /\ ~(n < n)
  BY <1>1
<1>3. OpenAt(d, n) \ {n} = YS!Enclosing(d, n)
  <2>1. ASSUME NEW j \in OpenAt(d, n) \ {n} PROVE j \in YS!Enclosing(d, n)
    <3>1. /\ j \in YS!KeyLines(d) \ YS!ListKeys(d) /\ j < n /\ d[j].kind = "open"
          /\ \A k \in YS!KeyLines(d) : j < k /\ k <= n => d[k].indent > d[j].indent
      BY <1>2 DEF OpenAt
    <3>2. d[n].indent > d[j].indent /\ \A k \in YS!KeyLines(d) : j < k /\ k < n => d[k].indent > d[j].indent
      BY <1>2, <3>1
    <3>3. d[j].indent < d[n].indent
      BY <1>1, <3>1, <3>2, LinesAre
    <3> QED BY <3>1, <3>2, <3>3 DEF YS!Enclosing
  <2>2. ASSUME NEW j \in YS!Enclosing(d, n) PROVE j \in OpenAt(d, n) \ {n}
    <3>1. /\ j \in YS!KeyLines(d) \ YS!ListKeys(d) /\ j < n /\ d[j].kind = "open" /\ d[j].indent < d[n].indent
          /\ \A k \in YS!KeyLines(d) : j < k /\ k < n => d[k].indent > d[j].indent
      BY DEF YS!Enclosing
    <3>2. d[n].indent > d[j].indent
      BY <1>1, <3>1, LinesAre
    <3>3. \A k \in YS!KeyLines(d) : j < k /\ k <= n => d[k].indent > d[j].indent
      BY <1>2, <3>1, <3>2
    <3>4. j # n /\ j <= n
      BY <1>2, <3>1
    <3> QED BY <3>1, <3>3, <3>4 DEF OpenAt
  <2> QED BY <2>1, <2>2
<1>4. n \in OpenAt(d, n) <=> d[n].kind = "open" /\ n \notin YS!ListKeys(d)
  <2>1. \A k \in YS!KeyLines(d) : ~(n < k /\ k <= n)
    BY <1>1
  <2>2. n <= n
    BY <1>1
  <2> QED BY <2>1, <2>2 DEF OpenAt
<1>5. ListsAt(d, n) = IF n \in YS!ListKeys(d) THEN {n} ELSE {}
  <2>1. \A k \in YS!ListKeys(d) : k \in YS!KeyLines(d)
    BY DEF YS!ListKeys
  <2>2. n <= n /\ \A i \in YS!KeyLines(d) : i <= n /\ n <= i => i = n
    BY <1>1
  <2>3. \A i \in ListsAt(d, n) : i = n /\ n \in YS!ListKeys(d)
    BY <2>1, <2>2 DEF ListsAt
  <2>4. n \in YS!ListKeys(d) => n \in ListsAt(d, n)
    BY <2>2 DEF ListsAt
  <2> QED BY <2>3, <2>4
<1>6. LivingAt(d, n) = {n} \cup {i \in LivingAt(d, n - 1) : ~YS!IsPrefix(path[n], path[i])}
  <2> HIDE DEF path
  <2>1. n \in LivingAt(d, n)
    <3>1. n <= n /\ ~\E k \in YS!KeyLines(d) : k > n /\ k <= n
      BY <1>1
    <3> QED BY <3>1 DEF LivingAt
  <2>2. ASSUME NEW i \in LivingAt(d, n), i # n PROVE i \in LivingAt(d, n - 1) /\ ~YS!IsPrefix(path[n], path[i])
    <3>1. /\ i \in YS!KeyLines(d) /\ i <= n
          /\ \A k \in YS!KeyLines(d) : k > i /\ k <= n => ~YS!IsPrefix(path[k], path[i])
      BY DEF LivingAt, path
    <3>2. i <= n - 1 /\ n > i /\ n <= n
      BY <1>1, <2>2, <3>1
    <3>3. \A k \in YS!KeyLines(d) : k <= n - 1 => k <= n
      BY <1>1
    <3>4. i \in LivingAt(d, n - 1)
      BY <3>1, <3>2, <3>3 DEF LivingAt, path
    <3> QED BY <3>1, <3>2, <3>4
  <2>3. ASSUME NEW i \in LivingAt(d, n - 1), ~YS!IsPrefix(path[n], path[i]) PROVE i \in LivingAt(d, n)
    <3>1. /\ i \in YS!KeyLines(d) /\ i <= n - 1
          /\ \A k \in YS!KeyLines(d) : k > i /\ k <= n - 1 => ~YS!IsPrefix(path[k], path[i])
      BY DEF LivingAt, path
    <3>2. i <= n /\ \A k \in YS!KeyLines(d) : k <= n => k <= n - 1 \/ k = n
      BY <1>1, <3>1
    <3>3. \A k \in YS!KeyLines(d) : k > i /\ k <= n => ~YS!IsPrefix(path[k], path[i])
      BY <2>3, <3>1, <3>2
    <3> QED BY <3>1, <3>2, <3>3 DEF LivingAt, path
  <2> QED BY <2>1, <2>2, <2>3
<1> QED BY <1>3, <1>4, <1>5, <1>6

\* A value is put at its place, and what was there or below it is gone.
LEMMA AssignTells ==
    ASSUME NEW d, Document(d), NEW n \in YS!KeyLines(d), NEW map, MapTells(d, n - 1, map),
           NEW q, MeansAt(d, n, n, q)
    PROVE  MapTells(d, n, YS!Assign(map, YS!Paths(d)[n], q))
<1> DEFINE path == YS!Paths(d)
           kept == {p \in DOMAIN map : ~YS!IsPrefix(path[n], p)}
           new == YS!Assign(map, path[n], q)
<1>1. new = [p \in kept \cup {path[n]} |-> IF p = path[n] THEN q ELSE map[p]]
  BY DEF YS!Assign
<1>2. /\ DOMAIN map = {path[i] : i \in LivingAt(d, n - 1)}
      /\ \A i \in LivingAt(d, n - 1) : MeansAt(d, n - 1, i, map[path[i]])
  BY DEF MapTells
<1>3. LivingAt(d, n) = {n} \cup {i \in LivingAt(d, n - 1) : ~YS!IsPrefix(path[n], path[i])}
  BY KeyChanges
<1>4. n \in 1..Len(d) /\ d[n].kind # "item"
  BY LinesAre
<1>5. YS!IsPrefix(path[n], path[n])
  <2>1. path[n] \in Seq(Words)
    <3>1. path \in [0..Len(d) -> Seq(Words)] /\ n \in 0..Len(d)
      BY <1>4, PathsAre
    <3> HIDE DEF path
    <3> QED BY <3>1
  <2>2. Len(path[n]) \in Nat
    BY <2>1
  <2> HIDE DEF path
  <2> QED BY <2>2 DEF YS!IsPrefix
<1> HIDE DEF path, new
<1>6. DOMAIN new = kept \cup {path[n]} /\ new = [p \in DOMAIN new |-> new[p]] /\ new[path[n]] = q
  BY <1>1
<1>7. \A p \in kept : p # path[n] /\ new[p] = map[p]
  BY <1>1, <1>5
<1>8. kept = {path[i] : i \in {j \in LivingAt(d, n - 1) : ~YS!IsPrefix(path[n], path[j])}}
  BY <1>2
<1>9. DOMAIN new = {path[i] : i \in LivingAt(d, n)}
  <2> HIDE DEF kept
  <2> QED BY <1>3, <1>6, <1>8
<1>10. ASSUME NEW i \in LivingAt(d, n) PROVE MeansAt(d, n, i, new[path[i]])
  <2>1. CASE i = n
    BY <1>6, <2>1
  <2>2. CASE i \in LivingAt(d, n - 1) /\ ~YS!IsPrefix(path[n], path[i])
    <3>1. path[i] \in kept
      BY <1>2, <2>2
    <3>2. new[path[i]] = map[path[i]]
      BY <1>7, <3>1
    <3>3. MeansAt(d, n - 1, i, map[path[i]]) /\ i \in YS!KeyLines(d)
      BY <1>2, <2>2 DEF LivingAt
    <3>4. ~YS!ItemOf(d, n, i)
      BY <1>4 DEF YS!ItemOf
    <3> QED BY <1>4, <3>2, <3>3, <3>4, MeansOn
  <2> QED BY <1>3, <2>1, <2>2
<1> HIDE DEF kept
<1> QED BY <1>6, <1>9, <1>10 DEF MapTells, path, new

\* The value on a line, and a list or a map before it has anything.
LEMMA NewMeans ==
    ASSUME NEW d, Document(d), NEW n \in YS!KeyLines(d)
    PROVE  MeansAt(d, n, n, IF n \in YS!ListKeys(d) THEN << >> ELSE <<n>>)
<1>1. CASE n \notin YS!ListKeys(d)
  BY <1>1 DEF MeansAt
<1>2. CASE n \in YS!ListKeys(d)
  <2>1. \A m \in 1..n : ~YS!ItemOf(d, m, n)
    BY LinesAre DEF YS!ItemOf
  <2>2. YS!Range(<< >>) = {}
    BY DEF YS!Range
  <2>3. Ascending(<< >>)
    BY DEF Ascending
  <2>4. << >> \in Seq(1..n)
    OBVIOUS
  <2> QED BY <1>2, <2>1, <2>2, <2>3, <2>4 DEF MeansAt
<1> QED BY <1>1, <1>2

\* A map that opens goes on top of those around it.
LEMMA StackGrows ==
    ASSUME NEW d, Document(d), NEW n \in 1..Len(d), NEW M, NEW o, NEW stack, StackOf(d, o, M, stack),
           {o[a] : a \in 1..M} = {0} \cup YS!Enclosing(d, n), Depth(d, o[M]) < d[n].indent,
           OpenAt(d, n) = YS!Enclosing(d, n) \cup {n}
    PROVE  StackTells(d, n, Append(stack, [indent |-> d[n].indent, path |-> YS!Paths(d)[n]]))
<1> DEFINE path == YS!Paths(d)
           new == [indent |-> d[n].indent, path |-> path[n]]
           longer == Append(stack, new)
           K == M + 1
           p == [a \in 1..K |-> IF a = K THEN n ELSE o[a]]
<1>1. /\ Len(d) \in Nat /\ \A i \in 1..Len(d) : d[i].indent \in Nat
  BY LinesAre
<1>2. /\ M \in Nat \ {0} /\ o \in [1..M -> 0..Len(d)] /\ o[1] = 0
      /\ \A a, b \in 1..M : a < b => o[a] < o[b] /\ Depth(d, o[a]) < Depth(d, o[b])
      /\ stack = [a \in 1..M |-> [indent |-> Depth(d, o[a]), path |-> path[o[a]]]]
  BY DEF StackOf
<1>3. \A j \in 0..Len(d) : Depth(d, j) \in Int
  BY <1>1 DEF Depth
<1>4. Depth(d, n) = d[n].indent
  BY DEF Depth
<1>5. /\ K \in Nat \ {0} /\ p[K] = n /\ K \in 1..K /\ 1..K = (1..M) \cup {K} /\ \A a \in 1..M : a \in 1..K /\ a < K /\ p[a] = o[a]
  BY <1>2
<1>6. p \in [1..K -> 0..Len(d)] /\ p[1] = 0
  <2>1. \A a \in 1..K : p[a] \in 0..Len(d)
    <3> SUFFICES ASSUME NEW a \in 1..K PROVE p[a] \in 0..Len(d)
      OBVIOUS
    <3>1. CASE a = K
      <4>1. n \in 0..Len(d)
        BY <1>1
      <4> HIDE DEF p, K
      <4> QED BY <1>5, <3>1, <4>1
    <3>2. CASE a \in 1..M
      <4> HIDE DEF p, K
      <4> QED BY <1>2, <1>5, <3>2
    <3> HIDE DEF p, K
    <3> QED BY <1>5, <3>1, <3>2
  <2>2. p = [a \in 1..K |-> p[a]]
    OBVIOUS
  <2>3. 1 \in 1..M
    BY <1>2
  <2> HIDE DEF p, K
  <2> QED BY <1>2, <1>5, <2>1, <2>2, <2>3
<1> HIDE DEF p
<1>7. \A a \in 1..M : o[a] < n
  <2> SUFFICES ASSUME NEW a \in 1..M PROVE o[a] < n
    OBVIOUS
  <2>1. o[a] \in {0} \cup YS!Enclosing(d, n)
    BY <1>2
  <2>2. \A j \in YS!Enclosing(d, n) : j < n
    BY DEF YS!Enclosing
  <2> QED BY <2>1, <2>2
<1>8. \A a \in 1..M : Depth(d, o[a]) < Depth(d, n)
  <2> SUFFICES ASSUME NEW a \in 1..M PROVE Depth(d, o[a]) < Depth(d, n)
    OBVIOUS
  <2>1. CASE a = M
    BY <1>4, <2>1
  <2>2. CASE a # M
    <3>1. M \in 1..M /\ a < M
      BY <1>2, <2>2
    <3>2. Depth(d, o[a]) < Depth(d, o[M])
      BY <1>2, <3>1
    <3>3. Depth(d, o[a]) \in Int /\ Depth(d, o[M]) \in Int /\ d[n].indent \in Int
      BY <1>1, <1>2, <1>3, <3>1
    <3> QED BY <1>4, <3>2, <3>3
  <2> QED BY <2>1, <2>2
<1>9. \A a, b \in 1..K : a < b => p[a] < p[b] /\ Depth(d, p[a]) < Depth(d, p[b])
  <2> SUFFICES ASSUME NEW a \in 1..K, NEW b \in 1..K, a < b
               PROVE  p[a] < p[b] /\ Depth(d, p[a]) < Depth(d, p[b])
    OBVIOUS
  <2>1. a \in 1..M
    BY <1>2
  <2>2. CASE b = K
    <3> HIDE DEF K
    <3> QED BY <1>5, <1>7, <1>8, <2>1, <2>2
  <2>3. CASE b \in 1..M
    <3> HIDE DEF K
    <3> QED BY <1>2, <1>5, <2>1, <2>3
  <2> HIDE DEF K
  <2> QED BY <1>5, <2>2, <2>3
<1>10. longer = [a \in 1..K |-> [indent |-> Depth(d, p[a]), path |-> path[p[a]]]]
  <2> DEFINE Frames == [indent : Int, path : {path[j] : j \in 0..Len(d)}]
             frames == [a \in 1..K |-> [indent |-> Depth(d, p[a]), path |-> path[p[a]]]]
  <2>1. \A a \in 1..M : [indent |-> Depth(d, o[a]), path |-> path[o[a]]] \in Frames
    BY <1>2, <1>3
  <2>2. stack \in Seq(Frames) /\ Len(stack) = M
    <3> HIDE DEF Frames, path
    <3> QED BY <1>2, <2>1
  <2>3. new \in Frames
    <3>1. n \in 0..Len(d) /\ d[n].indent \in Int
      BY <1>1
    <3> QED BY <3>1
  <2>4. /\ longer \in Seq(Frames) /\ Len(longer) = K /\ longer[K] = new
        /\ \A a \in 1..M : longer[a] = stack[a]
    <3> HIDE DEF Frames, new
    <3> QED BY <2>2, <2>3, AppendProperties
  <2>5. \A a \in 1..K : longer[a] = frames[a]
    <3> SUFFICES ASSUME NEW a \in 1..K PROVE longer[a] = frames[a]
      OBVIOUS
    <3> HIDE DEF longer, K
    <3>1. CASE a = K
      BY <1>4, <1>5, <2>4, <3>1
    <3>2. CASE a \in 1..M
      <4>1. stack[a] = [indent |-> Depth(d, o[a]), path |-> path[o[a]]]
        BY <1>2, <3>2
      <4>2. p[a] = o[a] /\ longer[a] = stack[a]
        BY <1>5, <2>4, <3>2
      <4> QED BY <4>1, <4>2
    <3> QED BY <1>5, <3>1, <3>2
  <2>6. longer = [a \in 1..K |-> longer[a]]
    <3> HIDE DEF longer, K, Frames
    <3> QED BY <2>4
  <2> HIDE DEF longer, K
  <2> QED BY <2>5, <2>6
<1>11. StackOf(d, p, K, longer)
  <2> HIDE DEF K, longer
  <2> QED BY <1>5, <1>6, <1>9, <1>10 DEF StackOf
<1>12. {p[a] : a \in 1..K} = {0} \cup OpenAt(d, n)
  <2> HIDE DEF K
  <2>1. {p[a] : a \in 1..K} = {o[a] : a \in 1..M} \cup {n}
    BY <1>5
  <2> QED BY <2>1
<1> HIDE DEF K
<1> QED BY <1>11, <1>12 DEF StackTells

LEMMA KeyTells ==
    ASSUME NEW d, Document(d), NEW n \in YS!KeyLines(d), NEW s, ParseTells(d, n - 1, s), ~BadTo(d, n - 1)
    PROVE  ParseTells(d, n, YS!ParseLine(d, n, s))
<1> DEFINE path == YS!Paths(d)
           list == IF n \in YS!ListKeys(d)
                   THEN [indent |-> YS!PeekNext(d, n + 1).indent, path |-> path[n]] ELSE YS!NoList
           popped == YS!Popped(s.stack, d[n].indent)
           mapped == d[n].kind = "open" /\ n \notin YS!ListKeys(d)
           stack == IF mapped THEN Append(popped, [indent |-> d[n].indent, path |-> path[n]]) ELSE popped
           q == IF n \in YS!ListKeys(d) THEN << >> ELSE <<n>>
           map == YS!Assign(s.tree, path[n], q)
           new == YS!ParseLine(d, n, s)
<1>1. /\ n \in 1..Len(d) /\ d[n].kind \in {"value", "open"}
      /\ (n \in YS!ListKeys(d) <=> d[n].kind = "open" /\ YS!PeekNext(d, n + 1).kind = "item")
  BY LinesAre
<1>2. /\ s = [stack |-> s.stack, list |-> s.list, tree |-> s.tree, failed |-> s.failed] /\ s.failed = FALSE
      /\ StackTells(d, n - 1, s.stack) /\ ListTells(d, n - 1, s.list) /\ MapTells(d, n - 1, s.tree)
  BY DEF ParseTells, IsState
<1>3. PICK M, o : /\ StackOf(d, o, M, popped)
                  /\ {o[a] : a \in 1..M} = {0} \cup YS!Enclosing(d, n)
                  /\ o[M] = YS!Parent(d, n) /\ Depth(d, o[M]) < d[n].indent
  BY <1>1, <1>2, PoppedIs
<1>4. YS!Last(popped).path = path[YS!Parent(d, n)]
  <2>1. /\ M \in Nat \ {0}
        /\ popped = [a \in 1..M |-> [indent |-> Depth(d, o[a]), path |-> path[o[a]]]]
    BY <1>3 DEF StackOf
  <2> HIDE DEF popped, path
  <2>2. Len(popped) = M /\ M \in 1..M
    BY <2>1
  <2>3. popped[M] = [indent |-> Depth(d, o[M]), path |-> path[o[M]]]
    BY <2>1, <2>2
  <2> QED BY <1>3, <2>2, <2>3 DEF YS!Last
<1>5. path[n] = Append(YS!Last(popped).path, d[n].key)
  BY <1>4, PathsAre
<1>6. new = YS!ParseKey(d, n, s)
  <2>1. ~YS!Skipped(d[n]) /\ d[n].kind # "item" /\ d[n].kind # "bad"
    BY <1>1 DEF YS!Skipped
  <2> QED BY <1>2, <2>1 DEF YS!ParseLine
<1>7. new = [stack |-> stack, list |-> list, tree |-> map, failed |-> FALSE]
  <2> HIDE DEF path
  <2>1. CASE d[n].kind = "value"
    <3>1. n \notin YS!ListKeys(d) /\ ~mapped
      BY <1>1, <2>1
    <3>2. new = [s EXCEPT !.stack = popped, !.list = YS!NoList,
                          !.tree = YS!Assign(s.tree, path[n], <<n>>)]
      BY <1>5, <1>6, <2>1 DEF YS!ParseKey
    <3>3. stack = popped /\ list = YS!NoList /\ map = YS!Assign(s.tree, path[n], <<n>>)
      BY <3>1
    <3> HIDE DEF new, popped, list, map, stack
    <3> QED BY <1>2, <3>2, <3>3
  <2>2. CASE d[n].kind = "open" /\ YS!PeekNext(d, n + 1).kind = "item"
    <3>1. n \in YS!ListKeys(d) /\ ~mapped /\ d[n].kind # "value"
      BY <1>1, <2>2
    <3>2. new = [s EXCEPT !.stack = popped, !.list = [indent |-> YS!PeekNext(d, n + 1).indent, path |-> path[n]],
                          !.tree = YS!Assign(s.tree, path[n], << >>)]
      BY <1>5, <1>6, <2>2, <3>1 DEF YS!ParseKey
    <3>3. /\ stack = popped /\ list = [indent |-> YS!PeekNext(d, n + 1).indent, path |-> path[n]]
          /\ map = YS!Assign(s.tree, path[n], << >>)
      BY <3>1
    <3> HIDE DEF new, popped, list, map, stack
    <3> QED BY <1>2, <3>2, <3>3
  <2>3. CASE d[n].kind = "open" /\ YS!PeekNext(d, n + 1).kind # "item"
    <3>1. n \notin YS!ListKeys(d) /\ mapped /\ d[n].kind # "value"
      BY <1>1, <2>3
    <3>2. new = [s EXCEPT !.stack = Append(popped, [indent |-> d[n].indent, path |-> path[n]]),
                          !.list = YS!NoList, !.tree = YS!Assign(s.tree, path[n], <<n>>)]
      BY <1>5, <1>6, <2>3, <3>1 DEF YS!ParseKey
    <3>3. /\ stack = Append(popped, [indent |-> d[n].indent, path |-> path[n]]) /\ list = YS!NoList
          /\ map = YS!Assign(s.tree, path[n], <<n>>)
      BY <3>1
    <3> HIDE DEF new, popped, list, map, stack
    <3> QED BY <1>2, <3>2, <3>3
  <2> QED BY <1>1, <2>1, <2>2, <2>3
<1>8. ~BadTo(d, n)
  BY <1>1, BadSoFar
<1>9. StackTells(d, n, stack)
  <2>1. CASE mapped
    <3>1. OpenAt(d, n) = YS!Enclosing(d, n) \cup {n}
      BY <2>1, KeyChanges
    <3>2. StackTells(d, n, Append(popped, [indent |-> d[n].indent, path |-> path[n]]))
      <4> HIDE DEF popped
      <4> QED BY <1>1, <1>3, <3>1, StackGrows
    <3> QED BY <2>1, <3>2
  <2>2. CASE ~mapped
    <3>1. OpenAt(d, n) = YS!Enclosing(d, n)
      <4>1. OpenAt(d, n) = YS!Enclosing(d, n) \cup IF mapped THEN {n} ELSE {}
        BY KeyChanges
      <4>2. OpenAt(d, n) = YS!Enclosing(d, n) \cup {}
        <5> HIDE DEF mapped
        <5> QED BY <2>2, <4>1
      <4> QED BY <4>2
    <3>2. StackTells(d, n, popped)
      <4> HIDE DEF popped
      <4> QED BY <1>3, <3>1 DEF StackTells
    <3> QED BY <2>2, <3>2
  <2> QED BY <2>1, <2>2
<1>10. ListTells(d, n, list)
  <2>1. ListsAt(d, n) = IF n \in YS!ListKeys(d) THEN {n} ELSE {}
    BY KeyChanges
  <2> QED BY <2>1 DEF ListTells
<1>11. MapTells(d, n, map)
  <2>1. MeansAt(d, n, n, q)
    BY NewMeans
  <2> HIDE DEF q
  <2> QED BY <1>2, <2>1, AssignTells
<1> HIDE DEF stack, list, map, new
<1>12. ParseTells(d, n, new)
  BY <1>7, <1>8, <1>9, <1>10, <1>11 DEF ParseTells, IsState
<1> QED BY <1>12 DEF new

LEMMA LineTells ==
    ASSUME NEW d, Document(d), NEW n \in 1..Len(d), NEW s, ParseTells(d, n - 1, s)
    PROVE  ParseTells(d, n, YS!ParseLine(d, n, s))
<1>1. CASE BadTo(d, n - 1) \/ d[n].kind = "bad"
  BY <1>1, BadTells
<1>2. CASE ~BadTo(d, n - 1) /\ d[n].kind = "item"
  BY <1>2, ItemTells
<1>3. CASE ~BadTo(d, n - 1) /\ d[n].kind \in {"blank", "comment"}
  BY <1>3, SkippedTells DEF YS!Skipped
<1>4. CASE ~BadTo(d, n - 1) /\ d[n].kind \in {"value", "open"}
  <2>1. n \in YS!KeyLines(d)
    BY <1>4, LinesAre
  <2> QED BY <1>4, <2>1, KeyTells
<1>5. d[n].kind \in {"value", "open", "item", "blank", "comment", "bad"}
  BY LinesAre
<1> QED BY <1>1, <1>2, <1>3, <1>4, <1>5

\* The parser has read every line, and knows what all of them mean.
LEMMA ParsedTells ==
    ASSUME NEW d, Document(d)
    PROVE  ParseTells(d, Len(d), YS!Parsed(d))
<1> DEFINE L == Len(d)
<1>1. PICK f : /\ f[0] = YS!Start /\ (\A n \in 1..L : f[n] = YS!ParseLine(d, n, f[n - 1]))
               /\ YS!Parsed(d) = f[L]
  BY StatesAre
<1> DEFINE Good == {n \in 0..L : ParseTells(d, n, f[n])}
<1>2. L \in Nat
  BY LinesAre
<1>3. 0 \in Good
  <2>1. ParseTells(d, 0, f[0])
    BY <1>1, StartTells
  <2> QED BY <1>2, <2>1
<1>4. ASSUME NEW n \in 1..L, n - 1 \in Good PROVE n \in Good
  <2>1. ParseTells(d, n - 1, f[n - 1])
    BY <1>4
  <2>2. ParseTells(d, n, YS!ParseLine(d, n, f[n - 1]))
    BY <2>1, LineTells
  <2>3. n \in 0..L
    BY <1>2
  <2> QED BY <1>1, <2>2, <2>3
<1>5. L \in Good
  <2> HIDE DEF Good, L
  <2> QED BY <1>2, <1>3, <1>4, UpTo, Zenon
<1> QED BY <1>1, <1>5

\* What the document is at every step, and what the parser makes of it.
YamlInv == doc \in Seq(YS!Line)

LEMMA YamlTrue ==
    ASSUME Indents \subseteq Nat, YamlInv
    PROVE  YS!ParseIsNesting
<1> DEFINE L == Len(doc)
           p == YS!Parsed(doc)
<1>1. Document(doc)
  BY DEF Document, YamlInv
<1>2. L \in Nat /\ DOMAIN doc = 1..L /\ YS!KeyLines(doc) \subseteq 1..L
  BY <1>1, LinesAre
<1>3. ParseTells(doc, L, p)
  BY <1>1, ParsedTells
<1>4. BadTo(doc, L) <=> YS!Malformed(doc)
  BY <1>2 DEF BadTo, YS!Malformed
<1>5. LivingAt(doc, L) = YS!Living(doc)
  <2>1. \A k \in YS!KeyLines(doc) : k <= L
    BY <1>2
  <2> QED BY <2>1 DEF LivingAt, YS!Living
<1> HIDE DEF p
<1>6. p.failed <=> YS!Malformed(doc)
  <2>1. CASE BadTo(doc, L)
    BY <1>3, <1>4, <2>1 DEF ParseTells
  <2>2. CASE ~BadTo(doc, L)
    BY <1>3, <1>4, <2>2 DEF ParseTells
  <2> QED BY <2>1, <2>2
<1>7. ASSUME ~p.failed
      PROVE  /\ DOMAIN p.tree = {YS!Paths(doc)[i] : i \in YS!Living(doc)}
             /\ \A i \in YS!Living(doc) : YS!Means(doc, i, p.tree[YS!Paths(doc)[i]])
  <2>1. MapTells(doc, L, p.tree)
    BY <1>3, <1>4, <1>6, <1>7 DEF ParseTells
  <2>2. DOMAIN p.tree = {YS!Paths(doc)[i] : i \in YS!Living(doc)}
    BY <1>5, <2>1 DEF MapTells
  <2>3. ASSUME NEW i \in YS!Living(doc) PROVE YS!Means(doc, i, p.tree[YS!Paths(doc)[i]])
    <3>1. MeansAt(doc, L, i, p.tree[YS!Paths(doc)[i]])
      BY <1>5, <2>1 DEF MapTells
    <3> QED BY <1>2, <3>1 DEF MeansAt, YS!Means, Ascending
  <2> QED BY <2>2, <2>3
<1> QED BY <1>6, <1>7 DEF YS!ParseIsNesting, p

LEMMA YamlInit == YS!Init => YamlInv
BY DEF YS!Init, YamlInv

LEMMA YamlStep == YamlInv /\ [YS!Next]_doc => YamlInv'
<1> SUFFICES ASSUME YamlInv, [YS!Next]_doc PROVE YamlInv'
  OBVIOUS
<1>1. CASE YS!Next
  <2>1. PICK l \in YS!Line : doc' = Append(doc, l)
    BY <1>1 DEF YS!Next
  <2>2. doc \in Seq(YS!Line)
    BY DEF YamlInv
  <2>3. Append(doc, l) \in Seq(YS!Line)
    BY <2>2, AppendProperties
  <2> QED BY <2>1, <2>3 DEF YamlInv
<1>2. CASE UNCHANGED doc
  BY <1>2 DEF YamlInv
<1> QED BY <1>1, <1>2
=============================================================================
