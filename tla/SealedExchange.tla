---------------------------- MODULE SealedExchange ----------------------------
(***************************************************************************)
(* How a dispatch and its reply are sealed on their way between the host   *)
(* and an inbox adapter: secureChairDispatchBody and openChairDispatchBody *)
(* of the host, encryptPayload and decryptPayload of the adapter.  Each of *)
(* the two processes has a secret or none and a clock of its own, and      *)
(* opens only what was sealed with its secret and stamped within           *)
(* MAX_CLOCK_SKEW_MS of its clock.  The body of a dispatch is sealed once, *)
(* before its first attempt; that of a reply at each attempt.              *)
(*                                                                         *)
(* One exchange.  Of the cipher only the key and the stamp are kept; who   *)
(* wins a race of reply and deadline is the matter of ChairDispatch, and   *)
(* how a reply is leased of AgentHub.                                      *)
(***************************************************************************)
EXTENDS Integers

CONSTANTS
    DispatchSecrets,  \* KOVAEL_CHAIR_DISPATCH_SECRET of a process
    Skews,            \* what the host's clock may be ahead of the adapter's
    ClockWindow,      \* MAX_CLOCK_SKEW_MS
    MaxTries,         \* policy.maxAttempts, of a dispatch
    MaxPosts,         \* outboxMaxAttempts, of a reply
    DispatchTimeout,  \* dispatchTimeoutMs
    ReplyTimeout,     \* replyTimeoutMs of the adapter
    MaxRest,          \* the longest delay between two attempts of a dispatch
    MaxInstant        \* the latest time, a bound of the model

\* A secret that is missing or shorter than 32 characters is none.
Plain == "plain"
Secrets == DispatchSecrets \cup {Plain}

VARIABLES
    now, skew,      \* the adapter's clock; the host's is skew ahead of it
    hostSecret, inboxSecret,
    host,           \* idle, posting, resting, awaiting, answered or failed
    letter, tries,  \* the body of the dispatch, and its attempts
    hostAge,        \* how long the host has been posting or resting
    inbox,          \* idle, running, due, posting, sent or dead
    answer, posts,  \* the body of the reply, and its attempts
    inboxAge,       \* how long the adapter has been posting
    refused         \* why bodies were refused

clock == <<now, skew, hostSecret, inboxSecret>>
hostVars == <<host, letter, tries, hostAge>>
inboxVars == <<inbox, answer, posts, inboxAge>>
vars == <<clock, hostVars, inboxVars, refused>>

HostClock == now + skew

Sealed(secret, time) == [key |-> secret, at |-> time]

Distance(a, b) == IF a > b THEN a - b ELSE b - a

\* What becomes of a body.  A sealed one that is read as plain lacks every
\* field; the stamp is looked at before the cipher.
Verdict(secret, body, time) ==
    CASE secret = Plain \/ body.key = Plain -> IF secret = body.key THEN "open" ELSE "key"
      [] OTHER -> IF Distance(time, body.at) > ClockWindow THEN "stale"
                  ELSE IF secret = body.key THEN "open" ELSE "key"

Init ==
    /\ now = 0 /\ skew \in Skews
    /\ hostSecret \in Secrets /\ inboxSecret \in Secrets
    /\ host = "idle" /\ tries = 0 /\ letter = Sealed(Plain, 0) /\ hostAge = 0
    /\ inbox = "idle" /\ posts = 0 /\ answer = Sealed(Plain, 0) /\ inboxAge = 0
    /\ refused = {}

\* Time passes, but no fetch outlives its abort and no rest its delay.
Tick ==
    /\ now < MaxInstant
    /\ host = "posting" => hostAge < DispatchTimeout
    /\ host = "resting" => hostAge < MaxRest
    /\ inbox = "posting" => inboxAge < ReplyTimeout
    /\ now' = now + 1
    /\ hostAge' = IF host \in {"posting", "resting"} THEN hostAge + 1 ELSE 0
    /\ inboxAge' = IF inbox = "posting" THEN inboxAge + 1 ELSE 0
    /\ UNCHANGED <<skew, hostSecret, inboxSecret, host, letter, tries, inbox, answer, posts, refused>>

HostGoes(to) == host' = to /\ hostAge' = 0

\* stream: the body is sealed, and posted for the first time.
Dispatch ==
    /\ host = "idle"
    /\ HostGoes("posting") /\ tries' = 1
    /\ letter' = Sealed(hostSecret, HostClock)
    /\ UNCHANGED <<clock, inboxVars, refused>>

\* postWithRetry: the same body once more.
PostAgain ==
    /\ host = "resting"
    /\ HostGoes("posting") /\ tries' = tries + 1
    /\ UNCHANGED <<clock, letter, inboxVars, refused>>

\* An attempt that was lost, cut off, or met a status worth a retry.
AttemptFails == HostGoes(IF tries < MaxTries THEN "resting" ELSE "failed")

DispatchLost ==
    /\ host = "posting"
    /\ AttemptFails
    /\ UNCHANGED <<clock, letter, tries, inboxVars, refused>>

\* The adapter opens the dispatch and runs it, unless it knows it already.
\* Its word may be lost on the way back; one of refusal ends the dispatch.
InboxOpens(heard) ==
    LET verdict == Verdict(inboxSecret, letter, now) IN
    /\ host = "posting"
    /\ IF ~heard THEN AttemptFails
       ELSE HostGoes(IF verdict = "open" THEN "awaiting" ELSE "failed")
    /\ inbox' = IF verdict = "open" /\ inbox = "idle" THEN "running" ELSE inbox
    /\ refused' = IF verdict = "open" THEN refused ELSE refused \cup {<<"dispatch", verdict>>}
    /\ UNCHANGED <<clock, letter, tries, answer, posts, inboxAge>>

\* The runtime is done: the reply is in the outbox, in the clear.
RuntimeEnds ==
    /\ inbox = "running"
    /\ inbox' = "due"
    /\ UNCHANGED <<clock, hostVars, answer, posts, inboxAge, refused>>

\* sendOutboxReply: the reply is sealed, whichever attempt it is, and posted.
PostReply ==
    /\ inbox = "due"
    /\ inbox' = "posting" /\ inboxAge' = 0 /\ posts' = posts + 1
    /\ answer' = Sealed(inboxSecret, now)
    /\ UNCHANGED <<clock, hostVars, refused>>

PostFails == inbox' = IF posts < MaxPosts THEN "due" ELSE "dead"

ReplyLost ==
    /\ inbox = "posting"
    /\ PostFails
    /\ UNCHANGED <<clock, hostVars, answer, posts, inboxAge, refused>>

\* The host opens the reply.  A refusal is for good, whatever its reason: the
\* row is dead, and the turn waits for its deadline.
HostOpens(heard) ==
    LET verdict == Verdict(hostSecret, answer, HostClock)
        pending == host \in {"posting", "resting", "awaiting"} IN
    /\ inbox = "posting"
    /\ IF verdict = "open" /\ pending THEN HostGoes("answered") ELSE UNCHANGED <<host, hostAge>>
    /\ IF heard THEN inbox' = IF verdict = "open" /\ pending THEN "sent" ELSE "dead"
                ELSE PostFails
    /\ refused' = IF verdict = "open" THEN refused ELSE refused \cup {<<"reply", verdict>>}
    /\ UNCHANGED <<clock, letter, tries, answer, posts, inboxAge>>

\* The reply deadline, or the caller's abort.
GiveUp ==
    /\ host = "awaiting"
    /\ HostGoes("failed")
    /\ UNCHANGED <<clock, letter, tries, inboxVars, refused>>

Next ==
    \/ Tick
    \/ Dispatch \/ PostAgain \/ DispatchLost \/ GiveUp
    \/ RuntimeEnds \/ PostReply \/ ReplyLost
    \/ \E heard \in BOOLEAN : InboxOpens(heard) \/ HostOpens(heard)

Spec == Init /\ [][Next]_vars

-----------------------------------------------------------------------------
TypeOK ==
    /\ now \in 0..MaxInstant /\ skew \in Skews
    /\ hostSecret \in Secrets /\ inboxSecret \in Secrets
    /\ host \in {"idle", "posting", "resting", "awaiting", "answered", "failed"}
    /\ inbox \in {"idle", "running", "due", "posting", "sent", "dead"}
    /\ letter \in [key : Secrets, at : Int] /\ answer \in [key : Secrets, at : Int]
    /\ tries \in 0..MaxTries /\ posts \in 0..MaxPosts
    /\ hostAge \in Nat /\ inboxAge \in Nat
    /\ refused \subseteq {"dispatch", "reply"} \X {"key", "stale"}

\* Nothing is run and nothing answered between processes whose secrets differ,
\* one that has none included; and what is answered has been run.
OnlyAgreedIsOpened ==
    /\ inbox # "idle" => hostSecret = inboxSecret
    /\ host = "answered" => inbox \notin {"idle", "running"}

\* However long a runtime takes and however often a reply is posted, it is
\* refused for its age only when the clocks are too far apart for a single
\* post; and a dispatch only when they are for all of its attempts together.
TimelyIsOpened ==
    /\ <<"reply", "stale">> \in refused =>
           Distance(skew, 0) + ReplyTimeout > ClockWindow
    /\ <<"dispatch", "stale">> \in refused =>
           Distance(skew, 0) + MaxTries * (DispatchTimeout + MaxRest) > ClockWindow
=============================================================================
