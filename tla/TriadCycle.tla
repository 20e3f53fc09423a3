----------------------------- MODULE TriadCycle -----------------------------
(***************************************************************************)
(* What happens inside one execution of a task: MevBridge.execute routes   *)
(* the architect (RateLimitTracker, and a VRAM gate: VramGate), drives the *)
(* phases of TriadStateMachine through three awaits, issues the receipt,   *)
(* and is watched from outside by MeshOrchestrator (activeCycles,          *)
(* receiptsIssued) and by the trace ring of Tracing.  ResourceGovernor     *)
(* empties the caches when nothing goes on.                                *)
(*                                                                         *)
(* Cycles are numbered in the order in which they are executed.  Time is   *)
(* only seen by the rate limit, whose time stamps are kept as ages.        *)
(***************************************************************************)
EXTENDS Integers, Sequences, FiniteSets, SequencesExt

CONSTANTS
    MaxCycles,     \* how many cycles are ever executed (a bound of the model)
    Primaries,     \* values of primaryArchitect: default and WORKFLOW.md
    Fallbacks,     \* values of fallbackAgent
    MaxPerWindow,  \* RateLimitConfig.maxPerWindow
    Window,        \* RateLimitConfig.windowMs, in ticks
    MaxActive,     \* MAX_ACTIVE_CYCLES
    RingCapacity,  \* capacity of the trace ring
    IdleTraces,    \* idleTraceRetain
    RoleEnds       \* what a role's promise does: "ok", "throws", "refutes"

Cycles == 1..MaxCycles

Terminal == {"Succeeded", "Failed", "Stalled"}

\* The table of TriadStateMachine.
NextPhases == [p \in {"PreparingContext", "DispatchToArchitect", "ArchitectStreaming",
                      "DispatchToOperator", "OperatorExecuting", "DispatchToVerifier",
                      "VerifierAuditing", "IssuingReceipt"} \cup Terminal |->
    CASE p = "PreparingContext"    -> {"DispatchToArchitect", "Failed", "Stalled"}
      [] p = "DispatchToArchitect" -> {"ArchitectStreaming", "Failed", "Stalled"}
      [] p = "ArchitectStreaming"  -> {"DispatchToOperator", "Failed", "Stalled"}
      [] p = "DispatchToOperator"  -> {"OperatorExecuting", "Failed", "Stalled"}
      [] p = "OperatorExecuting"   -> {"DispatchToVerifier", "Failed", "Stalled"}
      [] p = "DispatchToVerifier"  -> {"VerifierAuditing", "Failed", "Stalled"}
      [] p = "VerifierAuditing"    -> {"IssuingReceipt", "Failed", "Stalled"}
      [] p = "IssuingReceipt"      -> {"Succeeded", "Failed"}
      [] OTHER                     -> {}]

Phases == DOMAIN NextPhases

\* The await a cycle is suspended at, or how execute ended.
Stages == {"new", "architect", "operator", "verifier", "returned", "threw"}

VARIABLES
    run,       \* per cycle: stage, phase trail, claim held, traced
    receipts,  \* the table verification_receipts, with what it says
    issued,    \* receiptsIssued
    active,    \* activeCycles, in the insertion order of the map
    windows,   \* RateLimitTracker.windows of the agents it is asked about: the
               \* ages of the dispatches kept
    sent,      \* history: ages, up to Window, of all dispatches of an agent
    config,    \* primaryArchitect, fallbackAgent
    mode,      \* of the governor
    tracing,   \* whether the bridge has its tracer yet
    spans,     \* spansByTrace: finished child spans of unfinished cycles
    ring       \* TraceRingBuffer.order with the number of child spans

flow == <<run, receipts, issued, active>>
limits == <<windows, sent>>
traces == <<spans, ring>>

vars == <<flow, limits, config, mode, tracing, traces>>

-----------------------------------------------------------------------------
(* RateLimitTracker                                                        *)

\* Fault: a dispatch exactly windowMs old is dropped already.
StopsAtEdge(ages, n) ==
    (\A i \in 1..n : ages[i] >= Window) /\ (n < Len(ages) => ages[n + 1] < Window)

\* The loop of prune, which shifts the head off while it is older than the
\* window, stops after n.
StopsAfter(ages, n) ==
    (\A i \in 1..n : ages[i] > Window) /\ (n < Len(ages) => ages[n + 1] <= Window)

Pruned(ages) ==
    LET old == CHOOSE n \in 0..Len(ages) : StopsAfter(ages, n)
    IN  SubSeq(ages, old + 1, Len(ages))

CanDispatch(a) == Len(Pruned(windows[a])) < MaxPerWindow

\* One tick later; what is older than the window is as old as any.
Older(ages) == [i \in DOMAIN ages |-> IF ages[i] > Window THEN ages[i] ELSE ages[i] + 1]

\* What is no older than the window, of dispatches in time order.
InWindow(ages) == SubSeq(ages, Cardinality({i \in DOMAIN ages : ages[i] > Window}) + 1, Len(ages))

Tick ==
    /\ \E a \in Primaries : windows[a] # <<>>
    /\ windows' = [a \in Primaries |-> Older(windows[a])]
    /\ sent' = [a \in Primaries |-> InWindow(Older(sent[a]))]
    /\ UNCHANGED <<flow, config, mode, tracing, traces>>

-----------------------------------------------------------------------------
(* Phases as the orchestrator sees them                                    *)

Listed(list, c) == \E i \in DOMAIN list : list[i].cycle = c

\* Fault: every event is appended, as if a key could be in the map twice.
ShowTwice(list, c, p) ==
    LET grown == Append(list, [cycle |-> c, phase |-> p])
    IN  IF Len(grown) > MaxActive THEN Tail(grown) ELSE grown

\* The handler of phase_change.  A key set again keeps its place in the map.
Show(list, c, p) ==
    IF Listed(list, c)
    THEN [i \in DOMAIN list |-> IF list[i].cycle = c THEN [list[i] EXCEPT !.phase = p] ELSE list[i]]
    ELSE LET grown == Append(list, [cycle |-> c, phase |-> p])
         IN  IF Len(grown) > MaxActive THEN Tail(grown) ELSE grown

\* The two transitions of one step; the orchestrator hears of each.
Shown(list, c, ps) == Show(Show(list, c, ps[1]), c, ps[2])

\* cycleSpan.end: the root span takes the n children of its trace to the ring.
RootEnds(c, n, stage) ==
    IF ~run[c].traced THEN UNCHANGED traces
    ELSE /\ spans' = [spans EXCEPT ![c] = 0]
         /\ ring' = LET grown == Append(ring, [cycle |-> c, children |-> n])
                    IN  IF Len(grown) > RingCapacity THEN Tail(grown) ELSE grown

\* One more child span of c has ended; it ends before the role's result is used.
Children(c) == IF run[c].traced THEN spans[c] + 1 ELSE 0

-----------------------------------------------------------------------------
(* MevBridge.execute                                                       *)

\* routeArchitect; headroom: VRAM is known, and at or above the floor.
Route(headroom) ==
    IF CanDispatch(config.primary) /\ headroom THEN config.primary ELSE config.fallback

\* The dispatch to agent is recorded; asking about the primary pruned its list.
Recorded(agent) ==
    LET asked == [windows EXCEPT ![config.primary] = Pruned(@)]
    IN  IF agent \in Primaries
        THEN /\ windows' = [asked EXCEPT ![agent] = Pruned(Append(@, 0))]
             /\ sent' = [sent EXCEPT ![agent] = Append(@, 0)]
        ELSE windows' = asked /\ UNCHANGED sent

\* The call of execute up to the await of the architect.  The task was injected,
\* and its hooks ran, before; while its claim is held the mode stays active.
Execute(c, headroom, claimed) ==
    LET ps == <<"DispatchToArchitect", "ArchitectStreaming">>
    IN  /\ run[c].stage = "new" /\ \A b \in 1..c - 1 : run[b].stage # "new"
        /\ claimed => mode = "active"
        /\ Recorded(Route(headroom))
        /\ run' = [run EXCEPT ![c] = [stage |-> "architect", trail |-> <<"PreparingContext">> \o ps,
                                     held |-> claimed, traced |-> tracing]]
        /\ active' = Shown(active, c, ps)
        /\ UNCHANGED <<receipts, issued, config, mode, tracing, traces>>

\* A role's result is in, and the next role is called.
RoleEnds1(c, here, next, ps) ==
    /\ run[c].stage = here
    /\ run' = [run EXCEPT ![c].stage = next, ![c].trail = @ \o ps]
    /\ active' = Shown(active, c, ps)
    /\ spans' = [spans EXCEPT ![c] = Children(c)]
    /\ UNCHANGED <<receipts, issued, limits, config, mode, tracing, ring>>

ArchitectEnds(c) ==
    RoleEnds1(c, "architect", "operator", <<"DispatchToOperator", "OperatorExecuting">>)

OperatorEnds(c) ==
    RoleEnds1(c, "operator", "verifier", <<"DispatchToVerifier", "VerifierAuditing">>)

\* A role throws: the catch clause fails the cycle.
RoleThrows(c) ==
    /\ "throws" \in RoleEnds
    /\ run[c].stage \in {"architect", "operator", "verifier"}
    /\ run' = [run EXCEPT ![c].stage = "threw", ![c].held = FALSE,
                          ![c].trail = Append(@, "Failed")]
    /\ active' = Show(active, c, "Failed")
    /\ RootEnds(c, Children(c), "threw")
    /\ UNCHANGED <<receipts, issued, limits, config, mode, tracing>>

\* Fault: the receipt is counted before it is stored.
VerifierEndsCountedFirst(c, passed, stored) ==
    LET ps == <<"IssuingReceipt", IF passed THEN "Succeeded" ELSE "Failed">>
        trail == run[c].trail \o ps
        stage == IF stored THEN "returned" ELSE "threw"
    IN  /\ run[c].stage = "verifier"
        /\ passed \/ "refutes" \in RoleEnds
        /\ run' = [run EXCEPT ![c].stage = stage, ![c].held = FALSE, ![c].trail = trail]
        /\ active' = Shown(active, c, ps)
        /\ receipts' = IF stored THEN receipts \cup {[cycle |-> c, passed |-> passed, trail |-> trail]}
                       ELSE receipts
        /\ issued' = issued + 1
        /\ RootEnds(c, Children(c), stage)
        /\ UNCHANGED <<limits, config, mode, tracing>>

\* The verdict: the terminal phase is entered and announced before the receipt
\* is stored; should that throw, the catch clause finds the machine terminal.
VerifierEnds(c, passed, stored) ==
    LET ps == <<"IssuingReceipt", IF passed THEN "Succeeded" ELSE "Failed">>
        trail == run[c].trail \o ps
        stage == IF stored THEN "returned" ELSE "threw"
    IN  /\ run[c].stage = "verifier"
        /\ passed \/ "refutes" \in RoleEnds
        /\ run' = [run EXCEPT ![c].stage = stage, ![c].held = FALSE, ![c].trail = trail]
        /\ active' = Shown(active, c, ps)
        /\ receipts' = IF stored THEN receipts \cup {[cycle |-> c, passed |-> passed, trail |-> trail]}
                       ELSE receipts
        /\ issued' = IF stored THEN issued + 1 ELSE issued
        /\ RootEnds(c, Children(c), stage)
        /\ UNCHANGED <<limits, config, mode, tracing>>

-----------------------------------------------------------------------------
(* The orchestrator around it                                              *)

\* The stall sweep releases the claim of a cycle that still runs.  Otherwise
\* the claim goes after execute; the hooks before that only keep it longer.
StallReleases(c) ==
    /\ run[c].held
    /\ run' = [run EXCEPT ![c].held = FALSE]
    /\ UNCHANGED <<receipts, issued, active, limits, config, mode, tracing, traces>>

\* noteActivity: an injected task, or any other activity.
NoteActivity ==
    /\ mode = "idle" /\ mode' = "active"
    /\ UNCHANGED <<flow, limits, config, tracing, traces>>

\* The sweep of the governor finds no client, no topic, no claim under way and
\* enough idle time: enterLightweightMode.
EnterIdle ==
    /\ mode = "active" /\ \A c \in Cycles : ~run[c].held
    /\ mode' = "idle"
    /\ active' = <<>>
    /\ ring' = SubSeq(ring, Len(ring) - (IF Len(ring) < IdleTraces THEN Len(ring) ELSE IdleTraces) + 1,
                      Len(ring))
    /\ UNCHANGED <<run, receipts, issued, limits, config, tracing, spans>>

\* workflow_loaded: each setting is taken from the file or left as it is.
Reload(c) ==
    /\ config' = c
    /\ UNCHANGED <<flow, limits, mode, tracing, traces>>

\* TracingBridge.start has resolved: execute gets the bridge from now on.
TracingReady ==
    /\ ~tracing /\ tracing' = TRUE
    /\ UNCHANGED <<flow, limits, config, mode, traces>>

-----------------------------------------------------------------------------

Configs == [primary : Primaries, fallback : Fallbacks]

Init ==
    /\ run = [c \in Cycles |-> [stage |-> "new", trail |-> <<>>, held |-> FALSE, traced |-> FALSE]]
    /\ receipts = {} /\ issued = 0 /\ active = <<>>
    /\ windows = [a \in Primaries |-> <<>>] /\ sent = windows
    /\ config \in Configs
    /\ mode = "active" /\ tracing = FALSE
    /\ spans = [c \in Cycles |-> 0] /\ ring = <<>>

Next ==
    \/ \E c \in Cycles : \/ \E headroom, claimed \in BOOLEAN : Execute(c, headroom, claimed)
                         \/ StallReleases(c)
                         \/ ArchitectEnds(c) \/ OperatorEnds(c) \/ RoleThrows(c)
                         \/ \E passed, stored \in BOOLEAN : VerifierEnds(c, passed, stored)
    \/ NoteActivity \/ EnterIdle \/ TracingReady
    \/ \E c \in Configs : Reload(c)
    \/ Tick

Spec == Init /\ [][Next]_vars

-----------------------------------------------------------------------------
(* Properties                                                              *)

TypeOK ==
    /\ run \in [Cycles -> [stage : Stages, trail : Seq(Phases), held : BOOLEAN, traced : BOOLEAN]]
    /\ receipts \subseteq [cycle : Cycles, passed : BOOLEAN, trail : Seq(Phases)]
    /\ issued \in Nat
    /\ active \in Seq([cycle : Cycles, phase : Phases])
    /\ windows \in [Primaries -> Seq(0..Window + 1)] /\ sent \in [Primaries -> Seq(0..Window)]
    /\ config \in Configs
    /\ mode \in {"active", "idle"} /\ tracing \in BOOLEAN
    /\ spans \in [Cycles -> 0..3] /\ ring \in Seq([cycle : Cycles, children : 0..3])

\* The phases of a cycle follow the table, whatever throws where.
LegalTrail(t) == \A i \in 1..Len(t) - 1 : t[i + 1] \in NextPhases[t[i]]

\* Receipts and cycles agree: a cycle has a receipt exactly if its task is told
\* that it returned, the receipt carries the whole trail up to the terminal
\* phase it announces, and as many were announced to the cockpit as stored.
ReceiptAccounts ==
    /\ \A c \in Cycles : (run[c].stage = "returned") <=> \E r \in receipts : r.cycle = c
    /\ \A r \in receipts : /\ r.trail = run[r.cycle].trail
                           /\ LegalTrail(r.trail) /\ Len(r.trail) = 9
                           /\ r.passed <=> Last(r.trail) = "Succeeded"
    /\ issued = Cardinality(receipts)
    /\ \A c \in Cycles : run[c].stage = "threw" => LegalTrail(run[c].trail) /\ Last(run[c].trail) \in Terminal

\* An agent that serves as architect of choice only, never as fall-back, gets
\* at most maxPerWindow dispatches in any closed window, however cycles, ticks
\* and reloads of the configuration interleave.
WindowHolds == \A a \in Primaries \ Fallbacks : Len(sent[a]) <= MaxPerWindow

\* A phase is on display from the moment it is entered, the display never
\* outgrows its cap, names no cycle twice and shows nobody in an old phase,
\* though entries are evicted and emptied under running cycles.
DisplayStep ==
    /\ Len(active') <= MaxActive
    /\ \A c \in Cycles : run'[c].trail # run[c].trail => Listed(active', c)
    /\ \A i, j \in DOMAIN active' : /\ active'[i].cycle = active'[j].cycle => i = j
                                    /\ active'[i].phase = Last(run'[active'[i].cycle].trail)

ActiveFollowsPhases == [][DisplayStep]_vars

\* No trace is torn: a trace in the ring has a child span for each role that
\* was awaited, and nothing of an ended cycle is left waiting for its root.
TraceIsWhole ==
    /\ \A i \in DOMAIN ring : LET r == run[ring[i].cycle] IN
          /\ r.stage \in {"returned", "threw"} /\ r.traced
          /\ ring[i].children = Cardinality(ToSet(r.trail) \cap
                  {"ArchitectStreaming", "OperatorExecuting", "VerifierAuditing"})
    /\ \A c \in Cycles : run[c].stage \in {"returned", "threw"} => spans[c] = 0
=============================================================================
