------------------------------ MODULE VramGate ------------------------------
(***************************************************************************)
(* The VRAM gate of the architect's routing, from sensor to decision:      *)
(* HardwareMonitor polls nvidia-smi while the orchestrator is active,      *)
(* wireHardware hands each reading to the cockpit (hardwareCache) and to   *)
(* MevBridge (setVramFree), and ResourceGovernor turns the monitor off     *)
(* when nobody has used the orchestrator for a while, and on again.        *)
(*                                                                         *)
(* A poll carries the generation of the monitor it was begun in; all that  *)
(* its end asks is whether that is still the current one.                  *)
(***************************************************************************)
EXTENDS Integers

CONSTANTS
    FreeLevels,   \* free VRAM a poll may read
    Floors,       \* values of vramFloorMb: default and WORKFLOW.md
    IdleAfter     \* idleAfterMs, in ticks

NoReading == [free |-> -1, known |-> FALSE]
Unavailable == [free |-> 0, known |-> FALSE]
Readings == {Unavailable} \cup [free : FreeLevels, known : {TRUE}]

VARIABLES
    gate,    \* vramFreeMb and vramKnown of the bridge
    floor,   \* vramFloorMb
    cache,   \* hardwareCache
    poll,    \* the poll in flight, and whether it is of the current generation
    mode,    \* of the governor; the monitor runs while it is active
    quiet    \* ticks since lastActivityAt

vars == <<gate, floor, cache, poll, mode, quiet>>

-----------------------------------------------------------------------------
(* HardwareMonitor                                                         *)

\* publish and publishUnavailable, with the orchestrator's handler.
Publish(r) == cache' = r /\ gate' = r

\* poll: nothing while one is in flight; a spawn that throws is published.
Poll ==
    \/ poll # "none" /\ UNCHANGED <<poll, cache, gate>>
    \/ poll = "none" /\ poll' = "current" /\ UNCHANGED <<cache, gate>>
    \/ poll = "none" /\ UNCHANGED poll /\ Publish(Unavailable)

\* The interval timer.
PollStarts == mode = "active" /\ poll = "none" /\ Poll /\ UNCHANGED <<floor, mode, quiet>>

\* The child closes, by itself or killed after five seconds.  The result of a
\* poll begun before the monitor was last stopped is dropped.
PollEnds(r) ==
    /\ poll # "none" /\ poll' = "none"
    /\ IF poll = "current" /\ mode = "active" THEN Publish(r) ELSE UNCHANGED <<cache, gate>>
    /\ UNCHANGED <<floor, mode, quiet>>

-----------------------------------------------------------------------------
(* ResourceGovernor and the modes                                          *)

\* noteActivity; from idle mode the monitor starts, with a poll at once.
NoteActivity ==
    /\ quiet' = 0
    /\ \/ mode = "active" /\ UNCHANGED <<mode, poll, cache, gate>>
       \/ mode = "idle" /\ mode' = "active" /\ Poll
    /\ UNCHANGED floor

\* sweep: a client, a topic or a claim under way counts as activity; after
\* idleAfterMs without any, enterLightweightMode stops the monitor.
Sweep(busy) ==
    /\ mode = "active"
    /\ IF busy THEN quiet' = 0 /\ UNCHANGED <<mode, poll, cache>>
       ELSE IF quiet >= IdleAfter
       THEN /\ mode' = "idle" /\ cache' = NoReading
            /\ poll' = IF poll = "none" THEN "none" ELSE "stale"
            /\ UNCHANGED quiet
       ELSE UNCHANGED <<mode, poll, cache, quiet>>
    /\ UNCHANGED <<gate, floor>>

Tick == quiet < IdleAfter /\ quiet' = quiet + 1 /\ UNCHANGED <<gate, floor, cache, poll, mode>>

\* workflow_loaded with another vramFloorMb.
Reload(f) == floor' = f /\ UNCHANGED <<gate, cache, poll, mode, quiet>>

\* The VRAM part of routeArchitect.
Headroom == gate.known /\ gate.free >= floor

-----------------------------------------------------------------------------

\* The monitor is started, with a poll, before anything else can happen.
Init ==
    /\ gate = Unavailable /\ floor \in Floors /\ cache = NoReading
    /\ poll = "current" /\ mode = "active" /\ quiet = 0

Next ==
    \/ PollStarts \/ \E r \in Readings : PollEnds(r)
    \/ NoteActivity \/ \E busy \in BOOLEAN : Sweep(busy)
    \/ Tick \/ \E f \in Floors : Reload(f)

Spec == Init /\ [][Next]_vars

-----------------------------------------------------------------------------
(* Properties                                                              *)

TypeOK ==
    /\ gate \in Readings /\ floor \in Floors /\ cache \in Readings \cup {NoReading}
    /\ poll \in {"none", "current", "stale"} /\ mode \in {"active", "idle"}
    /\ quiet \in 0..IdleAfter

\* As long as the cockpit is shown a reading, the architect is routed by the
\* same one: an unavailable sensor, whatever it said before, never lets a task
\* through to the heavy agent, and a poll of an earlier life changes neither.
GateFollowsCache == cache # NoReading => gate = cache /\ (Headroom => cache.known)
=============================================================================
