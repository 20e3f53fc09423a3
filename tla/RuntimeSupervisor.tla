------------------------- MODULE RuntimeSupervisor -------------------------
(***************************************************************************)
(* AgentRuntimeSupervisor: the local inbox adapters that the orchestrator  *)
(* spawns, one child process per agent, parks when the ResourceGovernor    *)
(* finds the server idle and starts again when it becomes active, and that *)
(* an operator starts, stops and restarts over HTTP.                       *)
(*                                                                         *)
(* A child that is told to stop (SIGTERM) may take its time or ignore it;  *)
(* its exit is an event that may come in any other state of the record.    *)
(* Children of one agent are numbered in the order they were spawned; the  *)
(* number plays the part of the child object and its generation.           *)
(***************************************************************************)
EXTENDS Integers

CONSTANTS
    Agents,         \* supervised agents
    MaxChildren     \* children spawned per agent (a bound of the model)

ASSUME ChildrenAssumption == MaxChildren \in Nat

-----------------------------------------------------------------------------

Children == 1..MaxChildren

NoChild == 0

States == {"stopped", "running", "stopping", "exited", "failed"}

VARIABLES
    phase,       \* the orchestrator: boot, open, closed
    mode,        \* ResourceGovernor.mode
    park,        \* parkOnIdle
    blocked,     \* startupBlocker: unsafe hub directory or no hub secret
    desired,     \* record.desiredState
    state,       \* record.state
    managed,     \* record.managed
    spawned,     \* children spawned so far
    stopTimer,   \* agents whose record.stopTimer is set
    detached,    \* children with the SIGKILL timer of detachAndTerminate
    alive,       \* child processes that run
    termed,      \* children that were sent SIGTERM
    killed       \* children that were sent SIGKILL

config == <<park, blocked>>
records == <<desired, state, managed, spawned, stopTimer>>
processes == <<detached, alive, termed, killed>>
vars == <<phase, mode, config, records, processes>>

-----------------------------------------------------------------------------
(* The records                                                             *)

\* spawnRecord for the records of S, which hold no child or give theirs up: ok
\* are those whose child starts, the others throw or are blocked.
Spawn(S) ==
    \E ok \in IF blocked THEN {{}} ELSE SUBSET S :
       /\ state' = [a \in Agents |-> IF a \in ok THEN "running"
                                     ELSE IF a \in S THEN "failed" ELSE state[a]]
       /\ managed' = [a \in Agents |-> IF a \in ok THEN spawned[a] + 1
                                       ELSE IF a \in S THEN NoChild ELSE managed[a]]
       /\ spawned' = [a \in Agents |-> IF a \in ok THEN spawned[a] + 1 ELSE spawned[a]]
       /\ alive' = alive \cup {<<a, spawned[a] + 1>> : a \in ok}

Childless == {a \in Agents : managed[a] = NoChild}

\* Fault: agents stopped by hand are started with the others.
WantedToo == Childless

\* start passes over the records that have a child, or that were stopped by hand.
Wanted == {a \in Childless : desired[a] = "running"}

\* The bound on children, for the steps that may spawn those of S.
CanSpawn(S) == \A a \in S : spawned[a] < MaxChildren

\* Fault: nothing follows the SIGTERM.
StopWithoutTimer(S) ==
    LET told == {a \in S : managed[a] # NoChild}
    IN  /\ termed' = termed \cup {<<a, managed[a]>> : a \in told}
        /\ UNCHANGED stopTimer
        /\ state' = [a \in Agents |-> IF a \in told THEN "stopping" ELSE state[a]]

\* stopRecord for a record with a child: SIGTERM now, SIGKILL by the timer.
StopChildren(S) ==
    LET told == {a \in S : managed[a] # NoChild}
    IN  /\ termed' = termed \cup {<<a, managed[a]>> : a \in told}
        /\ stopTimer' = stopTimer \cup told
        /\ state' = [a \in Agents |-> IF a \in told THEN "stopping" ELSE state[a]]

\* stopRecord when it is sticky: a record without a child becomes stopped.
StopSticky(S) ==
    LET told == {a \in S : managed[a] # NoChild}
    IN  /\ desired' = [a \in Agents |-> IF a \in S THEN "stopped" ELSE desired[a]]
        /\ termed' = termed \cup {<<a, managed[a]>> : a \in told}
        /\ stopTimer' = stopTimer \cup told
        /\ state' = [a \in Agents |-> IF a \in told THEN "stopping"
                                      ELSE IF a \in S THEN "stopped" ELSE state[a]]

-----------------------------------------------------------------------------
(* The orchestrator                                                        *)

\* The server listens: the supervisor starts all adapters.
Listen ==
    /\ phase = "boot" /\ phase' = "open"
    /\ CanSpawn(Wanted)
    /\ Spawn(Wanted)
    /\ UNCHANGED <<mode, config, desired, stopTimer, detached, termed, killed>>

\* The governor's sweep after a quiet time: adapters are parked.
EnterIdle ==
    /\ phase = "open" /\ mode = "active" /\ mode' = "idle"
    /\ IF park THEN StopChildren(Agents) ELSE UNCHANGED <<state, stopTimer, termed>>
    /\ UNCHANGED <<phase, config, desired, managed, spawned, detached, alive, killed>>

\* noteActivity in idle mode: the adapters that are wanted are started.
EnterActive ==
    /\ phase = "open" /\ mode = "idle" /\ mode' = "active"
    /\ CanSpawn(Wanted)
    /\ Spawn(Wanted)
    /\ UNCHANGED <<phase, config, desired, stopTimer, detached, termed, killed>>

\* close: every adapter is told to stop, and the process exits at once, with
\* its timers.
Close ==
    /\ phase = "open" /\ phase' = "closed"
    /\ StopSticky(Agents)
    /\ UNCHANGED <<mode, config, managed, spawned, detached, alive, killed>>

-----------------------------------------------------------------------------
(* The operator                                                            *)

\* A start or a restart calls noteActivity first: in idle mode EnterActive comes
\* just before it.

\* startAgent: a record that has a child, even one that is stopping, is left as
\* it is.
StartAgent(a) ==
    /\ phase = "open" /\ mode = "active" /\ ~blocked
    /\ desired' = [desired EXCEPT ![a] = "running"]
    /\ IF managed[a] = NoChild
       THEN CanSpawn({a}) /\ Spawn({a})
       ELSE UNCHANGED <<state, managed, spawned, alive>>
    /\ UNCHANGED <<phase, mode, config, stopTimer, detached, termed, killed>>

\* stopAgent, by force or with no work in the hub; a refusal changes nothing.
StopAgent(a) ==
    /\ phase = "open"
    /\ StopSticky({a})
    /\ UNCHANGED <<phase, mode, config, managed, spawned, detached, alive, killed>>

\* Fault: the old child is let go, neither told to stop nor timed.
OldUntimed(a) == {}

\* The child that a restart replaces.
Old(a) == IF managed[a] = NoChild THEN {} ELSE {<<a, managed[a]>>}

\* restartAgent, by force or with no work in the hub: the old child is told to
\* stop under a timer of its own (detachAndTerminate), the new one is spawned at
\* once beside it.
RestartAgent(a) ==
    /\ phase = "open" /\ mode = "active" /\ ~blocked
    /\ desired' = [desired EXCEPT ![a] = "running"]
    /\ termed' = termed \cup Old(a)
    /\ detached' = detached \cup Old(a)
    /\ stopTimer' = stopTimer \ {a}
    /\ CanSpawn({a})
    /\ Spawn({a})
    /\ UNCHANGED <<phase, mode, config, killed>>

-----------------------------------------------------------------------------
(* The children                                                            *)

\* Fault: the exit of an old child is taken for that of the present one.
ExitedUnchecked(a, n) ==
    /\ managed' = [managed EXCEPT ![a] = NoChild]
    /\ stopTimer' = stopTimer \ {a}
    /\ state' = [state EXCEPT ![a] =
                    IF desired[a] = "stopped" \/ state[a] = "stopping" THEN "stopped" ELSE "exited"]

\* handleExit: only the exit of the child the record holds counts.
Exited(a, n) ==
    IF managed[a] = n
    THEN /\ managed' = [managed EXCEPT ![a] = NoChild]
         /\ stopTimer' = stopTimer \ {a}
         /\ state' = [state EXCEPT ![a] =
                         IF desired[a] = "stopped" \/ state[a] = "stopping"
                         THEN "stopped" ELSE "exited"]
    ELSE UNCHANGED <<managed, stopTimer, state>>

\* A child ends, of itself or because it was told to.
ChildExits(a, n) ==
    /\ <<a, n>> \in alive
    /\ alive' = alive \ {<<a, n>>}
    /\ detached' = detached \ {<<a, n>>}
    /\ IF phase = "closed" THEN UNCHANGED <<managed, stopTimer, state>> ELSE Exited(a, n)
    /\ UNCHANGED <<phase, mode, config, desired, spawned, termed, killed>>

\* The error event of a child that could not be started: handleError.
SpawnErrs(a) ==
    /\ phase = "open" /\ managed[a] # NoChild /\ <<a, managed[a]>> \in alive \ termed
    /\ alive' = alive \ {<<a, managed[a]>>}
    /\ managed' = [managed EXCEPT ![a] = NoChild]
    /\ stopTimer' = stopTimer \ {a}
    /\ state' = [state EXCEPT ![a] = "failed"]
    /\ UNCHANGED <<phase, mode, config, desired, spawned, detached, termed, killed>>

\* DEFAULT_STOP_TIMEOUT_MS, or the timeout of the request, after a SIGTERM.
StopTimerFires(a) ==
    /\ phase = "open" /\ a \in stopTimer
    /\ stopTimer' = stopTimer \ {a}
    /\ killed' = killed \cup {<<a, managed[a]>>}
    /\ UNCHANGED <<phase, mode, config, desired, state, managed, spawned, detached, alive,
                   termed>>

\* The same for a child that a restart replaced.
DetachTimerFires(a, n) ==
    /\ phase = "open" /\ <<a, n>> \in detached
    /\ detached' = detached \ {<<a, n>>}
    /\ killed' = killed \cup {<<a, n>>}
    /\ UNCHANGED <<phase, mode, config, records, alive, termed>>

-----------------------------------------------------------------------------

Init ==
    /\ phase = "boot" /\ mode = "active"
    /\ park \in BOOLEAN /\ blocked \in BOOLEAN
    /\ desired = [a \in Agents |-> "running"]
    /\ state = [a \in Agents |-> "stopped"]
    /\ managed = [a \in Agents |-> NoChild]
    /\ spawned = [a \in Agents |-> 0]
    /\ stopTimer = {}
    /\ detached = {} /\ alive = {} /\ termed = {} /\ killed = {}

Next ==
    \/ Listen \/ EnterIdle \/ EnterActive \/ Close
    \/ \E a \in Agents :
          \/ StartAgent(a) \/ StopAgent(a) \/ RestartAgent(a)
          \/ SpawnErrs(a) \/ StopTimerFires(a)
          \/ \E n \in Children : ChildExits(a, n) \/ DetachTimerFires(a, n)

Spec == Init /\ [][Next]_vars

\* Timers fire, and a child that was killed exits; one that was only asked to
\* may stay.
FairSpec ==
    /\ Spec
    /\ \A a \in Agents :
          /\ WF_vars(StopTimerFires(a))
          /\ \A n \in Children : /\ WF_vars(DetachTimerFires(a, n))
                                 /\ WF_vars(<<a, n>> \in killed /\ ChildExits(a, n))

-----------------------------------------------------------------------------
(* Properties                                                              *)

Processes == Agents \X Children

TypeOK ==
    /\ phase \in {"boot", "open", "closed"} /\ mode \in {"active", "idle"}
    /\ park \in BOOLEAN /\ blocked \in BOOLEAN
    /\ desired \in [Agents -> {"running", "stopped"}]
    /\ state \in [Agents -> States]
    /\ spawned \in [Agents -> 0..MaxChildren]
    /\ managed \in [Agents -> 0..MaxChildren]
    /\ stopTimer \subseteq Agents
    /\ alive \subseteq Processes /\ termed \subseteq Processes
    /\ detached \subseteq Processes /\ killed \subseteq Processes
    /\ \A p \in alive : p[2] <= spawned[p[1]]

\* No child is left to itself: each that runs is the one its record holds, or
\* has been told to stop with a SIGKILL to follow, through restarts, parking and
\* exits that come late.
NoStrays ==
    phase # "closed" =>
       \A a \in Agents, n \in Children :
          <<a, n>> \in alive => managed[a] = n \/ <<a, n>> \in detached \cup killed

\* "The supervisor sends SIGTERM": when the orchestrator has closed, every child
\* that still runs was told to stop, those that restarts replaced included.
ShutdownTellsAll == phase = "closed" => alive \subseteq termed

\* A record that shows stopping has its child under a SIGKILL timer or killed.
StoppingIsEnforced ==
    phase # "closed" =>
       \A a \in Agents :
          state[a] = "stopping" =>
             managed[a] # NoChild /\ (a \in stopTimer \/ <<a, managed[a]>> \in killed)

\* A manual stop is sticky (options.sticky): what the operator stopped is stopped or stopping,
\* whatever parking, waking and late exits come after, until a start or restart.
ManualStopSticks ==
    \A a \in Agents : desired[a] = "stopped" => state[a] \in {"stopped", "stopping"}

\* "Resource mode stops adapters on idle and restarts them on active use": while
\* the server is active no adapter that is wanted lies parked (violated: one
\* that is still stopping when the server wakes is passed over and stays down).
WakingRestartsParked ==
    phase = "open" /\ mode = "active" =>
       \A a \in Agents : desired[a] = "running" => state[a] # "stopped"

\* A child that was told to stop is gone in the end, even if it ignores SIGTERM,
\* unless the orchestrator itself is closed before.
ToldToStopEnds ==
    \A a \in Agents, n \in Children :
       <<a, n>> \in termed ~> (<<a, n>> \notin alive \/ phase = "closed")
=============================================================================
