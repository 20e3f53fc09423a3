----------------------- MODULE RuntimeSupervisorProofs -----------------------
(***************************************************************************)
(* Proofs about RuntimeSupervisor for every set of agents and any number   *)
(* of children each.                                                       *)
(***************************************************************************)
EXTENDS RuntimeSupervisor, TLAPS

\* SIGKILL is only ever due, or sent, after SIGTERM.
KilledWasTold == detached \cup killed \subseteq termed

\* A stop timer is armed for the child the record holds, which was told to stop.
TimerIsForHeld ==
    \A a \in stopTimer : managed[a] # NoChild /\ <<a, managed[a]>> \in termed

\* A record that holds a child shows it as running or stopping.
HeldIsShown ==
    \A a \in Agents : managed[a] # NoChild => state[a] \in {"running", "stopping"}

IInv ==
    /\ TypeOK
    /\ NoStrays
    /\ KilledWasTold
    /\ TimerIsForHeld
    /\ HeldIsShown
    /\ StoppingIsEnforced
    /\ ManualStopSticks
    /\ ShutdownTellsAll

-----------------------------------------------------------------------------

\* What spawnRecord leaves behind for the records of S and for the others.
LEMMA SpawnFacts ==
    ASSUME TypeOK, NEW S \in SUBSET Agents, CanSpawn(S), Spawn(S)
    PROVE  /\ state' \in [Agents -> States]
           /\ managed' \in [Agents -> 0..MaxChildren]
           /\ spawned' \in [Agents -> 0..MaxChildren]
           /\ alive' \subseteq Processes
           /\ \A p \in alive' : p[2] <= spawned'[p[1]]
           /\ \A a \in Agents \ S : state'[a] = state[a] /\ managed'[a] = managed[a]
           /\ \A a \in S : \/ state'[a] = "running" /\ managed'[a] \in Children
                           \/ state'[a] = "failed" /\ managed'[a] = NoChild
           /\ \A a \in Agents, n \in Children :
                 <<a, n>> \in alive' => <<a, n>> \in alive \/ (a \in S /\ managed'[a] = n)
<1>1. PICK ok \in SUBSET S :
        /\ state' = [a \in Agents |-> IF a \in ok THEN "running"
                                      ELSE IF a \in S THEN "failed" ELSE state[a]]
        /\ managed' = [a \in Agents |-> IF a \in ok THEN spawned[a] + 1
                                        ELSE IF a \in S THEN NoChild ELSE managed[a]]
        /\ spawned' = [a \in Agents |-> IF a \in ok THEN spawned[a] + 1 ELSE spawned[a]]
        /\ alive' = alive \cup {<<a, spawned[a] + 1>> : a \in ok}
  BY DEF Spawn
<1>2. \A a \in S : spawned[a] + 1 \in Children
  BY ChildrenAssumption DEF TypeOK, CanSpawn, Children
<1>3. \A a \in Agents : spawned[a] \in Int /\ managed[a] \in 0..MaxChildren
  BY ChildrenAssumption DEF TypeOK
<1>4. Children \subseteq 0..MaxChildren /\ NoChild \in 0..MaxChildren
  BY ChildrenAssumption DEF Children, NoChild
<1>5. state' \in [Agents -> States]
  BY <1>1 DEF TypeOK, States
<1>6. managed' \in [Agents -> 0..MaxChildren]
  BY <1>1, <1>2, <1>3, <1>4
<1>7. spawned' \in [Agents -> 0..MaxChildren]
  BY <1>1, <1>2, <1>4 DEF TypeOK
<1>8. alive' \subseteq Processes
  BY <1>1, <1>2 DEF TypeOK, Processes
<1>9. \A p \in alive' : p[2] <= spawned'[p[1]]
  <2> SUFFICES ASSUME NEW p \in alive' PROVE p[2] <= spawned'[p[1]]
    OBVIOUS
  <2>1. CASE p \in alive
    <3>1. p[1] \in Agents /\ p[2] \in Children /\ p[2] <= spawned[p[1]]
      BY <2>1 DEF TypeOK, Processes
    <3>2. spawned'[p[1]] >= spawned[p[1]]
      BY <1>1, <1>3, <3>1
    <3> QED BY <1>3, <3>1, <3>2, <1>7, ChildrenAssumption DEF Children
  <2>2. CASE p \notin alive
    <3>1. PICK a \in ok : p = <<a, spawned[a] + 1>>
      BY <1>1, <2>2
    <3>2. spawned'[a] = spawned[a] + 1
      BY <1>1
    <3> QED BY <1>3, <3>1, <3>2
  <2> QED BY <2>1, <2>2
<1>10. \A a \in Agents \ S : state'[a] = state[a] /\ managed'[a] = managed[a]
  BY <1>1
<1>11. \A a \in S : \/ state'[a] = "running" /\ managed'[a] \in Children
                    \/ state'[a] = "failed" /\ managed'[a] = NoChild
  BY <1>1, <1>2
<1>12. ASSUME NEW a \in Agents, NEW n \in Children, <<a, n>> \in alive', <<a, n>> \notin alive
       PROVE  a \in S /\ managed'[a] = n
  <2>1. PICK b \in ok : <<a, n>> = <<b, spawned[b] + 1>>
    BY <1>1, <1>12
  <2> QED BY <1>1, <2>1
<1> QED BY <1>5, <1>6, <1>7, <1>8, <1>9, <1>10, <1>11, <1>12

\* What stopRecord does to the records that hold a child.
LEMMA HeldChild ==
    ASSUME TypeOK, NEW a \in Agents, managed[a] # NoChild
    PROVE  managed[a] \in Children /\ <<a, managed[a]>> \in Processes
BY ChildrenAssumption DEF TypeOK, Children, NoChild, Processes

-----------------------------------------------------------------------------

\* Nothing runs before the server listens.
LEMMA InitIInv == Init => IInv
<1> SUFFICES ASSUME Init PROVE IInv
  OBVIOUS
<1>1. TypeOK
  BY ChildrenAssumption DEF Init, TypeOK, States, NoChild, Children
<1> QED BY <1>1 DEF Init, IInv, NoStrays, KilledWasTold, TimerIsForHeld, HeldIsShown,
              StoppingIsEnforced, ManualStopSticks, ShutdownTellsAll

\* The first start spawns records that hold nothing.
LEMMA ListenStep ==
    ASSUME IInv, Listen
    PROVE  IInv'
<1> USE DEF IInv
<1>1. Wanted \in SUBSET Agents /\ CanSpawn(Wanted) /\ Spawn(Wanted)
  BY DEF Listen, Wanted, Childless
<1>2. \A a \in Wanted : managed[a] = NoChild /\ desired[a] = "running"
  BY DEF Wanted, Childless
<1>3. UNCHANGED <<desired, stopTimer, detached, termed, killed, park, blocked>>
  BY DEF Listen, config
<1>4. phase # "closed" /\ phase' = "open" /\ mode' \in {"active", "idle"}
  BY DEF Listen, TypeOK
<1>a. TypeOK'
  BY <1>1, <1>3, <1>4, SpawnFacts DEF TypeOK
<1>b. NoStrays'
  BY <1>1, <1>2, <1>3, <1>4, SpawnFacts DEF NoStrays, NoChild, Children
<1>c. KilledWasTold'
  BY <1>3 DEF KilledWasTold
<1>d. TimerIsForHeld'
  <2> SUFFICES ASSUME NEW a \in stopTimer' PROVE managed'[a] # NoChild /\ <<a, managed'[a]>> \in termed'
    BY DEF TimerIsForHeld
  <2>1. a \in Agents /\ a \in stopTimer /\ managed[a] # NoChild /\ <<a, managed[a]>> \in termed
    BY <1>3 DEF TypeOK, TimerIsForHeld
  <2>2. managed'[a] = managed[a]
    BY <1>1, <1>2, <2>1, SpawnFacts
  <2> QED BY <1>3, <2>1, <2>2
<1>e. HeldIsShown'
  BY <1>1, SpawnFacts DEF HeldIsShown
<1>f. StoppingIsEnforced'
  BY <1>1, <1>3, <1>4, SpawnFacts DEF StoppingIsEnforced
<1>g. ManualStopSticks'
  BY <1>1, <1>2, <1>3, SpawnFacts DEF ManualStopSticks
<1>h. ShutdownTellsAll'
  BY <1>4 DEF ShutdownTellsAll
<1> QED BY <1>a, <1>b, <1>c, <1>d, <1>e, <1>f, <1>g, <1>h DEF IInv

\* Waking passes over every record that holds a child or was stopped by hand.
LEMMA EnterActiveStep ==
    ASSUME IInv, EnterActive
    PROVE  IInv'
<1> USE DEF IInv
<1>1. Wanted \in SUBSET Agents /\ CanSpawn(Wanted) /\ Spawn(Wanted)
  BY DEF EnterActive, Wanted, Childless
<1>2. \A a \in Wanted : managed[a] = NoChild /\ desired[a] = "running"
  BY DEF Wanted, Childless
<1>3. UNCHANGED <<desired, stopTimer, detached, termed, killed, park, blocked>>
  BY DEF EnterActive, config
<1>4. phase # "closed" /\ phase' = "open" /\ mode' \in {"active", "idle"}
  BY DEF EnterActive, TypeOK
<1>a. TypeOK'
  BY <1>1, <1>3, <1>4, SpawnFacts DEF TypeOK
<1>b. NoStrays'
  BY <1>1, <1>2, <1>3, <1>4, SpawnFacts DEF NoStrays, NoChild, Children
<1>c. KilledWasTold'
  BY <1>3 DEF KilledWasTold
<1>d. TimerIsForHeld'
  <2> SUFFICES ASSUME NEW a \in stopTimer' PROVE managed'[a] # NoChild /\ <<a, managed'[a]>> \in termed'
    BY DEF TimerIsForHeld
  <2>1. a \in Agents /\ a \in stopTimer /\ managed[a] # NoChild /\ <<a, managed[a]>> \in termed
    BY <1>3 DEF TypeOK, TimerIsForHeld
  <2>2. managed'[a] = managed[a]
    BY <1>1, <1>2, <2>1, SpawnFacts
  <2> QED BY <1>3, <2>1, <2>2
<1>e. HeldIsShown'
  BY <1>1, SpawnFacts DEF HeldIsShown
<1>f. StoppingIsEnforced'
  BY <1>1, <1>3, <1>4, SpawnFacts DEF StoppingIsEnforced
<1>g. ManualStopSticks'
  BY <1>1, <1>2, <1>3, SpawnFacts DEF ManualStopSticks
<1>h. ShutdownTellsAll'
  BY <1>4 DEF ShutdownTellsAll
<1> QED BY <1>a, <1>b, <1>c, <1>d, <1>e, <1>f, <1>g, <1>h DEF IInv

\* Told to stop: the children of S get SIGTERM and a timer, their records show it.
LEMMA ToldStep ==
    ASSUME IInv, NEW S \in SUBSET Agents, phase = "open", phase' \in {"open", "closed"},
           mode' \in {"active", "idle"}, phase' = "closed" => S = Agents,
           UNCHANGED <<park, blocked, managed, spawned, detached, alive, killed>>,
           NEW told \in SUBSET S, told = {a \in S : managed[a] # NoChild},
           termed' = termed \cup {<<a, managed[a]>> : a \in told},
           stopTimer' = stopTimer \cup told,
           desired' \in [Agents -> {"running", "stopped"}],
           state' \in [Agents -> States],
           \A a \in told : state'[a] = "stopping",
           \A a \in Agents \ told :
              \/ state'[a] = state[a] /\ (desired'[a] = "stopped" => desired[a] = "stopped")
              \/ state'[a] = "stopped" /\ managed[a] = NoChild
    PROVE  IInv'
<1> USE DEF IInv
<1>1. \A a \in told : managed[a] # NoChild /\ <<a, managed[a]>> \in Processes
  BY HeldChild
<1>2. \A a \in told : <<a, managed[a]>> \in termed'
  OBVIOUS
<1>a. TypeOK'
  BY <1>1 DEF TypeOK
<1>b. NoStrays'
  BY DEF NoStrays
<1>c. KilledWasTold'
  BY DEF KilledWasTold
<1>d. TimerIsForHeld'
  BY <1>1, <1>2 DEF TimerIsForHeld
<1>e. HeldIsShown'
  BY DEF HeldIsShown
<1>f. StoppingIsEnforced'
  BY <1>1 DEF StoppingIsEnforced
<1>g. ManualStopSticks'
  BY DEF ManualStopSticks
<1>h. ShutdownTellsAll'
  <2> SUFFICES ASSUME phase' = "closed", NEW p \in alive PROVE p \in termed'
    BY DEF ShutdownTellsAll
  <2>1. PICK a \in Agents, n \in Children : p = <<a, n>>
    BY DEF TypeOK, Processes
  <2>2. CASE managed[a] = n
    <3>1. a \in told
      BY <2>2, ChildrenAssumption DEF Children, NoChild
    <3> QED BY <1>2, <2>1, <2>2, <3>1
  <2>3. CASE <<a, n>> \in detached \cup killed
    BY <2>1, <2>3 DEF KilledWasTold
  <2> QED BY <2>1, <2>2, <2>3 DEF NoStrays
<1> QED BY <1>a, <1>b, <1>c, <1>d, <1>e, <1>f, <1>g, <1>h DEF IInv

\* Parking tells all children, or does nothing.
LEMMA EnterIdleStep ==
    ASSUME IInv, EnterIdle
    PROVE  IInv'
<1>1. CASE park
  <2> DEFINE told == {a \in Agents : managed[a] # NoChild}
  <2>1. StopChildren(Agents)
    BY <1>1 DEF EnterIdle
  <2>2. termed' = termed \cup {<<a, managed[a]>> : a \in told} /\ stopTimer' = stopTimer \cup told
    BY <2>1 DEF StopChildren
  <2>3. state' = [a \in Agents |-> IF a \in told THEN "stopping" ELSE state[a]]
    BY <2>1 DEF StopChildren
  <2>4. /\ phase = "open" /\ phase' = "open" /\ mode' = "idle" /\ desired' = desired
        /\ UNCHANGED <<park, blocked, managed, spawned, detached, alive, killed>>
    BY DEF EnterIdle, config
  <2>5. state' \in [Agents -> States] /\ desired' \in [Agents -> {"running", "stopped"}]
    BY <2>3, <2>4 DEF IInv, TypeOK, States
  <2> QED BY <2>2, <2>3, <2>4, <2>5, ToldStep
<1>2. CASE ~park
  <2>1. /\ phase = "open" /\ phase' = "open" /\ mode' = "idle" /\ UNCHANGED <<records, processes, config>>
    BY <1>2 DEF EnterIdle, records, processes
  <2> QED BY <2>1 DEF IInv, TypeOK, NoStrays, KilledWasTold, TimerIsForHeld, HeldIsShown,
        StoppingIsEnforced, ManualStopSticks, ShutdownTellsAll, records, processes, config
<1> QED BY <1>1, <1>2 DEF IInv, TypeOK

\* A stop that sticks tells the children of S, and its other records are stopped.
LEMMA StickyStep ==
    ASSUME IInv, NEW S \in SUBSET Agents, StopSticky(S), phase = "open",
           phase' \in {"open", "closed"}, phase' = "closed" => S = Agents,
           UNCHANGED <<mode, config, managed, spawned, detached, alive, killed>>
    PROVE  IInv'
<1> DEFINE told == {a \in S : managed[a] # NoChild}
<1>1. termed' = termed \cup {<<a, managed[a]>> : a \in told} /\ stopTimer' = stopTimer \cup told
  BY DEF StopSticky
<1>2. /\ desired' = [a \in Agents |-> IF a \in S THEN "stopped" ELSE desired[a]]
      /\ state' = [a \in Agents |-> IF a \in told THEN "stopping"
                                    ELSE IF a \in S THEN "stopped" ELSE state[a]]
  BY DEF StopSticky
<1>3. state' \in [Agents -> States] /\ desired' \in [Agents -> {"running", "stopped"}]
  BY <1>2 DEF IInv, TypeOK, States
<1>4. UNCHANGED <<park, blocked, managed, spawned, detached, alive, killed>> /\ mode' \in {"active", "idle"}
  BY DEF config, IInv, TypeOK
<1>5. \A a \in Agents \ told :
         \/ state'[a] = state[a] /\ (desired'[a] = "stopped" => desired[a] = "stopped")
         \/ state'[a] = "stopped" /\ managed[a] = NoChild
  BY <1>2
<1>6. \A a \in told : state'[a] = "stopping"
  BY <1>2
<1> QED BY <1>1, <1>3, <1>4, <1>5, <1>6, ToldStep

\* Closing tells every child.
LEMMA CloseStep ==
    ASSUME IInv, Close
    PROVE  IInv'
BY StickyStep DEF Close

\* A manual stop.
LEMMA StopAgentStep ==
    ASSUME IInv, NEW a \in Agents, StopAgent(a)
    PROVE  IInv'
<1>1. phase = "open" /\ phase' = "open" /\ StopSticky({a})
  BY DEF StopAgent
<1> QED BY <1>1, StickyStep DEF StopAgent

\* A start spawns a child only where there is none.
LEMMA StartAgentStep ==
    ASSUME IInv, NEW b \in Agents, StartAgent(b)
    PROVE  IInv'
<1> USE DEF IInv
<1>1. /\ phase = "open" /\ phase' = "open" /\ desired' = [desired EXCEPT ![b] = "running"]
      /\ UNCHANGED <<mode, park, blocked, stopTimer, detached, termed, killed>>
  BY DEF StartAgent, config
<1>2. \/ managed[b] = NoChild /\ CanSpawn({b}) /\ Spawn({b})
      \/ managed[b] # NoChild /\ UNCHANGED <<state, managed, spawned, alive>>
  BY DEF StartAgent
<1>3. desired' \in [Agents -> {"running", "stopped"}]
  BY <1>1 DEF TypeOK
<1>a. TypeOK'
  BY <1>1, <1>2, <1>3, SpawnFacts DEF TypeOK
<1>b. NoStrays'
  BY <1>1, <1>2, SpawnFacts DEF NoStrays, NoChild, Children
<1>c. KilledWasTold'
  BY <1>1 DEF KilledWasTold
<1>d. TimerIsForHeld'
  <2> SUFFICES ASSUME NEW a \in stopTimer' PROVE managed'[a] # NoChild /\ <<a, managed'[a]>> \in termed'
    BY DEF TimerIsForHeld
  <2>1. a \in Agents /\ a \in stopTimer /\ managed[a] # NoChild /\ <<a, managed[a]>> \in termed
    BY <1>1 DEF TypeOK, TimerIsForHeld
  <2>2. managed'[a] = managed[a]
    BY <1>2, <2>1, SpawnFacts
  <2> QED BY <1>1, <2>1, <2>2
<1>e. HeldIsShown'
  BY <1>2, SpawnFacts DEF HeldIsShown
<1>f. StoppingIsEnforced'
  BY <1>1, <1>2, SpawnFacts DEF StoppingIsEnforced
<1>g. ManualStopSticks'
  BY <1>1, <1>2, SpawnFacts DEF ManualStopSticks, TypeOK
<1>h. ShutdownTellsAll'
  BY <1>1 DEF ShutdownTellsAll
<1> QED BY <1>a, <1>b, <1>c, <1>d, <1>e, <1>f, <1>g, <1>h DEF IInv

\* A restart puts the child it replaces under a SIGKILL timer.
LEMMA RestartAgentStep ==
    ASSUME IInv, NEW b \in Agents, RestartAgent(b)
    PROVE  IInv'
<1> USE DEF IInv
<1>1. /\ phase = "open" /\ phase' = "open" /\ desired' = [desired EXCEPT ![b] = "running"]
      /\ termed' = termed \cup Old(b) /\ detached' = detached \cup Old(b)
      /\ stopTimer' = stopTimer \ {b}
      /\ UNCHANGED <<mode, park, blocked, killed>>
  BY DEF RestartAgent, config
<1>2. {b} \in SUBSET Agents /\ CanSpawn({b}) /\ Spawn({b})
  BY DEF RestartAgent
<1>3. desired' \in [Agents -> {"running", "stopped"}]
  BY <1>1 DEF TypeOK
<1>4. Old(b) \subseteq Processes /\ (managed[b] # NoChild => <<b, managed[b]>> \in Old(b))
  BY HeldChild DEF Old
<1>a. TypeOK'
  BY <1>1, <1>2, <1>3, <1>4, SpawnFacts DEF TypeOK
<1>b. NoStrays'
  <2> SUFFICES ASSUME NEW a \in Agents, NEW n \in Children, <<a, n>> \in alive'
               PROVE  managed'[a] = n \/ <<a, n>> \in detached' \cup killed'
    BY DEF NoStrays
  <2>1. CASE <<a, n>> \notin alive
    BY <1>2, <2>1, SpawnFacts
  <2>2. CASE <<a, n>> \in detached \cup killed
    BY <1>1, <2>2
  <2>3. CASE managed[a] = n /\ a = b
    BY <1>1, <1>4, <2>3, ChildrenAssumption DEF NoChild, Children
  <2>4. CASE managed[a] = n /\ a # b
    BY <1>2, <2>4, SpawnFacts
  <2> QED BY <1>1, <2>1, <2>2, <2>3, <2>4 DEF NoStrays
<1>c. KilledWasTold'
  BY <1>1 DEF KilledWasTold
<1>d. TimerIsForHeld'
  BY <1>1, <1>2, SpawnFacts DEF TimerIsForHeld, TypeOK
<1>e. HeldIsShown'
  BY <1>2, SpawnFacts DEF HeldIsShown
<1>f. StoppingIsEnforced'
  BY <1>1, <1>2, SpawnFacts DEF StoppingIsEnforced
<1>g. ManualStopSticks'
  BY <1>1, <1>2, SpawnFacts DEF ManualStopSticks, TypeOK
<1>h. ShutdownTellsAll'
  BY <1>1 DEF ShutdownTellsAll
<1> QED BY <1>a, <1>b, <1>c, <1>d, <1>e, <1>f, <1>g, <1>h DEF IInv

\* An exit clears the record only if the record holds that child.
LEMMA ChildExitsStep ==
    ASSUME IInv, NEW b \in Agents, NEW m \in Children, ChildExits(b, m)
    PROVE  IInv'
<1> USE DEF IInv
<1>1. /\ alive' = alive \ {<<b, m>>} /\ detached' = detached \ {<<b, m>>}
      /\ UNCHANGED <<phase, mode, park, blocked, desired, spawned, termed, killed>>
  BY DEF ChildExits, config
<1>2. \/ UNCHANGED <<managed, stopTimer, state>> /\ (phase = "closed" \/ managed[b] # m)
      \/ /\ managed[b] = m
         /\ managed' = [managed EXCEPT ![b] = NoChild]
         /\ stopTimer' = stopTimer \ {b}
         /\ \/ state' = [state EXCEPT ![b] = "stopped"]
            \/ state' = [state EXCEPT ![b] = "exited"] /\ desired[b] # "stopped"
  BY DEF ChildExits, Exited
<1>a. TypeOK'
  BY <1>1, <1>2, ChildrenAssumption DEF TypeOK, States, NoChild
<1>b. NoStrays'
  BY <1>1, <1>2 DEF NoStrays, TypeOK
<1>c. KilledWasTold'
  BY <1>1 DEF KilledWasTold
<1>d. TimerIsForHeld'
  BY <1>1, <1>2 DEF TimerIsForHeld, TypeOK
<1>e. HeldIsShown'
  BY <1>2 DEF HeldIsShown, TypeOK
<1>f. StoppingIsEnforced'
  BY <1>1, <1>2 DEF StoppingIsEnforced, TypeOK
<1>g. ManualStopSticks'
  BY <1>1, <1>2 DEF ManualStopSticks, TypeOK
<1>h. ShutdownTellsAll'
  BY <1>1 DEF ShutdownTellsAll
<1> QED BY <1>a, <1>b, <1>c, <1>d, <1>e, <1>f, <1>g, <1>h DEF IInv

\* An error event ends a child nobody told to stop, so not one stopped by hand.
LEMMA SpawnErrsStep ==
    ASSUME IInv, NEW b \in Agents, SpawnErrs(b)
    PROVE  IInv'
<1> USE DEF IInv
<1>1. /\ phase = "open" /\ managed[b] # NoChild /\ <<b, managed[b]>> \notin termed
      /\ alive' = alive \ {<<b, managed[b]>>}
      /\ managed' = [managed EXCEPT ![b] = NoChild]
      /\ stopTimer' = stopTimer \ {b}
      /\ state' = [state EXCEPT ![b] = "failed"]
      /\ UNCHANGED <<phase, mode, park, blocked, desired, spawned, detached, termed, killed>>
  BY DEF SpawnErrs, config
<1>2. state[b] # "stopping"
  BY <1>1 DEF StoppingIsEnforced, KilledWasTold, TimerIsForHeld
<1>3. desired[b] # "stopped"
  BY <1>1, <1>2 DEF HeldIsShown, ManualStopSticks
<1>a. TypeOK'
  BY <1>1, ChildrenAssumption DEF TypeOK, States, NoChild
<1>b. NoStrays'
  BY <1>1 DEF NoStrays, TypeOK
<1>c. KilledWasTold'
  BY <1>1 DEF KilledWasTold
<1>d. TimerIsForHeld'
  BY <1>1 DEF TimerIsForHeld, TypeOK
<1>e. HeldIsShown'
  BY <1>1 DEF HeldIsShown, TypeOK
<1>f. StoppingIsEnforced'
  BY <1>1 DEF StoppingIsEnforced, TypeOK
<1>g. ManualStopSticks'
  BY <1>1, <1>3 DEF ManualStopSticks, TypeOK
<1>h. ShutdownTellsAll'
  BY <1>1 DEF ShutdownTellsAll
<1> QED BY <1>a, <1>b, <1>c, <1>d, <1>e, <1>f, <1>g, <1>h DEF IInv

\* The stop timer kills the child it was armed for.
LEMMA StopTimerFiresStep ==
    ASSUME IInv, NEW b \in Agents, StopTimerFires(b)
    PROVE  IInv'
<1> USE DEF IInv
<1>1. /\ phase = "open" /\ b \in stopTimer /\ stopTimer' = stopTimer \ {b}
      /\ killed' = killed \cup {<<b, managed[b]>>}
      /\ UNCHANGED <<phase, mode, park, blocked, desired, state, managed, spawned, detached, alive, termed>>
  BY DEF StopTimerFires, config
<1>2. <<b, managed[b]>> \in termed
  BY <1>1 DEF TimerIsForHeld
<1>a. TypeOK'
  BY <1>1, <1>2 DEF TypeOK
<1>b. NoStrays'
  BY <1>1 DEF NoStrays
<1>c. KilledWasTold'
  BY <1>1, <1>2 DEF KilledWasTold
<1>d. TimerIsForHeld'
  BY <1>1 DEF TimerIsForHeld
<1>e. HeldIsShown'
  BY <1>1 DEF HeldIsShown
<1>f. StoppingIsEnforced'
  BY <1>1 DEF StoppingIsEnforced
<1>g. ManualStopSticks'
  BY <1>1 DEF ManualStopSticks
<1>h. ShutdownTellsAll'
  BY <1>1 DEF ShutdownTellsAll
<1> QED BY <1>a, <1>b, <1>c, <1>d, <1>e, <1>f, <1>g, <1>h DEF IInv

\* The timer of a replaced child kills that child.
LEMMA DetachTimerFiresStep ==
    ASSUME IInv, NEW b \in Agents, NEW m \in Children, DetachTimerFires(b, m)
    PROVE  IInv'
<1> USE DEF IInv
<1>1. /\ phase = "open" /\ <<b, m>> \in detached /\ detached' = detached \ {<<b, m>>}
      /\ killed' = killed \cup {<<b, m>>}
      /\ UNCHANGED <<phase, mode, park, blocked, desired, state, managed, spawned, stopTimer, alive, termed>>
  BY DEF DetachTimerFires, config, records
<1>a. TypeOK'
  BY <1>1 DEF TypeOK
<1>b. NoStrays'
  BY <1>1 DEF NoStrays
<1>c. KilledWasTold'
  BY <1>1 DEF KilledWasTold
<1>d. TimerIsForHeld'
  BY <1>1 DEF TimerIsForHeld
<1>e. HeldIsShown'
  BY <1>1 DEF HeldIsShown
<1>f. StoppingIsEnforced'
  BY <1>1 DEF StoppingIsEnforced
<1>g. ManualStopSticks'
  BY <1>1 DEF ManualStopSticks
<1>h. ShutdownTellsAll'
  BY <1>1 DEF ShutdownTellsAll
<1> QED BY <1>a, <1>b, <1>c, <1>d, <1>e, <1>f, <1>g, <1>h DEF IInv

\* Every step keeps the invariant.
LEMMA NextIInv == IInv /\ [Next]_vars => IInv'
<1> SUFFICES ASSUME IInv, [Next]_vars PROVE IInv'
  OBVIOUS
<1>1. CASE Listen
  BY <1>1, ListenStep
<1>2. CASE EnterIdle
  BY <1>2, EnterIdleStep
<1>3. CASE EnterActive
  BY <1>3, EnterActiveStep
<1>4. CASE Close
  BY <1>4, CloseStep
<1>5. ASSUME NEW a \in Agents, StartAgent(a) \/ StopAgent(a) \/ RestartAgent(a)
      PROVE  IInv'
  BY <1>5, StartAgentStep, StopAgentStep, RestartAgentStep
<1>6. ASSUME NEW a \in Agents, SpawnErrs(a) \/ StopTimerFires(a)
      PROVE  IInv'
  BY <1>6, SpawnErrsStep, StopTimerFiresStep
<1>7. ASSUME NEW a \in Agents, NEW n \in Children, ChildExits(a, n) \/ DetachTimerFires(a, n)
      PROVE  IInv'
  BY <1>7, ChildExitsStep, DetachTimerFiresStep
<1>8. CASE UNCHANGED vars
  BY <1>8 DEF IInv, TypeOK, NoStrays, KilledWasTold, TimerIsForHeld, HeldIsShown,
        StoppingIsEnforced, ManualStopSticks, ShutdownTellsAll, vars, config, records, processes
<1> QED BY <1>1, <1>2, <1>3, <1>4, <1>5, <1>6, <1>7, <1>8 DEF Next

\* The strengthened invariant holds in every reachable state.
THEOREM Invariance == Spec => []IInv
BY InitIInv, NextIInv, PTL DEF Spec

\* The supervisor's variables keep their types, whatever exits when.
THEOREM TypeCorrect == Spec => []TypeOK
<1>1. IInv => TypeOK
  BY DEF IInv
<1> QED BY <1>1, Invariance, PTL

\* handleExit and detachAndTerminate never lose a running child.
THEOREM StraysExcluded == Spec => []NoStrays
<1>1. IInv => NoStrays
  BY DEF IInv
<1> QED BY <1>1, Invariance, PTL

\* close tells every child that runs to stop, the replaced ones included.
THEOREM ShutdownComplete == Spec => []ShutdownTellsAll
<1>1. IInv => ShutdownTellsAll
  BY DEF IInv
<1> QED BY <1>1, Invariance, PTL

\* A record that shows stopping has a SIGKILL to follow.
THEOREM StopsEnforced == Spec => []StoppingIsEnforced
<1>1. IInv => StoppingIsEnforced
  BY DEF IInv
<1> QED BY <1>1, Invariance, PTL

\* Parking, waking and late exits never undo a manual stop.
THEOREM ManualStopKept == Spec => []ManualStopSticks
<1>1. IInv => ManualStopSticks
  BY DEF IInv
<1> QED BY <1>1, Invariance, PTL

=============================================================================
