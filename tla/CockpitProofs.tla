----------------------------- MODULE CockpitProofs ----------------------------
(***************************************************************************)
(* Proofs about the host where it serves the cockpit, and about the        *)
(* cockpit: the triad's cycles, the door that requests come in by, the     *)
(* files that are reloaded, the requests the cockpit makes and the feed it *)
(* shows.  As in ServiceProofs each is under the variables of its own      *)
(* module, and what is shown is an inductive invariant of each.            *)
(***************************************************************************)
EXTENDS Integers, Sequences, FiniteSets, SequenceTheorems, FiniteSetTheorems, TLAPS

CONSTANTS
    \* TriadCycle
    MaxCycles, Primaries, Fallbacks, MaxPerWindow, Window, MaxActive, RingCapacity, IdleTraces, RoleEnds,
    \* FrontDoor
    Conns, ClientKeys, Gated, Cost, Capacity, MaxBuckets, MaxClients, MinReadyChairs, MaxTicks,
    \* ConfigFiles
    PersonaFiles, Personas, Settings, MaxWrites,
    \* CockpitRequests
    Adapters, MaxChanges,
    \* CockpitFeed
    NewsKinds, Speakers, Things, NoAgent, MaxNews, MaxDials, MaxBehind, Remounts,
    TaskCap, LogCap, IdleTasks

VARIABLES
    now,
    run, cycleReceipts, issued, active, windows, sent, config, triadMode, tracing, spans, ring,
    buckets, conns, ready, door,
    edits, disk, pending, cache, flow, seen, current, lastError, applied, watching,
    server, read, asks, screen, cockpitPending, errors,
    about, news, truth, loop, feedMode, lines, redial, feedShown, buffer, missed

TC == INSTANCE TriadCycle WITH receipts <- cycleReceipts, mode <- triadMode
FD == INSTANCE FrontDoor WITH MaxEntries <- MaxBuckets, MaxTime <- MaxTicks, Keys <- ClientKeys
CO == INSTANCE ConfigFiles WITH Files <- PersonaFiles, Agents <- Personas, MaxEdits <- MaxWrites
CR == INSTANCE CockpitRequests WITH request <- asks, shown <- screen, pending <- cockpitPending,
    Agents <- Adapters
CF == INSTANCE CockpitFeed WITH mode <- feedMode, shown <- feedShown, Agents <- Speakers, Kinds <- NewsKinds

-----------------------------------------------------------------------------
(* TriadCycle                                                              *)

\* Dispatches in the order of time, the oldest first.
InTimeOrder(ages) == \A i, j \in 1..Len(ages) : i <= j => ages[i] >= ages[j]

\* What a list of dispatches that is pruned now and then still holds: all that
\* are in the window, after some that are not.
Remembers(list, recent) ==
    /\ list \in Seq(0..(Window + 1)) /\ recent \in Seq(0..Window) /\ Len(recent) <= Len(list)
    /\ \A i \in 1..(Len(list) - Len(recent)) : list[i] > Window
    /\ \A i \in 1..Len(recent) : list[Len(list) - Len(recent) + i] = recent[i]
    /\ InTimeOrder(recent)

\* prune, whenever it is called, leaves what is in the window.
LEMMA PrunedIsRecent ==
    ASSUME Window \in Nat, NEW list, NEW recent, Remembers(list, recent)
    PROVE  TC!Pruned(list) = recent
<1> DEFINE n == Len(list) - Len(recent)
           old == CHOOSE k \in 0..Len(list) : TC!StopsAfter(list, k)
<1>1. Len(list) \in Nat /\ Len(recent) \in Nat /\ n \in 0..Len(list)
  BY DEF Remembers
<1>2. TC!StopsAfter(list, n)
  <2>1. ASSUME n < Len(list) PROVE list[n + 1] <= Window
    <3>1. 1 \in 1..Len(recent)
      BY <1>1, <2>1
    <3>2. list[n + 1] = recent[1] /\ recent[1] \in 0..Window
      BY <3>1 DEF Remembers
    <3> QED BY <3>2
  <2> QED BY <2>1 DEF Remembers, TC!StopsAfter
<1>3. old \in 0..Len(list) /\ TC!StopsAfter(list, old)
  BY <1>1, <1>2
<1>5. TC!Pruned(list) = SubSeq(list, old + 1, Len(list))
  BY DEF TC!Pruned
<1> HIDE DEF old
<1>4. old = n
  <2> USE DEF TC!StopsAfter
  <2>1. CASE old < n
    <3>1. list[old + 1] <= Window
      BY <1>1, <1>3, <2>1
    <3>2. list[old + 1] > Window /\ list[old + 1] \in Int
      BY <1>1, <1>3, <2>1 DEF Remembers
    <3> QED BY <3>1, <3>2
  <2>2. CASE old > n
    <3>1. n + 1 \in 1..old /\ n + 1 \in 1..Len(list)
      BY <1>1, <1>3, <2>2
    <3>2. list[n + 1] > Window /\ list[n + 1] \in Int
      BY <1>3, <3>1 DEF Remembers
    <3>3. list[n + 1] <= Window
      BY <1>1, <1>2, <3>1
    <3> QED BY <3>2, <3>3
  <2> QED BY <1>1, <1>3, <2>1, <2>2
<1>6. SubSeq(list, n + 1, Len(list)) = recent
  <2>1. list \in Seq(Int) /\ recent \in Seq(Int)
    BY DEF Remembers
  <2>2. /\ SubSeq(list, n + 1, Len(list)) \in Seq(Int) /\ Len(SubSeq(list, n + 1, Len(list))) = Len(recent)
        /\ \A i \in 1..Len(recent) : SubSeq(list, n + 1, Len(list))[i] = list[n + i]
    BY <1>1, <2>1
  <2>3. \A i \in 1..Len(recent) : SubSeq(list, n + 1, Len(list))[i] = recent[i]
    BY <2>2 DEF Remembers
  <2> QED BY <2>1, <2>2, <2>3, SeqEqual
<1> QED BY <1>4, <1>5, <1>6

LEMMA RecentRemembers ==
    ASSUME Window \in Nat, NEW recent \in Seq(0..Window), InTimeOrder(recent)
    PROVE  Remembers(recent, recent)
<1>1. recent \in Seq(0..(Window + 1)) /\ Len(recent) \in Nat
  BY SeqMonotonic
<1> QED BY <1>1 DEF Remembers

\* A dispatch of this moment comes last.
LEMMA DispatchRemembers ==
    ASSUME Window \in Nat, NEW list, NEW recent, Remembers(list, recent)
    PROVE  Remembers(Append(list, 0), Append(recent, 0))
<1>1. /\ list \in Seq(0..(Window + 1)) /\ recent \in Seq(0..Window) /\ Len(recent) <= Len(list)
      /\ Len(list) \in Nat /\ Len(recent) \in Nat
  BY DEF Remembers
<1>2. /\ Append(list, 0) \in Seq(0..(Window + 1)) /\ Len(Append(list, 0)) = Len(list) + 1
      /\ \A i \in 1..Len(list) : Append(list, 0)[i] = list[i]
      /\ Append(list, 0)[Len(list) + 1] = 0
  BY <1>1
<1>3. /\ Append(recent, 0) \in Seq(0..Window) /\ Len(Append(recent, 0)) = Len(recent) + 1
      /\ \A i \in 1..Len(recent) : Append(recent, 0)[i] = recent[i]
      /\ Append(recent, 0)[Len(recent) + 1] = 0
  BY <1>1
<1> DEFINE n == Len(list) - Len(recent)
<1>4. n \in 0..Len(list) /\ Len(Append(list, 0)) - Len(Append(recent, 0)) = n
  BY <1>1, <1>2, <1>3
<1>5. \A i \in 1..n : Append(list, 0)[i] > Window
  BY <1>1, <1>2, <1>4 DEF Remembers
<1>6. \A i \in 1..Len(Append(recent, 0)) : Append(list, 0)[n + i] = Append(recent, 0)[i]
  <2> TAKE i \in 1..Len(Append(recent, 0))
  <2>1. CASE i <= Len(recent)
    <3>0. i \in Int /\ i >= 1
      BY <1>1, <1>3
    <3>1. i \in 1..Len(recent) /\ n + i \in 1..Len(list)
      BY <3>0, <2>1, <1>1, <1>4
    <3>2. list[n + i] = recent[i]
      BY <3>1 DEF Remembers
    <3>3. Append(list, 0)[n + i] = list[n + i]
      BY <3>1, <1>2
    <3>4. Append(recent, 0)[i] = recent[i]
      BY <3>1, <1>3
    <3> QED BY <3>2, <3>3, <3>4
  <2>2. CASE i > Len(recent)
    <3>0. i \in Int /\ i <= Len(recent) + 1
      BY <1>1, <1>3
    <3>1. i = Len(recent) + 1
      BY <3>0, <2>2, <1>1
    <3>2. n + i = Len(list) + 1
      BY <3>1, <1>1
    <3>3. Append(list, 0)[n + i] = 0
      BY <3>2, <1>2
    <3>4. Append(recent, 0)[i] = 0
      BY <3>1, <1>3
    <3> QED BY <3>3, <3>4
  <2>3. i \in Int
    BY <1>1, <1>3
  <2>4. i <= Len(recent) \/ i > Len(recent)
    BY <2>3, <1>1
  <2> QED BY <2>1, <2>2, <2>4
<1>7. InTimeOrder(Append(recent, 0))
  <2> SUFFICES ASSUME NEW i \in 1..(Len(recent) + 1), NEW j \in 1..(Len(recent) + 1), i <= j
               PROVE  Append(recent, 0)[i] >= Append(recent, 0)[j]
    BY <1>3 DEF InTimeOrder
  <2>1. CASE j <= Len(recent)
    <3>1. i \in 1..Len(recent) /\ j \in 1..Len(recent)
      BY <2>1, <1>1
    <3>2. recent[i] >= recent[j]
      BY <3>1 DEF Remembers, InTimeOrder
    <3> QED BY <3>1, <3>2, <1>3
  <2>2. CASE j > Len(recent)
    <3>0. j = Len(recent) + 1
      BY <2>2, <1>1
    <3>1. Append(recent, 0)[j] = 0
      BY <3>0, <1>3
    <3>2. Append(recent, 0)[i] \in 0..Window
      BY <1>3
    <3> QED BY <3>1, <3>2
  <2> QED BY <2>1, <2>2, <1>1
<1>8. Len(Append(recent, 0)) <= Len(Append(list, 0))
  BY <1>1, <1>2, <1>3
<1> HIDE DEF n
<1> QED BY <1>2, <1>3, <1>4, <1>5, <1>6, <1>7, <1>8 DEF Remembers

\* The indices up to some of a set that each takes those before along.
LEMMA HeadIsInterval ==
    ASSUME NEW n \in Nat, NEW S \in SUBSET (1..n), \A i \in S : 1..i \subseteq S
    PROVE  Cardinality(S) \in 0..n /\ S = 1..Cardinality(S)
<1>1. IsFiniteSet(1..n) /\ Cardinality(1..n) = n
  BY FS_Interval
<1>2. IsFiniteSet(S) /\ Cardinality(S) \in Nat /\ Cardinality(S) <= n
  <2>1. IsFiniteSet(S) /\ Cardinality(S) <= Cardinality(1..n)
    BY <1>1, FS_Subset
  <2>2. Cardinality(S) \in Nat
    BY <2>1, FS_CardinalityType
  <2> QED BY <1>1, <2>1, <2>2
<1>3. \A i \in S : i <= Cardinality(S)
  <2> TAKE i \in S
  <2>1. i \in Nat /\ i >= 1
    OBVIOUS
  <2>2. Cardinality(1..i) = i
    BY <2>1, FS_Interval
  <2>3. Cardinality(1..i) <= Cardinality(S)
    BY <1>2, FS_Subset
  <2> QED BY <2>2, <2>3
<1>4. S \subseteq 1..Cardinality(S)
  BY <1>2, <1>3
<1>5. IsFiniteSet(1..Cardinality(S)) /\ Cardinality(1..Cardinality(S)) = Cardinality(S)
  BY <1>2, FS_Interval
<1>6. S = 1..Cardinality(S)
  BY <1>4, <1>5, FS_Subset
<1> QED BY <1>2, <1>6

LEMMA TriadCardinality == \A S : TC!Cardinality(S) = Cardinality(S)
BY DEF TC!Cardinality, Cardinality

\* A tick later, what became too old is among what is forgotten.
LEMMA TickRemembers ==
    ASSUME Window \in Nat, NEW list, NEW recent, Remembers(list, recent)
    PROVE  /\ Remembers(TC!Older(list), TC!InWindow(TC!Older(recent)))
           /\ Len(TC!InWindow(TC!Older(recent))) <= Len(recent)
<1> DEFINE n == Len(list)
           m == Len(recent)
           up == TC!Older(recent)
           far == TC!Older(list)
           gone == {i \in DOMAIN up : up[i] > Window}
           k == Cardinality(gone)
           new == SubSeq(up, k + 1, m)
<1>1. n \in Nat /\ m \in Nat /\ m <= n
  BY DEF Remembers
<1>2. /\ up \in Seq(0..(Window + 1)) /\ Len(up) = m /\ \A i \in 1..m : up[i] = recent[i] + 1 /\ recent[i] \in 0..Window
  <2>1. recent \in Seq(0..Window) /\ DOMAIN recent = 1..m /\ \A i \in 1..m : recent[i] \in 0..Window
    <3>1. recent \in Seq(0..Window)
      BY DEF Remembers
    <3> QED BY <3>1
  <2>2. up = [i \in 1..m |-> IF recent[i] > Window THEN recent[i] ELSE recent[i] + 1]
    BY <2>1 DEF TC!Older
  <2>3. up = [i \in 1..m |-> recent[i] + 1]
    BY <2>1, <2>2
  <2> HIDE DEF up
  <2>4. \A i \in 1..m : up[i] = recent[i] + 1 /\ up[i] \in 0..(Window + 1)
    BY <2>1, <2>3
  <2>5. up \in [1..m -> 0..(Window + 1)]
    BY <2>3, <2>4
  <2> QED BY <1>1, <2>1, <2>4, <2>5, IsASeq
<1>3. /\ far \in Seq(0..(Window + 1)) /\ Len(far) = n
      /\ \A i \in 1..n : far[i] = (IF list[i] > Window THEN list[i] ELSE list[i] + 1) /\ list[i] \in 0..(Window + 1)
  <2>1. list \in Seq(0..(Window + 1)) /\ DOMAIN list = 1..n /\ \A i \in 1..n : list[i] \in 0..(Window + 1)
    BY DEF Remembers
  <2>2. far = [i \in 1..n |-> IF list[i] > Window THEN list[i] ELSE list[i] + 1]
    BY <2>1 DEF TC!Older
  <2> HIDE DEF far
  <2>3. \A i \in 1..n : far[i] \in 0..(Window + 1)
    BY <2>1, <2>2
  <2>4. far \in [1..n -> 0..(Window + 1)]
    BY <2>2, <2>3
  <2> QED BY <1>1, <2>1, <2>2, <2>4, IsASeq
<1> HIDE DEF up, far
<1>4. k \in 0..m /\ gone = 1..k
  <2>1. gone \in SUBSET (1..m)
    BY <1>1, <1>2
  <2>2. ASSUME NEW i \in gone PROVE 1..i \subseteq gone
    <3> SUFFICES ASSUME NEW j \in 1..i PROVE j \in gone
      OBVIOUS
    <3>1. i \in 1..m /\ j \in 1..m /\ j <= i /\ DOMAIN up = 1..m
      BY <1>1, <1>2, <2>1
    <3>2. recent[j] >= recent[i]
      BY <3>1 DEF Remembers, InTimeOrder
    <3>3. up[j] >= up[i] /\ up[i] > Window
      BY <1>2, <3>1, <3>2
    <3> QED BY <1>2, <3>1, <3>3
  <2> HIDE DEF gone
  <2> QED BY <1>1, <2>1, <2>2, HeadIsInterval
<1>5. TC!InWindow(up) = new
  <2>1. TC!Cardinality(gone) = k
    BY TriadCardinality
  <2>2. TC!InWindow(up) = SubSeq(up, TC!Cardinality(gone) + 1, Len(up))
    BY DEF TC!InWindow
  <2> QED BY <1>2, <2>1, <2>2
<1>6. \A i \in 1..m : i > k => up[i] \in 0..Window
  <2> TAKE i \in 1..m
  <2>1. i \in DOMAIN up /\ up[i] \in 0..(Window + 1)
    BY <1>2
  <2>2. i > k => i \notin gone
    <3> HIDE DEF gone, k
    <3> QED BY <1>4
  <2> QED BY <2>1, <2>2
<1>7. \A i \in 1..k : up[i] > Window
  BY <1>4
<1> HIDE DEF k, gone
<1>8. Len(new) = m - k /\ \A i \in 1..(m - k) : new[i] = up[k + i]
  BY <1>1, <1>2, <1>4
<1>9. new \in Seq(0..Window)
  <2>1. \A i \in 1..(m - k) : new[i] \in 0..Window
    BY <1>1, <1>4, <1>6, <1>8
  <2>2. new \in Seq(0..(Window + 1))
    BY <1>1, <1>2, <1>4
  <2> HIDE DEF new
  <2>3. m - k \in Nat
    BY <1>1, <1>4
  <2>4. new = [i \in 1..Len(new) |-> new[i]] /\ Len(new) = m - k
    BY <1>8, <2>2
  <2>5. new \in [1..(m - k) -> 0..Window]
    BY <2>1, <2>4
  <2> QED BY <2>3, <2>5, IsASeq
<1> HIDE DEF new
<1> DEFINE d == n - Len(new)
<1>10. d \in 0..n /\ d = (n - m) + k
  BY <1>1, <1>4, <1>8
<1> HIDE DEF d
<1>11. \A i \in 1..d : far[i] > Window
  <2> TAKE i \in 1..d
  <2>1. CASE i <= n - m
    <3>1. i \in 1..(n - m) /\ i \in 1..n
      BY <2>1, <1>1
    <3>2. list[i] > Window
      BY <3>1 DEF Remembers
    <3> QED BY <3>1, <3>2, <1>3
  <2>2. CASE i > n - m
    <3> DEFINE j == i - (n - m)
    <3>1. j \in 1..k /\ j \in 1..m /\ i = (n - m) + j /\ i \in 1..n
      BY <2>2, <1>1, <1>4, <1>10
    <3> HIDE DEF j
    <3>2. list[i] = recent[j]
      BY <3>1 DEF Remembers
    <3>3. up[j] = recent[j] + 1 /\ recent[j] \in 0..Window /\ up[j] > Window
      BY <3>1, <1>2, <1>7
    <3> QED BY <3>1, <3>2, <3>3, <1>3
  <2> QED BY <2>1, <2>2, <1>1, <1>10
<1>12. \A i \in 1..Len(new) : far[d + i] = new[i]
  <2> TAKE i \in 1..Len(new)
  <2>1. k + i \in 1..m /\ d + i = (n - m) + (k + i) /\ d + i \in 1..n
    BY <1>1, <1>4, <1>8, <1>10
  <2>2. list[d + i] = recent[k + i]
    BY <2>1 DEF Remembers
  <2>3. recent[k + i] \in 0..Window /\ up[k + i] = recent[k + i] + 1
    BY <2>1, <1>2
  <2>4. far[d + i] = IF list[d + i] > Window THEN list[d + i] ELSE list[d + i] + 1
    BY <2>1, <1>3
  <2>5. far[d + i] = up[k + i]
    BY <2>2, <2>3, <2>4
  <2> QED BY <2>5, <1>8
<1>13. InTimeOrder(new)
  <2> SUFFICES ASSUME NEW i \in 1..Len(new), NEW j \in 1..Len(new), i <= j PROVE new[i] >= new[j]
    BY DEF InTimeOrder
  <2>1. k + i \in 1..m /\ k + j \in 1..m /\ k + i <= k + j
    BY <1>1, <1>4, <1>8
  <2>2. recent[k + i] >= recent[k + j]
    BY <2>1 DEF Remembers, InTimeOrder
  <2>3. /\ recent[k + i] \in Int /\ up[k + i] = recent[k + i] + 1
        /\ recent[k + j] \in Int /\ up[k + j] = recent[k + j] + 1
    BY <2>1, <1>2
  <2>4. new[i] = up[k + i] /\ new[j] = up[k + j]
    BY <1>8
  <2> QED BY <2>2, <2>3, <2>4
<1>14. Len(new) <= Len(far) /\ Len(new) <= m
  BY <1>1, <1>3, <1>4, <1>8
<1>15. Remembers(far, new)
  <2> USE DEF d
  <2> QED BY <1>3, <1>9, <1>11, <1>12, <1>13, <1>14 DEF Remembers
<1> QED BY <1>5, <1>14, <1>15 DEF up, far

WindowSound ==
    /\ DOMAIN windows = Primaries /\ DOMAIN sent = Primaries
    /\ \A a \in Primaries : Remembers(windows[a], sent[a])
    /\ TC!WindowHolds

\* The phases of a cycle that nobody fails, up to its verdict.
Path == <<"PreparingContext", "DispatchToArchitect", "ArchitectStreaming", "DispatchToOperator",
          "OperatorExecuting", "DispatchToVerifier", "VerifierAuditing", "IssuingReceipt">>

OnPath(trail, n) ==
    trail \in Seq(TC!Phases) /\ Len(trail) >= n /\ \A i \in 1..n : trail[i] = Path[i]

\* How long the trail is at each await.
Reach == [architect |-> 3, operator |-> 5, verifier |-> 7]

IsVerdict(trail, passed) ==
    OnPath(trail, 8) /\ Len(trail) = 9 /\ trail[9] = IF passed THEN "Succeeded" ELSE "Failed"

IsFailure(trail, n) == OnPath(trail, n) /\ Len(trail) = n + 1 /\ trail[n + 1] = "Failed"

\* The trail of a cycle is known by the await it is suspended at, and nearly so
\* by how it ended.
RunSound(r) ==
    /\ r \in [stage : TC!Stages, trail : Seq(TC!Phases), held : BOOLEAN, traced : BOOLEAN]
    /\ r.stage \in {"architect", "operator", "verifier"} =>
           OnPath(r.trail, Reach[r.stage]) /\ Len(r.trail) = Reach[r.stage]
    /\ r.stage = "returned" => \E passed \in BOOLEAN : IsVerdict(r.trail, passed)
    /\ r.stage = "threw" => \/ \E passed \in BOOLEAN : IsVerdict(r.trail, passed)
                            \/ \E n \in {3, 5, 7} : IsFailure(r.trail, n)

\* The roles that were awaited on a trail.
Roles == {"ArchitectStreaming", "OperatorExecuting", "VerifierAuditing"}
RoleCount(trail) == TC!Cardinality(TC!ToSet(trail) \cap Roles)

\* The child spans of a cycle that wait for its root.
SpanCount(r) == IF ~r.traced THEN 0
                ELSE CASE r.stage = "operator" -> 1 [] r.stage = "verifier" -> 2 [] OTHER -> 0

RunsSound ==
    /\ DOMAIN run = TC!Cycles /\ \A c \in TC!Cycles : RunSound(run[c])
    /\ DOMAIN spans = TC!Cycles /\ \A c \in TC!Cycles : spans[c] = SpanCount(run[c])

\* A cycle that returned has one receipt, of all that it went through.
CycleReceiptsSound ==
    /\ IsFiniteSet(cycleReceipts) /\ issued = Cardinality(cycleReceipts)
    /\ \A r \in cycleReceipts :
       /\ r \in [cycle : TC!Cycles, passed : BOOLEAN, trail : Seq(TC!Phases)]
       /\ run[r.cycle].stage = "returned" /\ r.trail = run[r.cycle].trail /\ IsVerdict(r.trail, r.passed)
    /\ \A c \in TC!Cycles : run[c].stage = "returned" => \E r \in cycleReceipts : r.cycle = c

\* The ring holds ended cycles whose roles all have their span.
RingEntry(e, runs) ==
    LET r == runs[e.cycle]
    IN  /\ e \in [cycle : TC!Cycles, children : 0..3]
        /\ r.stage \in {"returned", "threw"} /\ r.traced
        /\ e.children = RoleCount(r.trail)

RingSound == ring \in Seq([cycle : TC!Cycles, children : 0..3]) /\ \A i \in 1..Len(ring) : RingEntry(ring[i], run)

TriadInv ==
    /\ WindowSound /\ RunsSound /\ CycleReceiptsSound /\ RingSound
    /\ active \in Seq([cycle : TC!Cycles, phase : TC!Phases])
    /\ config \in TC!Configs /\ triadMode \in {"active", "idle"} /\ tracing \in BOOLEAN

TriadBounds == {Window, MaxPerWindow, MaxActive, RingCapacity, IdleTraces} \subseteq Nat

LEMMA ThePhases ==
    TC!Phases = {"PreparingContext", "DispatchToArchitect", "ArchitectStreaming", "DispatchToOperator",
                 "OperatorExecuting", "DispatchToVerifier", "VerifierAuditing", "IssuingReceipt",
                 "Succeeded", "Failed", "Stalled"}
BY DEF TC!Phases, TC!NextPhases, TC!Terminal

\* From each phase of the path the table leads to the next one and, but from
\* the last, to Failed; from the last, to either verdict.
LEMMA PathIsLegal ==
    /\ \A i \in 1..7 : Path[i + 1] \in TC!NextPhases[Path[i]]
    /\ \A i \in 1..8 : "Failed" \in TC!NextPhases[Path[i]]
    /\ "Succeeded" \in TC!NextPhases[Path[8]]
<1> DEFINE p == TC!Phases
<1>1. \A x \in TC!Phases : TC!NextPhases[x] =
        (CASE x = "PreparingContext"    -> {"DispatchToArchitect", "Failed", "Stalled"}
           [] x = "DispatchToArchitect" -> {"ArchitectStreaming", "Failed", "Stalled"}
           [] x = "ArchitectStreaming"  -> {"DispatchToOperator", "Failed", "Stalled"}
           [] x = "DispatchToOperator"  -> {"OperatorExecuting", "Failed", "Stalled"}
           [] x = "OperatorExecuting"   -> {"DispatchToVerifier", "Failed", "Stalled"}
           [] x = "DispatchToVerifier"  -> {"VerifierAuditing", "Failed", "Stalled"}
           [] x = "VerifierAuditing"    -> {"IssuingReceipt", "Failed", "Stalled"}
           [] x = "IssuingReceipt"      -> {"Succeeded", "Failed"}
           [] OTHER                     -> {})
  BY DEF TC!Phases, TC!NextPhases
<1>2. /\ TC!NextPhases["PreparingContext"] = {"DispatchToArchitect", "Failed", "Stalled"}
      /\ TC!NextPhases["DispatchToArchitect"] = {"ArchitectStreaming", "Failed", "Stalled"}
      /\ TC!NextPhases["ArchitectStreaming"] = {"DispatchToOperator", "Failed", "Stalled"}
      /\ TC!NextPhases["DispatchToOperator"] = {"OperatorExecuting", "Failed", "Stalled"}
      /\ TC!NextPhases["OperatorExecuting"] = {"DispatchToVerifier", "Failed", "Stalled"}
      /\ TC!NextPhases["DispatchToVerifier"] = {"VerifierAuditing", "Failed", "Stalled"}
      /\ TC!NextPhases["VerifierAuditing"] = {"IssuingReceipt", "Failed", "Stalled"}
      /\ TC!NextPhases["IssuingReceipt"] = {"Succeeded", "Failed"}
  BY <1>1, ThePhases
<1>3. /\ Path[1] = "PreparingContext" /\ Path[2] = "DispatchToArchitect" /\ Path[3] = "ArchitectStreaming"
      /\ Path[4] = "DispatchToOperator" /\ Path[5] = "OperatorExecuting" /\ Path[6] = "DispatchToVerifier"
      /\ Path[7] = "VerifierAuditing" /\ Path[8] = "IssuingReceipt"
  BY DEF Path
<1>4. ASSUME NEW i \in 1..7 PROVE Path[i + 1] \in TC!NextPhases[Path[i]]
  <2>1. i = 1 \/ i = 2 \/ i = 3 \/ i = 4 \/ i = 5 \/ i = 6 \/ i = 7
    OBVIOUS
  <2> QED BY <2>1, <1>2, <1>3
<1>5. ASSUME NEW i \in 1..8 PROVE "Failed" \in TC!NextPhases[Path[i]]
  <2>1. i = 1 \/ i = 2 \/ i = 3 \/ i = 4 \/ i = 5 \/ i = 6 \/ i = 7 \/ i = 8
    OBVIOUS
  <2> QED BY <2>1, <1>2, <1>3
<1> QED BY <1>2, <1>3, <1>4, <1>5

LEMMA VerdictIsLegal ==
    ASSUME NEW trail, NEW passed \in BOOLEAN, IsVerdict(trail, passed)
    PROVE  TC!LegalTrail(trail) /\ TC!Last(trail) = IF passed THEN "Succeeded" ELSE "Failed"
<1>1. \A i \in 1..8 : trail[i] = Path[i]
  BY DEF IsVerdict, OnPath
<1>2. ASSUME NEW i \in 1..8 PROVE trail[i + 1] \in TC!NextPhases[trail[i]]
  <2>1. CASE i = 8
    BY <2>1, <1>1, PathIsLegal DEF IsVerdict
  <2>2. CASE i # 8
    <3>1. i \in 1..7 /\ i + 1 \in 1..8
      BY <2>2
    <3> QED BY <3>1, <1>1, PathIsLegal
  <2> QED BY <2>1, <2>2
<1> QED BY <1>2 DEF IsVerdict, TC!LegalTrail, TC!Last

LEMMA FailureIsLegal ==
    ASSUME NEW trail, NEW n \in {3, 5, 7}, IsFailure(trail, n)
    PROVE  TC!LegalTrail(trail) /\ TC!Last(trail) = "Failed"
<1>1. \A i \in 1..n : trail[i] = Path[i]
  BY DEF IsFailure, OnPath
<1>2. ASSUME NEW i \in 1..n PROVE trail[i + 1] \in TC!NextPhases[trail[i]]
  <2>1. CASE i = n
    <3>1. i \in 1..8
      OBVIOUS
    <3> QED BY <2>1, <3>1, <1>1, PathIsLegal DEF IsFailure
  <2>2. CASE i # n
    <3>1. i \in 1..7 /\ i + 1 \in 1..n
      BY <2>2
    <3> QED BY <3>1, <1>1, PathIsLegal
  <2> QED BY <2>1, <2>2
<1> QED BY <1>2 DEF IsFailure, TC!LegalTrail, TC!Last

\* What the calls of transition in one step do to the trail.
LEMMA TrailAdvances ==
    ASSUME NEW n \in {3, 5}, NEW trail, OnPath(trail, n), Len(trail) = n
    PROVE  LET longer == trail \o <<Path[n + 1], Path[n + 2]>>
           IN  OnPath(longer, n + 2) /\ Len(longer) = n + 2
<1> DEFINE longer == trail \o <<Path[n + 1], Path[n + 2]>>
<1>1. Path[4] \in TC!Phases /\ Path[5] \in TC!Phases /\ Path[6] \in TC!Phases /\ Path[7] \in TC!Phases
  BY ThePhases DEF Path
<1>2. Path[n + 1] \in TC!Phases /\ Path[n + 2] \in TC!Phases
  BY <1>1
<1>3. trail \in Seq(TC!Phases)
  BY DEF OnPath
<1>4. /\ longer \in Seq(TC!Phases) /\ Len(longer) = n + 2
      /\ \A i \in 1..n : longer[i] = trail[i]
      /\ longer[n + 1] = Path[n + 1] /\ longer[n + 2] = Path[n + 2]
  BY <1>2, <1>3
<1> HIDE DEF longer
<1>5. OnPath(longer, n + 2)
  <2> SUFFICES ASSUME NEW i \in 1..(n + 2) PROVE longer[i] = Path[i]
    BY <1>4 DEF OnPath
  <2>1. i \in 1..n \/ i = n + 1 \/ i = n + 2
    OBVIOUS
  <2> QED BY <2>1, <1>4 DEF OnPath
<1> QED BY <1>4, <1>5 DEF longer

LEMMA TrailEnds ==
    ASSUME NEW trail, OnPath(trail, 7), Len(trail) = 7, NEW passed \in BOOLEAN
    PROVE  IsVerdict(trail \o <<"IssuingReceipt", IF passed THEN "Succeeded" ELSE "Failed">>, passed)
<1> DEFINE verdict == IF passed THEN "Succeeded" ELSE "Failed"
           two == <<"IssuingReceipt", verdict>>
           longer == trail \o two
<1>1. verdict \in TC!Phases /\ "IssuingReceipt" \in TC!Phases
  BY ThePhases
<1>2. trail \in Seq(TC!Phases)
  BY DEF OnPath
<1> HIDE DEF verdict
<1>0. two \in Seq(TC!Phases) /\ Len(two) = 2 /\ two[1] = "IssuingReceipt" /\ two[2] = verdict
  BY <1>1
<1> HIDE DEF two
<1>3. /\ longer \in Seq(TC!Phases) /\ Len(longer) = 9
      /\ \A i \in 1..7 : longer[i] = trail[i]
      /\ longer[8] = "IssuingReceipt" /\ longer[9] = verdict
  <2>1. /\ longer \in Seq(TC!Phases) /\ Len(longer) = Len(trail) + Len(two)
        /\ \A i \in 1..(Len(trail) + Len(two)) :
               longer[i] = IF i <= Len(trail) THEN trail[i] ELSE two[i - Len(trail)]
    BY ONLY <1>0, <1>2, ConcatProperties
  <2> HIDE DEF longer
  <2> QED BY <2>1, <1>0
<1> HIDE DEF longer
<1>4. OnPath(longer, 8)
  <2> SUFFICES ASSUME NEW i \in 1..8 PROVE longer[i] = Path[i]
    BY <1>3 DEF OnPath
  <2>1. i \in 1..7 \/ i = 8
    OBVIOUS
  <2>2. Path[8] = "IssuingReceipt"
    BY DEF Path
  <2> QED BY <2>1, <2>2, <1>3 DEF OnPath
<1> QED BY <1>3, <1>4 DEF IsVerdict, longer, two, verdict

LEMMA TrailFails ==
    ASSUME NEW n \in {3, 5, 7}, NEW trail, OnPath(trail, n), Len(trail) = n
    PROVE  IsFailure(Append(trail, "Failed"), n)
<1>1. trail \in Seq(TC!Phases) /\ "Failed" \in TC!Phases
  BY ThePhases DEF OnPath
<1>2. /\ Append(trail, "Failed") \in Seq(TC!Phases) /\ Len(Append(trail, "Failed")) = n + 1
      /\ \A i \in 1..n : Append(trail, "Failed")[i] = trail[i]
      /\ Append(trail, "Failed")[n + 1] = "Failed"
  BY <1>1
<1> QED BY <1>2 DEF IsFailure, OnPath

\* One span for each await that was reached.
LEMMA RolesOnPath ==
    ASSUME NEW n \in {3, 5, 7}, NEW trail, OnPath(trail, n), \A i \in (n + 1)..Len(trail) : trail[i] \notin Roles
    PROVE  RoleCount(trail) = IF n = 3 THEN 1 ELSE IF n = 5 THEN 2 ELSE 3
<1>1. DOMAIN trail = 1..Len(trail) /\ Len(trail) \in Nat /\ Len(trail) >= n
  BY DEF OnPath
<1>2. TC!ToSet(trail) = {trail[i] : i \in 1..Len(trail)}
  BY <1>1 DEF TC!ToSet
<1>3. /\ Path[1] = "PreparingContext" /\ Path[2] = "DispatchToArchitect" /\ Path[3] = "ArchitectStreaming"
      /\ Path[4] = "DispatchToOperator" /\ Path[5] = "OperatorExecuting" /\ Path[6] = "DispatchToVerifier"
      /\ Path[7] = "VerifierAuditing"
  BY DEF Path
<1>4. trail[1] \notin Roles /\ trail[2] \notin Roles /\ trail[3] = "ArchitectStreaming"
  BY <1>3 DEF OnPath, Roles
<1>5. ASSUME NEW x \in TC!ToSet(trail) \cap Roles
      PROVE  x = trail[3] \/ (n # 3 /\ x = trail[5]) \/ (n = 7 /\ x = trail[7])
  <2>1. PICK i \in 1..Len(trail) : x = trail[i]
    BY <1>2
  <2>2. i \in 1..n
    BY <2>1, <1>1
  <2>3. trail[i] = Path[i] /\ Path[i] \in Roles
    BY <2>1, <2>2 DEF OnPath
  <2>4. i \in 1..7 => i = 3 \/ i = 5 \/ i = 7
    BY <2>3, <1>3 DEF Roles
  <2> QED BY <2>1, <2>2, <2>4
<1>9. RoleCount(trail) = Cardinality(TC!ToSet(trail) \cap Roles)
  BY TriadCardinality DEF RoleCount
<1>6. CASE n = 3
  <2>1. TC!ToSet(trail) \cap Roles = {"ArchitectStreaming"}
    <3>1. 3 \in 1..Len(trail)
      BY <1>1, <1>6
    <3>2. "ArchitectStreaming" \in TC!ToSet(trail) \cap Roles
      BY <3>1, <1>2, <1>4 DEF Roles
    <3> QED BY <3>2, <1>4, <1>5, <1>6
  <2>2. Cardinality({"ArchitectStreaming"}) = 1
    BY FS_Singleton
  <2> QED BY <2>1, <2>2, <1>6, <1>9
<1>7. CASE n = 5
  <2>1. trail[5] = "OperatorExecuting"
    BY <1>3, <1>7 DEF OnPath
  <2>2. TC!ToSet(trail) \cap Roles = {"ArchitectStreaming", "OperatorExecuting"}
    <3>1. 3 \in 1..Len(trail) /\ 5 \in 1..Len(trail)
      BY <1>1, <1>7
    <3>2. {"ArchitectStreaming", "OperatorExecuting"} \subseteq TC!ToSet(trail) \cap Roles
      BY <3>1, <2>1, <1>2, <1>4 DEF Roles
    <3> QED BY <3>2, <2>1, <1>4, <1>5, <1>7
  <2>3. Cardinality({"ArchitectStreaming", "OperatorExecuting"}) = 2
    <3>1. {"ArchitectStreaming", "OperatorExecuting"} = {"ArchitectStreaming"} \cup {"OperatorExecuting"}
      OBVIOUS
    <3>2. IsFiniteSet({"ArchitectStreaming"}) /\ Cardinality({"ArchitectStreaming"}) = 1
      BY FS_Singleton
    <3>3. "OperatorExecuting" \notin {"ArchitectStreaming"}
      OBVIOUS
    <3>4. Cardinality({"ArchitectStreaming"} \cup {"OperatorExecuting"}) = 1 + 1
      BY <3>2, <3>3, FS_AddElement
    <3> QED BY <3>1, <3>4
  <2>4. RoleCount(trail) = 2
    BY <2>2, <2>3, <1>9
  <2> QED BY <2>4, <1>7
<1>8. CASE n = 7
  <2>1. trail[5] = "OperatorExecuting" /\ trail[7] = "VerifierAuditing"
    BY <1>3, <1>8 DEF OnPath
  <2>2. TC!ToSet(trail) \cap Roles = Roles
    <3>1. 3 \in 1..Len(trail) /\ 5 \in 1..Len(trail) /\ 7 \in 1..Len(trail)
      BY <1>1, <1>8
    <3> QED BY <3>1, <2>1, <1>2, <1>4 DEF Roles
  <2>3. Cardinality(Roles) = 3
    <3>1. Roles = ({"ArchitectStreaming"} \cup {"OperatorExecuting"}) \cup {"VerifierAuditing"}
      BY DEF Roles
    <3>2. /\ IsFiniteSet({"ArchitectStreaming"}) /\ Cardinality({"ArchitectStreaming"}) = 1
          /\ "OperatorExecuting" \notin {"ArchitectStreaming"}
      BY FS_Singleton
    <3>3. /\ IsFiniteSet({"ArchitectStreaming"} \cup {"OperatorExecuting"})
          /\ Cardinality({"ArchitectStreaming"} \cup {"OperatorExecuting"}) = 1 + 1
      BY <3>2, FS_AddElement
    <3>4. "VerifierAuditing" \notin {"ArchitectStreaming"} \cup {"OperatorExecuting"}
      OBVIOUS
    <3>5. Cardinality(({"ArchitectStreaming"} \cup {"OperatorExecuting"}) \cup {"VerifierAuditing"}) = (1 + 1) + 1
      BY <3>3, <3>4, FS_AddElement
    <3> QED BY <3>1, <3>5
  <2>4. RoleCount(trail) = 3
    BY <2>2, <2>3, <1>9
  <2> QED BY <2>4, <1>8
<1> QED BY <1>6, <1>7, <1>8

LEMMA VerdictRoles ==
    ASSUME NEW trail, NEW passed \in BOOLEAN, IsVerdict(trail, passed)
    PROVE  RoleCount(trail) = 3
<1>1. OnPath(trail, 7) /\ Len(trail) = 9
  BY DEF IsVerdict, OnPath
<1>2. trail[8] = "IssuingReceipt" /\ trail[9] \in {"Succeeded", "Failed"}
  BY DEF IsVerdict, OnPath, Path
<1>3. \A i \in 8..9 : trail[i] \notin Roles
  BY <1>2 DEF Roles
<1> QED BY <1>1, <1>3, RolesOnPath

LEMMA FailureRoles ==
    ASSUME NEW trail, NEW n \in {3, 5, 7}, IsFailure(trail, n)
    PROVE  RoleCount(trail) = IF n = 3 THEN 1 ELSE IF n = 5 THEN 2 ELSE 3
BY RolesOnPath DEF IsFailure, Roles

\* What is on display is of cycles and in phases.
LEMMA DisplaySound ==
    ASSUME NEW list \in Seq([cycle : TC!Cycles, phase : TC!Phases]), NEW c \in TC!Cycles, NEW p \in TC!Phases
    PROVE  TC!Show(list, c, p) \in Seq([cycle : TC!Cycles, phase : TC!Phases])
<1> DEFINE E == [cycle : TC!Cycles, phase : TC!Phases]
           grown == Append(list, [cycle |-> c, phase |-> p])
<1>1. grown \in Seq(E) /\ grown # << >>
  BY SMTT(30)
<1>2. Tail(grown) \in Seq(E)
  BY <1>1
<1>3. CASE TC!Listed(list, c)
  <2> DEFINE set == [i \in DOMAIN list |->
                       IF list[i].cycle = c THEN [list[i] EXCEPT !.phase = p] ELSE list[i]]
  <2>0. list \in Seq(E)
    OBVIOUS
  <2>1. DOMAIN list = 1..Len(list) /\ Len(list) \in Nat /\ \A i \in 1..Len(list) : list[i] \in E
    <3> HIDE DEF E
    <3> QED BY <2>0
  <2>2. \A i \in 1..Len(list) : [list[i] EXCEPT !.phase = p] \in E
    BY <2>1
  <2>3. set \in [1..Len(list) -> E]
    BY <2>1, <2>2
  <2>4. set \in Seq(E)
    BY <2>1, <2>3, IsASeq
  <2> QED BY <2>4, <1>3 DEF TC!Show
<1>4. CASE ~TC!Listed(list, c)
  BY <1>1, <1>2, <1>4 DEF TC!Show
<1> QED BY <1>3, <1>4

LEMMA DisplayBoth ==
    ASSUME NEW list \in Seq([cycle : TC!Cycles, phase : TC!Phases]), NEW c \in TC!Cycles,
           NEW p \in TC!Phases, NEW q \in TC!Phases
    PROVE  TC!Shown(list, c, <<p, q>>) \in Seq([cycle : TC!Cycles, phase : TC!Phases])
<1>1. TC!Shown(list, c, <<p, q>>) = TC!Show(TC!Show(list, c, p), c, q)
  BY DEF TC!Shown
<1> QED BY <1>1, DisplaySound

Over(c) == run[c].stage \in {"returned", "threw"}

\* Cycles that have ended keep their trail and their trace.
EndedStay ==
    \A c \in TC!Cycles : Over(c) =>
        /\ run'[c].stage = run[c].stage /\ run'[c].trail = run[c].trail
        /\ run'[c].traced = run[c].traced

LEMMA EntryStays == ASSUME EndedStay, NEW e, RingEntry(e, run) PROVE RingEntry(e, run')
<1>1. e.cycle \in TC!Cycles /\ Over(e.cycle)
  BY DEF RingEntry, Over
<1> QED BY <1>1 DEF RingEntry, EndedStay, Over

\* The ring takes the root of a cycle that ends, or loses entries.
LEMMA RingKeeps ==
    ASSUME RingSound, EndedStay,
           \/ ring' = ring
           \/ \E e : RingEntry(e, run') /\ e \in [cycle : TC!Cycles, children : 0..3]
                                   /\ ring' \in {Append(ring, e), Tail(Append(ring, e))}
           \/ \E m \in 1..(Len(ring) + 1) : ring' = SubSeq(ring, m, Len(ring))
    PROVE  RingSound'
<1> DEFINE E == [cycle : TC!Cycles, children : 0..3]
<1>1. ring \in Seq(E) /\ Len(ring) \in Nat /\ \A i \in 1..Len(ring) : RingEntry(ring[i], run')
  BY EntryStays DEF RingSound
<1> HIDE DEF E
<1>2. CASE ring' = ring
  <2>1. \A i \in 1..Len(ring') : RingEntry(ring'[i], run')
    BY <1>1, <1>2
  <2> QED BY <1>1, <1>2, <2>1 DEF RingSound, E
<1>3. ASSUME NEW e \in E, RingEntry(e, run'), ring' \in {Append(ring, e), Tail(Append(ring, e))} PROVE RingSound'
  <2> DEFINE grown == Append(ring, e)
  <2>1. /\ grown \in Seq(E) /\ Len(grown) = Len(ring) + 1 /\ grown # << >>
        /\ \A i \in 1..Len(ring) : grown[i] = ring[i]
        /\ grown[Len(ring) + 1] = e
    BY <1>1
  <2>2. ASSUME NEW i \in 1..Len(grown) PROVE RingEntry(grown[i], run')
    <3>1. CASE i = Len(ring) + 1
      BY <3>1, <2>1, <1>3
    <3>2. CASE i # Len(ring) + 1
      <4>1. i \in 1..Len(ring)
        BY <3>2, <2>1, <1>1
      <4>2. grown[i] = ring[i]
        BY <4>1, <2>1
      <4> QED BY <4>1, <4>2, <1>1
    <3> QED BY <3>1, <3>2
  <2> HIDE DEF grown
  <2>3. CASE ring' = grown
    <3>1. \A i \in 1..Len(ring') : RingEntry(ring'[i], run')
      BY <2>2, <2>3
    <3> QED BY <2>1, <2>3, <3>1 DEF RingSound, E
  <2>4. CASE ring' = Tail(grown)
    <3>1. /\ Tail(grown) \in Seq(E) /\ Len(Tail(grown)) = Len(ring)
          /\ \A i \in 1..Len(ring) : Tail(grown)[i] = grown[i + 1]
      BY <2>1, <1>1
    <3>2. ASSUME NEW i \in 1..Len(ring) PROVE RingEntry(ring'[i], run')
      <4>1. i + 1 \in 1..Len(grown)
        BY <2>1, <1>1
      <4>2. ring'[i] = grown[i + 1]
        BY <3>1, <2>4
      <4> QED BY <4>1, <4>2, <2>2
    <3>3. \A i \in 1..Len(ring') : RingEntry(ring'[i], run')
      BY <3>1, <3>2, <2>4
    <3> QED BY <3>1, <3>3, <2>4 DEF RingSound, E
  <2> QED BY <1>3, <2>3, <2>4 DEF grown
<1>4. ASSUME NEW m \in 1..(Len(ring) + 1), ring' = SubSeq(ring, m, Len(ring)) PROVE RingSound'
  <2>1. /\ ring' \in Seq(E) /\ Len(ring') = Len(ring) - m + 1
        /\ \A i \in 1..(Len(ring) - m + 1) : ring'[i] = ring[m + i - 1]
    BY <1>1, <1>4
  <2>2. ASSUME NEW i \in 1..Len(ring') PROVE RingEntry(ring'[i], run')
    <3>1. m + i - 1 \in 1..Len(ring) /\ ring'[i] = ring[m + i - 1]
      BY <2>1, <1>1
    <3> QED BY <3>1, <1>1
  <2> QED BY <2>1, <2>2 DEF RingSound, E
<1> QED BY <1>2, <1>3, <1>4 DEF E

\* A dispatch is one of an agent that may be asked for one.
LEMMA RecordedKeeps ==
    ASSUME TriadBounds, WindowSound, config \in TC!Configs, NEW headroom \in BOOLEAN,
           TC!Recorded(TC!Route(headroom))
    PROVE  WindowSound'
<1> DEFINE agent == TC!Route(headroom)
           probed == [windows EXCEPT ![config.primary] = TC!Pruned(@)]
<1>1. Window \in Nat /\ MaxPerWindow \in Nat
  BY DEF TriadBounds
<1>2. config.primary \in Primaries /\ config.fallback \in Fallbacks
  BY DEF TC!Configs
<1>3. \A a \in Primaries : TC!Pruned(windows[a]) = sent[a] /\ Remembers(sent[a], sent[a])
  BY <1>1, PrunedIsRecent, RecentRemembers DEF WindowSound, Remembers
<1>4. DOMAIN probed = Primaries /\ \A a \in Primaries : Remembers(probed[a], sent[a])
  BY <1>2, <1>3 DEF WindowSound
<1>5. CASE agent \in Primaries
  <2>1. /\ windows' = [probed EXCEPT ![agent] = TC!Pruned(Append(probed[agent], 0))]
        /\ sent' = [sent EXCEPT ![agent] = Append(sent[agent], 0)]
    BY <1>5 DEF TC!Recorded
  <2> HIDE DEF probed
  <2>2. TC!Pruned(Append(probed[agent], 0)) = Append(sent[agent], 0)
    BY <1>1, <1>4, <1>5, DispatchRemembers, PrunedIsRecent
  <2>3. Remembers(Append(sent[agent], 0), Append(sent[agent], 0))
    BY <1>1, <1>3, <1>5, DispatchRemembers
  <2>4. DOMAIN windows' = Primaries /\ DOMAIN sent' = Primaries
    BY <2>1, <1>4 DEF WindowSound
  <2>5. ASSUME NEW a \in Primaries PROVE Remembers(windows'[a], sent'[a])
    BY <2>1, <2>2, <2>3, <1>4 DEF WindowSound
  <2>6. ASSUME NEW a \in Primaries \ Fallbacks PROVE Len(sent'[a]) <= MaxPerWindow
    <3>1. CASE a = agent
      <4>1. agent = config.primary /\ TC!CanDispatch(config.primary)
        BY <3>1, <1>2 DEF TC!Route
      <4>2. Len(sent[a]) < MaxPerWindow
        BY <3>1, <4>1, <1>3 DEF TC!CanDispatch
      <4>3. sent'[a] = Append(sent[a], 0) /\ sent[a] \in Seq(0..Window)
        BY <2>1, <3>1, <1>5 DEF WindowSound, Remembers
      <4> QED BY <4>2, <4>3, <1>1
    <3>2. CASE a # agent
      BY <3>2, <2>1 DEF WindowSound, TC!WindowHolds
    <3> QED BY <3>1, <3>2
  <2>7. WindowSound'
    BY <2>4, <2>5, <2>6 DEF WindowSound, TC!WindowHolds, Remembers, InTimeOrder
  <2> QED BY <2>7
<1>6. CASE agent \notin Primaries
  <2>1. windows' = probed /\ sent' = sent
    BY <1>6 DEF TC!Recorded
  <2> HIDE DEF probed
  <2> QED BY <2>1, <1>4 DEF WindowSound, TC!WindowHolds, Remembers, InTimeOrder
<1> QED BY <1>5, <1>6

LEMMA ReceiptsStay ==
    ASSUME CycleReceiptsSound, UNCHANGED <<cycleReceipts, issued>>, EndedStay,
           \A b \in TC!Cycles : run'[b].stage = "returned" => run[b].stage = "returned"
    PROVE  CycleReceiptsSound'
<1>1. ASSUME NEW r \in cycleReceipts
      PROVE  /\ r \in [cycle : TC!Cycles, passed : BOOLEAN, trail : Seq(TC!Phases)]
             /\ run'[r.cycle].stage = "returned" /\ r.trail = run'[r.cycle].trail /\ IsVerdict(r.trail, r.passed)
  BY DEF CycleReceiptsSound, EndedStay, Over
<1>2. \A c \in TC!Cycles : run'[c].stage = "returned" => \E r \in cycleReceipts : r.cycle = c
  BY DEF CycleReceiptsSound
<1> QED BY <1>1, <1>2 DEF CycleReceiptsSound

LEMMA RunsMove ==
    ASSUME RunsSound, NEW c \in TC!Cycles,
           DOMAIN run' = TC!Cycles, RunSound(run'[c]), \A b \in TC!Cycles \ {c} : run'[b] = run[b],
           DOMAIN spans' = TC!Cycles, spans'[c] = SpanCount(run'[c]),
           \A b \in TC!Cycles \ {c} : spans'[b] = spans[b]
    PROVE  RunsSound'
<1>1. ASSUME NEW b \in TC!Cycles PROVE RunSound(run'[b]) /\ spans'[b] = SpanCount(run'[b])
  BY DEF RunsSound
<1> QED BY <1>1 DEF RunsSound

\* The root of a cycle ends with a child for each role that was awaited.
LEMMA RootKeeps ==
    ASSUME RunsSound, RingSound, EndedStay, NEW c \in TC!Cycles, NEW ending,
           run[c].stage \in {"architect", "operator", "verifier"},
           run'[c].stage \in {"returned", "threw"}, run'[c].traced = run[c].traced,
           RoleCount(run'[c].trail) = (IF run[c].stage = "architect" THEN 1
                                       ELSE IF run[c].stage = "operator" THEN 2 ELSE 3),
           TC!RootEnds(c, TC!Children(c), ending)
    PROVE  /\ RingSound' /\ DOMAIN spans' = TC!Cycles /\ spans'[c] = 0
           /\ \A b \in TC!Cycles \ {c} : spans'[b] = spans[b]
<1>1. DOMAIN spans = TC!Cycles /\ spans[c] = SpanCount(run[c])
  BY DEF RunsSound
<1>2. CASE ~run[c].traced
  <2>1. spans' = spans /\ ring' = ring
    BY <1>2 DEF TC!RootEnds, TC!traces
  <2>2. spans[c] = 0
    BY <1>1, <1>2 DEF SpanCount
  <2> QED BY <1>1, <2>1, <2>2, RingKeeps
<1>3. CASE run[c].traced
  <2> DEFINE e == [cycle |-> c, children |-> spans[c] + 1]
  <2>1. spans[c] + 1 = RoleCount(run'[c].trail) /\ spans[c] + 1 \in 0..3
    BY <1>1, <1>3 DEF SpanCount
  <2>2. e \in [cycle : TC!Cycles, children : 0..3] /\ RingEntry(e, run')
    BY <1>3, <2>1 DEF RingEntry
  <2>3. spans' = [spans EXCEPT ![c] = 0] /\ ring' \in {Append(ring, e), Tail(Append(ring, e))}
    BY <1>3 DEF TC!RootEnds, TC!Children
  <2>4. RingSound'
    BY <2>2, <2>3, RingKeeps
  <2> QED BY <1>1, <2>3, <2>4
<1> QED BY <1>2, <1>3

LEMMA WindowStays == ASSUME WindowSound, UNCHANGED <<windows, sent>> PROVE WindowSound'
BY DEF WindowSound, TC!WindowHolds, Remembers, InTimeOrder

LEMMA ExecuteKeeps ==
    ASSUME TriadBounds, TriadInv, NEW c \in TC!Cycles, NEW headroom \in BOOLEAN, NEW claimed \in BOOLEAN,
           TC!Execute(c, headroom, claimed)
    PROVE  TriadInv'
<1> DEFINE new == [stage |-> "architect",
                   trail |-> <<"PreparingContext">> \o <<"DispatchToArchitect", "ArchitectStreaming">>,
                   held |-> claimed, traced |-> tracing]
<1>1. /\ run[c].stage = "new" /\ run' = [run EXCEPT ![c] = new]
      /\ TC!Recorded(TC!Route(headroom))
      /\ active' = TC!Shown(active, c, <<"DispatchToArchitect", "ArchitectStreaming">>)
      /\ UNCHANGED <<cycleReceipts, issued, config, triadMode, tracing, spans, ring>>
  BY DEF TC!Execute, TC!traces
<1>2. RunSound(new)
  <2> DEFINE one == <<"PreparingContext">>
             two == <<"DispatchToArchitect", "ArchitectStreaming">>
  <2>1. /\ one \in Seq(TC!Phases) /\ Len(one) = 1 /\ one[1] = "PreparingContext"
        /\ two \in Seq(TC!Phases) /\ Len(two) = 2 /\ two[1] = "DispatchToArchitect" /\ two[2] = "ArchitectStreaming"
    BY ThePhases
  <2> HIDE DEF one, two
  <2>2. /\ one \o two \in Seq(TC!Phases) /\ Len(one \o two) = 3
        /\ (one \o two)[1] = one[1] /\ (one \o two)[2] = two[1] /\ (one \o two)[3] = two[2]
    <3> DEFINE all == one \o two
    <3>1. /\ all \in Seq(TC!Phases) /\ Len(all) = Len(one) + Len(two)
          /\ \A i \in 1..(Len(one) + Len(two)) :
                 all[i] = IF i <= Len(one) THEN one[i] ELSE two[i - Len(one)]
      BY ONLY <2>1, ConcatProperties
    <3> HIDE DEF all
    <3>2. Len(all) = 3 /\ all[1] = one[1] /\ all[2] = two[1] /\ all[3] = two[2]
      BY <3>1, <2>1
    <3> QED BY <3>1, <3>2 DEF all
  <2>3. ASSUME NEW i \in 1..3 PROVE (one \o two)[i] = Path[i]
    BY <2>1, <2>2 DEF Path
  <2>4. OnPath(one \o two, 3) /\ Len(one \o two) = 3
    BY <2>2, <2>3 DEF OnPath
  <2> DEFINE walk == one \o two
  <2>5. new = [stage |-> "architect", trail |-> walk, held |-> claimed, traced |-> tracing]
    BY DEF one, two
  <2> HIDE DEF walk
  <2>6. walk \in Seq(TC!Phases) /\ OnPath(walk, 3) /\ Len(walk) = 3
    BY <2>2, <2>4 DEF walk
  <2>7. tracing \in BOOLEAN
    BY DEF TriadInv
  <2> HIDE DEF new
  <2>8. /\ new \in [stage : TC!Stages, trail : Seq(TC!Phases), held : BOOLEAN, traced : BOOLEAN]
        /\ new.stage = "architect" /\ new.trail = walk
    BY <2>5, <2>6, <2>7 DEF TC!Stages
  <2> QED BY <2>6, <2>8 DEF RunSound, Reach
<1>3. new.stage = "architect"
  OBVIOUS
<1> HIDE DEF new
<1>4. DOMAIN run' = TC!Cycles /\ run'[c] = new /\ \A b \in TC!Cycles \ {c} : run'[b] = run[b]
  BY <1>1 DEF TriadInv, RunsSound
<1>5. spans[c] = SpanCount(new)
  BY <1>1, <1>3 DEF TriadInv, RunsSound, SpanCount
<1>6. RunsSound'
  BY <1>1, <1>2, <1>4, <1>5, RunsMove DEF TriadInv, RunsSound
<1>7. EndedStay
  BY <1>1, <1>4 DEF EndedStay, Over
<1>8. CycleReceiptsSound'
  BY <1>1, <1>3, <1>4, <1>7, ReceiptsStay DEF TriadInv
<1>9. RingSound'
  BY <1>1, <1>7, RingKeeps DEF TriadInv
<1>10. WindowSound'
  BY <1>1, RecordedKeeps DEF TriadInv
<1>11. active' \in Seq([cycle : TC!Cycles, phase : TC!Phases])
  BY <1>1, ThePhases, DisplayBoth DEF TriadInv
<1>12. config' \in TC!Configs /\ triadMode' \in {"active", "idle"} /\ tracing' \in BOOLEAN
  BY <1>1 DEF TriadInv
<1> QED BY <1>6, <1>8, <1>9, <1>10, <1>11, <1>12 DEF TriadInv, TC!Cycles, TC!Configs

LEMMA RoleEndsKeeps ==
    ASSUME TriadInv, NEW c \in TC!Cycles, TC!ArchitectEnds(c) \/ TC!OperatorEnds(c)
    PROVE  TriadInv'
<1> DEFINE n == IF run[c].stage = "architect" THEN 3 ELSE 5
           ps == <<Path[n + 1], Path[n + 2]>>
           after == IF run[c].stage = "architect" THEN "operator" ELSE "verifier"
<1>1. /\ run[c].stage \in {"architect", "operator"}
      /\ run' = [run EXCEPT ![c].stage = after, ![c].trail = @ \o ps]
      /\ active' = TC!Shown(active, c, ps)
      /\ spans' = [spans EXCEPT ![c] = TC!Children(c)]
      /\ UNCHANGED <<cycleReceipts, issued, windows, sent, config, triadMode, tracing, ring>>
  <2>1. /\ Path[4] = "DispatchToOperator" /\ Path[5] = "OperatorExecuting"
        /\ Path[6] = "DispatchToVerifier" /\ Path[7] = "VerifierAuditing"
    BY DEF Path
  <2>2. CASE TC!ArchitectEnds(c)
    <3>1. run[c].stage = "architect" /\ after = "operator" /\ n = 3
      BY <2>2 DEF TC!ArchitectEnds, TC!RoleEnds1
    <3>2. ps = <<"DispatchToOperator", "OperatorExecuting">>
      BY <2>1, <3>1
    <3> HIDE DEF ps, n, after
    <3> QED BY <2>2, <3>1, <3>2 DEF TC!ArchitectEnds, TC!RoleEnds1, TC!limits
  <2>3. CASE TC!OperatorEnds(c)
    <3>1. run[c].stage = "operator" /\ after = "verifier" /\ n = 5
      BY <2>3 DEF TC!OperatorEnds, TC!RoleEnds1
    <3>2. ps = <<"DispatchToVerifier", "VerifierAuditing">>
      BY <2>1, <3>1
    <3> HIDE DEF ps, n, after
    <3> QED BY <2>3, <3>1, <3>2 DEF TC!OperatorEnds, TC!RoleEnds1, TC!limits
  <2> QED BY <2>2, <2>3
<1>2. /\ RunSound(run[c]) /\ DOMAIN run = TC!Cycles /\ DOMAIN spans = TC!Cycles
      /\ spans[c] = SpanCount(run[c])
  BY DEF TriadInv, RunsSound
<1> DEFINE longer == run[c].trail \o ps
<1>3. n \in {3, 5} /\ OnPath(run[c].trail, n) /\ Len(run[c].trail) = n
  <2>1. Reach["architect"] = 3 /\ Reach["operator"] = 5
    BY DEF Reach
  <2>2. OnPath(run[c].trail, Reach[run[c].stage]) /\ Len(run[c].trail) = Reach[run[c].stage]
    BY <1>1, <1>2 DEF RunSound
  <2>3. CASE run[c].stage = "architect"
    BY <2>1, <2>2, <2>3
  <2>4. CASE run[c].stage = "operator"
    BY <2>1, <2>2, <2>4
  <2> QED BY <1>1, <2>3, <2>4
<1>4. OnPath(longer, n + 2) /\ Len(longer) = n + 2 /\ longer \in Seq(TC!Phases)
  <2> HIDE DEF n
  <2>1. OnPath(longer, n + 2) /\ Len(longer) = n + 2
    BY <1>3, TrailAdvances
  <2> HIDE DEF longer
  <2> QED BY <2>1 DEF OnPath
<1>5. /\ after \in TC!Stages /\ after \notin {"returned", "threw", "architect"}
      /\ after \in {"operator", "verifier"} /\ Reach[after] = n + 2
  BY <1>1 DEF TC!Stages, Reach
<1>6. ps[1] \in TC!Phases /\ ps[2] \in TC!Phases /\ ps = <<ps[1], ps[2]>>
  BY <1>3, ThePhases DEF Path
<1>7. /\ DOMAIN run' = TC!Cycles /\ \A b \in TC!Cycles \ {c} : run'[b] = run[b]
      /\ run'[c] = [run[c] EXCEPT !.stage = after, !.trail = longer]
  <2> HIDE DEF n, after, ps
  <2> QED BY <1>1, <1>2
<1>8. spans'[c] = SpanCount(run'[c]) /\ DOMAIN spans' = TC!Cycles /\ \A b \in TC!Cycles \ {c} : spans'[b] = spans[b]
  <2>1. run'[c].stage = after /\ run'[c].traced = run[c].traced
    <3> HIDE DEF n, after, ps, longer
    <3> QED BY <1>2, <1>7 DEF RunSound
  <2>2. SpanCount(run'[c]) = TC!Children(c)
    BY <2>1, <1>1, <1>2 DEF SpanCount, TC!Children
  <2> QED BY <2>2, <1>1, <1>2
<1> HIDE DEF n, ps, after, longer
<1>9. /\ run'[c] \in [stage : TC!Stages, trail : Seq(TC!Phases), held : BOOLEAN, traced : BOOLEAN]
      /\ run'[c].stage = after /\ run'[c].trail = longer
  BY <1>2, <1>4, <1>5, <1>7 DEF RunSound
<1>10. RunSound(run'[c])
  BY <1>4, <1>5, <1>9 DEF RunSound
<1>11. RunsSound'
  BY <1>7, <1>8, <1>10, RunsMove DEF TriadInv
<1>12. EndedStay
  BY <1>1, <1>7 DEF EndedStay, Over
<1>13. CycleReceiptsSound'
  BY <1>1, <1>5, <1>7, <1>9, <1>12, ReceiptsStay DEF TriadInv
<1>14. RingSound'
  BY <1>1, <1>12, RingKeeps DEF TriadInv
<1>15. active' \in Seq([cycle : TC!Cycles, phase : TC!Phases])
  BY <1>1, <1>6, DisplayBoth DEF TriadInv
<1>16. WindowSound'
  BY <1>1, WindowStays DEF TriadInv
<1>17. config' \in TC!Configs /\ triadMode' \in {"active", "idle"} /\ tracing' \in BOOLEAN
  BY <1>1 DEF TriadInv
<1> QED BY <1>11, <1>13, <1>14, <1>15, <1>16, <1>17 DEF TriadInv, TC!Cycles, TC!Configs

LEMMA RoleThrowsKeeps ==
    ASSUME TriadInv, NEW c \in TC!Cycles, TC!RoleThrows(c)
    PROVE  TriadInv'
<1> DEFINE n == IF run[c].stage = "architect" THEN 3 ELSE IF run[c].stage = "operator" THEN 5 ELSE 7
           longer == Append(run[c].trail, "Failed")
<1>1. /\ run[c].stage \in {"architect", "operator", "verifier"}
      /\ run' = [run EXCEPT ![c].stage = "threw", ![c].held = FALSE, ![c].trail = longer]
      /\ active' = TC!Show(active, c, "Failed")
      /\ TC!RootEnds(c, TC!Children(c), "threw")
      /\ UNCHANGED <<cycleReceipts, issued, windows, sent, config, triadMode, tracing>>
  BY DEF TC!RoleThrows, TC!limits
<1>2. RunSound(run[c]) /\ DOMAIN run = TC!Cycles
  BY DEF TriadInv, RunsSound
<1>3. n \in {3, 5, 7} /\ OnPath(run[c].trail, n) /\ Len(run[c].trail) = n
  <2>1. Reach["architect"] = 3 /\ Reach["operator"] = 5 /\ Reach["verifier"] = 7
    BY DEF Reach
  <2>2. OnPath(run[c].trail, Reach[run[c].stage]) /\ Len(run[c].trail) = Reach[run[c].stage]
    BY <1>1, <1>2 DEF RunSound
  <2>3. CASE run[c].stage = "architect"
    BY <2>1, <2>2, <2>3
  <2>4. CASE run[c].stage = "operator"
    BY <2>1, <2>2, <2>4
  <2>5. CASE run[c].stage = "verifier"
    BY <2>1, <2>2, <2>5
  <2> QED BY <1>1, <2>3, <2>4, <2>5
<1>4. IsFailure(longer, n) /\ longer \in Seq(TC!Phases)
  <2> HIDE DEF n
  <2>1. IsFailure(longer, n)
    BY <1>3, TrailFails
  <2> HIDE DEF longer
  <2> QED BY <2>1 DEF IsFailure, OnPath
<1>5. RoleCount(longer) = (IF run[c].stage = "architect" THEN 1 ELSE IF run[c].stage = "operator" THEN 2 ELSE 3)
  <2> HIDE DEF longer
  <2>1. RoleCount(longer) = IF n = 3 THEN 1 ELSE IF n = 5 THEN 2 ELSE 3
    <3> HIDE DEF n
    <3> QED BY <1>3, <1>4, FailureRoles
  <2> QED BY <2>1, <1>1
<1> HIDE DEF n, longer
<1>6. /\ DOMAIN run' = TC!Cycles /\ \A b \in TC!Cycles \ {c} : run'[b] = run[b]
      /\ run'[c] = [run[c] EXCEPT !.stage = "threw", !.held = FALSE, !.trail = longer]
  BY <1>1, <1>2
<1>7. /\ run'[c] \in [stage : TC!Stages, trail : Seq(TC!Phases), held : BOOLEAN, traced : BOOLEAN]
      /\ run'[c].stage = "threw" /\ run'[c].trail = longer /\ run'[c].traced = run[c].traced
  BY <1>2, <1>4, <1>6 DEF RunSound, TC!Stages
<1>8. RunSound(run'[c])
  BY <1>3, <1>4, <1>7 DEF RunSound
<1>9. EndedStay
  BY <1>1, <1>6 DEF EndedStay, Over
<1>10. RingSound' /\ DOMAIN spans' = TC!Cycles /\ spans'[c] = 0 /\ \A b \in TC!Cycles \ {c} : spans'[b] = spans[b]
  <2>1. RunsSound /\ RingSound
    BY DEF TriadInv
  <2>2. RoleCount(run'[c].trail) = (IF run[c].stage = "architect" THEN 1
                                    ELSE IF run[c].stage = "operator" THEN 2 ELSE 3)
    BY <1>5, <1>7
  <2>3. run'[c].stage \in {"returned", "threw"}
    BY <1>7
  <2>4. /\ TC!RootEnds(c, TC!Children(c), "threw") /\ run'[c].traced = run[c].traced
        /\ run[c].stage \in {"architect", "operator", "verifier"}
    BY <1>1, <1>7
  <2> QED BY <1>9, <2>1, <2>2, <2>3, <2>4, RootKeeps
<1>11. RunsSound'
  <2>1. SpanCount(run'[c]) = 0
    BY <1>7 DEF SpanCount
  <2> QED BY <1>6, <1>8, <1>10, <2>1, RunsMove DEF TriadInv
<1>12. CycleReceiptsSound'
  BY <1>1, <1>6, <1>7, <1>9, ReceiptsStay DEF TriadInv
<1>13. active' \in Seq([cycle : TC!Cycles, phase : TC!Phases])
  BY <1>1, ThePhases, DisplaySound DEF TriadInv
<1>14. WindowSound'
  BY <1>1, WindowStays DEF TriadInv
<1>15. config' \in TC!Configs /\ triadMode' \in {"active", "idle"} /\ tracing' \in BOOLEAN
  BY <1>1 DEF TriadInv
<1> QED BY <1>10, <1>11, <1>12, <1>13, <1>14, <1>15 DEF TriadInv, TC!Cycles, TC!Configs

\* The receipt of a cycle is the first one it gets.
LEMMA ReceiptIsNew ==
    ASSUME CycleReceiptsSound, EndedStay, NEW c \in TC!Cycles, ~Over(c),
           NEW r \in [cycle : TC!Cycles, passed : BOOLEAN, trail : Seq(TC!Phases)],
           r.cycle = c, IsVerdict(r.trail, r.passed),
           run'[c].stage = "returned", run'[c].trail = r.trail,
           \A b \in TC!Cycles \ {c} : run'[b] = run[b],
           cycleReceipts' = cycleReceipts \cup {r}, issued' = issued + 1
    PROVE  CycleReceiptsSound'
<1>1. r \notin cycleReceipts
  BY DEF CycleReceiptsSound, Over
<1>2. IsFiniteSet(cycleReceipts') /\ issued' = Cardinality(cycleReceipts')
  BY <1>1, FS_AddElement DEF CycleReceiptsSound
<1>3. ASSUME NEW q \in cycleReceipts'
      PROVE  /\ q \in [cycle : TC!Cycles, passed : BOOLEAN, trail : Seq(TC!Phases)]
             /\ run'[q.cycle].stage = "returned" /\ q.trail = run'[q.cycle].trail /\ IsVerdict(q.trail, q.passed)
  <2>1. CASE q = r
    BY <2>1
  <2>2. CASE q # r
    <3>1. q \in cycleReceipts
      BY <2>2
    <3> QED BY <3>1 DEF CycleReceiptsSound, EndedStay, Over
  <2> QED BY <2>1, <2>2
<1>4. ASSUME NEW b \in TC!Cycles, run'[b].stage = "returned" PROVE \E q \in cycleReceipts' : q.cycle = b
  <2>1. CASE b = c
    BY <2>1
  <2>2. CASE b # c
    BY <1>4, <2>2 DEF CycleReceiptsSound
  <2> QED BY <2>1, <2>2
<1> QED BY <1>2, <1>3, <1>4 DEF CycleReceiptsSound

LEMMA VerifierEndsKeeps ==
    ASSUME TriadInv, NEW c \in TC!Cycles, NEW passed \in BOOLEAN, NEW stored \in BOOLEAN,
           TC!VerifierEnds(c, passed, stored)
    PROVE  TriadInv'
<1> DEFINE ps == <<"IssuingReceipt", IF passed THEN "Succeeded" ELSE "Failed">>
           longer == run[c].trail \o ps
           ending == IF stored THEN "returned" ELSE "threw"
           r == [cycle |-> c, passed |-> passed, trail |-> longer]
<1>1. /\ run[c].stage = "verifier"
      /\ run' = [run EXCEPT ![c].stage = ending, ![c].held = FALSE, ![c].trail = longer]
      /\ active' = TC!Shown(active, c, ps)
      /\ cycleReceipts' = IF stored THEN cycleReceipts \cup {r} ELSE cycleReceipts
      /\ issued' = IF stored THEN issued + 1 ELSE issued
      /\ TC!RootEnds(c, TC!Children(c), ending)
      /\ UNCHANGED <<windows, sent, config, triadMode, tracing>>
  BY DEF TC!VerifierEnds, TC!limits
<1>2. RunSound(run[c]) /\ DOMAIN run = TC!Cycles
  BY DEF TriadInv, RunsSound
<1>3. OnPath(run[c].trail, 7) /\ Len(run[c].trail) = 7
  BY <1>1, <1>2 DEF RunSound, Reach
<1>4. IsVerdict(longer, passed) /\ longer \in Seq(TC!Phases) /\ RoleCount(longer) = 3
  <2>1. IsVerdict(longer, passed)
    BY <1>3, TrailEnds
  <2> HIDE DEF longer
  <2> QED BY <2>1, VerdictRoles DEF IsVerdict, OnPath
<1>5. ending \in {"returned", "threw"} /\ ending \in TC!Stages
  BY DEF TC!Stages
<1>6. active' \in Seq([cycle : TC!Cycles, phase : TC!Phases])
  <2> DEFINE p == "IssuingReceipt"
             q == IF passed THEN "Succeeded" ELSE "Failed"
  <2>1. p \in TC!Phases /\ q \in TC!Phases /\ ps = <<p, q>>
    BY ThePhases
  <2> HIDE DEF p, q
  <2> QED BY <1>1, <2>1, DisplayBoth DEF TriadInv
<1>7. r \in [cycle : TC!Cycles, passed : BOOLEAN, trail : Seq(TC!Phases)] /\ r.cycle = c /\ r.trail = longer /\ r.passed = passed
  BY <1>4
<1>0. (stored => ending = "returned") /\ (~stored => ending = "threw")
  OBVIOUS
<1> HIDE DEF ps, longer, ending, r
<1>8. /\ DOMAIN run' = TC!Cycles /\ \A b \in TC!Cycles \ {c} : run'[b] = run[b]
      /\ run'[c] = [run[c] EXCEPT !.stage = ending, !.held = FALSE, !.trail = longer]
  BY <1>1, <1>2
<1>9. /\ run'[c] \in [stage : TC!Stages, trail : Seq(TC!Phases), held : BOOLEAN, traced : BOOLEAN]
      /\ run'[c].stage = ending /\ run'[c].trail = longer /\ run'[c].traced = run[c].traced
  BY <1>2, <1>4, <1>5, <1>8 DEF RunSound
<1>10. RunSound(run'[c])
  BY <1>4, <1>5, <1>9 DEF RunSound
<1>11. EndedStay
  BY <1>1, <1>8 DEF EndedStay, Over
<1>12. RingSound' /\ DOMAIN spans' = TC!Cycles /\ spans'[c] = 0 /\ \A b \in TC!Cycles \ {c} : spans'[b] = spans[b]
  <2>1. RunsSound /\ RingSound
    BY DEF TriadInv
  <2>2. RoleCount(run'[c].trail) = (IF run[c].stage = "architect" THEN 1
                                    ELSE IF run[c].stage = "operator" THEN 2 ELSE 3)
    BY <1>1, <1>4, <1>9
  <2>3. run'[c].stage \in {"returned", "threw"} /\ run[c].stage \in {"architect", "operator", "verifier"}
    BY <1>1, <1>5, <1>9
  <2>4. TC!RootEnds(c, TC!Children(c), ending)
    BY <1>1
  <2> QED BY <1>9, <1>11, <2>1, <2>2, <2>3, <2>4, RootKeeps
<1>13. RunsSound'
  <2>1. SpanCount(run'[c]) = 0
    BY <1>5, <1>9 DEF SpanCount
  <2> QED BY <1>8, <1>10, <1>12, <2>1, RunsMove DEF TriadInv
<1>14. CycleReceiptsSound'
  <2>1. CASE stored
    <3>1. cycleReceipts' = cycleReceipts \cup {r} /\ issued' = issued + 1 /\ run'[c].stage = "returned"
      BY <2>1, <1>0, <1>1, <1>9
    <3>2. ~Over(c)
      BY <1>1 DEF Over
    <3>3. IsVerdict(r.trail, r.passed) /\ run'[c].trail = r.trail
      BY <1>4, <1>7, <1>9
    <3>4. CycleReceiptsSound
      BY DEF TriadInv
    <3> QED BY <1>7, <1>8, <1>11, <3>1, <3>2, <3>3, <3>4, ReceiptIsNew
  <2>2. CASE ~stored
    <3>1. UNCHANGED <<cycleReceipts, issued>> /\ run'[c].stage = "threw"
      BY <2>2, <1>0, <1>1, <1>9
    <3> QED BY <1>8, <1>11, <3>1, ReceiptsStay DEF TriadInv
  <2> QED BY <2>1, <2>2
<1>15. WindowSound'
  BY <1>1, WindowStays DEF TriadInv
<1>16. config' \in TC!Configs /\ triadMode' \in {"active", "idle"} /\ tracing' \in BOOLEAN
  BY <1>1 DEF TriadInv
<1> QED BY <1>6, <1>12, <1>13, <1>14, <1>15, <1>16 DEF TriadInv, TC!Cycles, TC!Configs

\* Steps that leave the cycles and their accounts alone.
LEMMA QuietStep ==
    ASSUME TriadInv, UNCHANGED <<run, cycleReceipts, issued, spans>>,
           \/ ring' = ring
           \/ \E m \in 1..(Len(ring) + 1) : ring' = SubSeq(ring, m, Len(ring))
    PROVE  RunsSound' /\ CycleReceiptsSound' /\ RingSound'
<1>1. EndedStay
  BY DEF EndedStay
<1>2. RingSound'
  BY <1>1, RingKeeps DEF TriadInv
<1>3. CycleReceiptsSound'
  BY <1>1, ReceiptsStay DEF TriadInv
<1>4. RunsSound'
  BY DEF TriadInv, RunsSound, RunSound, SpanCount
<1> QED BY <1>2, <1>3, <1>4

LEMMA StallKeeps ==
    ASSUME TriadInv, NEW c \in TC!Cycles, TC!StallReleases(c)
    PROVE  TriadInv'
<1>1. /\ run' = [run EXCEPT ![c].held = FALSE]
      /\ UNCHANGED <<cycleReceipts, issued, active, windows, sent, config, triadMode, tracing, spans, ring>>
  BY DEF TC!StallReleases, TC!limits, TC!traces
<1>2. RunSound(run[c]) /\ DOMAIN run = TC!Cycles /\ DOMAIN spans = TC!Cycles /\ spans[c] = SpanCount(run[c])
  BY DEF TriadInv, RunsSound
<1>3. /\ DOMAIN run' = TC!Cycles /\ \A b \in TC!Cycles \ {c} : run'[b] = run[b]
      /\ run'[c] = [run[c] EXCEPT !.held = FALSE]
  BY <1>1, <1>2
<1>4. /\ run'[c] \in [stage : TC!Stages, trail : Seq(TC!Phases), held : BOOLEAN, traced : BOOLEAN]
      /\ run'[c].stage = run[c].stage /\ run'[c].trail = run[c].trail /\ run'[c].traced = run[c].traced
  BY <1>2, <1>3 DEF RunSound
<1>5. RunSound(run'[c])
  BY <1>2, <1>4 DEF RunSound
<1>6. spans'[c] = SpanCount(run'[c]) /\ \A b \in TC!Cycles \ {c} : spans'[b] = spans[b]
  BY <1>1, <1>2, <1>4 DEF SpanCount
<1>7. RunsSound'
  BY <1>1, <1>2, <1>3, <1>5, <1>6, RunsMove DEF TriadInv
<1>8. EndedStay /\ \A b \in TC!Cycles : run'[b].stage = "returned" => run[b].stage = "returned"
  BY <1>3, <1>4 DEF EndedStay
<1>9. CycleReceiptsSound' /\ RingSound'
  BY <1>1, <1>8, ReceiptsStay, RingKeeps DEF TriadInv
<1>10. WindowSound'
  BY <1>1, WindowStays DEF TriadInv
<1>11. /\ active' \in Seq([cycle : TC!Cycles, phase : TC!Phases])
       /\ config' \in TC!Configs /\ triadMode' \in {"active", "idle"} /\ tracing' \in BOOLEAN
  BY <1>1 DEF TriadInv
<1> QED BY <1>7, <1>9, <1>10, <1>11 DEF TriadInv, TC!Cycles, TC!Configs

\* The governor forgets the display and all but the last traces.
LEMMA IdleKeeps ==
    ASSUME TriadBounds, TriadInv, TC!EnterIdle
    PROVE  TriadInv'
<1> DEFINE kept == IF Len(ring) < IdleTraces THEN Len(ring) ELSE IdleTraces
           m == Len(ring) - kept + 1
<1>1. /\ triadMode' = "idle" /\ active' = << >> /\ ring' = SubSeq(ring, m, Len(ring))
      /\ UNCHANGED <<run, cycleReceipts, issued, windows, sent, config, tracing, spans>>
  BY DEF TC!EnterIdle, TC!limits
<1>2. Len(ring) \in Nat
  BY DEF TriadInv, RingSound
<1>3. m \in 1..(Len(ring) + 1)
  BY <1>2 DEF TriadBounds
<1> HIDE DEF m
<1>4. RunsSound' /\ CycleReceiptsSound' /\ RingSound'
  BY <1>1, <1>3, QuietStep
<1>5. WindowSound'
  BY <1>1, WindowStays DEF TriadInv
<1>6. /\ active' \in Seq([cycle : TC!Cycles, phase : TC!Phases])
      /\ config' \in TC!Configs /\ triadMode' \in {"active", "idle"} /\ tracing' \in BOOLEAN
  BY <1>1 DEF TriadInv
<1> QED BY <1>4, <1>5, <1>6 DEF TriadInv, TC!Cycles, TC!Configs

LEMMA TriadTickKeeps ==
    ASSUME TriadBounds, TriadInv, TC!Tick
    PROVE  TriadInv'
<1>1. /\ windows' = [a \in Primaries |-> TC!Older(windows[a])]
      /\ sent' = [a \in Primaries |-> TC!InWindow(TC!Older(sent[a]))]
      /\ UNCHANGED <<run, cycleReceipts, issued, active, config, triadMode, tracing, spans, ring>>
  BY DEF TC!Tick, TC!flow, TC!traces
<1>2. ASSUME NEW a \in Primaries
      PROVE  Remembers(windows'[a], sent'[a]) /\ Len(sent'[a]) <= Len(sent[a])
                                              /\ Len(sent[a]) \in Nat /\ Len(sent'[a]) \in Nat
  <2>1. /\ Remembers(TC!Older(windows[a]), TC!InWindow(TC!Older(sent[a])))
        /\ Len(TC!InWindow(TC!Older(sent[a]))) <= Len(sent[a])
    BY TickRemembers DEF TriadBounds, TriadInv, WindowSound
  <2>2. windows'[a] = TC!Older(windows[a]) /\ sent'[a] = TC!InWindow(TC!Older(sent[a]))
    BY <1>1
  <2>3. Remembers(windows'[a], sent'[a])
    BY <2>1, <2>2
  <2>4. sent'[a] \in Seq(0..Window) /\ sent[a] \in Seq(0..Window)
    BY <2>3 DEF Remembers, TriadInv, WindowSound
  <2> QED BY <2>1, <2>2, <2>3, <2>4
<1>3. TC!WindowHolds'
  <2> SUFFICES ASSUME NEW a \in Primaries \ Fallbacks PROVE Len(sent'[a]) <= MaxPerWindow
    BY DEF TC!WindowHolds
  <2> QED BY <1>2 DEF TriadInv, WindowSound, TC!WindowHolds, TriadBounds
<1>4. WindowSound'
  <2>1. DOMAIN windows' = Primaries /\ DOMAIN sent' = Primaries
    BY <1>1
  <2> QED BY <2>1, <1>2, <1>3 DEF WindowSound, Remembers, InTimeOrder
<1>5. RunsSound' /\ CycleReceiptsSound' /\ RingSound'
  BY <1>1, QuietStep
<1>6. /\ active' \in Seq([cycle : TC!Cycles, phase : TC!Phases])
      /\ config' \in TC!Configs /\ triadMode' \in {"active", "idle"} /\ tracing' \in BOOLEAN
  BY <1>1 DEF TriadInv
<1> QED BY <1>4, <1>5, <1>6 DEF TriadInv, TC!Cycles, TC!Configs

\* What is left: activity, a reload, the tracer, or nothing at all.
LEMMA OutsideKeeps ==
    ASSUME TriadInv,
           \/ TC!NoteActivity \/ TC!TracingReady \/ \E k \in TC!Configs : TC!Reload(k)
           \/ UNCHANGED TC!vars
    PROVE  TriadInv'
<1>1. UNCHANGED <<run, cycleReceipts, issued, active, windows, sent, spans, ring>>
  BY DEF TC!NoteActivity, TC!TracingReady, TC!Reload, TC!vars, TC!flow, TC!limits, TC!traces
<1>2. config' \in TC!Configs /\ triadMode' \in {"active", "idle"} /\ tracing' \in BOOLEAN
  BY DEF TriadInv, TC!NoteActivity, TC!TracingReady, TC!Reload, TC!vars
<1>3. RunsSound' /\ CycleReceiptsSound' /\ RingSound'
  BY <1>1, QuietStep
<1>4. WindowSound'
  BY <1>1, WindowStays DEF TriadInv
<1>5. active' \in Seq([cycle : TC!Cycles, phase : TC!Phases])
  BY <1>1 DEF TriadInv
<1> QED BY <1>2, <1>3, <1>4, <1>5 DEF TriadInv, TC!Cycles, TC!Configs

\* The maps of the model have an entry for each key and no other.
TriadMaps ==
    /\ run = [c \in TC!Cycles |-> run[c]] /\ spans = [c \in TC!Cycles |-> spans[c]]
    /\ windows = [a \in Primaries |-> windows[a]] /\ sent = [a \in Primaries |-> sent[a]]

LEMMA SetKeepsMap ==
    ASSUME NEW S, NEW f, f = [x \in S |-> f[x]], NEW g, NEW a, NEW b, g = [f EXCEPT ![a] = b]
    PROVE  g = [x \in S |-> g[x]]
OBVIOUS

LEMMA TriadMapsInit == ASSUME TC!Init PROVE TriadMaps
BY DEF TC!Init, TriadMaps

LEMMA TriadMapsStep == ASSUME TriadMaps, [TC!Next]_TC!vars PROVE TriadMaps'
<1>0. UNCHANGED TC!Cycles
  BY DEF TC!Cycles
<1>1. run' = [c \in TC!Cycles |-> run'[c]]
  <2>1. CASE UNCHANGED run
    BY <2>1 DEF TriadMaps
  <2>2. ASSUME NEW c \in TC!Cycles, NEW headroom \in BOOLEAN, NEW claimed \in BOOLEAN,
               TC!Execute(c, headroom, claimed)
        PROVE  run' = [b \in TC!Cycles |-> run'[b]]
    BY <2>2, SetKeepsMap DEF TC!Execute, TriadMaps
  <2>3. ASSUME NEW c \in TC!Cycles, TC!StallReleases(c)
        PROVE  run' = [b \in TC!Cycles |-> run'[b]]
    BY <2>3 DEF TC!StallReleases, TriadMaps
  <2>4. ASSUME NEW c \in TC!Cycles, TC!ArchitectEnds(c) \/ TC!OperatorEnds(c)
        PROVE  run' = [b \in TC!Cycles |-> run'[b]]
    BY <2>4 DEF TC!ArchitectEnds, TC!OperatorEnds, TC!RoleEnds1, TriadMaps
  <2>5. ASSUME NEW c \in TC!Cycles, TC!RoleThrows(c)
        PROVE  run' = [b \in TC!Cycles |-> run'[b]]
    BY <2>5 DEF TC!RoleThrows, TriadMaps
  <2>6. ASSUME NEW c \in TC!Cycles, NEW passed \in BOOLEAN, NEW stored \in BOOLEAN,
               TC!VerifierEnds(c, passed, stored)
        PROVE  run' = [b \in TC!Cycles |-> run'[b]]
    BY <2>6 DEF TC!VerifierEnds, TriadMaps
  <2> QED BY <2>1, <2>2, <2>3, <2>4, <2>5, <2>6 DEF TC!Next, TC!vars, TC!flow, TC!NoteActivity,
           TC!EnterIdle, TC!TracingReady, TC!Reload, TC!Tick
<1>2. spans' = [c \in TC!Cycles |-> spans'[c]]
  <2>1. spans' = spans \/ \E c, n : spans' = [spans EXCEPT ![c] = n]
    BY ZenonT(60)
       DEF TC!Next, TC!vars, TC!traces, TC!Execute, TC!StallReleases, TC!ArchitectEnds, TC!OperatorEnds,
           TC!RoleEnds1, TC!RoleThrows, TC!VerifierEnds, TC!NoteActivity, TC!EnterIdle, TC!TracingReady,
           TC!Reload, TC!Tick, TC!RootEnds
  <2> QED BY <2>1, SetKeepsMap DEF TriadMaps
<1>3. windows' = [a \in Primaries |-> windows'[a]] /\ sent' = [a \in Primaries |-> sent'[a]]
  <2>1. CASE TC!Tick
    BY <2>1 DEF TC!Tick
  <2>2. CASE \E headroom \in BOOLEAN : TC!Recorded(TC!Route(headroom))
    <3>1. PICK headroom \in BOOLEAN : TC!Recorded(TC!Route(headroom))
      BY <2>2
    <3> DEFINE probed == [windows EXCEPT ![config.primary] = TC!Pruned(windows[config.primary])]
    <3>2. probed = [a \in Primaries |-> probed[a]]
      BY SetKeepsMap DEF TriadMaps
    <3>3. /\ windows' = probed \/ \E a, b : windows' = [probed EXCEPT ![a] = b]
          /\ sent' = sent \/ \E a, b : sent' = [sent EXCEPT ![a] = b]
      BY <3>1 DEF TC!Recorded
    <3> HIDE DEF probed
    <3> QED BY <3>2, <3>3, SetKeepsMap DEF TriadMaps
  <2>3. CASE UNCHANGED <<windows, sent>>
    BY <2>3 DEF TriadMaps
  <2> QED BY <2>1, <2>2, <2>3, ZenonT(60)
          DEF TC!Next, TC!vars, TC!limits, TC!Execute, TC!StallReleases, TC!ArchitectEnds, TC!OperatorEnds,
          TC!RoleEnds1, TC!RoleThrows, TC!VerifierEnds, TC!NoteActivity, TC!EnterIdle,
           TC!TracingReady, TC!Reload
<1> QED BY <1>0, <1>1, <1>2, <1>3 DEF TriadMaps

LEMMA TriadInit == ASSUME TriadBounds, TC!Init PROVE TriadInv
<1> DEFINE first == [stage |-> "new", trail |-> << >>, held |-> FALSE, traced |-> FALSE]
<1>1. /\ run = [c \in TC!Cycles |-> first] /\ cycleReceipts = {} /\ issued = 0 /\ active = << >>
      /\ windows = [a \in Primaries |-> << >>] /\ sent = [a \in Primaries |-> << >>]
      /\ config \in TC!Configs /\ triadMode = "active" /\ tracing = FALSE
      /\ spans = [c \in TC!Cycles |-> 0] /\ ring = << >>
  BY DEF TC!Init
<1>2. \A c \in TC!Cycles : RunSound(run[c])
  <2>1. RunSound(first)
    BY DEF RunSound, TC!Stages
  <2> HIDE DEF first
  <2> QED BY <1>1, <2>1
<1>3. RunsSound
  BY <1>1, <1>2 DEF RunsSound, SpanCount
<1>4. CycleReceiptsSound
  <2>1. \A c \in TC!Cycles : run[c].stage = "new"
    BY <1>1
  <2> QED BY <1>1, <2>1, FS_EmptySet DEF CycleReceiptsSound
<1>5. RingSound
  BY <1>1 DEF RingSound
<1>6. WindowSound
  <2>1. Remembers(<< >>, << >>)
    BY DEF Remembers, InTimeOrder, TriadBounds
  <2>2. Len(<< >>) <= MaxPerWindow
    BY DEF TriadBounds
  <2>3. TC!WindowHolds
    BY <1>1, <2>2 DEF TC!WindowHolds
  <2>4. DOMAIN windows = Primaries /\ DOMAIN sent = Primaries
        /\ \A a \in Primaries : windows[a] = << >> /\ sent[a] = << >>
    BY <1>1
  <2>5. ASSUME NEW a \in Primaries PROVE Remembers(windows[a], sent[a])
    BY <2>1, <2>4
  <2> QED BY <2>3, <2>4, <2>5 DEF WindowSound
<1>7. active \in Seq([cycle : TC!Cycles, phase : TC!Phases])
  BY <1>1
<1>8. config \in TC!Configs /\ triadMode \in {"active", "idle"} /\ tracing \in BOOLEAN
  BY <1>1
<1> QED BY <1>3, <1>4, <1>5, <1>6, <1>7, <1>8 DEF TriadInv

LEMMA TriadStep == ASSUME TriadBounds, TriadInv, [TC!Next]_TC!vars PROVE TriadInv'
<1>1. ASSUME NEW c \in TC!Cycles, NEW headroom \in BOOLEAN, NEW claimed \in BOOLEAN,
             TC!Execute(c, headroom, claimed)
      PROVE  TriadInv'
  BY <1>1, ExecuteKeeps
<1>2. ASSUME NEW c \in TC!Cycles, TC!StallReleases(c) PROVE TriadInv'
  BY <1>2, StallKeeps
<1>3. ASSUME NEW c \in TC!Cycles, TC!ArchitectEnds(c) \/ TC!OperatorEnds(c) PROVE TriadInv'
  BY <1>3, RoleEndsKeeps
<1>4. ASSUME NEW c \in TC!Cycles, TC!RoleThrows(c) PROVE TriadInv'
  BY <1>4, RoleThrowsKeeps
<1>5. ASSUME NEW c \in TC!Cycles, NEW passed \in BOOLEAN, NEW stored \in BOOLEAN,
             TC!VerifierEnds(c, passed, stored)
      PROVE  TriadInv'
  BY <1>5, VerifierEndsKeeps
<1>6. CASE TC!EnterIdle
  BY <1>6, IdleKeeps
<1>7. CASE TC!Tick
  BY <1>7, TriadTickKeeps
<1>8. CASE \/ TC!NoteActivity \/ TC!TracingReady \/ \E k \in TC!Configs : TC!Reload(k)
           \/ UNCHANGED TC!vars
  BY <1>8, OutsideKeeps
<1> QED BY <1>1, <1>2, <1>3, <1>4, <1>5, <1>6, <1>7, <1>8 DEF TC!Next

\* What the runs check of a cycle follows.
LEMMA TriadTrue ==
    ASSUME TriadBounds, TriadMaps, TriadInv
    PROVE  TC!WindowHolds /\ TC!TypeOK /\ TC!ReceiptAccounts /\ TC!TraceIsWhole
<1>1. TC!WindowHolds
  BY DEF TriadInv, WindowSound
<1>2. TC!TypeOK
  <2>1. run \in [TC!Cycles -> [stage : TC!Stages, trail : Seq(TC!Phases), held : BOOLEAN, traced : BOOLEAN]]
    <3>1. /\ DOMAIN run = TC!Cycles
          /\ \A c \in TC!Cycles :
               run[c] \in [stage : TC!Stages, trail : Seq(TC!Phases), held : BOOLEAN, traced : BOOLEAN]
      BY DEF TriadInv, RunsSound, RunSound
    <3> QED BY <3>1 DEF TriadMaps
  <2>2. cycleReceipts \subseteq [cycle : TC!Cycles, passed : BOOLEAN, trail : Seq(TC!Phases)]
    BY DEF TriadInv, CycleReceiptsSound
  <2>3. issued \in Nat
    BY FS_CardinalityType DEF TriadInv, CycleReceiptsSound
  <2>4. windows \in [Primaries -> Seq(0..(Window + 1))] /\ sent \in [Primaries -> Seq(0..Window)]
    <3>1. \A a \in Primaries : windows[a] \in Seq(0..(Window + 1)) /\ sent[a] \in Seq(0..Window)
      BY DEF TriadInv, WindowSound, Remembers
    <3> QED BY <3>1 DEF TriadMaps
  <2>5. spans \in [TC!Cycles -> 0..3]
    <3>1. \A c \in TC!Cycles : spans[c] \in 0..3
      BY DEF TriadInv, RunsSound, SpanCount
    <3> QED BY <3>1 DEF TriadMaps
  <2> QED BY <2>1, <2>2, <2>3, <2>4, <2>5 DEF TriadInv, RingSound, TC!TypeOK
<1>3. TC!ReceiptAccounts
  <2>1. ASSUME NEW r \in cycleReceipts
        PROVE  /\ r.trail = run[r.cycle].trail
               /\ TC!LegalTrail(r.trail) /\ Len(r.trail) = 9
               /\ r.passed <=> TC!Last(r.trail) = "Succeeded"
    <3>1. r.passed \in BOOLEAN /\ r.trail = run[r.cycle].trail /\ IsVerdict(r.trail, r.passed)
      BY DEF TriadInv, CycleReceiptsSound
    <3>2. TC!LegalTrail(r.trail) /\ TC!Last(r.trail) = IF r.passed THEN "Succeeded" ELSE "Failed"
      BY <3>1, VerdictIsLegal
    <3>3. Len(r.trail) = 9
      BY <3>1 DEF IsVerdict
    <3> QED BY <3>1, <3>2, <3>3
  <2>2. ASSUME NEW c \in TC!Cycles, run[c].stage = "threw"
        PROVE  TC!LegalTrail(run[c].trail) /\ TC!Last(run[c].trail) \in TC!Terminal
    <3>1. \/ \E passed \in BOOLEAN : IsVerdict(run[c].trail, passed)
          \/ \E n \in {3, 5, 7} : IsFailure(run[c].trail, n)
      BY <2>2 DEF TriadInv, RunsSound, RunSound
    <3>2. CASE \E passed \in BOOLEAN : IsVerdict(run[c].trail, passed)
      BY <3>2, VerdictIsLegal DEF TC!Terminal
    <3>3. CASE \E n \in {3, 5, 7} : IsFailure(run[c].trail, n)
      BY <3>3, FailureIsLegal DEF TC!Terminal
    <3> QED BY <3>1, <3>2, <3>3
  <2>3. \A c \in TC!Cycles : (run[c].stage = "returned") <=> \E r \in cycleReceipts : r.cycle = c
    BY DEF TriadInv, CycleReceiptsSound
  <2>4. issued = TC!Cardinality(cycleReceipts)
    BY TriadCardinality DEF TriadInv, CycleReceiptsSound
  <2> QED BY <2>1, <2>2, <2>3, <2>4 DEF TC!ReceiptAccounts
<1>4. TC!TraceIsWhole
  <2>1. DOMAIN ring = 1..Len(ring)
    BY DEF TriadInv, RingSound
  <2>2. \A i \in 1..Len(ring) : RingEntry(ring[i], run)
    BY DEF TriadInv, RingSound
  <2>3. ASSUME NEW c \in TC!Cycles, run[c].stage \in {"returned", "threw"} PROVE spans[c] = 0
    BY <2>3 DEF TriadInv, RunsSound, SpanCount
  <2> QED BY <2>1, <2>2, <2>3 DEF TC!TraceIsWhole, RingEntry, RoleCount, Roles
<1> QED BY <1>1, <1>2, <1>3, <1>4

-----------------------------------------------------------------------------
\* The display: never too long, of distinct cycles, each in the phase its cycle
\* entered last.
Distinct(list) == \A i, j \in 1..Len(list) : list[i].cycle = list[j].cycle => i = j
Follows(list, runs) == \A i \in 1..Len(list) : list[i].phase = TC!Last(runs[list[i].cycle].trail)

DisplayInv == Len(active) <= MaxActive /\ Distinct(active) /\ Follows(active, run)

\* What Show makes of a list: c is in it, in p, and the others are as they were.
ShownAs(new, list, c, p) ==
    /\ new \in Seq([cycle : TC!Cycles, phase : TC!Phases])
    /\ Len(new) <= MaxActive /\ Distinct(new) /\ TC!Listed(new, c)
    /\ \A i \in 1..Len(new) : IF new[i].cycle = c THEN new[i].phase = p
                              ELSE \E j \in 1..Len(list) : new[i] = list[j]

LEMMA ShowsCycle ==
    ASSUME MaxActive \in Nat \ {0}, NEW list \in Seq([cycle : TC!Cycles, phase : TC!Phases]),
           Len(list) <= MaxActive, Distinct(list), NEW c \in TC!Cycles, NEW p \in TC!Phases
    PROVE  ShownAs(TC!Show(list, c, p), list, c, p)
<1> DEFINE E == [cycle : TC!Cycles, phase : TC!Phases]
           e == [cycle |-> c, phase |-> p]
           grown == Append(list, e)
           set == [i \in DOMAIN list |-> IF list[i].cycle = c THEN [list[i] EXCEPT !.phase = p] ELSE list[i]]
           new == TC!Show(list, c, p)
<1>1. new \in Seq(E)
  BY DisplaySound
<1>2. e \in E /\ e.cycle = c /\ e.phase = p
  OBVIOUS
<1>3. DOMAIN list = 1..Len(list) /\ Len(list) \in Nat /\ list \in Seq(E) /\ \A i \in 1..Len(list) : list[i] \in E
  <2>1. list \in Seq(E)
    OBVIOUS
  <2> HIDE DEF E
  <2> QED BY <2>1
<1>4. CASE TC!Listed(list, c)
  <2>1. new = set
    BY <1>4 DEF TC!Show
  <2>2. /\ DOMAIN set = 1..Len(list)
        /\ \A i \in 1..Len(list) : /\ set[i].cycle = list[i].cycle
                                   /\ set[i] = list[i] \/ (list[i].cycle = c /\ set[i].phase = p)
                                   /\ list[i].cycle = c => set[i].phase = p
    BY <1>3
  <2> HIDE DEF set, E
  <2>3. Len(new) = Len(list)
    BY <1>1, <1>3, <2>1, <2>2
  <2>4. TC!Listed(new, c)
    BY <1>3, <1>4, <2>1, <2>2 DEF TC!Listed
  <2>5. Distinct(new)
    BY <2>1, <2>2, <2>3 DEF Distinct
  <2>6. Len(new) <= MaxActive
    BY <2>3
  <2>7. ASSUME NEW i \in 1..Len(new)
        PROVE  IF new[i].cycle = c THEN new[i].phase = p ELSE \E j \in 1..Len(list) : new[i] = list[j]
    <3>1. i \in 1..Len(list) /\ new[i] = set[i]
      BY <2>1, <2>3
    <3> HIDE DEF new
    <3>2. /\ set[i].cycle = list[i].cycle
          /\ set[i] = list[i] \/ (list[i].cycle = c /\ set[i].phase = p)
          /\ list[i].cycle = c => set[i].phase = p
      BY <2>2, <3>1
    <3>3. CASE list[i].cycle = c
      BY <3>1, <3>2, <3>3
    <3>4. CASE list[i].cycle # c
      BY <3>1, <3>2, <3>4
    <3> QED BY <3>3, <3>4
  <2>8. new \in Seq([cycle : TC!Cycles, phase : TC!Phases])
    BY <1>1 DEF E
  <2> HIDE DEF new
  <2> QED BY <2>4, <2>5, <2>6, <2>7, <2>8 DEF ShownAs, new
<1>5. CASE ~TC!Listed(list, c)
  <2>1. new = IF Len(grown) > MaxActive THEN Tail(grown) ELSE grown
    BY <1>5 DEF TC!Show
  <2> HIDE DEF E, e, new
  <2>2. /\ grown \in Seq(E) /\ Len(grown) = Len(list) + 1 /\ grown # << >> /\ DOMAIN grown = 1..(Len(list) + 1)
        /\ grown[Len(list) + 1] = e /\ \A i \in 1..Len(list) : grown[i] = list[i]
    BY <1>2, <1>3
  <2>3. \A i \in 1..Len(list) : list[i].cycle # c
    BY <1>3, <1>5 DEF TC!Listed
  <2> HIDE DEF grown
  <2>4. Distinct(grown)
    <3> SUFFICES ASSUME NEW i \in 1..Len(grown), NEW j \in 1..Len(grown), grown[i].cycle = grown[j].cycle
                 PROVE  i = j
      BY DEF Distinct
    <3>1. CASE i \in 1..Len(list) /\ j \in 1..Len(list)
      BY <2>2, <3>1 DEF Distinct
    <3>2. CASE i = Len(list) + 1 /\ j \in 1..Len(list)
      BY <1>2, <2>2, <2>3, <3>2
    <3>3. CASE j = Len(list) + 1 /\ i \in 1..Len(list)
      BY <1>2, <2>2, <2>3, <3>3
    <3>4. CASE i = Len(list) + 1 /\ j = Len(list) + 1
      BY <3>4
    <3>5. /\ i \in 1..Len(list) \/ i = Len(list) + 1
          /\ j \in 1..Len(list) \/ j = Len(list) + 1
      BY <1>3, <2>2
    <3> QED BY <3>1, <3>2, <3>3, <3>4, <3>5
  <2>5. PICK d \in 0..1 : /\ Len(new) = Len(list) + 1 - d /\ Len(new) <= MaxActive /\ Len(new) >= 1
                          /\ \A i \in 1..Len(new) : new[i] = grown[i + d] /\ i + d \in 1..(Len(list) + 1)
    <3>1. CASE Len(grown) > MaxActive
      <4>1. new = Tail(grown)
        BY <2>1, <3>1
      <4>2. Len(Tail(grown)) = Len(grown) - 1 /\ \A i \in 1..Len(Tail(grown)) : Tail(grown)[i] = grown[i + 1]
        BY <2>2, HeadTailProperties
      <4>3. Len(list) = MaxActive
        <5>1. Len(list) + 1 > MaxActive
          BY <2>2, <3>1
        <5>2. Len(list) \in Nat /\ Len(list) <= MaxActive /\ MaxActive \in Nat
          BY <1>3
        <5> QED BY <5>1, <5>2
      <4>4. /\ Len(new) = Len(list) + 1 - 1 /\ Len(new) <= MaxActive /\ Len(new) >= 1
            /\ \A i \in 1..Len(new) : new[i] = grown[i + 1] /\ i + 1 \in 1..(Len(list) + 1)
        BY <1>3, <2>2, <4>1, <4>2, <4>3
      <4> QED BY <4>4
    <3>2. CASE ~(Len(grown) > MaxActive)
      <4>1. new = grown
        BY <2>1, <3>2
      <4>2. /\ Len(new) = Len(list) + 1 - 0 /\ Len(new) <= MaxActive /\ Len(new) >= 1
            /\ \A i \in 1..Len(new) : new[i] = grown[i + 0] /\ i + 0 \in 1..(Len(list) + 1)
        BY <1>3, <2>2, <3>2, <4>1
      <4> QED BY <4>2
    <3> QED BY <3>1, <3>2
  <2>6. Distinct(new)
    <3> SUFFICES ASSUME NEW i \in 1..Len(new), NEW j \in 1..Len(new), new[i].cycle = new[j].cycle PROVE i = j
      BY DEF Distinct
    <3>1. i + d \in 1..Len(grown) /\ j + d \in 1..Len(grown) /\ grown[i + d].cycle = grown[j + d].cycle
      BY <2>2, <2>5
    <3>2. i + d = j + d
      BY <2>4, <3>1 DEF Distinct
    <3> QED BY <3>2
  <2>7. TC!Listed(new, c)
    <3>1. Len(new) \in DOMAIN new /\ Len(new) + d = Len(list) + 1
      BY <1>1, <1>3, <2>5
    <3>2. new[Len(new)] = e
      <4>1. Len(new) \in 1..Len(new)
        BY <1>1, <2>5
      <4>2. new[Len(new)] = grown[Len(new) + d]
        BY <2>5, <4>1
      <4> QED BY <2>2, <3>1, <4>2
    <3> QED BY <1>2, <3>1, <3>2 DEF TC!Listed
  <2>8. ASSUME NEW i \in 1..Len(new)
        PROVE  IF new[i].cycle = c THEN new[i].phase = p ELSE \E j \in 1..Len(list) : new[i] = list[j]
    <3>1. new[i] = grown[i + d] /\ i + d \in 1..(Len(list) + 1)
      BY <2>5
    <3>2. CASE i + d = Len(list) + 1
      BY <1>2, <2>2, <3>1, <3>2
    <3>3. CASE i + d # Len(list) + 1
      <4>1. i + d \in 1..Len(list)
        BY <1>3, <3>1, <3>3
      <4>2. new[i] = list[i + d]
        BY <2>2, <3>1, <4>1
      <4>3. new[i].cycle # c
        BY <2>3, <4>1, <4>2
      <4> QED BY <4>1, <4>2, <4>3
    <3> QED BY <3>2, <3>3
  <2> QED BY <1>1, <2>5, <2>6, <2>7, <2>8 DEF ShownAs, E, new
<1> QED BY <1>4, <1>5

\* The two transitions of one step.
LEMMA ShowsBoth ==
    ASSUME MaxActive \in Nat \ {0}, NEW list \in Seq([cycle : TC!Cycles, phase : TC!Phases]),
           Len(list) <= MaxActive, Distinct(list), NEW c \in TC!Cycles, NEW p \in TC!Phases, NEW q \in TC!Phases
    PROVE  ShownAs(TC!Shown(list, c, <<p, q>>), list, c, q)
<1> DEFINE one == TC!Show(list, c, p)
           two == TC!Show(one, c, q)
<1>1. TC!Shown(list, c, <<p, q>>) = two
  BY DEF TC!Shown
<1>2. ShownAs(one, list, c, p)
  BY ShowsCycle
<1> HIDE DEF one
<1>3. ShownAs(two, one, c, q)
  <2>1. one \in Seq([cycle : TC!Cycles, phase : TC!Phases]) /\ Len(one) <= MaxActive /\ Distinct(one)
    BY <1>2 DEF ShownAs
  <2> QED BY <2>1, ShowsCycle
<1> HIDE DEF two
<1>4. ASSUME NEW i \in 1..Len(two), two[i].cycle # c PROVE \E j \in 1..Len(list) : two[i] = list[j]
  <2>1. PICK k \in 1..Len(one) : two[i] = one[k]
    BY <1>3, <1>4 DEF ShownAs
  <2> QED BY <1>2, <1>4, <2>1 DEF ShownAs
<1>5. ShownAs(two, list, c, q)
  BY <1>3, <1>4 DEF ShownAs
<1> QED BY <1>1, <1>5

LEMMA ItemTyped == ASSUME NEW S, NEW q \in Seq(S), NEW i \in 1..Len(q) PROVE q[i] \in S
OBVIOUS

LEMMA DisplayFollows ==
    ASSUME DisplayInv, active \in Seq([cycle : TC!Cycles, phase : TC!Phases]), NEW c \in TC!Cycles, NEW p,
           ShownAs(active', active, c, p), TC!Last(run'[c].trail) = p,
           \A b \in TC!Cycles \ {c} : run'[b] = run[b]
    PROVE  DisplayInv' /\ \A b \in TC!Cycles : run'[b].trail # run[b].trail => TC!Listed(active', b)
<1>1. ASSUME NEW i \in 1..Len(active') PROVE active'[i].phase = TC!Last(run'[active'[i].cycle].trail)
  <2>1. CASE active'[i].cycle = c
    BY <2>1 DEF ShownAs
  <2>2. CASE active'[i].cycle # c
    <3>1. PICK j \in 1..Len(active) : active'[i] = active[j]
      BY <2>2 DEF ShownAs
    <3>2. active[j].phase = TC!Last(run[active[j].cycle].trail)
      BY DEF DisplayInv, Follows
    <3>3. active[j].cycle \in TC!Cycles
      <4>1. active[j] \in [cycle : TC!Cycles, phase : TC!Phases]
        BY ItemTyped
      <4> QED BY <4>1
    <3> QED BY <2>2, <3>1, <3>2, <3>3
  <2> QED BY <2>1, <2>2
<1> QED BY <1>1 DEF DisplayInv, Follows, ShownAs, Distinct

LEMMA LastOfPair ==
    ASSUME NEW S, NEW t \in Seq(S), NEW p \in S, NEW q \in S PROVE TC!Last(t \o <<p, q>>) = q
<1> DEFINE two == <<p, q>>
<1>1. two \in Seq(S) /\ Len(two) = 2 /\ two[2] = q
  OBVIOUS
<1> HIDE DEF two
<1>2. Len(t \o two) = Len(t) + 2 /\ Len(t) \in Nat
  <2>1. Len(t \o two) = Len(t) + Len(two)
    BY <1>1, ConcatProperties
  <2> QED BY <1>1, <2>1
<1>3. (t \o two)[Len(t) + 2] = two[Len(t) + 2 - Len(t)]
  <2>1. Len(t) + 2 \in 1..(Len(t) + Len(two)) /\ ~(Len(t) + 2 <= Len(t))
    BY <1>1, <1>2
  <2> QED BY <1>1, <2>1, ConcatProperties
<1>4. (t \o two)[Len(t) + 2] = q
  BY <1>1, <1>2, <1>3
<1> QED BY <1>2, <1>4 DEF TC!Last, two

LEMMA LastOfMore ==
    ASSUME NEW S, NEW t \in Seq(S), NEW p \in S PROVE TC!Last(Append(t, p)) = p
BY DEF TC!Last

LEMMA DisplayStarts == TriadBounds /\ TC!Init => DisplayInv
BY DEF TriadBounds, TC!Init, DisplayInv, Distinct, Follows

\* Every step shows the phase a cycle enters, and a display that stays true.
LEMMA DisplayIsTrue ==
    ASSUME MaxActive \in Nat \ {0}, TriadInv, TriadInv', DisplayInv, [TC!Next]_TC!vars
    PROVE  DisplayInv' /\ TC!DisplayStep
<1> DEFINE Moves == DisplayInv' /\ \A b \in TC!Cycles : run'[b].trail # run[b].trail => TC!Listed(active', b)
<1>1. /\ active \in Seq([cycle : TC!Cycles, phase : TC!Phases]) /\ Len(active) <= MaxActive /\ Distinct(active)
      /\ DOMAIN run = TC!Cycles /\ \A c \in TC!Cycles : run[c].trail \in Seq(TC!Phases)
  BY DEF TriadInv, RunsSound, RunSound, DisplayInv
<1>2. ASSUME NEW c \in TC!Cycles, NEW headroom \in BOOLEAN, NEW claimed \in BOOLEAN, TC!Execute(c, headroom, claimed)
      PROVE  Moves
  <2> DEFINE p == "DispatchToArchitect"
             q == "ArchitectStreaming"
             one == <<"PreparingContext">>
  <2>1. p \in TC!Phases /\ q \in TC!Phases /\ one \in Seq(TC!Phases)
    BY ThePhases
  <2>2. run'[c].trail = one \o <<p, q>> /\ (\A b \in TC!Cycles \ {c} : run'[b] = run[b])
        /\ active' = TC!Shown(active, c, <<p, q>>)
    BY <1>1, <1>2 DEF TC!Execute
  <2> HIDE DEF p, q, one
  <2>3. TC!Last(run'[c].trail) = q
    BY <2>1, <2>2, LastOfPair
  <2>4. ShownAs(active', active, c, q)
    BY <1>1, <2>1, <2>2, ShowsBoth
  <2> QED BY <1>1, <2>2, <2>3, <2>4, DisplayFollows
<1>3. ASSUME NEW c \in TC!Cycles, NEW here, NEW after, NEW p \in TC!Phases, NEW q \in TC!Phases,
             TC!RoleEnds1(c, here, after, <<p, q>>)
      PROVE  Moves
  <2>1. /\ run' = [run EXCEPT ![c].stage = after, ![c].trail = @ \o <<p, q>>]
        /\ active' = TC!Shown(active, c, <<p, q>>)
    BY <1>3 DEF TC!RoleEnds1
  <2>2. /\ run'[c].trail = run[c].trail \o <<p, q>> /\ \A b \in TC!Cycles \ {c} : run'[b] = run[b]
    BY <1>1, <2>1 DEF TriadInv, RunsSound, RunSound
  <2>3. TC!Last(run'[c].trail) = q
    BY <1>1, <2>2, LastOfPair
  <2>4. ShownAs(active', active, c, q)
    BY <1>1, <2>1, ShowsBoth
  <2> QED BY <1>1, <2>2, <2>3, <2>4, DisplayFollows
<1>4. ASSUME NEW c \in TC!Cycles, TC!RoleThrows(c) PROVE Moves
  <2> DEFINE p == "Failed"
  <2>1. p \in TC!Phases
    BY ThePhases
  <2>2. run'[c].trail = Append(run[c].trail, p) /\ (\A b \in TC!Cycles \ {c} : run'[b] = run[b])
        /\ active' = TC!Show(active, c, p)
    <3>1. run[c] \in [stage : TC!Stages, trail : Seq(TC!Phases), held : BOOLEAN, traced : BOOLEAN]
      BY DEF TriadInv, RunsSound, RunSound
    <3> QED BY <1>1, <1>4, <3>1 DEF TC!RoleThrows
  <2> HIDE DEF p
  <2>3. TC!Last(run'[c].trail) = p
    BY <1>1, <2>1, <2>2, LastOfMore
  <2>4. ShownAs(active', active, c, p)
    BY <1>1, <2>1, <2>2, ShowsCycle
  <2> QED BY <1>1, <2>2, <2>3, <2>4, DisplayFollows
<1>5. ASSUME NEW c \in TC!Cycles, NEW passed \in BOOLEAN, NEW stored \in BOOLEAN,
             TC!VerifierEnds(c, passed, stored)
      PROVE  Moves
  <2> DEFINE p == "IssuingReceipt"
             q == IF passed THEN "Succeeded" ELSE "Failed"
             ending == IF stored THEN "returned" ELSE "threw"
  <2>1. p \in TC!Phases /\ q \in TC!Phases
    BY ThePhases
  <2>2. /\ run' = [run EXCEPT ![c].stage = ending, ![c].held = FALSE, ![c].trail = run[c].trail \o <<p, q>>]
        /\ active' = TC!Shown(active, c, <<p, q>>)
    BY <1>5 DEF TC!VerifierEnds
  <2> HIDE DEF p, q, ending
  <2>3. run'[c].trail = run[c].trail \o <<p, q>> /\ \A b \in TC!Cycles \ {c} : run'[b] = run[b]
    <3>1. run[c] \in [stage : TC!Stages, trail : Seq(TC!Phases), held : BOOLEAN, traced : BOOLEAN]
      BY DEF TriadInv, RunsSound, RunSound
    <3> QED BY <1>1, <2>2, <3>1
  <2>4. TC!Last(run'[c].trail) = q
    BY <1>1, <2>1, <2>3, LastOfPair
  <2>5. ShownAs(active', active, c, q)
    BY <1>1, <2>1, <2>2, ShowsBoth
  <2> QED BY <1>1, <2>3, <2>4, <2>5, DisplayFollows
<1>6. ASSUME NEW c \in TC!Cycles, TC!StallReleases(c) PROVE Moves
  <2>1. /\ \A b \in TC!Cycles : run'[b].trail = run[b].trail
        /\ active' = active
    <3>1. run[c] \in [stage : TC!Stages, trail : Seq(TC!Phases), held : BOOLEAN, traced : BOOLEAN]
      BY DEF TriadInv, RunsSound, RunSound
    <3> QED BY <1>1, <1>6, <3>1 DEF TC!StallReleases
  <2>2. \A i \in 1..Len(active) : active[i].cycle \in TC!Cycles
    <3> SUFFICES ASSUME NEW i \in 1..Len(active) PROVE active[i].cycle \in TC!Cycles
      OBVIOUS
    <3>1. active[i] \in [cycle : TC!Cycles, phase : TC!Phases]
      BY <1>1, ItemTyped
    <3> QED BY <3>1
  <2>3. Follows(active, run')
    BY <2>1, <2>2 DEF DisplayInv, Follows
  <2> QED BY <2>1, <2>3 DEF DisplayInv, Distinct, Follows
<1>7. ASSUME TC!EnterIdle PROVE Moves
  BY <1>7 DEF TC!EnterIdle, DisplayInv, Distinct, Follows
<1>8. ASSUME UNCHANGED <<run, active>> PROVE Moves
  BY <1>8 DEF DisplayInv, Distinct, Follows
<1>9. Moves
  <2> HIDE DEF Moves
  <2>1. ASSUME NEW c \in TC!Cycles, TC!ArchitectEnds(c) \/ TC!OperatorEnds(c) PROVE Moves
    <3>1. {"DispatchToOperator", "OperatorExecuting", "DispatchToVerifier", "VerifierAuditing"} \subseteq TC!Phases
      BY ThePhases
    <3> QED BY <1>3, <2>1, <3>1 DEF TC!ArchitectEnds, TC!OperatorEnds
  <2>2. CASE TC!NoteActivity \/ TC!TracingReady \/ TC!Tick \/ UNCHANGED TC!vars \/ \E k \in TC!Configs : TC!Reload(k)
    BY <1>8, <2>2 DEF TC!NoteActivity, TC!TracingReady, TC!Tick, TC!Reload, TC!vars, TC!flow
  <2> QED BY <1>2, <1>4, <1>5, <1>6, <1>7, <2>1, <2>2 DEF TC!Next
<1>10. TC!DisplayStep
  <2>1. DOMAIN active' = 1..Len(active')
    BY DEF TriadInv
  <2> QED BY <1>9, <2>1 DEF TC!DisplayStep, DisplayInv, Distinct, Follows
<1> QED BY <1>9, <1>10

-----------------------------------------------------------------------------
(* FrontDoor                                                               *)

Stations == {"new", "open", "ws", "refused", "gone"}

\* What a bucket gave and holds came from its refills.
BucketAdds(b, t) ==
    /\ b \in [key : ClientKeys, tokens : Int, at : Int, since : Int, taken : Int, told : Int]
    /\ b.since <= b.at /\ b.at <= t
    /\ b.taken + b.tokens <= (Capacity + b.at) - b.since

\* Whoever it refused was told to come when it has enough.
BucketSound(b, t) == BucketAdds(b, t) /\ (b.told # 0 => b.told >= (b.at + Cost) - b.tokens)

BucketsSound ==
    /\ now \in Nat
    /\ buckets \in Seq([key : ClientKeys, tokens : Int, at : Int, since : Int, taken : Int, told : Int])
    /\ \A i \in 1..Len(buckets) : BucketSound(buckets[i], now)

ConnFields == {"at", "ask", "deadline", "timer", "answers", "status", "noted"}
Asks == {"none", "reading", "handling", "answered", "stream"}

ConnTyped(r) ==
    /\ DOMAIN r = ConnFields /\ r.at \in Stations /\ r.ask \in Asks /\ r.deadline \in BOOLEAN
    /\ r.timer \in BOOLEAN /\ r.answers \in 0..1 /\ r.status \in Nat /\ r.noted \in BOOLEAN

\* A connection whose request can still be answered has not been answered.
ConnSound(r) ==
    /\ ConnTyped(r)
    /\ r.timer => r.ask = "reading"
    /\ r.ask \in {"reading", "handling"} => r.answers = 0
    /\ r.noted => r.status \notin {401, 429}
    /\ r.at = "new" => r.ask = "none"

\* The deadlines run while the door is open, and a closed door has no client.
ConnFits(r, d) ==
    /\ d = "open" => (r.deadline <=> r.at = "open" /\ r.ask = "none")
    /\ d = "closed" => r.at \in {"new", "gone"}

ConnsSound ==
    /\ DOMAIN conns = Conns /\ door \in {"open", "closing", "closed"}
    /\ \A c \in Conns : ConnSound(conns[c]) /\ ConnFits(conns[c], door)

Served == {c \in Conns : conns[c].at = "ws"}

DoorInv == BucketsSound /\ ConnsSound /\ Cardinality(Served) <= MaxClients

DoorBounds ==
    /\ {Cost, Capacity, MaxClients} \subseteq Nat /\ MaxBuckets \in Nat \ {0}
    /\ IsFiniteSet(Conns)

LEMMA DoorCardinality == \A S : FD!Cardinality(S) = Cardinality(S)
BY DEF FD!Cardinality, Cardinality

\* touch: what is kept are buckets that were there.
LEMMA KeptWere ==
    ASSUME DoorBounds, BucketsSound, NEW k \in ClientKeys
    PROVE  /\ FD!Kept(k) \in Seq([key : ClientKeys, tokens : Int, at : Int, since : Int, taken : Int, told : Int])
           /\ \A i \in 1..Len(FD!Kept(k)) : BucketSound(FD!Kept(k)[i], now)
<1> DEFINE B == [key : ClientKeys, tokens : Int, at : Int, since : Int, taken : Int, told : Int]
<1>1. buckets \in Seq(B) /\ Len(buckets) \in Nat /\ \A i \in 1..Len(buckets) : BucketSound(buckets[i], now)
  BY DEF BucketsSound
<1> HIDE DEF B
<1>2. CASE ~FD!Known(k) /\ Len(buckets) >= MaxBuckets
  <2>1. Len(buckets) >= 1
    BY <1>1, <1>2 DEF DoorBounds
  <2>2. /\ Tail(buckets) \in Seq(B) /\ Len(Tail(buckets)) = Len(buckets) - 1
        /\ \A i \in 1..Len(Tail(buckets)) : Tail(buckets)[i] = buckets[i + 1]
    BY <1>1, <2>1
  <2>3. FD!Kept(k) = Tail(buckets)
    BY <1>2 DEF FD!Kept
  <2>4. ASSUME NEW i \in 1..Len(Tail(buckets)) PROVE BucketSound(Tail(buckets)[i], now)
    <3>1. i + 1 \in 1..Len(buckets)
      BY <1>1, <2>2
    <3> QED BY <3>1, <1>1, <2>2
  <2> QED BY <2>2, <2>3, <2>4 DEF B
<1>3. CASE ~(~FD!Known(k) /\ Len(buckets) >= MaxBuckets) /\ ~FD!Known(k)
  <2>1. FD!Kept(k) = buckets
    BY <1>3 DEF FD!Kept, FD!Others
  <2> QED BY <2>1, <1>1 DEF B
<1>4. CASE FD!Known(k)
  <2> DEFINE p == FD!Position(k)
             before == SubSeq(buckets, 1, p - 1)
             after == SubSeq(buckets, p + 1, Len(buckets))
  <2>1. p \in 1..Len(buckets)
    BY <1>1, <1>4 DEF FD!Known, FD!Position
  <2>2. FD!Kept(k) = before \o after
    BY <1>4 DEF FD!Kept, FD!Others, FD!RemoveAt
  <2> HIDE DEF p
  <2>3. /\ before \in Seq(B) /\ Len(before) = p - 1
        /\ \A i \in 1..(p - 1) : before[i] = buckets[i]
    BY <1>1, <2>1
  <2>4. /\ after \in Seq(B) /\ Len(after) = Len(buckets) - p
        /\ \A i \in 1..(Len(buckets) - p) : after[i] = buckets[p + i]
    BY <1>1, <2>1
  <2> HIDE DEF before, after
  <2>5. /\ before \o after \in Seq(B) /\ Len(before \o after) = Len(before) + Len(after)
        /\ \A i \in 1..(Len(before) + Len(after)) :
               (before \o after)[i] = IF i <= Len(before) THEN before[i] ELSE after[i - Len(before)]
    BY ONLY <2>3, <2>4, ConcatProperties
  <2>6. ASSUME NEW i \in 1..Len(before \o after) PROVE BucketSound((before \o after)[i], now)
    <3>0. Len(before \o after) = Len(buckets) - 1
      BY <1>1, <2>1, <2>3, <2>4, <2>5
    <3>1. CASE i <= p - 1
      <4>1. i \in 1..Len(buckets) /\ (before \o after)[i] = buckets[i]
        BY <3>0, <3>1, <1>1, <2>1, <2>3, <2>4, <2>5
      <4> QED BY <4>1, <1>1
    <3>2. CASE i > p - 1
      <4>1. i - (p - 1) \in 1..(Len(buckets) - p) /\ i + 1 \in 1..Len(buckets)
        BY <3>0, <3>2, <1>1, <2>1
      <4>2. (before \o after)[i] = after[i - (p - 1)]
        BY <3>0, <3>2, <1>1, <2>1, <2>3, <2>4, <2>5
      <4>3. after[i - (p - 1)] = buckets[i + 1]
        <5>1. after[i - (p - 1)] = buckets[p + (i - (p - 1))]
          BY <4>1, <2>4
        <5>2. p + (i - (p - 1)) = i + 1
          BY <1>1, <2>1, <3>0
        <5> QED BY <5>1, <5>2
      <4> QED BY <4>1, <4>2, <4>3, <1>1
    <3> QED BY <3>1, <3>2, <3>0, <1>1, <2>1
  <2> QED BY <2>2, <2>5, <2>6 DEF B
<1> QED BY <1>2, <1>3, <1>4

\* consume: the bucket is refilled, and gives or tells when to come again.
LEMMA TouchedAdds ==
    ASSUME DoorBounds, BucketsSound, NEW k \in ClientKeys
    PROVE  BucketAdds(FD!Touched(k), now) /\ FD!Touched(k).at = now
<1>0. now \in Int /\ Capacity \in Int /\ Cost \in Int
  BY DEF BucketsSound, DoorBounds
<1>1. CASE FD!Known(k)
  <2> DEFINE b == FD!BucketOf(k)
  <2>1. FD!Position(k) \in 1..Len(buckets)
    <3>1. DOMAIN buckets = 1..Len(buckets)
      BY DEF BucketsSound
    <3> QED BY <3>1, <1>1 DEF FD!Known, FD!Position
  <2>2. BucketAdds(b, now)
    BY <2>1 DEF BucketsSound, BucketSound, FD!BucketOf
  <2>3. FD!Touched(k) = FD!Refill(b)
    BY <1>1 DEF FD!Touched
  <2> HIDE DEF b
  <2> DEFINE full == (b.tokens + now) - b.at
             held == IF full > Capacity THEN Capacity ELSE full
  <2>4. /\ b \in [key : ClientKeys, tokens : Int, at : Int, since : Int, taken : Int, told : Int]
        /\ b.since <= b.at /\ b.at <= now
        /\ b.taken + b.tokens <= (Capacity + b.at) - b.since
    BY <2>2 DEF BucketAdds
  <2>5. held \in Int /\ held <= full /\ full \in Int
    BY <1>0, <2>4
  <2>6. FD!Refill(b) = [b EXCEPT !.tokens = held, !.at = now]
    <3>1. full = b.tokens + now - b.at
      BY <1>0, <2>4
    <3> QED BY <3>1 DEF FD!Refill
  <2>7. b.taken + held <= (Capacity + now) - b.since /\ b.since <= now
    BY <1>0, <2>4, <2>5
  <2> HIDE DEF held
  <2> DEFINE r == [b EXCEPT !.tokens = held, !.at = now]
  <2>8. /\ r \in [key : ClientKeys, tokens : Int, at : Int, since : Int, taken : Int, told : Int]
        /\ r.tokens = held /\ r.at = now /\ r.since = b.since /\ r.taken = b.taken
    BY <1>0, <2>4, <2>5
  <2> QED BY <1>0, <2>3, <2>6, <2>7, <2>8 DEF BucketAdds
<1>2. CASE ~FD!Known(k)
  <2>1. FD!Touched(k) = [key |-> k, tokens |-> Capacity, at |-> now, since |-> now, taken |-> 0, told |-> 0]
    BY <1>2 DEF FD!Touched, FD!NewBucket
  <2> QED BY <1>0, <2>1 DEF BucketAdds
<1> QED BY <1>1, <1>2

LEMMA ConsumeKeeps ==
    ASSUME DoorBounds, BucketsSound, NEW k \in ClientKeys, FD!Consume(k), now' = now
    PROVE  BucketsSound'
<1> DEFINE B == [key : ClientKeys, tokens : Int, at : Int, since : Int, taken : Int, told : Int]
           kept == FD!Kept(k)
           b == FD!Touched(k)
           done == IF FD!Allowed(k) THEN FD!Given(b) ELSE FD!Refused(b, FD!RetryAfter(b))
<1>1. buckets' = Append(kept, done)
  BY DEF FD!Consume
<1>2. kept \in Seq(B) /\ \A i \in 1..Len(kept) : BucketSound(kept[i], now)
  BY KeptWere
<1>3. now \in Nat /\ Capacity \in Int /\ Cost \in Int /\ Cost >= 0
  BY DEF BucketsSound, DoorBounds
<1>4. BucketAdds(b, now) /\ b.at = now
  BY TouchedAdds
<1>5. BucketSound(done, now) /\ done \in B
  <2>1. CASE FD!Allowed(k)
    <3>1. done = [b EXCEPT !.tokens = b.tokens - Cost, !.taken = b.taken + Cost, !.told = 0]
      BY <2>1 DEF FD!Given
    <3> HIDE DEF b
    <3>2. b \in B /\ b.tokens \in Int /\ b.taken \in Int
      BY <1>4 DEF BucketAdds
    <3> DEFINE r == [b EXCEPT !.tokens = b.tokens - Cost, !.taken = b.taken + Cost, !.told = 0]
    <3>3. /\ r \in B /\ r.tokens = b.tokens - Cost /\ r.taken = b.taken + Cost /\ r.told = 0
          /\ r.at = b.at /\ r.since = b.since
      <4> DEFINE t == b.tokens - Cost
                 g == b.taken + Cost
      <4>1. t \in Int /\ g \in Int /\ 0 \in Int
        BY <1>3, <3>2
      <4>2. r = [b EXCEPT !.tokens = t, !.taken = g, !.told = 0]
        OBVIOUS
      <4> HIDE DEF t, g, r
      <4>3. r \in B /\ r.tokens = t /\ r.taken = g /\ r.told = 0 /\ r.at = b.at /\ r.since = b.since
        BY <3>2, <4>1, <4>2
      <4> QED BY <4>3 DEF t, g
    <3> HIDE DEF r
    <3>4. done = r
      BY <3>1 DEF r
    <3> HIDE DEF done
    <3> QED BY <1>3, <1>4, <3>2, <3>3, <3>4 DEF BucketSound, BucketAdds
  <2>2. CASE ~FD!Allowed(k)
    <3>1. done = [b EXCEPT !.told = now + (Cost - b.tokens)]
      BY <2>2 DEF FD!Refused, FD!RetryAfter
    <3> HIDE DEF b
    <3>2. b \in B /\ b.tokens \in Int
      BY <1>4 DEF BucketAdds
    <3> DEFINE r == [b EXCEPT !.told = now + (Cost - b.tokens)]
    <3>3. /\ r \in B /\ r.tokens = b.tokens /\ r.taken = b.taken /\ r.told = now + (Cost - b.tokens)
          /\ r.at = b.at /\ r.since = b.since
      BY <1>3, <3>2
    <3> HIDE DEF r
    <3>4. done = r
      BY <3>1 DEF r
    <3> HIDE DEF done
    <3> QED BY <1>3, <1>4, <3>2, <3>3, <3>4 DEF BucketSound, BucketAdds
  <2> QED BY <2>1, <2>2
<1> HIDE DEF B, kept, b, done
<1>6. /\ Append(kept, done) \in Seq(B) /\ Len(Append(kept, done)) = Len(kept) + 1 /\ Len(kept) \in Nat
      /\ \A i \in 1..Len(kept) : Append(kept, done)[i] = kept[i]
      /\ Append(kept, done)[Len(kept) + 1] = done
  BY <1>2, <1>5
<1>7. ASSUME NEW i \in 1..(Len(kept) + 1) PROVE BucketSound(Append(kept, done)[i], now)
  <2>1. i \in 1..Len(kept) \/ i = Len(kept) + 1
    BY <1>6
  <2> QED BY <2>1, <1>2, <1>5, <1>6
<1> QED BY <1>1, <1>3, <1>6, <1>7 DEF BucketsSound, B

\* One connection moves.
LEMMA ConnMoves ==
    ASSUME DoorBounds, ConnsSound, Cardinality(Served) <= MaxClients, NEW c \in Conns, NEW r,
           conns' = [conns EXCEPT ![c] = r], door' = door, ConnSound(r), ConnFits(r, door),
           r.at = "ws" => conns[c].at = "ws" \/ Cardinality(FD!Upgraded) < MaxClients
    PROVE  ConnsSound' /\ Cardinality(Served)' <= MaxClients
<1>1. DOMAIN conns' = Conns /\ conns'[c] = r /\ \A b \in Conns \ {c} : conns'[b] = conns[b]
  BY DEF ConnsSound
<1>2. ConnsSound'
  <2>1. ASSUME NEW b \in Conns PROVE ConnSound(conns'[b]) /\ ConnFits(conns'[b], door')
    BY <1>1 DEF ConnsSound
  <2> QED BY <1>1, <2>1 DEF ConnsSound
<1>3. IsFiniteSet(Served) /\ IsFiniteSet(Served') /\ IsFiniteSet(FD!Upgraded)
  <2>1. Served \subseteq Conns /\ Served' \subseteq Conns /\ FD!Upgraded \subseteq Conns
    BY DEF Served, FD!Upgraded
  <2> QED BY <2>1, FS_Subset DEF DoorBounds
<1>4. CASE r.at = "ws" /\ conns[c].at # "ws"
  <2>1. c \notin Served /\ Served' = Served \cup {c}
    BY <1>1, <1>4 DEF Served
  <2>2. Cardinality(Served') = Cardinality(Served) + 1
    BY <1>3, <2>1, FS_AddElement
  <2>3. Cardinality(Served) <= Cardinality(FD!Upgraded)
    <3>1. Served \subseteq FD!Upgraded
      BY DEF Served, FD!Upgraded
    <3> QED BY <3>1, <1>3, FS_Subset
  <2>4. Cardinality(Served) \in Nat /\ Cardinality(FD!Upgraded) \in Nat /\ MaxClients \in Nat
    BY <1>3, FS_CardinalityType DEF DoorBounds
  <2>5. Cardinality(FD!Upgraded) < MaxClients
    BY <1>4
  <2> QED BY <1>2, <2>2, <2>3, <2>4, <2>5
<1>5. CASE ~(r.at = "ws" /\ conns[c].at # "ws")
  <2>1. Served' \subseteq Served
    BY <1>1, <1>5 DEF Served
  <2>2. Cardinality(Served') <= Cardinality(Served)
    BY <1>3, <2>1, FS_Subset
  <2>3. Cardinality(Served) \in Nat /\ Cardinality(Served') \in Nat /\ MaxClients \in Nat
    BY <1>3, FS_CardinalityType DEF DoorBounds
  <2> QED BY <1>2, <2>2, <2>3
<1> QED BY <1>4, <1>5

\* What the answer to a request that is asked, or being read, makes of a connection.
LEMMA AskedIsAnswered ==
    ASSUME NEW c \in Conns, ConnTyped(conns[c]), NEW status \in Nat
    PROVE  LET r == FD!Answering(c, status)
           IN  /\ ConnTyped(r) /\ r.at = conns[c].at /\ r.ask = "answered" /\ r.deadline = FALSE
               /\ r.timer = conns[c].timer /\ r.answers = 1 /\ r.status = status /\ r.noted = FALSE
<1> DEFINE old == conns[c]
           half == [old EXCEPT !.ask = "answered", !.deadline = FALSE, !.answers = 1]
           r == [half EXCEPT !.status = status, !.noted = FALSE]
<1>1. FD!Answering(c, status) = r
  BY DEF FD!Answering
<1>2. ConnTyped(old)
  OBVIOUS
<1> HIDE DEF old
<1>3. /\ ConnTyped(half) /\ half.at = old.at /\ half.ask = "answered" /\ half.deadline = FALSE
      /\ half.timer = old.timer /\ half.answers = 1
  BY <1>2 DEF ConnTyped, ConnFields, Stations, Asks
<1> HIDE DEF half
<1>4. /\ ConnTyped(r) /\ r.at = old.at /\ r.ask = "answered" /\ r.deadline = FALSE
      /\ r.timer = old.timer /\ r.answers = 1 /\ r.status = status /\ r.noted = FALSE
  BY <1>3 DEF ConnTyped, ConnFields, Stations, Asks
<1> HIDE DEF r
<1> QED BY <1>1, <1>4 DEF old

LEMMA AskedIsBusy ==
    ASSUME NEW c \in Conns, ConnTyped(conns[c]), NEW ask \in {"reading", "stream"}
    PROVE  LET r == FD!Busy(c, ask)
           IN  /\ ConnTyped(r) /\ r.at = conns[c].at /\ r.ask = ask /\ r.deadline = FALSE
               /\ r.timer = (ask = "reading") /\ r.answers = 0 /\ r.status = 0 /\ r.noted = FALSE
<1> DEFINE old == conns[c]
           t == ask = "reading"
           half == [old EXCEPT !.ask = ask, !.deadline = FALSE, !.timer = t]
           r == [half EXCEPT !.answers = 0, !.status = 0, !.noted = FALSE]
<1>1. FD!Busy(c, ask) = r
  BY DEF FD!Busy
<1>2. ConnTyped(old) /\ t \in BOOLEAN
  OBVIOUS
<1> HIDE DEF old, t
<1>3. /\ ConnTyped(half) /\ half.at = old.at /\ half.ask = ask /\ half.deadline = FALSE
      /\ half.timer = t
  BY <1>2 DEF ConnTyped, ConnFields, Stations, Asks
<1> HIDE DEF half
<1>4. /\ ConnTyped(r) /\ r.at = old.at /\ r.ask = ask /\ r.deadline = FALSE
      /\ r.timer = t /\ r.answers = 0 /\ r.status = 0 /\ r.noted = FALSE
  BY <1>3 DEF ConnTyped, ConnFields, Stations, Asks
<1> HIDE DEF r
<1> QED BY <1>1, <1>4 DEF old, t

\* The fields that decide whether a connection is sound.
LEMMA ConnIsSound ==
    ASSUME NEW r, ConnTyped(r), r.timer => r.ask = "reading",
           r.ask \in {"reading", "handling"} => r.answers = 0,
           r.noted => r.status \notin {401, 429}, r.at = "new" => r.ask = "none"
    PROVE  ConnSound(r)
BY DEF ConnSound, ConnTyped, ConnFields, Asks

LEMMA ConnIsTyped == ASSUME NEW r, ConnSound(r) PROVE ConnTyped(r)
BY DEF ConnSound, ConnTyped, ConnFields, Asks

\* The steps of one connection that draw on no bucket.
LEMMA QuietConn ==
    ASSUME DoorBounds, DoorInv, NEW c \in Conns,
           \/ FD!Connect(c) \/ FD!CutSilent(c) \/ FD!AskUngated(c) \/ FD!AskMetrics(c) \/ FD!Flushed(c)
           \/ FD!Leaves(c) \/ FD!BodyEnds(c) \/ FD!BodyTooLarge(c) \/ FD!BodyTimesOut(c)
           \/ FD!BodyErrors(c) \/ FD!HandlerAnswers(c)
    PROVE  DoorInv'
<1> DEFINE old == conns[c]
<1>0. /\ ConnSound(old) /\ ConnFits(old, door) /\ ConnTyped(old)
      /\ door \in {"open", "closing", "closed"} /\ ConnsSound /\ Cardinality(Served) <= MaxClients
  BY ConnIsTyped DEF DoorInv, ConnsSound
<1>1. UNCHANGED <<now, buckets, door>>
  BY DEF FD!Connect, FD!CutSilent, FD!AskUngated, FD!AskMetrics, FD!Flushed, FD!Leaves, FD!BodyEnds,
         FD!BodyTooLarge, FD!BodyTimesOut, FD!BodyErrors, FD!HandlerAnswers, FD!Answer
<1>2. BucketsSound'
  BY <1>1 DEF DoorInv, BucketsSound, BucketSound, BucketAdds
<1>3. SUFFICES \E r : /\ conns' = [conns EXCEPT ![c] = r] /\ ConnSound(r) /\ ConnFits(r, door)
                      /\ r.at = "ws" => old.at = "ws"
  BY <1>0, <1>1, <1>2, ConnMoves DEF DoorInv
<1>4. CASE FD!Connect(c)
  <2> DEFINE r == [old EXCEPT !.at = "open", !.deadline = TRUE]
  <2>1. conns' = [conns EXCEPT ![c] = r] /\ old.at = "new" /\ door = "open"
    BY <1>4 DEF FD!Connect
  <2> HIDE DEF old
  <2>2. /\ ConnTyped(r) /\ r.at = "open" /\ r.deadline = TRUE /\ r.ask = old.ask /\ r.timer = old.timer
        /\ r.answers = old.answers /\ r.status = old.status /\ r.noted = old.noted
    BY <1>0 DEF ConnTyped, ConnFields, Stations, Asks
  <2> HIDE DEF r
  <2>3. ConnSound(r) /\ ConnFits(r, door)
    BY <1>0, <2>1, <2>2, ConnIsSound DEF ConnSound, ConnFits
  <2> QED BY <2>1, <2>2, <2>3
<1>5. CASE FD!CutSilent(c)
  <2> DEFINE r == [old EXCEPT !.at = "gone", !.deadline = FALSE]
  <2>1. conns' = [conns EXCEPT ![c] = r]
    BY <1>5 DEF FD!CutSilent
  <2> HIDE DEF old
  <2>2. /\ ConnTyped(r) /\ r.at = "gone" /\ r.deadline = FALSE /\ r.ask = old.ask /\ r.timer = old.timer
        /\ r.answers = old.answers /\ r.status = old.status /\ r.noted = old.noted
    BY <1>0 DEF ConnTyped, ConnFields, Stations, Asks
  <2> HIDE DEF r
  <2>3. ConnSound(r) /\ ConnFits(r, door)
    BY <1>0, <2>2, ConnIsSound DEF ConnSound, ConnFits
  <2> QED BY <2>1, <2>2, <2>3
<1>6. CASE FD!Flushed(c)
  <2> DEFINE await == old.at = "open"
             r == [old EXCEPT !.ask = "none", !.deadline = await]
  <2>1. conns' = [conns EXCEPT ![c] = r] /\ old.ask = "answered"
    BY <1>6 DEF FD!Flushed
  <2>2. await \in BOOLEAN /\ (await <=> old.at = "open")
    OBVIOUS
  <2> HIDE DEF old, await
  <2>3. /\ ConnTyped(r) /\ r.at = old.at /\ r.deadline = await /\ r.ask = "none" /\ r.timer = old.timer
        /\ r.answers = old.answers /\ r.status = old.status /\ r.noted = old.noted
    BY <1>0, <2>2 DEF ConnTyped, ConnFields, Stations, Asks
  <2> HIDE DEF r
  <2>4. ConnSound(r) /\ ConnFits(r, door)
    BY <1>0, <2>1, <2>2, <2>3, ConnIsSound DEF ConnSound, ConnFits
  <2> QED BY <2>1, <2>3, <2>4
<1>7. CASE FD!Leaves(c)
  <2> DEFINE ask == IF old.ask = "stream" THEN "none" ELSE old.ask
             r == [old EXCEPT !.at = "gone", !.deadline = FALSE, !.ask = ask]
  <2>1. conns' = [conns EXCEPT ![c] = r]
    BY <1>7 DEF FD!Leaves
  <2> HIDE DEF old
  <2>3. ask \in Asks /\ ask \in {"none", old.ask}
    BY <1>0 DEF ConnTyped, ConnFields, Asks
  <2> HIDE DEF ask
  <2>4. /\ ConnTyped(r) /\ r.at = "gone" /\ r.deadline = FALSE /\ r.ask = ask /\ r.timer = old.timer
        /\ r.answers = old.answers /\ r.status = old.status /\ r.noted = old.noted
    BY <1>0, <2>3 DEF ConnTyped, ConnFields, Stations, Asks
  <2> HIDE DEF r
  <2>6. old.timer => ask = "reading"
    BY <1>0, <2>3 DEF ConnSound, ask
  <2>7. ConnSound(r) /\ ConnFits(r, door)
    BY <1>0, <2>3, <2>4, <2>6, ConnIsSound DEF ConnSound, ConnFits
  <2> QED BY <2>1, <2>4, <2>7
<1>8. ASSUME NEW status \in Nat, FD!Asking(c)
      PROVE  ConnSound(FD!Answering(c, status)) /\ ConnFits(FD!Answering(c, status), door)
             /\ FD!Answering(c, status).at = "open"
  <2>1. old.at = "open" /\ old.ask = "none"
    BY <1>8 DEF FD!Asking
  <2> DEFINE r == FD!Answering(c, status)
  <2>2. /\ ConnTyped(r) /\ r.at = old.at /\ r.ask = "answered" /\ r.deadline = FALSE
        /\ r.timer = old.timer /\ r.status = status /\ r.noted = FALSE
    BY <1>0, AskedIsAnswered
  <2> HIDE DEF r, old
  <2>3. ConnSound(r)
    BY <1>0, <2>1, <2>2, ConnIsSound DEF ConnSound
  <2>4. ConnFits(r, door) /\ r.at = "open"
    BY <1>0, <2>1, <2>2 DEF ConnFits
  <2> QED BY <2>3, <2>4 DEF r
<1>9. FD!Asking(c) => /\ ConnSound(FD!Busy(c, "stream")) /\ ConnFits(FD!Busy(c, "stream"), door)
                      /\ FD!Busy(c, "stream").at = "open"
  <2> SUFFICES ASSUME FD!Asking(c)
               PROVE  /\ ConnSound(FD!Busy(c, "stream")) /\ ConnFits(FD!Busy(c, "stream"), door)
                      /\ FD!Busy(c, "stream").at = "open"
    OBVIOUS
  <2>1. old.at = "open" /\ old.ask = "none"
    BY DEF FD!Asking
  <2> DEFINE r == FD!Busy(c, "stream")
  <2>2. /\ ConnTyped(r) /\ r.at = old.at /\ r.ask = "stream" /\ r.deadline = FALSE
        /\ r.timer = FALSE /\ r.noted = FALSE
    BY <1>0, AskedIsBusy
  <2> HIDE DEF r, old
  <2>3. ConnSound(r)
    BY <1>0, <2>1, <2>2, ConnIsSound DEF ConnSound
  <2>4. ConnFits(r, door) /\ r.at = "open"
    BY <1>0, <2>1, <2>2 DEF ConnFits
  <2> QED BY <2>3, <2>4 DEF r
<1>10. CASE FD!AskUngated(c)
  <2>1. PICK route \in FD!Ungated, chairs \in 0..MinReadyChairs :
          conns' = [conns EXCEPT ![c] =
            CASE route = "options"   -> FD!Answering(c, 204)
              [] route = "probe"     -> FD!Answering(c, IF ready /\ chairs >= MinReadyChairs THEN 200 ELSE 503)
              [] route = "handshake" -> FD!Busy(c, "stream")
              [] OTHER               -> FD!Answering(c, 404)]
    BY <1>10 DEF FD!AskUngated
  <2>2. FD!Asking(c)
    BY <1>10 DEF FD!AskUngated
  <2> DEFINE probe == IF ready /\ chairs >= MinReadyChairs THEN 200 ELSE 503
  <2>3. probe \in Nat
    OBVIOUS
  <2>4. \/ conns' = [conns EXCEPT ![c] = FD!Answering(c, 204)]
        \/ conns' = [conns EXCEPT ![c] = FD!Answering(c, probe)]
        \/ conns' = [conns EXCEPT ![c] = FD!Answering(c, 404)]
        \/ conns' = [conns EXCEPT ![c] = FD!Busy(c, "stream")]
    <3>1. route = "options" \/ route = "probe" \/ route = "handshake" \/ route = "other"
      BY DEF FD!Ungated
    <3>2. CASE route = "options"
      BY <2>1, <3>2
    <3>3. CASE route = "probe"
      BY <2>1, <3>3
    <3>4. CASE route = "handshake"
      BY <2>1, <3>4
    <3>5. CASE route = "other"
      BY <2>1, <3>5
    <3> QED BY <3>1, <3>2, <3>3, <3>4, <3>5
  <2> HIDE DEF probe, old
  <2> QED BY <2>2, <2>3, <2>4, <1>8, <1>9
<1>11. CASE FD!AskMetrics(c)
  <2>1. FD!Asking(c)
    BY <1>11 DEF FD!AskMetrics
  <2>2. PICK ok \in FD!Authorised : conns' = [conns EXCEPT ![c] = FD!Answering(c, IF ok THEN 200 ELSE 401)]
    BY <1>11 DEF FD!AskMetrics
  <2> DEFINE status == IF ok THEN 200 ELSE 401
  <2>3. status \in Nat
    OBVIOUS
  <2>4. conns' = [conns EXCEPT ![c] = FD!Answering(c, status)]
    BY <2>2
  <2> HIDE DEF status, old
  <2> QED BY <2>1, <2>3, <2>4, <1>8
<1>12. ASSUME NEW status \in {400, 408, 413, 200}, NEW at \in {"gone", old.at},
              old.ask \in {"reading", "handling"}, FD!Answer(c, status, at)
       PROVE  \E r : /\ conns' = [conns EXCEPT ![c] = r] /\ ConnSound(r) /\ ConnFits(r, door)
                     /\ r.at = "ws" => old.at = "ws"
  <2> DEFINE more == old.answers + 1
             half == [old EXCEPT !.ask = "answered", !.timer = FALSE, !.answers = more]
             r == [half EXCEPT !.status = status, !.at = at]
  <2>1. conns' = [conns EXCEPT ![c] = r]
    BY <1>12 DEF FD!Answer
  <2>2. more = 1 /\ old.at # "new" /\ at # "new" /\ at \in Stations
    BY <1>0, <1>12 DEF ConnSound, ConnTyped, ConnFields, Stations, Asks
  <2> HIDE DEF old, more
  <2>3. /\ ConnTyped(half) /\ half.ask = "answered" /\ half.timer = FALSE /\ half.answers = 1
        /\ half.deadline = old.deadline
    BY <1>0, <2>2 DEF ConnTyped, ConnFields, Stations, Asks
  <2> HIDE DEF half
  <2>4. /\ ConnTyped(r) /\ r.at = at /\ r.ask = "answered" /\ r.timer = FALSE /\ r.answers = 1
        /\ r.status = status /\ r.deadline = old.deadline
    BY <2>2, <2>3 DEF ConnTyped, ConnFields, Stations, Asks
  <2>5. door = "open" => old.deadline = FALSE
    BY <1>0, <1>12 DEF ConnFits, ConnTyped, ConnFields, Asks
  <2> HIDE DEF r
  <2>7. ConnSound(r)
    BY <2>2, <2>4, ConnIsSound
  <2>8. ConnFits(r, door) /\ (r.at = "ws" => old.at = "ws")
    BY <1>0, <1>12, <2>2, <2>4, <2>5 DEF ConnFits
  <2> QED BY <2>1, <2>7, <2>8
<1>13. CASE FD!BodyEnds(c)
  <2>0. old.at = "open" /\ old.ask = "reading"
    BY <1>13 DEF FD!BodyEnds
  <2>1. CASE FD!Answer(c, 400, "open")
    BY <1>12, <2>0, <2>1
  <2>2. CASE conns' = [conns EXCEPT ![c] = [old EXCEPT !.ask = "handling", !.timer = FALSE]]
    <3> DEFINE r == [old EXCEPT !.ask = "handling", !.timer = FALSE]
    <3> HIDE DEF old
    <3>1. /\ ConnTyped(r) /\ r.at = old.at /\ r.ask = "handling" /\ r.timer = FALSE
          /\ r.answers = old.answers /\ r.status = old.status /\ r.deadline = old.deadline /\ r.noted = old.noted
      BY <1>0 DEF ConnTyped, ConnFields, Stations, Asks
    <3>2. conns' = [conns EXCEPT ![c] = r]
      BY <2>2
    <3> HIDE DEF r
    <3>3. ConnSound(r) /\ ConnFits(r, door)
      BY <1>0, <2>0, <3>1, ConnIsSound DEF ConnSound, ConnFits
    <3> QED BY <3>1, <3>2, <3>3
  <2> QED BY <1>13, <2>1, <2>2 DEF FD!BodyEnds
<1>14. CASE FD!BodyTooLarge(c)
  BY <1>12, <1>14 DEF FD!BodyTooLarge
<1>15. CASE FD!BodyTimesOut(c)
  <2>1. old.ask = "reading"
    BY <1>0, <1>15 DEF FD!BodyTimesOut, ConnSound
  <2> QED BY <1>12, <1>15, <2>1 DEF FD!BodyTimesOut
<1>16. CASE FD!BodyErrors(c)
  BY <1>12, <1>16 DEF FD!BodyErrors
<1>17. CASE FD!HandlerAnswers(c)
  BY <1>12, <1>17 DEF FD!HandlerAnswers
<1> QED BY <1>4, <1>5, <1>6, <1>7, <1>10, <1>11, <1>13, <1>14, <1>15, <1>16, <1>17

\* A request to the API that passes, or is turned down by, the two checks.
LEMMA AskApiKeeps == ASSUME DoorBounds, DoorInv, NEW c \in Conns, FD!AskApi(c) PROVE DoorInv'
<1> DEFINE old == conns[c]
<1>0. /\ ConnSound(old) /\ ConnFits(old, door) /\ ConnTyped(old)
      /\ ConnsSound /\ BucketsSound /\ Cardinality(Served) <= MaxClients
  BY ConnIsTyped DEF DoorInv, ConnsSound
<1>1. PICK route \in FD!Limited, k \in ClientKeys, ok \in FD!Authorised :
        /\ FD!Consume(k)
        /\ conns' = [conns EXCEPT ![c] = IF ~FD!Allowed(k) THEN FD!Answering(c, 429)
                                         ELSE IF ~ok THEN FD!Answering(c, 401) ELSE FD!Handled(c, route)]
  BY DEF FD!AskApi
<1>2. now' = now /\ door' = door /\ old.at = "open" /\ old.ask = "none"
  BY DEF FD!AskApi, FD!Asking
<1>3. BucketsSound'
  BY <1>0, <1>1, <1>2, ConsumeKeeps
<1>4. SUFFICES \E r : /\ conns' = [conns EXCEPT ![c] = r] /\ ConnSound(r) /\ ConnFits(r, door)
                      /\ r.at = "ws" => old.at = "ws"
  BY <1>0, <1>2, <1>3, ConnMoves DEF DoorInv
<1>5. ASSUME NEW status \in Nat
      PROVE  /\ ConnTyped(FD!Answering(c, status)) /\ ConnSound(FD!Answering(c, status))
             /\ ConnFits(FD!Answering(c, status), door) /\ FD!Answering(c, status).at = "open"
             /\ FD!Answering(c, status).ask = "answered" /\ FD!Answering(c, status).deadline = FALSE
             /\ FD!Answering(c, status).timer = FALSE /\ FD!Answering(c, status).status = status
  <2> DEFINE r == FD!Answering(c, status)
  <2>1. /\ ConnTyped(r) /\ r.at = old.at /\ r.ask = "answered" /\ r.deadline = FALSE
        /\ r.timer = old.timer /\ r.answers = 1 /\ r.status = status /\ r.noted = FALSE
    BY <1>0, AskedIsAnswered
  <2> HIDE DEF r, old
  <2>2. r.timer = FALSE
    BY <1>0, <1>2, <2>1 DEF ConnSound, ConnTyped
  <2>3. ConnSound(r) /\ ConnFits(r, door)
    BY <1>0, <1>2, <2>1, <2>2, ConnIsSound DEF ConnFits
  <2> QED BY <1>2, <2>1, <2>2, <2>3 DEF r
<1>6. CASE conns' = [conns EXCEPT ![c] = FD!Answering(c, 429)]
  <2> DEFINE status == 429
  <2>1. status \in Nat
    OBVIOUS
  <2>2. conns' = [conns EXCEPT ![c] = FD!Answering(c, status)]
    BY <1>6
  <2> HIDE DEF old, status
  <2>3. /\ ConnSound(FD!Answering(c, status)) /\ ConnFits(FD!Answering(c, status), door)
        /\ FD!Answering(c, status).at = "open"
    BY <1>5, <2>1
  <2> QED BY <2>2, <2>3
<1>7. CASE conns' = [conns EXCEPT ![c] = FD!Answering(c, 401)]
  <2> DEFINE status == 401
  <2>1. status \in Nat
    OBVIOUS
  <2>2. conns' = [conns EXCEPT ![c] = FD!Answering(c, status)]
    BY <1>7
  <2> HIDE DEF old, status
  <2>3. /\ ConnSound(FD!Answering(c, status)) /\ ConnFits(FD!Answering(c, status), door)
        /\ FD!Answering(c, status).at = "open"
    BY <1>5, <2>1
  <2> QED BY <2>2, <2>3
<1>8. CASE conns' = [conns EXCEPT ![c] = FD!Handled(c, route)]
  <2> DEFINE noted == route \in FD!Noted
             base == IF route \in FD!WithBody THEN FD!Busy(c, "reading") ELSE FD!Answering(c, 200)
             r == [base EXCEPT !.noted = noted]
  <2>1. conns' = [conns EXCEPT ![c] = r]
    BY <1>8 DEF FD!Handled
  <2>2. /\ ConnTyped(base) /\ base.at = "open" /\ base.deadline = FALSE /\ base.status \in {0, 200}
        /\ \/ base.ask = "reading" /\ base.timer = TRUE /\ base.answers = 0
           \/ base.ask = "answered" /\ base.timer = FALSE
    <3>1. CASE route \in FD!WithBody
      <4>1. base = FD!Busy(c, "reading")
        BY <3>1
      <4> QED BY <4>1, <1>0, <1>2, AskedIsBusy, ZenonT(60)
    <3>2. CASE route \notin FD!WithBody
      <4> DEFINE status == 200
      <4>1. base = FD!Answering(c, status) /\ status \in Nat
        BY <3>2
      <4> HIDE DEF status, base
      <4>2. /\ ConnTyped(base) /\ base.at = "open" /\ base.ask = "answered" /\ base.deadline = FALSE
            /\ base.timer = FALSE /\ base.status = status
        BY <4>1, <1>5
      <4> QED BY <4>2 DEF status
    <3> QED BY <3>1, <3>2
  <2>3. noted \in BOOLEAN
    OBVIOUS
  <2> HIDE DEF base, noted, old
  <2>4. /\ ConnTyped(r) /\ r.at = "open" /\ r.deadline = FALSE /\ r.status \in {0, 200}
        /\ \/ r.ask = "reading" /\ r.timer = TRUE /\ r.answers = 0
           \/ r.ask = "answered" /\ r.timer = FALSE
    BY <2>2, <2>3 DEF ConnTyped, ConnFields
  <2> HIDE DEF r
  <2>5. ConnSound(r) /\ ConnFits(r, door)
    <3>1. r.timer => r.ask = "reading"
      BY <2>4
    <3>2. r.ask \in {"reading", "handling"} => r.answers = 0
      BY <2>4
    <3>3. r.noted => r.status \notin {401, 429}
      BY <2>4
    <3>4. ConnSound(r)
      BY <2>4, <3>1, <3>2, <3>3, ConnIsSound
    <3>5. door # "closed"
      BY <1>0, <1>2 DEF ConnFits
    <3> QED BY <2>4, <3>4, <3>5 DEF ConnFits
  <2> QED BY <2>1, <2>4, <2>5
<1> QED BY <1>1, <1>6, <1>7, <1>8

\* A socket is only served while those that are upgraded are below the cap.
LEMMA UpgradeKeeps == ASSUME DoorBounds, DoorInv, NEW c \in Conns, FD!Upgrade(c) PROVE DoorInv'
<1> DEFINE old == conns[c]
<1>0. /\ ConnSound(old) /\ ConnFits(old, door) /\ ConnTyped(old)
      /\ ConnsSound /\ BucketsSound /\ Cardinality(Served) <= MaxClients
  BY ConnIsTyped DEF DoorInv, ConnsSound
<1>1. PICK k \in ClientKeys, sameOrigin \in BOOLEAN, ok \in FD!Authorised :
        /\ FD!Consume(k)
        /\ LET at == IF door # "open" THEN "gone"
                     ELSE IF FD!Allowed(k) /\ sameOrigin /\ FD!Cardinality(FD!Upgraded) < MaxClients /\ ok
                          THEN "ws" ELSE "refused"
           IN  conns' = [conns EXCEPT ![c] = [conns[c] EXCEPT !.deadline = FALSE, !.status = 0, !.at = at]]
  BY DEF FD!Upgrade
<1>2. now' = now /\ door' = door /\ old.at = "open" /\ old.ask = "none"
  BY DEF FD!Upgrade, FD!Asking
<1>3. BucketsSound'
  BY <1>0, <1>1, <1>2, ConsumeKeeps
<1> DEFINE at == IF door # "open" THEN "gone"
                 ELSE IF FD!Allowed(k) /\ sameOrigin /\ FD!Cardinality(FD!Upgraded) < MaxClients /\ ok
                      THEN "ws" ELSE "refused"
           r == [old EXCEPT !.deadline = FALSE, !.status = 0, !.at = at]
<1>4. conns' = [conns EXCEPT ![c] = r]
  BY <1>1
<1>5. /\ at \in {"gone", "ws", "refused"} /\ at \in Stations
      /\ at = "ws" => Cardinality(FD!Upgraded) < MaxClients
      /\ door = "closed" => at = "gone"
  BY DoorCardinality DEF Stations
<1> HIDE DEF at, old
<1>6. /\ ConnTyped(r) /\ r.at = at /\ r.deadline = FALSE /\ r.status = 0 /\ r.ask = old.ask /\ r.timer = old.timer
      /\ r.answers = old.answers /\ r.noted = old.noted
  BY <1>0, <1>5 DEF ConnTyped, ConnFields, Stations
<1> HIDE DEF r
<1>7. ConnSound(r)
  BY <1>0, <1>2, <1>5, <1>6, ConnIsSound DEF ConnSound
<1>8. ConnFits(r, door)
  BY <1>5, <1>6 DEF ConnFits
<1>9. r.at = "ws" => Cardinality(FD!Upgraded) < MaxClients
  BY <1>5, <1>6
<1>10. ConnsSound' /\ Cardinality(Served)' <= MaxClients
  BY <1>0, <1>2, <1>4, <1>7, <1>8, <1>9, ConnMoves
<1> QED BY <1>3, <1>10 DEF DoorInv

\* The steps that are of no connection.
LEMMA DoorMoves ==
    ASSUME DoorBounds, DoorInv,
           FD!SetReady \/ FD!Close \/ FD!CloseDatabase \/ FD!Tick \/ UNCHANGED FD!vars
    PROVE  DoorInv'
<1>1. CASE FD!SetReady \/ UNCHANGED FD!vars
  <2>1. UNCHANGED <<now, buckets, conns, door>>
    BY <1>1 DEF FD!SetReady, FD!vars
  <2>2. BucketsSound'
    BY <2>1 DEF DoorInv, BucketsSound
  <2>3. ConnsSound' /\ Served' = Served
    BY <2>1 DEF DoorInv, ConnsSound, Served
  <2> QED BY <2>2, <2>3 DEF DoorInv
<1>2. CASE FD!Close
  <2>1. /\ UNCHANGED <<now, buckets>> /\ door' = "closing" /\ DOMAIN conns' = Conns
        /\ \A c \in Conns : conns'[c] = [conns[c] EXCEPT !.deadline = FALSE]
    BY <1>2 DEF FD!Close
  <2>2. BucketsSound'
    BY <2>1 DEF DoorInv, BucketsSound
  <2>3. ASSUME NEW c \in Conns PROVE ConnSound(conns'[c]) /\ ConnFits(conns'[c], door') /\ conns'[c].at = conns[c].at
    <3> DEFINE old == conns[c]
               r == [old EXCEPT !.deadline = FALSE]
    <3>1. ConnSound(old) /\ ConnTyped(old)
      BY ConnIsTyped DEF DoorInv, ConnsSound
    <3>2. conns'[c] = r
      BY <2>1
    <3> HIDE DEF old
    <3>3. /\ ConnTyped(r) /\ r.at = old.at /\ r.deadline = FALSE /\ r.status = old.status /\ r.ask = old.ask
          /\ r.timer = old.timer /\ r.answers = old.answers /\ r.noted = old.noted
      BY <3>1 DEF ConnTyped, ConnFields
    <3> HIDE DEF r
    <3>4. ConnSound(r) /\ ConnFits(r, "closing")
      BY <3>1, <3>3, ConnIsSound DEF ConnSound, ConnFits
    <3> QED BY <2>1, <3>2, <3>3, <3>4 DEF old
  <2>4. Served' = Served
    BY <2>3 DEF Served
  <2>5. ConnsSound'
    BY <2>1, <2>3 DEF ConnsSound
  <2> QED BY <2>2, <2>4, <2>5 DEF DoorInv
<1>3. CASE FD!CloseDatabase
  <2>1. UNCHANGED <<now, buckets, conns>> /\ door' = "closed" /\ FD!Connected = {}
    BY <1>3 DEF FD!CloseDatabase
  <2>2. BucketsSound'
    BY <2>1 DEF DoorInv, BucketsSound
  <2>3. ASSUME NEW c \in Conns PROVE ConnSound(conns'[c]) /\ ConnFits(conns'[c], door')
    <3>1. conns[c].at \notin {"open", "ws", "refused"}
      BY <2>1 DEF FD!Connected
    <3>2. ConnSound(conns[c]) /\ conns[c].at \in Stations
      BY DEF DoorInv, ConnsSound, ConnSound, ConnTyped
    <3> QED BY <2>1, <3>1, <3>2 DEF ConnFits, Stations
  <2>4. ConnsSound' /\ Served' = Served
    BY <2>1, <2>3 DEF DoorInv, ConnsSound, Served
  <2> QED BY <2>2, <2>4 DEF DoorInv
<1>4. CASE FD!Tick
  <2>1. UNCHANGED <<buckets, conns, door>> /\ now' = now + 1
    BY <1>4 DEF FD!Tick
  <2>2. ASSUME NEW i \in 1..Len(buckets) PROVE BucketSound(buckets[i], now + 1)
    <3>1. BucketSound(buckets[i], now) /\ now \in Nat
      BY DEF DoorInv, BucketsSound
    <3> DEFINE b == buckets[i]
    <3>2. b \in [key : ClientKeys, tokens : Int, at : Int, since : Int, taken : Int, told : Int] /\ b.at <= now
      BY <3>1 DEF BucketSound, BucketAdds
    <3>3. b.at <= now + 1
      BY <3>1, <3>2
    <3> HIDE DEF b
    <3>4. BucketSound(b, now) => BucketSound(b, now + 1)
      BY <3>3 DEF BucketSound, BucketAdds
    <3> QED BY <3>1, <3>4 DEF b
  <2>3. BucketsSound'
    BY <2>1, <2>2 DEF DoorInv, BucketsSound
  <2>4. ConnsSound' /\ Served' = Served
    BY <2>1 DEF DoorInv, ConnsSound, Served
  <2> QED BY <2>3, <2>4 DEF DoorInv
<1> QED BY <1>1, <1>2, <1>3, <1>4

LEMMA DoorInit == ASSUME DoorBounds, FD!Init PROVE DoorInv
<1>1. now = 0 /\ buckets = << >> /\ conns = [c \in Conns |-> FD!Fresh] /\ door = "open"
  BY DEF FD!Init
<1>2. BucketsSound
  BY <1>1 DEF BucketsSound
<1>3. ConnSound(FD!Fresh) /\ ConnFits(FD!Fresh, "open") /\ FD!Fresh.at = "new"
  <2>1. ConnTyped(FD!Fresh) /\ FD!Fresh.at = "new" /\ FD!Fresh.ask = "none" /\ FD!Fresh.deadline = FALSE
        /\ FD!Fresh.timer = FALSE /\ FD!Fresh.noted = FALSE /\ FD!Fresh.answers = 0
    BY DEF FD!Fresh, ConnTyped, ConnFields, Stations, Asks
  <2> QED BY <2>1 DEF ConnSound, ConnFits
<1>4. ConnsSound
  BY <1>1, <1>3 DEF ConnsSound
<1>5. Served = {}
  BY <1>1, <1>3 DEF Served
<1>6. Cardinality({}) = 0
  BY FS_EmptySet
<1> QED BY <1>2, <1>4, <1>5, <1>6 DEF DoorInv, DoorBounds

LEMMA DoorStep == ASSUME DoorBounds, DoorInv, [FD!Next]_FD!vars PROVE DoorInv'
<1>1. ASSUME NEW c \in Conns,
             \/ FD!Connect(c) \/ FD!CutSilent(c) \/ FD!AskUngated(c) \/ FD!AskMetrics(c) \/ FD!Flushed(c)
             \/ FD!Leaves(c) \/ FD!BodyEnds(c) \/ FD!BodyTooLarge(c) \/ FD!BodyTimesOut(c)
             \/ FD!BodyErrors(c) \/ FD!HandlerAnswers(c)
      PROVE  DoorInv'
  BY <1>1, QuietConn
<1>2. ASSUME NEW c \in Conns, FD!AskApi(c) PROVE DoorInv'
  BY <1>2, AskApiKeeps
<1>3. ASSUME NEW c \in Conns, FD!Upgrade(c) PROVE DoorInv'
  BY <1>3, UpgradeKeeps
<1>4. CASE FD!SetReady \/ FD!Close \/ FD!CloseDatabase \/ FD!Tick \/ UNCHANGED FD!vars
  BY <1>4, DoorMoves
<1> QED BY <1>1, <1>2, <1>3, <1>4 DEF FD!Next

\* What the runs check of the door follows.
LEMMA DoorTrue ==
    ASSUME DoorBounds, DoorInv
    PROVE  /\ FD!RateIsBounded /\ FD!RetryAfterIsEnough /\ FD!AnsweredOnce
           /\ FD!DeadlineWatchesSilence /\ FD!ClientsAreCapped /\ FD!DatabaseOutlivesClients
<1>1. ASSUME NEW i \in DOMAIN buckets PROVE BucketSound(buckets[i], now)
  <2>1. i \in 1..Len(buckets)
    BY DEF DoorInv, BucketsSound
  <2> QED BY <2>1 DEF DoorInv, BucketsSound
<1>2. FD!RateIsBounded
  <2> SUFFICES ASSUME NEW i \in DOMAIN buckets
               PROVE  buckets[i].taken + buckets[i].tokens <= Capacity + buckets[i].at - buckets[i].since
    BY DEF FD!RateIsBounded
  <2> QED BY <1>1 DEF BucketSound, BucketAdds, DoorBounds
<1>3. FD!RetryAfterIsEnough
  <2> SUFFICES ASSUME NEW i \in DOMAIN buckets, buckets[i].told \in 1..now
               PROVE  buckets[i].tokens + now - buckets[i].at >= Cost
    BY DEF FD!RetryAfterIsEnough
  <2>1. now \in Nat /\ Cost \in Nat
    BY DEF DoorInv, BucketsSound, DoorBounds
  <2> QED BY <1>1, <2>1 DEF BucketSound, BucketAdds
<1>4. FD!AnsweredOnce
  BY DEF DoorInv, ConnsSound, ConnSound, ConnTyped, FD!AnsweredOnce
<1>5. FD!DeadlineWatchesSilence
  BY DEF DoorInv, ConnsSound, ConnFits, FD!DeadlineWatchesSilence
<1>6. FD!ClientsAreCapped
  BY DoorCardinality DEF DoorInv, Served, FD!ClientsAreCapped
<1>7. FD!DatabaseOutlivesClients
  BY DEF DoorInv, ConnsSound, ConnFits, FD!DatabaseOutlivesClients
<1> QED BY <1>2, <1>3, <1>4, <1>5, <1>6, <1>7

-----------------------------------------------------------------------------
(* ConfigFiles                                                             *)

\* What the two loaders tell apart by name: a file, an agent or a setting is
\* none of the words for what is missing or refused.
ConfigNames ==
    "none" \notin PersonaFiles /\ "absent" \notin Personas /\ "broken" \notin Settings

\* What a file says, and where a document that is loaded is from.
DiskSound ==
    /\ disk \in [PersonaFiles -> [says : Personas \cup {"broken", "absent"}, stamp : Nat]]
    /\ \A f \in PersonaFiles : disk[f].says = "absent" => disk[f].stamp = 0

CacheSound == cache \in [Personas -> [file : PersonaFiles \cup {"none"}, stamp : Nat]]

\* PersonaLoader: a document that is loaded is of a file that is there, and is
\* the newest of it, but for the time its reload is due.
PersonaInv ==
    /\ edits \in Nat
    /\ DiskSound /\ CacheSound
    /\ CO!CachedHasFile
    /\ CO!QuietIsLoaded

\* The settings a document has, or that it is refused.
GoodOrBroken(has) == has = {"broken"} \/ has \subseteq Settings

\* WorkflowLoader: the settings in use are those of the last good document.
WorkflowInv ==
    /\ GoodOrBroken(flow.has)
    /\ current.has \subseteq Settings
    /\ DOMAIN applied = Settings
    /\ \A s \in current.has : applied[s] = current.stamp

ConfigInv == PersonaInv /\ WorkflowInv

LEMMA ConfigInit == ConfigNames /\ CO!Init => ConfigInv
<1> SUFFICES ASSUME ConfigNames, CO!Init PROVE ConfigInv
  OBVIOUS
<1>1. PICK says \in [PersonaFiles -> Personas \cup {"broken", "absent"}] :
        disk = [f \in PersonaFiles |-> [says |-> says[f], stamp |-> 0]]
  BY DEF CO!Init, CO!Broken
<1>2. \A f \in PersonaFiles : disk[f] = [says |-> says[f], stamp |-> 0]
  BY <1>1
<1>3. DiskSound
  BY <1>1, <1>2 DEF DiskSound
<1>4. PICK from \in [Personas -> PersonaFiles \cup {"none"}] :
        /\ \A a \in Personas : IF from[a] = "none" THEN \A f \in PersonaFiles : disk[f].says # a
                               ELSE disk[from[a]].says = a
        /\ cache = [a \in Personas |-> [file |-> from[a], stamp |-> 0]]
  BY DEF CO!Init
<1>5. \A a \in Personas : cache[a] = [file |-> from[a], stamp |-> 0]
  BY <1>4
<1>6. CacheSound
  BY <1>4 DEF CacheSound
<1>7. CO!CachedHasFile
  <2> SUFFICES ASSUME NEW a \in Personas, cache[a] # CO!NoDoc
               PROVE  disk[cache[a].file] # CO!Absent
    BY DEF CO!CachedHasFile
  <2>1. from[a] # "none" /\ cache[a].file = from[a] /\ from[a] \in PersonaFiles
    BY <1>5, <1>4 DEF CO!NoDoc
  <2>2. disk[from[a]].says = a
    BY <2>1, <1>4
  <2>3. a # "absent"
    BY DEF ConfigNames
  <2> QED BY <2>1, <2>2, <2>3 DEF CO!Absent
<1>8. CO!QuietIsLoaded
  <2> SUFFICES ASSUME NEW f \in PersonaFiles, disk[f].says \in Personas
               PROVE  \/ cache[disk[f].says] = [file |-> f, stamp |-> disk[f].stamp]
                      \/ \E g \in PersonaFiles \ {f} : cache[disk[f].says].file = g
    BY DEF CO!QuietIsLoaded
  <2> DEFINE a == disk[f].says
  <2>1. from[a] # "none" /\ from[a] \in PersonaFiles
    BY <1>4
  <2>2. cache[a] = [file |-> from[a], stamp |-> 0]
    BY <1>5
  <2>3. disk[f].stamp = 0
    <3>1. disk[f] = [says |-> says[f], stamp |-> 0]
      BY <1>2
    <3> QED BY <3>1
  <2> QED BY <2>1, <2>2, <2>3
<1>9. PersonaInv
  BY <1>3, <1>6, <1>7, <1>8 DEF PersonaInv, CO!Init
<1>10. WorkflowInv
  <2>1. PICK has \in {{"broken"}, {}, Settings} :
          /\ flow = [has |-> has, stamp |-> 0]
          /\ current = IF has = {"broken"} THEN [has |-> {}, stamp |-> -1] ELSE flow
    BY DEF CO!Init, CO!Broken
  <2>2. applied = [s \in Settings |-> 0]
    BY DEF CO!Init
  <2>3. GoodOrBroken(flow.has)
    BY <2>1 DEF GoodOrBroken
  <2>4. CASE has = {"broken"}
    <3>1. current.has = {}
      BY <2>1, <2>4
    <3> QED BY <3>1, <2>2, <2>3 DEF WorkflowInv
  <2>5. CASE has # {"broken"}
    <3>1. current.has \subseteq Settings /\ current.stamp = 0
      BY <2>1, <2>5
    <3> QED BY <3>1, <2>2, <2>3 DEF WorkflowInv
  <2> QED BY <2>4, <2>5
<1> QED BY <1>9, <1>10 DEF ConfigInv

\* An editor writes f, or deletes it: until its reload, the invariant asks
\* nothing of f, and what is loaded of the other files stands.
LEMMA EditKeeps ==
    ASSUME PersonaInv, NEW f \in PersonaFiles, CO!Edit(f)
    PROVE  PersonaInv'
<1>1. PICK says \in Personas \cup {"broken", "absent"} :
        disk' = [disk EXCEPT ![f] = IF says = "absent" THEN CO!Absent ELSE [says |-> says, stamp |-> edits']]
  BY DEF CO!Edit, CO!Broken
<1>2. edits' \in Nat
  BY DEF CO!Edit, PersonaInv
<1>3. disk'[f] = (IF says = "absent" THEN [says |-> "absent", stamp |-> 0] ELSE [says |-> says, stamp |-> edits'])
      /\ \A g \in PersonaFiles \ {f} : disk'[g] = disk[g]
  BY <1>1 DEF CO!Absent, PersonaInv, DiskSound
<1>4. DiskSound'
  BY <1>1, <1>2, <1>3 DEF PersonaInv, DiskSound, CO!Absent
<1>5. CacheSound' /\ watching' = watching /\ cache' = cache
  BY DEF CO!Edit, CO!workflow, PersonaInv, CacheSound
<1>6. watching => f \in pending' /\ \A g \in PersonaFiles \ {f} : g \in pending' <=> g \in pending
  BY DEF CO!Edit
<1>7. CO!CachedHasFile'
  <2> SUFFICES ASSUME watching, NEW a \in Personas, cache[a] # CO!NoDoc
               PROVE  cache[a].file \in pending' \/ disk'[cache[a].file] # CO!Absent
    BY <1>5 DEF CO!CachedHasFile, CO!NoDoc, CO!Absent
  <2>1. cache[a].file \in pending \/ disk[cache[a].file] # CO!Absent
    BY DEF PersonaInv, CO!CachedHasFile
  <2>2. CASE cache[a].file = f
    BY <2>2, <1>6
  <2>3. CASE cache[a].file \in PersonaFiles \ {f}
    BY <2>1, <2>3, <1>3, <1>6
  <2>4. CASE cache[a].file = "none"
    BY <2>4, <2>1, <1>1, <1>6, <1>5 DEF CO!Edit, DiskSound, PersonaInv
  <2> QED BY <2>2, <2>3, <2>4 DEF PersonaInv, CacheSound
<1>8. CO!QuietIsLoaded'
  <2> SUFFICES ASSUME watching, NEW g \in PersonaFiles, disk'[g].says \in Personas, g \notin pending'
               PROVE  \/ cache[disk'[g].says] = [file |-> g, stamp |-> disk'[g].stamp]
                      \/ \E h \in PersonaFiles \ {g} : cache[disk'[g].says].file = h
                      \/ cache[disk'[g].says] = CO!NoDoc
    BY <1>5 DEF CO!QuietIsLoaded, CO!NoDoc
  <2>1. g # f /\ g \notin pending /\ disk'[g] = disk[g]
    BY <1>3, <1>6
  <2> QED BY <2>1 DEF PersonaInv, CO!QuietIsLoaded
<1> QED BY <1>2, <1>4, <1>5, <1>7, <1>8 DEF PersonaInv

\* The reload of f: its agent is loaded from it, or what was loaded of it goes.
LEMMA ReloadKeeps ==
    ASSUME ConfigNames, PersonaInv, NEW f \in PersonaFiles, CO!Reload(f)
    PROVE  PersonaInv'
<1>1. /\ UNCHANGED <<edits, disk, watching>>
      /\ pending' = pending \ {f}
      /\ cache' = IF disk[f] # CO!Absent THEN CO!Loaded(cache, f)
                  ELSE [a \in Personas |-> IF cache[a].file = f THEN CO!NoDoc ELSE cache[a]]
  BY DEF CO!Reload, CO!workflow
<1>2. DiskSound' /\ edits' \in Nat
  BY <1>1 DEF PersonaInv, DiskSound
<1>3. CASE disk[f] # CO!Absent
  <2>1. CASE disk[f].says \in Personas
    <3> DEFINE b == disk[f].says
               d == [file |-> f, stamp |-> disk[f].stamp]
    <3>1. cache' = [cache EXCEPT ![b] = d]
      BY <1>1, <1>3, <2>1 DEF CO!Loaded
    <3>2. cache'[b] = d /\ \A a \in Personas \ {b} : cache'[a] = cache[a]
      BY <3>1, <2>1 DEF PersonaInv, CacheSound
    <3>3. d \in [file : PersonaFiles \cup {"none"}, stamp : Nat]
      BY DEF PersonaInv, DiskSound
    <3>4. CacheSound'
      BY <3>1, <3>3 DEF PersonaInv, CacheSound
    <3>5. CO!CachedHasFile'
      <4> SUFFICES ASSUME watching, NEW a \in Personas, cache'[a] # CO!NoDoc
                   PROVE  cache'[a].file \in pending' \/ disk[cache'[a].file] # CO!Absent
        BY <1>1 DEF CO!CachedHasFile, CO!NoDoc, CO!Absent
      <4>1. CASE a = b
        BY <4>1, <3>2, <1>3
      <4>2. CASE a # b
        <5>1. cache'[a] = cache[a]
          BY <3>2, <4>2
        <5>2. cache[a].file \in pending \/ disk[cache[a].file] # CO!Absent
          BY <5>1 DEF PersonaInv, CO!CachedHasFile
        <5> QED BY <5>1, <5>2, <1>1, <1>3
      <4> QED BY <4>1, <4>2
    <3>6. CO!QuietIsLoaded'
      <4> SUFFICES ASSUME watching, NEW g \in PersonaFiles, disk[g].says \in Personas, g \notin pending'
                   PROVE  \/ cache'[disk[g].says] = [file |-> g, stamp |-> disk[g].stamp]
                          \/ \E h \in PersonaFiles \ {g} : cache'[disk[g].says].file = h
                          \/ cache'[disk[g].says] = CO!NoDoc
        BY <1>1 DEF CO!QuietIsLoaded, CO!NoDoc
      <4>1. CASE g = f
        BY <4>1, <3>2
      <4>2. CASE g # f /\ disk[g].says = b
        <5>1. f \in PersonaFiles \ {g} /\ cache'[disk[g].says].file = f
          BY <4>2, <3>2
        <5> QED BY <5>1
      <4>3. CASE g # f /\ disk[g].says # b
        <5>1. cache'[disk[g].says] = cache[disk[g].says] /\ g \notin pending
          BY <4>3, <3>2, <1>1
        <5> HIDE DEF b, d
        <5> QED BY <5>1 DEF PersonaInv, CO!QuietIsLoaded
      <4> QED BY <4>1, <4>2, <4>3
    <3> QED BY <1>2, <3>4, <3>5, <3>6 DEF PersonaInv
  <2>2. CASE disk[f].says \notin Personas
    <3>1. cache' = cache
      BY <1>1, <1>3, <2>2 DEF CO!Loaded
    <3>2. CacheSound'
      BY <3>1 DEF PersonaInv, CacheSound
    <3>3. CO!CachedHasFile'
      <4> SUFFICES ASSUME watching, NEW a \in Personas, cache[a] # CO!NoDoc
                   PROVE  cache[a].file \in pending' \/ disk[cache[a].file] # CO!Absent
        BY <1>1, <3>1 DEF CO!CachedHasFile, CO!NoDoc, CO!Absent
      <4>1. cache[a].file \in pending \/ disk[cache[a].file] # CO!Absent
        BY DEF PersonaInv, CO!CachedHasFile
      <4> QED BY <4>1, <1>1, <1>3
    <3>4. CO!QuietIsLoaded'
      <4> SUFFICES ASSUME watching, NEW g \in PersonaFiles, disk[g].says \in Personas, g \notin pending'
                   PROVE  \/ cache[disk[g].says] = [file |-> g, stamp |-> disk[g].stamp]
                          \/ \E h \in PersonaFiles \ {g} : cache[disk[g].says].file = h
                          \/ cache[disk[g].says] = CO!NoDoc
        BY <1>1, <3>1 DEF CO!QuietIsLoaded, CO!NoDoc
      <4>1. g \notin pending
        BY <1>1, <2>2
      <4> QED BY <4>1 DEF PersonaInv, CO!QuietIsLoaded
    <3> QED BY <1>2, <3>2, <3>3, <3>4 DEF PersonaInv
  <2> QED BY <2>1, <2>2
<1>4. CASE disk[f] = CO!Absent
  <2>1. cache' = [a \in Personas |-> IF cache[a].file = f THEN CO!NoDoc ELSE cache[a]]
    BY <1>1, <1>4
  <2>2. \A a \in Personas : cache'[a] = IF cache[a].file = f THEN CO!NoDoc ELSE cache[a]
    BY <2>1
  <2>3. CacheSound'
    BY <2>1 DEF PersonaInv, CacheSound, CO!NoDoc
  <2>4. CO!CachedHasFile'
    <3> SUFFICES ASSUME watching, NEW a \in Personas, cache'[a] # CO!NoDoc
                 PROVE  cache'[a].file \in pending' \/ disk[cache'[a].file] # CO!Absent
      BY <1>1 DEF CO!CachedHasFile, CO!NoDoc, CO!Absent
    <3>1. cache[a].file # f /\ cache'[a] = cache[a]
      BY <2>2
    <3>2. cache[a].file \in pending \/ disk[cache[a].file] # CO!Absent
      BY <3>1 DEF PersonaInv, CO!CachedHasFile
    <3> QED BY <3>1, <3>2, <1>1
  <2>5. CO!QuietIsLoaded'
    <3> SUFFICES ASSUME watching, NEW g \in PersonaFiles, disk[g].says \in Personas, g \notin pending'
                 PROVE  \/ cache'[disk[g].says] = [file |-> g, stamp |-> disk[g].stamp]
                        \/ \E h \in PersonaFiles \ {g} : cache'[disk[g].says].file = h
                        \/ cache'[disk[g].says] = CO!NoDoc
      BY <1>1 DEF CO!QuietIsLoaded, CO!NoDoc
    <3>1. g # f /\ g \notin pending
      BY <1>1, <1>4 DEF CO!Absent, ConfigNames
    <3>2. cache'[disk[g].says] = CO!NoDoc \/ cache'[disk[g].says] = cache[disk[g].says]
      BY <2>2
    <3> QED BY <3>1, <3>2 DEF PersonaInv, CO!QuietIsLoaded
  <2> QED BY <1>2, <2>3, <2>4, <2>5 DEF PersonaInv
<1> QED BY <1>3, <1>4

\* The loaders stop: what the personas promise, they promise while they run.
LEMMA PersonasStop ==
    ASSUME PersonaInv, CO!Stop PROVE PersonaInv'
BY DEF CO!Stop, PersonaInv, DiskSound, CacheSound, CO!CachedHasFile, CO!QuietIsLoaded

\* What leaves the personas alone, but for the count of the writes.
LEMMA PersonasStay ==
    ASSUME PersonaInv, edits' \in Nat, UNCHANGED <<CO!personas, watching>> PROVE PersonaInv'
<1>1. UNCHANGED <<disk, pending, cache, watching>>
  BY DEF CO!personas
<1>2. CO!CachedHasFile' /\ CO!QuietIsLoaded'
  BY <1>1 DEF PersonaInv, CO!CachedHasFile, CO!QuietIsLoaded, CO!NoDoc, CO!Absent
<1> QED BY <1>1, <1>2 DEF PersonaInv, DiskSound, CacheSound

\* The reload of the workflow: a good document is applied as a whole.
LEMMA WorkflowReloads ==
    ASSUME ConfigNames, WorkflowInv, CO!ReloadWorkflow, GoodOrBroken(flow'.has)
    PROVE  WorkflowInv'
<1>1. CASE flow.has = {"broken"}
  <2>1. UNCHANGED <<current, applied>>
    BY <1>1 DEF CO!ReloadWorkflow, CO!Read, CO!Broken
  <2> QED BY <2>1 DEF WorkflowInv
<1>2. CASE flow.has # {"broken"}
  <2>1. current' = flow /\ applied' = [s \in Settings |-> IF s \in flow.has THEN flow.stamp ELSE applied[s]]
    BY <1>2 DEF CO!ReloadWorkflow, CO!Read, CO!Broken, CO!Applied
  <2>2. current'.has \subseteq Settings /\ current'.stamp = flow.stamp
    BY <1>2, <2>1 DEF WorkflowInv, GoodOrBroken
  <2>3. \A s \in current'.has : applied'[s] = current'.stamp
    BY <2>1, <2>2
  <2>4. DOMAIN applied' = Settings
    BY <2>1
  <2> QED BY <2>2, <2>3, <2>4 DEF WorkflowInv
<1> QED BY <1>1, <1>2

\* What leaves the settings in use alone.
LEMMA WorkflowStays ==
    ASSUME WorkflowInv, GoodOrBroken(flow'.has), UNCHANGED <<current, applied>>
    PROVE  WorkflowInv'
BY DEF WorkflowInv

LEMMA ConfigStep == ConfigNames /\ ConfigInv /\ [CO!Next]_CO!vars => ConfigInv'
<1> SUFFICES ASSUME ConfigNames, PersonaInv, WorkflowInv, [CO!Next]_CO!vars PROVE PersonaInv' /\ WorkflowInv'
  BY DEF ConfigInv
<1>0. GoodOrBroken(flow.has) /\ edits \in Nat
  BY DEF WorkflowInv, PersonaInv
<1>1. ASSUME NEW f \in PersonaFiles, CO!Edit(f) PROVE PersonaInv' /\ WorkflowInv'
  <2>1. UNCHANGED <<flow, current, applied>>
    BY <1>1 DEF CO!Edit, CO!workflow
  <2> QED BY <1>0, <1>1, <2>1, EditKeeps, WorkflowStays
<1>2. ASSUME NEW f \in PersonaFiles, CO!Reload(f) PROVE PersonaInv' /\ WorkflowInv'
  <2>1. UNCHANGED <<flow, current, applied>>
    BY <1>2 DEF CO!Reload, CO!workflow
  <2> QED BY <1>0, <1>2, <2>1, ReloadKeeps, WorkflowStays
<1>3. CASE CO!EditWorkflow
  <2>1. edits' \in Nat /\ UNCHANGED <<CO!personas, watching, current, applied>>
    BY <1>0, <1>3 DEF CO!EditWorkflow
  <2>2. PICK has \in (SUBSET Settings) \cup {{"broken"}} : flow' = [has |-> has, stamp |-> edits']
    BY <1>3 DEF CO!EditWorkflow, CO!Broken
  <2>3. flow'.has = has
    BY <2>2
  <2>4. has \subseteq Settings \/ has = {"broken"}
    BY <2>2
  <2>5. GoodOrBroken(flow'.has)
    BY <2>3, <2>4 DEF GoodOrBroken
  <2> QED BY <2>1, <2>5, PersonasStay, WorkflowStays
<1>4. CASE CO!Look
  <2>1. UNCHANGED <<edits, CO!personas, watching, flow, current, applied>>
    BY <1>4 DEF CO!Look
  <2> QED BY <1>0, <2>1, PersonasStay, WorkflowStays
<1>5. CASE CO!ReloadWorkflow
  <2>1. UNCHANGED <<edits, CO!personas, watching, flow>>
    BY <1>5 DEF CO!ReloadWorkflow
  <2> QED BY <1>0, <1>5, <2>1, PersonasStay, WorkflowReloads
<1>6. CASE CO!Stop
  <2>1. UNCHANGED <<flow, current, applied>>
    BY <1>6 DEF CO!Stop
  <2> QED BY <1>0, <1>6, <2>1, PersonasStop, WorkflowStays
<1>7. CASE UNCHANGED CO!vars
  <2>1. UNCHANGED <<edits, CO!personas, watching, flow, current, applied>>
    BY <1>7 DEF CO!vars, CO!workflow
  <2> QED BY <1>0, <2>1, PersonasStay, WorkflowStays
<1> QED BY <1>1, <1>2, <1>3, <1>4, <1>5, <1>6, <1>7 DEF CO!Next

LEMMA ConfigTrue ==
    ConfigNames /\ ConfigInv => CO!CachedHasFile /\ CO!QuietIsLoaded /\ CO!LastGoodIsApplied
BY DEF ConfigInv, PersonaInv, WorkflowInv, CO!LastGoodIsApplied, CO!Broken, ConfigNames

-----------------------------------------------------------------------------
(* CockpitRequests                                                         *)

\* The poll and the opened socket are no adapters.
AdapterNames == "poll" \notin Adapters /\ "open" \notin Adapters

SnapSound(snap) == DOMAIN snap = {"version", "states"} /\ snap.version \in Int

\* A button of a, its request and the snapshot that follows it: which is taken
\* after the request was handled.
ButtonSound(a) ==
    /\ cockpitPending[a] = asks[a].action
    /\ asks[a].stage = "refreshing" <=> read[a].stage # "none"
    /\ a \in errors => asks[a].stage = "none"
    /\ asks[a].stage = "none" <=> asks[a].action = "none"
    /\ DOMAIN asks[a] = {"stage", "action", "error", "version"}
    /\ asks[a].version \in Nat /\ asks[a].version <= server.version
    /\ read[a].stage = "answered" => read[a].snap.version >= asks[a].version

RequestsInv ==
    /\ server.version \in Nat /\ DOMAIN server = {"version", "states"}
    /\ DOMAIN asks = Adapters /\ DOMAIN cockpitPending = Adapters /\ DOMAIN read = CR!Reads
    /\ \A k \in CR!Reads : SnapSound(read[k].snap)
    /\ \A a \in Adapters : ButtonSound(a)

LEMMA RequestsInit == CR!Init => RequestsInv
BY DEF CR!Init, CR!NoRead, CR!NoRequest, CR!Nothing, CR!Reads, RequestsInv, SnapSound, ButtonSound

\* A step that touches one adapter and no snapshot but its own.
LEMMA ButtonMoves ==
    ASSUME RequestsInv, NEW a \in Adapters,
           server'.version \in Nat, DOMAIN server' = {"version", "states"}, server'.version >= server.version,
           DOMAIN asks' = Adapters, DOMAIN cockpitPending' = Adapters, DOMAIN read' = CR!Reads,
           \A b \in Adapters \ {a} : asks'[b] = asks[b] /\ cockpitPending'[b] = cockpitPending[b],
           \A k \in CR!Reads \ {a} : read'[k] = read[k],
           errors' \subseteq errors \cup {a},
           SnapSound(read'[a].snap), ButtonSound(a)'
    PROVE  RequestsInv'
<1>1. \A k \in CR!Reads : SnapSound(read'[k].snap)
  BY DEF RequestsInv
<1>2. ASSUME NEW b \in Adapters, b # a PROVE ButtonSound(b)'
  <2>1. asks'[b] = asks[b] /\ cockpitPending'[b] = cockpitPending[b] /\ read'[b] = read[b]
    BY <1>2 DEF CR!Reads
  <2>2. b \in errors' => b \in errors
    BY <1>2
  <2>3. ButtonSound(b) /\ server.version \in Nat
    BY DEF RequestsInv
  <2> QED BY <2>1, <2>2, <2>3 DEF ButtonSound
<1> QED BY <1>1, <1>2 DEF RequestsInv

\* A step that touches a snapshot of nobody's request, or none.
LEMMA SnapshotMoves ==
    ASSUME RequestsInv, NEW k, k \notin Adapters, UNCHANGED <<server, asks, cockpitPending, errors>>,
           DOMAIN read' = CR!Reads, SnapSound(read'[k].snap) \/ k \notin CR!Reads,
           \A j \in CR!Reads \ {k} : read'[j] = read[j]
    PROVE  RequestsInv'
<1>1. \A j \in CR!Reads : SnapSound(read'[j].snap)
  BY DEF RequestsInv
<1>2. ASSUME NEW b \in Adapters PROVE ButtonSound(b)'
  <2>1. read'[b] = read[b]
    BY DEF CR!Reads
  <2> QED BY <2>1 DEF RequestsInv, ButtonSound
<1> QED BY <1>1, <1>2 DEF RequestsInv

LEMMA NoneIsSound == SnapSound(CR!NoRead.snap) /\ CR!NoRead.stage = "none"
BY DEF SnapSound, CR!NoRead, CR!Nothing

\* A snapshot arrives or fails, and with it the request that waits for it ends.
LEMMA ReadEnds ==
    ASSUME AdapterNames, RequestsInv, NEW k \in CR!Reads, read' = [read EXCEPT ![k] = CR!NoRead],
           CR!RequestEnds(k), UNCHANGED <<server, errors>>, read[k].stage # "none"
    PROVE  RequestsInv'
<1>0. DOMAIN read' = CR!Reads /\ read'[k] = CR!NoRead /\ \A j \in CR!Reads \ {k} : read'[j] = read[j]
  BY DEF RequestsInv
<1>1. CASE k \in Adapters
  <2>1. asks' = [asks EXCEPT ![k] = CR!NoRequest] /\ cockpitPending' = [cockpitPending EXCEPT ![k] = "none"]
    BY <1>1 DEF CR!RequestEnds
  <2>2. /\ DOMAIN asks' = Adapters /\ DOMAIN cockpitPending' = Adapters
        /\ asks'[k] = CR!NoRequest /\ cockpitPending'[k] = "none"
        /\ \A b \in Adapters \ {k} : asks'[b] = asks[b] /\ cockpitPending'[b] = cockpitPending[b]
    BY <1>1, <2>1 DEF RequestsInv
  <2>3. server.version \in Nat /\ DOMAIN server = {"version", "states"}
    BY DEF RequestsInv
  <2>4. ButtonSound(k)'
    BY <1>0, <2>2, <2>3, NoneIsSound DEF ButtonSound, CR!NoRequest
  <2> QED BY <1>0, <1>1, <2>2, <2>3, <2>4, ButtonMoves, NoneIsSound
<1>2. CASE k \notin Adapters
  <2>1. UNCHANGED <<asks, cockpitPending>>
    BY <1>2 DEF CR!RequestEnds
  <2> QED BY <1>0, <1>2, <2>1, SnapshotMoves, NoneIsSound
<1> QED BY <1>1, <1>2

LEMMA ServerSteps ==
    ASSUME RequestsInv, NEW a \in Adapters, CR!ServerChanges(a) \/ CR!ServerHandles(a)
    PROVE  RequestsInv'
<1>0. server.version \in Nat /\ ButtonSound(a) /\ SnapSound(read[a].snap)
  BY DEF RequestsInv, CR!Reads
<1>1. CASE CR!ServerChanges(a)
  <2>1. UNCHANGED <<read, asks, cockpitPending, errors>> /\ \E s : server' = CR!Becomes(a, s)
    BY <1>1 DEF CR!ServerChanges
  <2>2. server'.version = server.version + 1 /\ DOMAIN server' = {"version", "states"}
    BY <2>1 DEF CR!Becomes
  <2>3. ButtonSound(a)'
    BY <1>0, <2>1, <2>2 DEF ButtonSound
  <2> QED BY <1>0, <2>1, <2>2, <2>3, ButtonMoves DEF RequestsInv
<1>2. CASE CR!ServerHandles(a)
  <2>1. PICK out \in CR!Outcomes(a, asks[a].action) :
          /\ server' = CR!Becomes(a, out.state)
          /\ asks' = [asks EXCEPT ![a] = [@ EXCEPT !.stage = "answered", !.error = out.error,
                                                         !.version = server'.version]]
    BY <1>2 DEF CR!ServerHandles
  <2>2. server'.version = server.version + 1 /\ DOMAIN server' = {"version", "states"}
    BY <2>1 DEF CR!Becomes
  <2>3. UNCHANGED <<read, cockpitPending, errors>> /\ asks[a].stage = "sent"
    BY <1>2 DEF CR!ServerHandles
  <2>4. /\ asks'[a] = [asks[a] EXCEPT !.stage = "answered", !.error = out.error, !.version = server'.version]
        /\ DOMAIN asks' = Adapters /\ \A b \in Adapters \ {a} : asks'[b] = asks[b]
    BY <2>1 DEF RequestsInv
  <2>5. /\ asks'[a].stage = "answered" /\ asks'[a].action = asks[a].action
        /\ asks'[a].version = server'.version /\ DOMAIN asks'[a] = {"stage", "action", "error", "version"}
    BY <2>4, <1>0 DEF ButtonSound
  <2>6. ButtonSound(a)'
    BY <1>0, <2>2, <2>3, <2>5 DEF ButtonSound
  <2> QED BY <1>0, <2>2, <2>3, <2>4, <2>6, ButtonMoves DEF RequestsInv
<1> QED BY <1>1, <1>2

\* The server answers what is asked of it: after it handled what came before.
LEMMA ServerAnswers ==
    ASSUME AdapterNames, RequestsInv, NEW k \in CR!Reads, CR!ServerReads(k)
    PROVE  RequestsInv'
<1>1. /\ DOMAIN read' = CR!Reads /\ read'[k] = [stage |-> "answered", snap |-> server]
      /\ \A j \in CR!Reads \ {k} : read'[j] = read[j]
      /\ UNCHANGED <<server, asks, cockpitPending, errors>> /\ read[k].stage = "sent"
  BY DEF CR!ServerReads, RequestsInv
<1>2. SnapSound(read'[k].snap)
  BY <1>1 DEF SnapSound, RequestsInv
<1>3. CASE k \in Adapters
  <2>1. ButtonSound(k)'
    BY <1>1, <1>3 DEF RequestsInv, ButtonSound
  <2> QED BY <1>1, <1>2, <1>3, <2>1, ButtonMoves DEF RequestsInv
<1>4. CASE k \notin Adapters
  BY <1>1, <1>2, <1>4, SnapshotMoves
<1> QED BY <1>3, <1>4

\* The buttons: clicked, refreshed, failed.
LEMMA ButtonSteps ==
    ASSUME RequestsInv, NEW a \in Adapters, CR!Click(a) \/ CR!Refresh(a) \/ CR!RequestFails(a)
    PROVE  RequestsInv'
<1>0. server.version \in Nat /\ ButtonSound(a) /\ SnapSound(read[a].snap) /\ a \in CR!Reads
  BY DEF RequestsInv, CR!Reads
<1>1. CASE CR!Click(a)
  <2>1. PICK action \in CR!Actions :
          /\ cockpitPending[a] = "none"
          /\ asks' = [asks EXCEPT ![a] = [CR!NoRequest EXCEPT !.stage = "sent", !.action = action]]
          /\ cockpitPending' = [cockpitPending EXCEPT ![a] = action]
    BY <1>1 DEF CR!Click, CR!Offered
  <2>2. UNCHANGED <<server, read>> /\ errors' = errors \ {a}
    BY <1>1 DEF CR!Click
  <2>3. /\ asks'[a] = [stage |-> "sent", action |-> action, error |-> FALSE, version |-> 0]
        /\ DOMAIN asks' = Adapters /\ \A b \in Adapters \ {a} : asks'[b] = asks[b]
        /\ DOMAIN cockpitPending' = Adapters /\ cockpitPending'[a] = action
        /\ \A b \in Adapters \ {a} : cockpitPending'[b] = cockpitPending[b]
    BY <2>1 DEF RequestsInv, CR!NoRequest
  <2>4. action # "none"
    BY DEF CR!Actions
  <2>5. read[a].stage = "none"
    BY <1>0, <2>1 DEF ButtonSound
  <2>6. ButtonSound(a)'
    BY <1>0, <2>2, <2>3, <2>4, <2>5 DEF ButtonSound
  <2> QED BY <1>0, <2>2, <2>3, <2>6, ButtonMoves DEF RequestsInv
<1>2. CASE CR!Refresh(a)
  <2>1. /\ asks' = [asks EXCEPT ![a].stage = "refreshing"] /\ read' = [read EXCEPT ![a] = CR!Asked]
        /\ UNCHANGED <<server, cockpitPending, errors>> /\ asks[a].stage = "answered"
    BY <1>2 DEF CR!Refresh
  <2>2. /\ asks'[a] = [asks[a] EXCEPT !.stage = "refreshing"] /\ DOMAIN asks' = Adapters
        /\ \A b \in Adapters \ {a} : asks'[b] = asks[b]
        /\ DOMAIN read' = CR!Reads /\ read'[a] = CR!Asked /\ \A k \in CR!Reads \ {a} : read'[k] = read[k]
    BY <1>0, <2>1 DEF RequestsInv
  <2>3. SnapSound(read'[a].snap) /\ read'[a].stage = "sent"
    BY <2>2 DEF CR!Asked, CR!Nothing, SnapSound
  <2>4. /\ asks'[a].stage = "refreshing" /\ asks'[a].action = asks[a].action
        /\ asks'[a].version = asks[a].version /\ DOMAIN asks'[a] = {"stage", "action", "error", "version"}
    BY <1>0, <2>2 DEF ButtonSound
  <2>5. ButtonSound(a)'
    BY <1>0, <2>1, <2>3, <2>4 DEF ButtonSound
  <2> QED BY <1>0, <2>1, <2>2, <2>3, <2>5, ButtonMoves DEF RequestsInv
<1>3. CASE CR!RequestFails(a)
  <2>1. /\ asks' = [asks EXCEPT ![a] = CR!NoRequest] /\ cockpitPending' = [cockpitPending EXCEPT ![a] = "none"]
        /\ UNCHANGED <<server, read>> /\ errors' = errors \cup {a} /\ asks[a].stage \in {"sent", "answered"}
    BY <1>3 DEF CR!RequestFails, CR!Ends
  <2>2. /\ asks'[a] = CR!NoRequest /\ cockpitPending'[a] = "none"
        /\ DOMAIN asks' = Adapters /\ DOMAIN cockpitPending' = Adapters
        /\ \A b \in Adapters \ {a} : asks'[b] = asks[b] /\ cockpitPending'[b] = cockpitPending[b]
    BY <2>1 DEF RequestsInv
  <2>3. ButtonSound(a)'
    BY <1>0, <2>1, <2>2 DEF ButtonSound, CR!NoRequest
  <2> QED BY <1>0, <2>1, <2>2, <2>3, ButtonMoves DEF RequestsInv
<1> QED BY <1>1, <1>2, <1>3

LEMMA RequestsStep == AdapterNames /\ RequestsInv /\ [CR!Next]_CR!vars => RequestsInv'
<1> SUFFICES ASSUME AdapterNames, RequestsInv, [CR!Next]_CR!vars PROVE RequestsInv'
  OBVIOUS
<1>1. CASE CR!Poll
  <2>1. /\ DOMAIN read' = CR!Reads /\ read'["poll"] = CR!Asked
        /\ \A j \in CR!Reads \ {"poll"} : read'[j] = read[j]
        /\ UNCHANGED <<server, asks, cockpitPending, errors>>
    BY <1>1 DEF CR!Poll, CR!Reads, RequestsInv
  <2>2. SnapSound(read'["poll"].snap)
    BY <2>1 DEF CR!Asked, CR!Nothing, SnapSound
  <2> QED BY <2>1, <2>2, SnapshotMoves DEF AdapterNames
<1>2. CASE CR!Open
  <2>1. /\ DOMAIN read' = CR!Reads /\ read'["open"] = CR!Asked
        /\ \A j \in CR!Reads \ {"open"} : read'[j] = read[j]
        /\ UNCHANGED <<server, asks, cockpitPending, errors>>
    BY <1>2 DEF CR!Open, CR!Reads, RequestsInv
  <2>2. SnapSound(read'["open"].snap)
    BY <2>1 DEF CR!Asked, CR!Nothing, SnapSound
  <2> QED BY <2>1, <2>2, SnapshotMoves DEF AdapterNames
<1>3. ASSUME NEW k \in CR!Reads, CR!ServerReads(k) PROVE RequestsInv'
  BY <1>3, ServerAnswers
<1>4. ASSUME NEW k \in CR!Reads, CR!ReadArrives(k) PROVE RequestsInv'
  BY <1>4, ReadEnds DEF CR!ReadArrives
<1>5. ASSUME NEW k \in CR!Reads, CR!ReadFails(k) PROVE RequestsInv'
  BY <1>5, ReadEnds DEF CR!ReadFails
<1>6. ASSUME NEW a \in Adapters, CR!ServerChanges(a) \/ CR!ServerHandles(a) PROVE RequestsInv'
  BY <1>6, ServerSteps
<1>7. ASSUME NEW a \in Adapters, CR!Click(a) \/ CR!Refresh(a) \/ CR!RequestFails(a) PROVE RequestsInv'
  BY <1>7, ButtonSteps
<1>8. CASE UNCHANGED CR!vars
  BY <1>8 DEF CR!vars, RequestsInv, SnapSound, ButtonSound
<1> QED BY <1>1, <1>2, <1>3, <1>4, <1>5, <1>6, <1>7, <1>8 DEF CR!Next

LEMMA RequestsTrue == RequestsInv => CR!PendingIsInFlight
BY DEF RequestsInv, ButtonSound, CR!PendingIsInFlight

\* A button that its own snapshot frees is freed by one that is new enough.
LEMMA RefreshIsFresh ==
    AdapterNames /\ RequestsInv /\ [CR!Next]_CR!vars => CR!RefreshStep
<1> SUFFICES ASSUME RequestsInv, [CR!Next]_CR!vars, NEW a \in Adapters,
                    asks[a].stage # "none", asks'[a].stage = "none", screen' # screen
             PROVE  screen'.version >= asks[a].version
  BY DEF CR!RefreshStep
<1>1. PICK k \in CR!Reads : CR!ReadArrives(k)
  BY DEF CR!Next, CR!vars, CR!Poll, CR!Open, CR!ServerReads, CR!ReadFails, CR!ServerChanges,
     CR!ServerHandles, CR!Click, CR!Refresh, CR!RequestFails
<1>2. read[k].stage = "answered" /\ screen' = CR!View(read[k].snap) /\ CR!RequestEnds(k)
  BY <1>1 DEF CR!ReadArrives
<1>3. k = a
  <2>1. ASSUME k # a PROVE asks'[a] = asks[a]
    BY <1>2, <2>1 DEF CR!RequestEnds, RequestsInv
  <2> QED BY <2>1
<1>4. screen'.version = read[a].snap.version
  BY <1>1, <1>2, <1>3 DEF CR!View, RequestsInv, SnapSound
<1> QED BY <1>2, <1>3, <1>4 DEF RequestsInv, ButtonSound

-----------------------------------------------------------------------------
(* CockpitFeed                                                             *)

FeedBounds ==
    /\ {MaxNews, MaxBehind, TaskCap, IdleTasks} \subseteq Nat
    /\ IsFiniteSet(Speakers) /\ IsFiniteSet(Things) /\ NoAgent \notin Speakers
    /\ NewsKinds \subseteq {"telemetry", "hardware", "tasks", "chairs", "phases", "claims", "retries",
                            "receipts", "log", "latest", "chat", "debate"}

\* A frame that is no close, and says of claims and chairs what the store takes.
FrameSound(f) ==
    /\ f.type # "close"
    /\ f.type = "claim_event" => f.data.previous \in CF!Buckets \cup {"none"} /\ f.data.state \in CF!Buckets
    /\ f.type = "chair_event" => f.data.presence \in CF!Presences
    /\ f.type = "chair_roster" => f.data \in [Speakers -> CF!Presences]
    /\ f.type = "hardware_telemetry" => f.data # 0

FramesSound(fs) == \E S : fs \in Seq(S) /\ \A f \in S : FrameSound(f)

\* Frames that end with the close, or have been received with it.
Closing(fs) == fs = << >> \/ \E s : FramesSound(s) /\ fs = s \o <<CF!Close>>

\* A socket: its close is the last that comes of it, and comes when it is down.
LineSound(l) ==
    /\ DOMAIN l = {"state", "frames", "mine", "whole"}
    /\ l.state \in {"dialing", "up", "down"} /\ l.mine \in BOOLEAN
    /\ l.state # "down" => l.mine
    /\ l.state = "dialing" => l.frames = << >>
    /\ l.state = "up" => FramesSound(l.frames)
    /\ l.state = "down" => Closing(l.frames)

LinesSound ==
    /\ \E S : lines \in Seq(S)
    /\ \A i \in DOMAIN lines : LineSound(lines[i])

\* A socket of the page that is dialled, open, or whose end is not told yet.
IsOpen(l) == l.mine /\ (l.state # "down" \/ l.frames # << >>)
OpenLines == {i \in DOMAIN lines : IsOpen(lines[i])}

OneOpen ==
    /\ redial => OpenLines = {}
    /\ ~redial => \E i : OpenLines = {i}
    /\ feedShown.connected => OpenLines # {}

TruthSound(t) ==
    /\ DOMAIN t = {"telemetry", "merged", "hardware", "tasks", "chairs", "cycles", "claims", "retries",
                   "receipts", "log", "latest", "chat", "topics", "messages"}
    /\ t.tasks \in Seq(Nat)
    /\ t.chairs \in [Speakers -> CF!Presences]
    /\ t.claims \in [Things -> CF!Buckets \cup {"none"}]
    /\ DOMAIN t.chat = {"enabled", "mode"} /\ t.chat.enabled \in BOOLEAN

ShownSound(s) ==
    /\ {"connected", "claims", "chairs", "status"} \subseteq DOMAIN s
    /\ s.connected \in BOOLEAN
    /\ s.claims \in [CF!Buckets -> Nat] /\ s.chairs \in [Speakers -> CF!Presences]
    /\ s.status \in [Speakers -> {"online", "dispatching"}]

FeedHostSound ==
    /\ about \in NewsKinds /\ news \in 0..MaxNews
    /\ loop \in BOOLEAN /\ feedMode \in {"active", "idle"}
    /\ TruthSound(truth)
    /\ CF!LoopFollowsSwitch

FeedInv ==
    /\ FeedHostSound /\ LinesSound /\ ShownSound(feedShown) /\ OneOpen
    /\ redial \in BOOLEAN /\ missed \in BOOLEAN

-----------------------------------------------------------------------------
\* Sequences of frames.
LEMMA NoFrames == FramesSound(<< >>)
<1> DEFINE S == {}
<1>1. << >> \in Seq(S) /\ \A f \in S : FrameSound(f)
  OBVIOUS
<1> HIDE DEF S
<1> QED BY <1>1 DEF FramesSound

LEMMA OneFrame == ASSUME NEW f, FrameSound(f) PROVE FramesSound(<<f>>)
<1> DEFINE S == {f}
<1>1. <<f>> \in Seq(S) /\ \A g \in S : FrameSound(g)
  OBVIOUS
<1> HIDE DEF S
<1> QED BY <1>1 DEF FramesSound

LEMMA MoreFrames ==
    ASSUME NEW s, FramesSound(s), NEW t, FramesSound(t) PROVE FramesSound(s \o t)
<1>1. PICK S : s \in Seq(S) /\ \A f \in S : FrameSound(f)
  BY DEF FramesSound
<1>2. PICK T : t \in Seq(T) /\ \A f \in T : FrameSound(f)
  BY DEF FramesSound
<1>3. s \in Seq(S \cup T) /\ t \in Seq(S \cup T)
  <2>1. s \in [1..Len(s) -> S] /\ Len(s) \in Nat
    BY <1>1
  <2>2. t \in [1..Len(t) -> T] /\ Len(t) \in Nat
    BY <1>2
  <2>3. s \in [1..Len(s) -> S \cup T] /\ t \in [1..Len(t) -> S \cup T]
    BY <2>1, <2>2
  <2> QED BY <2>1, <2>2, <2>3, SeqDef
<1>4. s \o t \in Seq(S \cup T)
  BY <1>3
<1> QED BY <1>1, <1>2, <1>4 DEF FramesSound

LEMMA EachFrame ==
    ASSUME NEW n \in Nat, NEW fs, fs = [i \in 1..n |-> fs[i]], \A i \in 1..n : FrameSound(fs[i])
    PROVE  FramesSound(fs)
<1> DEFINE S == {fs[i] : i \in 1..n}
<1>1. fs \in [1..n -> S]
  OBVIOUS
<1>2. fs \in Seq(S)
  BY <1>1, SeqDef
<1>3. \A f \in S : FrameSound(f)
  OBVIOUS
<1> HIDE DEF S
<1> QED BY <1>2, <1>3 DEF FramesSound

LEMMA FirstFrames ==
    ASSUME NEW fs, FramesSound(fs), NEW n \in Int, n <= Len(fs)
    PROVE  FramesSound(SubSeq(fs, 1, n))
<1>1. PICK S : fs \in Seq(S) /\ \A f \in S : FrameSound(f)
  BY DEF FramesSound
<1>2. \A i \in 1..n : fs[i] \in S
  BY <1>1
<1>3. SubSeq(fs, 1, n) \in Seq(S)
  BY <1>1, <1>2, SubSeqProperties
<1> QED BY <1>1, <1>3 DEF FramesSound

LEMMA NextFrame ==
    ASSUME NEW fs, FramesSound(fs), fs # << >>
    PROVE  FrameSound(Head(fs)) /\ FramesSound(Tail(fs))
<1>1. PICK S : fs \in Seq(S) /\ \A f \in S : FrameSound(f)
  BY DEF FramesSound
<1>2. Head(fs) \in S /\ Tail(fs) \in Seq(S)
  BY <1>1
<1> QED BY <1>1, <1>2 DEF FramesSound

\* What comes next of a socket that is down: a frame, or at last the close.
LEMMA NextOfClosing ==
    ASSUME NEW fs, Closing(fs), fs # << >>
    PROVE  \/ Head(fs) = CF!Close /\ Tail(fs) = << >>
           \/ FrameSound(Head(fs)) /\ Closing(Tail(fs)) /\ Tail(fs) # << >>
<1>1. PICK s : FramesSound(s) /\ fs = s \o <<CF!Close>>
  BY DEF Closing
<1>2. PICK S : s \in Seq(S) /\ \A f \in S : FrameSound(f)
  BY <1>1 DEF FramesSound
<1>3. CASE s = << >>
  <2>1. fs = <<CF!Close>>
    BY <1>1, <1>3
  <2> QED BY <2>1
<1>4. CASE s # << >>
  <2> DEFINE c == CF!Close
             T == S \cup {c}
  <2>1. s \in Seq(T) /\ <<c>> \in Seq(T) /\ Len(s) \in Nat /\ Len(s) > 0
    <3>1. s \in [1..Len(s) -> S] /\ Len(s) \in Nat
      BY <1>2
    <3>2. s \in [1..Len(s) -> T]
      BY <3>1
    <3>3. s \in Seq(T)
      BY <3>1, <3>2, SeqDef
    <3>4. Len(s) # 0
      BY <1>2, <1>4
    <3> QED BY <3>1, <3>3, <3>4
  <2> HIDE DEF c, T
  <2>2. Head(s \o <<c>>) = Head(s) /\ Tail(s \o <<c>>) = Tail(s) \o <<c>>
    BY <2>1, <1>4
  <2>3. Tail(s) \o <<c>> # << >>
    <3>1. Tail(s) \in Seq(T) /\ Len(Tail(s) \o <<c>>) = Len(Tail(s)) + 1 /\ Len(Tail(s)) \in Nat
      BY <2>1, <1>4
    <3> QED BY <3>1
  <2>4. FrameSound(Head(s)) /\ FramesSound(Tail(s))
    BY <1>1, <1>4, NextFrame
  <2>5. Closing(Tail(s) \o <<c>>)
    BY <2>4 DEF Closing, c
  <2>6. fs = s \o <<c>>
    BY <1>1 DEF c
  <2> QED BY <2>2, <2>3, <2>4, <2>5, <2>6
<1> QED BY <1>3, <1>4

-----------------------------------------------------------------------------
\* The store: what frames make of the counts and the chairs it shows.

\* What leaves the typed parts of the store alone.
Same(r, s) ==
    /\ DOMAIN r = DOMAIN s /\ r.connected = s.connected
    /\ r.claims = s.claims /\ r.chairs = s.chairs /\ r.status = s.status

LEMMA SameIsSound == ASSUME NEW s, ShownSound(s), NEW r, Same(r, s) PROVE ShownSound(r)
BY DEF ShownSound, Same

LEMMA StoreTouches ==
    ASSUME NEW s, ShownSound(s), NEW f,
           f.type \in {"retry_event", "new_task", "receipt", "log", "latest", "chat_state", "chat_message",
                       "topic_opened", "topic_closed", "message_delta"}
    PROVE  Same(CF!Stored(s, f), s)
<1> DEFINE r == CF!Stored(s, f)
<1>1. CASE f.type = "retry_event"
  <2>1. r = CF!RecordRetryEvent(s, f.data)
    BY <1>1 DEF CF!Stored
  <2> QED BY <2>1 DEF CF!RecordRetryEvent, ShownSound, Same
<1>2. CASE f.type = "new_task"
  <2>1. r = CF!AddTask(s, f.data)
    BY <1>2 DEF CF!Stored
  <2> QED BY <2>1 DEF CF!AddTask, ShownSound, Same
<1>3. CASE f.type = "receipt"
  <2>1. r = CF!AddVerificationReceipt(s, f.data)
    BY <1>3 DEF CF!Stored
  <2> QED BY <2>1 DEF CF!AddVerificationReceipt, ShownSound, Same
<1>4. CASE f.type = "log"
  <2>1. r = CF!RecordInLog(s, f.data)
    BY <1>4 DEF CF!Stored
  <2> QED BY <2>1 DEF CF!RecordInLog, ShownSound, Same
<1>5. CASE f.type = "latest"
  <2>1. r = CF!RecordLatest(s, f.data)
    BY <1>5 DEF CF!Stored
  <2> QED BY <2>1 DEF CF!RecordLatest, ShownSound, Same
<1>6. CASE f.type = "chat_state"
  <2>1. r = CF!SetInterAgentChat(s, f.data)
    BY <1>6 DEF CF!Stored
  <2> QED BY <2>1 DEF CF!SetInterAgentChat, ShownSound, Same
<1>7. CASE f.type = "chat_message"
  <2>1. r = CF!AddInterAgentMessage(s, f.data)
    BY <1>7 DEF CF!Stored
  <2> QED BY <2>1 DEF CF!AddInterAgentMessage, ShownSound, Same
<1>8. CASE f.type = "topic_opened"
  <2>1. r = CF!OpenConversation(s, f.data)
    BY <1>8 DEF CF!Stored
  <2> QED BY <2>1 DEF CF!OpenConversation, ShownSound, Same
<1>9. CASE f.type = "topic_closed"
  <2>1. r = CF!CloseConversation(s, f.data)
    BY <1>9 DEF CF!Stored
  <2> QED BY <2>1 DEF CF!CloseConversation, ShownSound, Same
<1>10. CASE f.type = "message_delta"
  <2>1. r = CF!ApplyMessageDelta(s, f.data)
    BY <1>10 DEF CF!Stored
  <2> QED BY <2>1 DEF CF!ApplyMessageDelta, ShownSound, Same
<1> QED BY <1>1, <1>2, <1>3, <1>4, <1>5, <1>6, <1>7, <1>8, <1>9, <1>10

\* recordClaimEvent counts in buckets that there are.
LEMMA ClaimsAreCounted ==
    ASSUME NEW s, ShownSound(s), NEW e, e.previous \in CF!Buckets \cup {"none"}, e.state \in CF!Buckets
    PROVE  ShownSound(CF!RecordClaimEvent(s, e)) /\ CF!RecordClaimEvent(s, e).connected = s.connected
<1> DEFINE left == [s.claims EXCEPT ![e.previous] = IF @ = 0 THEN 0 ELSE @ - 1]
           from == IF e.previous = "none" THEN s.claims ELSE left
           counted == [from EXCEPT ![e.state] = @ + 1]
<1>1. s.claims \in [CF!Buckets -> Nat]
  BY DEF ShownSound
<1>2. "none" \notin CF!Buckets
  BY DEF CF!Buckets
<1>3. left \in [CF!Buckets -> Nat]
  <2>1. s.claims[e.previous] \in Nat \/ e.previous \notin CF!Buckets
    BY <1>1
  <2>2. DEFINE m == s.claims
               n == IF m[e.previous] = 0 THEN 0 ELSE m[e.previous] - 1
  <2>3. n \in Nat \/ e.previous \notin CF!Buckets
    BY <2>1
  <2>4. left = [m EXCEPT ![e.previous] = n]
    OBVIOUS
  <2>5. m \in [CF!Buckets -> Nat]
    BY <1>1
  <2> HIDE DEF m, n, left
  <2> QED BY <2>3, <2>4, <2>5
<1>4. from \in [CF!Buckets -> Nat]
  BY <1>1, <1>3
<1> HIDE DEF left, from
<1>5. counted \in [CF!Buckets -> Nat]
  BY <1>4
<1>6. CF!RecordClaimEvent(s, e) = [s EXCEPT !.claims = counted]
  BY DEF CF!RecordClaimEvent, from, left
<1> HIDE DEF counted
<1> QED BY <1>5, <1>6 DEF ShownSound

LEMMA StoredSound ==
    ASSUME NEW s, ShownSound(s), NEW f, FrameSound(f)
    PROVE  ShownSound(CF!Stored(s, f)) /\ CF!Stored(s, f).connected = s.connected
<1> DEFINE r == CF!Stored(s, f)
<1>1. CASE f.type = "agent_card"
  <2>1. r = CF!UpsertAgentNode(s, f.data)
    BY <1>1 DEF CF!Stored
  <2>2. DOMAIN r = DOMAIN s /\ r.connected = s.connected /\ r.claims = s.claims /\ r.chairs = s.chairs
        /\ r.status = [s.status EXCEPT ![f.data] = "online"]
    BY <2>1 DEF CF!UpsertAgentNode, ShownSound
  <2> QED BY <2>2 DEF ShownSound
<1>2. CASE f.type = "phase_change"
  <2>1. r = CF!RecordPhaseEvent(s, f.data)
    BY <1>2 DEF CF!Stored
  <2>2. DOMAIN r = DOMAIN s /\ r.connected = s.connected /\ r.claims = s.claims /\ r.chairs = s.chairs
        /\ r.status = [a \in Speakers |->
                          IF a = f.data.agent /\ a \in s.cards
                          THEN IF f.data.terminal THEN "online" ELSE "dispatching" ELSE s.status[a]]
    BY <2>1 DEF CF!RecordPhaseEvent, ShownSound
  <2> QED BY <2>2 DEF ShownSound
<1>3. CASE f.type = "chair_event"
  <2>1. r = CF!RecordChairEvent(s, f.data)
    BY <1>3 DEF CF!Stored
  <2>2. DOMAIN r = DOMAIN s /\ r.connected = s.connected /\ r.claims = s.claims /\ r.status = s.status
        /\ r.chairs = [a \in Speakers |-> IF a = f.data.agent /\ a \in s.cards THEN f.data.presence
                                          ELSE s.chairs[a]]
    BY <2>1 DEF CF!RecordChairEvent, ShownSound
  <2>3. f.data.presence \in CF!Presences
    BY <1>3 DEF FrameSound
  <2> QED BY <2>2, <2>3 DEF ShownSound
<1>4. CASE f.type = "chair_roster"
  <2>1. r = CF!ApplyChairRoster(s, f.data)
    BY <1>4 DEF CF!Stored
  <2>2. DOMAIN r = DOMAIN s /\ r.connected = s.connected /\ r.claims = s.claims /\ r.status = s.status
        /\ r.chairs = [a \in Speakers |-> IF a \in s.cards THEN f.data[a] ELSE s.chairs[a]]
    BY <2>1 DEF CF!ApplyChairRoster, ShownSound
  <2>3. f.data \in [Speakers -> CF!Presences]
    BY <1>4 DEF FrameSound
  <2> QED BY <2>2, <2>3 DEF ShownSound
<1>5. CASE f.type = "claim_event"
  <2>1. r = CF!RecordClaimEvent(s, f.data)
    BY <1>5 DEF CF!Stored
  <2> QED BY <1>5, <2>1, ClaimsAreCounted DEF FrameSound
<1>6. CASE f.type \in {"retry_event", "new_task", "receipt", "log", "latest", "chat_state", "chat_message",
                       "topic_opened", "topic_closed", "message_delta"}
  <2>1. Same(r, s)
    BY <1>6, StoreTouches
  <2> QED BY <2>1, SameIsSound DEF Same
<1>7. CASE f.type \notin {"agent_card", "phase_change", "chair_event", "chair_roster", "claim_event",
                          "retry_event", "new_task", "receipt", "log", "latest", "chat_state", "chat_message",
                          "topic_opened", "topic_closed", "message_delta"}
  <2>1. r = s
    BY <1>7 DEF CF!Stored
  <2> QED BY <2>1
<1> QED BY <1>1, <1>2, <1>3, <1>4, <1>5, <1>6, <1>7

LEMMA AppliedSound ==
    ASSUME NEW s, ShownSound(s), NEW f, FrameSound(f)
    PROVE  ShownSound(CF!Apply(s, f)) /\ CF!Apply(s, f).connected = s.connected
<1> DEFINE r == CF!Stored(s, f)
<1>1. ShownSound(r) /\ r.connected = s.connected
  BY StoredSound
<1>2. \E x : CF!Apply(s, f) = [r EXCEPT !.runs = x]
  BY DEF CF!Apply
<1> HIDE DEF r
<1>3. Same(CF!Apply(s, f), r)
  BY <1>1, <1>2 DEF Same, ShownSound
<1> QED BY <1>1, <1>3, SameIsSound DEF Same

LEMMA FlushedSound ==
    ASSUME NEW s, ShownSound(s), NEW b
    PROVE  ShownSound(CF!Flushed(s, b)) /\ CF!Flushed(s, b).connected = s.connected
<1>1. Same(CF!Flushed(s, b), s)
  BY DEF CF!Flushed, Same, ShownSound
<1> QED BY <1>1, SameIsSound DEF Same

-----------------------------------------------------------------------------
\* The news: what they make of the truth, and the frames that tell them.

TruthLike(t, u) ==
    DOMAIN t = DOMAIN u /\ t.tasks = u.tasks /\ t.chairs = u.chairs /\ t.claims = u.claims /\ t.chat = u.chat

LEMMA LikeIsSound == ASSUME NEW u, TruthSound(u), NEW t, TruthLike(t, u) PROVE TruthSound(t)
BY DEF TruthSound, TruthLike

ToldSound(o) == TruthSound(o.truth) /\ o.truth.chat = truth.chat /\ FramesSound(o.frames)

\* A frame that has nothing to say of claims and chairs.
LEMMA PlainFrame ==
    ASSUME NEW type, type \notin {"close", "claim_event", "chair_event", "chair_roster", "hardware_telemetry"}, NEW d
    PROVE  FrameSound(CF!Frame(type, d)) /\ FramesSound(<<CF!Frame(type, d)>>)
<1>1. FrameSound(CF!Frame(type, d))
  BY DEF FrameSound, CF!Frame
<1> QED BY <1>1, OneFrame

LEMMA HardwareFrame ==
    ASSUME NEW d, d # 0 PROVE FramesSound(<<CF!Frame("hardware_telemetry", d)>>)
<1>1. FrameSound(CF!Frame("hardware_telemetry", d))
  BY DEF FrameSound, CF!Frame
<1> QED BY <1>1, OneFrame

LEMMA PlainNews ==
    ASSUME TruthSound(truth), NEW t, TruthLike(t, truth), NEW fs, FramesSound(fs), NEW o, o = CF!Told(t, fs)
    PROVE  ToldSound(o)
BY LikeIsSound DEF ToldSound, CF!Told, TruthLike

\* The end of a list is one.
LEMMA LastOfIsList ==
    ASSUME NEW q \in Seq(Nat), NEW n \in Nat PROVE CF!LastOf(q, n) \in Seq(Nat)
<1> DEFINE m == IF Len(q) > n THEN Len(q) - n + 1 ELSE 1
<1>1. Len(q) \in Nat /\ m \in Nat /\ m >= 1 /\ \A i \in m..Len(q) : q[i] \in Nat
  OBVIOUS
<1>2. SubSeq(q, m, Len(q)) \in Seq(Nat)
  BY <1>1, SubSeqProperties
<1> QED BY <1>2 DEF CF!LastOf

LEMMA BanterSound ==
    ASSUME NEW t, TruthSound(t)
    PROVE  TruthLike(CF!Banter(t).truth, t) /\ FramesSound(CF!Banter(t).frames)
<1>1. CF!Banter(t).truth = [t EXCEPT !.log = CF!LastOf(Append(t.log, CF!Stamp), LogCap)]
      /\ CF!Banter(t).frames = <<CF!Frame("chat_message", CF!Stamp)>>
  BY DEF CF!Banter, CF!Told, TruthSound
<1>2. TruthLike(CF!Banter(t).truth, t)
  BY <1>1 DEF TruthSound, TruthLike
<1>3. FramesSound(<<CF!Frame("chat_message", CF!Stamp)>>)
  BY PlainFrame
<1> QED BY <1>1, <1>2, <1>3

LEMMA QuietNews ==
    ASSUME TruthSound(truth), news \in Nat, NEW o,
           o \in CF!TelemetryNews \cup CF!HardwareNews \cup CF!PhaseNews \cup CF!ReceiptNews
                 \cup CF!LogNews \cup CF!LatestNews \cup CF!ChatNews
    PROVE  ToldSound(o)
<1>1. CASE o \in CF!TelemetryNews
  <2>1. PICK ks : LET data == [k \in ks |-> CF!Stamp]
                  IN  o = CF!Told([truth EXCEPT !.telemetry = data, !.merged = CF!Merge(@, data)],
                                  <<CF!Frame("telemetry", data)>>)
    BY <1>1 DEF CF!TelemetryNews
  <2> DEFINE data == [k \in ks |-> CF!Stamp]
             t == [truth EXCEPT !.telemetry = data, !.merged = CF!Merge(@, data)]
  <2>2. TruthLike(t, truth)
    BY DEF TruthSound, TruthLike
  <2>3. FramesSound(<<CF!Frame("telemetry", data)>>)
    BY PlainFrame
  <2> QED BY <2>1, <2>2, <2>3, PlainNews
<1>2. CASE o \in CF!HardwareNews
  <2> DEFINE t == [truth EXCEPT !.hardware = CF!Stamp]
  <2>1. o = CF!Told(t, <<CF!Frame("hardware_telemetry", CF!Stamp)>>)
    BY <1>2 DEF CF!HardwareNews
  <2>2. TruthLike(t, truth)
    BY DEF TruthSound, TruthLike
  <2>3. FramesSound(<<CF!Frame("hardware_telemetry", CF!Stamp)>>)
    BY HardwareFrame DEF CF!Stamp
  <2> QED BY <2>1, <2>2, <2>3, PlainNews
<1>3. CASE o \in CF!PhaseNews
  <2>1. PICK e : o = CF!Told([truth EXCEPT !.cycles[e.cycle] = IF e.terminal THEN NoAgent ELSE e.agent,
                                           !.log = CF!Newest(e.cycle, @, LogCap)], <<CF!Frame("phase_change", e)>>)
    BY <1>3 DEF CF!PhaseNews
  <2> DEFINE t == [truth EXCEPT !.cycles[e.cycle] = IF e.terminal THEN NoAgent ELSE e.agent,
                                !.log = CF!Newest(e.cycle, @, LogCap)]
  <2>2. TruthLike(t, truth)
    BY DEF TruthSound, TruthLike
  <2>3. FramesSound(<<CF!Frame("phase_change", e)>>)
    BY PlainFrame
  <2> QED BY <2>1, <2>2, <2>3, PlainNews
<1>4. CASE o \in CF!ReceiptNews
  <2> DEFINE t == [truth EXCEPT !.receipts = @ + 1, !.log = CF!Newest(CF!Stamp, @, LogCap)]
  <2>1. o = CF!Told(t, <<CF!Frame("receipt", CF!Stamp)>>)
    BY <1>4 DEF CF!ReceiptNews
  <2>2. TruthLike(t, truth)
    BY DEF TruthSound, TruthLike
  <2>3. FramesSound(<<CF!Frame("receipt", CF!Stamp)>>)
    BY PlainFrame
  <2> QED BY <2>1, <2>2, <2>3, PlainNews
<1>5. CASE o \in CF!LogNews
  <2> DEFINE t == [truth EXCEPT !.log = CF!Newest(CF!Stamp, @, LogCap)]
  <2>1. o = CF!Told(t, <<CF!Frame("log", CF!Stamp)>>)
    BY <1>5 DEF CF!LogNews
  <2>2. TruthLike(t, truth)
    BY DEF TruthSound, TruthLike
  <2>3. FramesSound(<<CF!Frame("log", CF!Stamp)>>)
    BY PlainFrame
  <2> QED BY <2>1, <2>2, <2>3, PlainNews
<1>6. CASE o \in CF!LatestNews
  <2> DEFINE t == [truth EXCEPT !.latest = CF!Stamp]
  <2>1. o = CF!Told(t, <<CF!Frame("latest", CF!Stamp)>>)
    BY <1>6 DEF CF!LatestNews
  <2>2. TruthLike(t, truth)
    BY DEF TruthSound, TruthLike
  <2>3. FramesSound(<<CF!Frame("latest", CF!Stamp)>>)
    BY PlainFrame
  <2> QED BY <2>1, <2>2, <2>3, PlainNews
<1>7. CASE o \in CF!ChatNews
  <2>1. o = CF!Banter(truth)
    BY <1>7 DEF CF!ChatNews
  <2> QED BY <2>1, BanterSound, LikeIsSound DEF ToldSound, TruthLike
<1> QED BY <1>1, <1>2, <1>3, <1>4, <1>5, <1>6, <1>7

LEMMA RetryNewsSound ==
    ASSUME TruthSound(truth), NEW o \in CF!RetryNews PROVE ToldSound(o)
<1>1. PICK t \in Things :
        \/ \E fs \in {<<CF!Frame("retry_event", "dispatching")>>, << >>} :
              o = CF!Told([truth EXCEPT !.retries = @ \ {t}], fs)
        \/ o = CF!Told([truth EXCEPT !.retries = @ \cup {t}], <<CF!Frame("retry_event", "scheduled")>>)
        \/ o = CF!Told(truth, <<CF!Frame("retry_event", "exhausted")>>)
  BY DEF CF!RetryNews
<1>2. FramesSound(<<CF!Frame("retry_event", "dispatching")>>) /\ FramesSound(<< >>)
      /\ FramesSound(<<CF!Frame("retry_event", "scheduled")>>)
      /\ FramesSound(<<CF!Frame("retry_event", "exhausted")>>)
  BY PlainFrame, NoFrames
<1>3. TruthLike([truth EXCEPT !.retries = @ \ {t}], truth) /\ TruthLike([truth EXCEPT !.retries = @ \cup {t}], truth)
      /\ TruthLike(truth, truth)
  BY DEF TruthSound, TruthLike
<1> QED BY <1>1, <1>2, <1>3, PlainNews

LEMMA DebateNewsSound ==
    ASSUME TruthSound(truth), NEW o \in CF!DebateNews PROVE ToldSound(o)
<1>1. PICK t :
        \/ o = CF!Told([truth EXCEPT !.topics = CF!Merge(@, [x \in {t} |-> "open"])], <<CF!Frame("topic_opened", t)>>)
        \/ o = CF!Told([truth EXCEPT !.topics[t] = "stopped"], <<CF!Frame("stopped", t)>>)
        \/ o = CF!Told([truth EXCEPT !.topics[t] = "closed"], <<CF!Frame("topic_closed", t)>>)
        \/ o = CF!Told([truth EXCEPT !.messages = CF!ApplyMessageDelta(truth, t).messages],
                       <<CF!Frame("message_delta", t)>>)
  BY DEF CF!DebateNews
<1>2. FramesSound(<<CF!Frame("topic_opened", t)>>) /\ FramesSound(<<CF!Frame("stopped", t)>>)
      /\ FramesSound(<<CF!Frame("topic_closed", t)>>) /\ FramesSound(<<CF!Frame("message_delta", t)>>)
  BY PlainFrame
<1>3. TruthLike([truth EXCEPT !.topics = CF!Merge(@, [x \in {t} |-> "open"])], truth)
  BY DEF TruthSound, TruthLike
<1>4. TruthLike([truth EXCEPT !.topics[t] = "stopped"], truth) /\ TruthLike([truth EXCEPT !.topics[t] = "closed"], truth)
  BY DEF TruthSound, TruthLike
<1>5. TruthLike([truth EXCEPT !.messages = CF!ApplyMessageDelta(truth, t).messages], truth)
  BY DEF TruthSound, TruthLike
<1> QED BY <1>1, <1>2, <1>3, <1>4, <1>5, PlainNews

LEMMA TaskNewsSound ==
    ASSUME TruthSound(truth), TaskCap \in Nat, news \in Nat, NEW o \in CF!TaskNews PROVE ToldSound(o)
<1> DEFINE list == CF!LastOf(Append(truth.tasks, CF!Stamp), TaskCap)
           t == [truth EXCEPT !.tasks = list]
<1>1. o = CF!Told(t, <<CF!Frame("new_task", CF!Stamp)>>)
  BY DEF CF!TaskNews
<1>2. list \in Seq(Nat)
  <2>1. truth.tasks \in Seq(Nat) /\ CF!Stamp \in Nat
    BY DEF TruthSound, CF!Stamp
  <2>2. Append(truth.tasks, CF!Stamp) \in Seq(Nat)
    BY <2>1
  <2> QED BY <2>2, LastOfIsList
<1> HIDE DEF list
<1>3. TruthSound(t) /\ t.chat = truth.chat
  BY <1>2 DEF TruthSound
<1>4. FramesSound(<<CF!Frame("new_task", CF!Stamp)>>)
  BY PlainFrame
<1> QED BY <1>1, <1>3, <1>4 DEF ToldSound, CF!Told

LEMMA ChairNewsSound ==
    ASSUME TruthSound(truth), NEW o \in CF!ChairNews PROVE ToldSound(o)
<1>1. PICK c \in [agent : Speakers, presence : CF!Presences] :
        o = CF!Told([truth EXCEPT !.chairs[c.agent] = c.presence], <<CF!Frame("chair_event", c)>>)
  BY DEF CF!ChairNews
<1> DEFINE t == [truth EXCEPT !.chairs[c.agent] = c.presence]
<1>2. TruthSound(t) /\ t.chat = truth.chat
  <2>1. c.agent \in Speakers /\ c.presence \in CF!Presences
    BY <1>1
  <2>2. t.chairs = [truth.chairs EXCEPT ![c.agent] = c.presence] /\ DOMAIN t = DOMAIN truth
        /\ t.tasks = truth.tasks /\ t.claims = truth.claims /\ t.chat = truth.chat
    BY DEF TruthSound
  <2> QED BY <2>1, <2>2 DEF TruthSound
<1>3. FrameSound(CF!Frame("chair_event", c))
  BY <1>1 DEF FrameSound, CF!Frame
<1> QED BY <1>1, <1>2, <1>3, OneFrame DEF ToldSound, CF!Told

LEMMA LegalIsBucket == \A b \in CF!Buckets : CF!Legal[b] \subseteq CF!Buckets
BY DEF CF!Legal, CF!Buckets

LEMMA ClaimNewsSound ==
    ASSUME TruthSound(truth), NEW o \in CF!ClaimNews PROVE ToldSound(o)
<1>0. truth.claims \in [Things -> CF!Buckets \cup {"none"}]
  BY DEF TruthSound
<1>1. ASSUME NEW c \in Things, NEW to \in CF!Buckets \cup {"none"}
      PROVE  TruthSound([truth EXCEPT !.claims[c] = to]) /\ [truth EXCEPT !.claims[c] = to].chat = truth.chat
  <2> DEFINE t == [truth EXCEPT !.claims[c] = to]
  <2>1. t.claims = [truth.claims EXCEPT ![c] = to] /\ DOMAIN t = DOMAIN truth
        /\ t.tasks = truth.tasks /\ t.chairs = truth.chairs /\ t.chat = truth.chat
    BY DEF TruthSound
  <2> HIDE DEF t
  <2>2. TruthSound(t) /\ t.chat = truth.chat
    BY <1>0, <2>1 DEF TruthSound
  <2> QED BY <2>2 DEF t
<1>2. CASE \E c \in Things : o = CF!Told([truth EXCEPT !.claims[c] = "none"], << >>)
  <2>1. PICK c \in Things : o = CF!Told([truth EXCEPT !.claims[c] = "none"], << >>)
    BY <1>2
  <2> DEFINE t == [truth EXCEPT !.claims[c] = "none"]
  <2>2. TruthSound(t) /\ t.chat = truth.chat
    BY <1>1
  <2>3. o.truth = t /\ o.frames = << >>
    BY <2>1 DEF CF!Told
  <2> HIDE DEF t
  <2> QED BY <2>2, <2>3, NoFrames DEF ToldSound
<1>3. CASE \E c \in Things :
             \E to \in IF truth.claims[c] = "none" THEN {"Unclaimed"} ELSE CF!Legal[truth.claims[c]] :
                o = CF!Told([truth EXCEPT !.claims[c] = to],
                            <<CF!Frame("claim_event", [previous |-> truth.claims[c], state |-> to])>>)
  <2>0. PICK c \in Things :
          \E to \in IF truth.claims[c] = "none" THEN {"Unclaimed"} ELSE CF!Legal[truth.claims[c]] :
             o = CF!Told([truth EXCEPT !.claims[c] = to],
                         <<CF!Frame("claim_event", [previous |-> truth.claims[c], state |-> to])>>)
    BY <1>3
  <2>1. PICK to \in IF truth.claims[c] = "none" THEN {"Unclaimed"} ELSE CF!Legal[truth.claims[c]] :
          o = CF!Told([truth EXCEPT !.claims[c] = to],
                      <<CF!Frame("claim_event", [previous |-> truth.claims[c], state |-> to])>>)
    BY <2>0
  <2>2. truth.claims[c] \in CF!Buckets \cup {"none"}
    BY <1>0
  <2>3. to \in CF!Buckets
    <3>1. CASE truth.claims[c] = "none"
      BY <2>1, <3>1 DEF CF!Buckets
    <3>2. CASE truth.claims[c] # "none"
      BY <2>1, <2>2, <3>2, LegalIsBucket
    <3> QED BY <3>1, <3>2
  <2>4. FrameSound(CF!Frame("claim_event", [previous |-> truth.claims[c], state |-> to]))
    BY <2>2, <2>3 DEF FrameSound, CF!Frame
  <2> QED BY <2>1, <2>3, <2>4, <1>1, OneFrame DEF ToldSound, CF!Told
<1> QED BY <1>2, <1>3 DEF CF!ClaimNews

LEMMA NewsSound ==
    ASSUME FeedBounds, FeedHostSound, NEW o \in CF!NewsOf(about) PROVE ToldSound(o)
<1>1. TruthSound(truth) /\ TaskCap \in Nat /\ news \in Nat
  BY DEF FeedHostSound, FeedBounds
<1>2. about \in {"telemetry", "hardware", "tasks", "chairs", "phases", "claims", "retries",
                 "receipts", "log", "latest", "chat", "debate"}
  BY DEF FeedHostSound, FeedBounds
<1>3. CASE about \in {"telemetry", "hardware", "phases", "receipts", "log", "latest", "chat"}
  <2>1. o \in CF!TelemetryNews \cup CF!HardwareNews \cup CF!PhaseNews \cup CF!ReceiptNews
              \cup CF!LogNews \cup CF!LatestNews \cup CF!ChatNews
    BY <1>3 DEF CF!NewsOf
  <2> QED BY <1>1, <2>1, QuietNews
<1>4. CASE about = "tasks"
  BY <1>1, <1>4, TaskNewsSound DEF CF!NewsOf
<1>5. CASE about = "chairs"
  BY <1>1, <1>5, ChairNewsSound DEF CF!NewsOf
<1>6. CASE about = "claims"
  BY <1>1, <1>6, ClaimNewsSound DEF CF!NewsOf
<1>7. CASE about = "retries"
  BY <1>1, <1>7, RetryNewsSound DEF CF!NewsOf
<1>8. CASE about = "debate"
  BY <1>1, <1>8, DebateNewsSound DEF CF!NewsOf
<1> QED BY <1>2, <1>3, <1>4, <1>5, <1>6, <1>7, <1>8

LEMMA WokenSound ==
    ASSUME TruthSound(truth)
    PROVE  TruthSound(CF!Woken.truth) /\ CF!Woken.truth.chat = truth.chat /\ FramesSound(CF!Woken.frames)
<1>1. CASE feedMode = "idle" /\ truth.chat.enabled
  <2>1. CF!Woken = CF!Banter(truth)
    BY <1>1 DEF CF!Woken
  <2> QED BY <2>1, BanterSound, LikeIsSound DEF TruthLike
<1>2. CASE ~(feedMode = "idle" /\ truth.chat.enabled)
  <2>1. CF!Woken = CF!Told(truth, << >>)
    BY <1>2 DEF CF!Woken
  <2> QED BY <2>1, NoFrames DEF CF!Told
<1> QED BY <1>1, <1>2

LEMMA FeedCardinality == \A S : CF!Cardinality(S) = Cardinality(S)
BY DEF CF!Cardinality, Cardinality

\* What a new client is sent.
LEMMA ReplaySound ==
    ASSUME FeedBounds, NEW t, TruthSound(t) PROVE FramesSound(CF!Replay(t))
<1>1. FramesSound(CF!Cards)
  <2>1. Cardinality(Speakers) \in Nat
    BY FS_CardinalityType DEF FeedBounds
  <2>2. \A i \in 1..Cardinality(Speakers) : CF!Cards[i] = CF!Frame("agent_card", CF!SetToSeq(Speakers)[i])
    BY FeedCardinality DEF CF!Cards
  <2>3. \A i \in 1..Cardinality(Speakers) : FrameSound(CF!Cards[i])
    BY <2>2, PlainFrame
  <2>4. CF!Cards = [i \in 1..Cardinality(Speakers) |-> CF!Cards[i]]
    BY FeedCardinality DEF CF!Cards
  <2> QED BY <2>1, <2>3, <2>4, EachFrame
<1>2. FramesSound(IF about \in {"chairs", "phases"} THEN CF!Cards ELSE << >>)
  BY <1>1, NoFrames
<1>3. FramesSound(CF!When(t.telemetry # << >>, CF!Frame("telemetry", t.telemetry)))
  BY PlainFrame, NoFrames DEF CF!When
<1>4. FramesSound([i \in DOMAIN t.tasks |-> CF!Frame("new_task", t.tasks[i])])
  <2> DEFINE fs == [i \in DOMAIN t.tasks |-> CF!Frame("new_task", t.tasks[i])]
  <2>1. DOMAIN t.tasks = 1..Len(t.tasks) /\ Len(t.tasks) \in Nat
    BY DEF TruthSound
  <2>2. \A i \in 1..Len(t.tasks) : FrameSound(fs[i])
    BY <2>1, PlainFrame
  <2>3. fs = [i \in 1..Len(t.tasks) |-> fs[i]]
    BY <2>1
  <2> HIDE DEF fs
  <2>4. FramesSound(fs)
    BY <2>1, <2>2, <2>3, EachFrame
  <2> QED BY <2>4 DEF fs
<1>5. FramesSound(CF!When(t.hardware # 0, CF!Frame("hardware_telemetry", t.hardware)))
  BY HardwareFrame, NoFrames DEF CF!When
<1>6. FramesSound(CF!When(about = "chat", CF!Frame("chat_state", t.chat)))
  BY PlainFrame, NoFrames DEF CF!When
<1>7. FramesSound(CF!When(\E a \in Speakers : t.chairs[a] # "absent", CF!Frame("chair_roster", t.chairs)))
  <2>1. FrameSound(CF!Frame("chair_roster", t.chairs))
    BY DEF FrameSound, CF!Frame, TruthSound
  <2> QED BY <2>1, OneFrame, NoFrames DEF CF!When
<1> DEFINE a == IF about \in {"chairs", "phases"} THEN CF!Cards ELSE << >>
           b == CF!When(t.telemetry # << >>, CF!Frame("telemetry", t.telemetry))
           c == [i \in DOMAIN t.tasks |-> CF!Frame("new_task", t.tasks[i])]
           d == CF!When(t.hardware # 0, CF!Frame("hardware_telemetry", t.hardware))
           e == CF!When(about = "chat", CF!Frame("chat_state", t.chat))
           f == CF!When(\E s \in Speakers : t.chairs[s] # "absent", CF!Frame("chair_roster", t.chairs))
<1>8. CF!Replay(t) = ((((a \o b) \o c) \o d) \o e) \o f
  BY DEF CF!Replay
<1>9. FramesSound(a) /\ FramesSound(b) /\ FramesSound(c) /\ FramesSound(d) /\ FramesSound(e) /\ FramesSound(f)
  BY <1>2, <1>3, <1>4, <1>5, <1>6, <1>7
<1> HIDE DEF a, b, c, d, e, f
<1>10. FramesSound(a \o b)
  BY <1>9, MoreFrames
<1>11. FramesSound((a \o b) \o c)
  BY <1>9, <1>10, MoreFrames
<1>12. FramesSound(((a \o b) \o c) \o d)
  BY <1>9, <1>11, MoreFrames
<1>13. FramesSound((((a \o b) \o c) \o d) \o e)
  BY <1>9, <1>12, MoreFrames
<1>14. FramesSound(((((a \o b) \o c) \o d) \o e) \o f)
  BY <1>9, <1>13, MoreFrames
<1> QED BY <1>8, <1>14

-----------------------------------------------------------------------------
\* The sockets.

LEMMA FeedInit == FeedBounds /\ CF!Init => FeedInv
<1> SUFFICES ASSUME FeedBounds, CF!Init PROVE FeedInv
  OBVIOUS
<1>1. FeedHostSound
  <2>1. truth.tasks = << >> /\ truth.chairs = [a \in Speakers |-> "absent"] /\ truth.chat.enabled = FALSE
        /\ truth.claims = [t \in Things |-> "none"] /\ DOMAIN truth.chat = {"enabled", "mode"}
    BY DEF CF!Init
  <2>2. DOMAIN truth = {"telemetry", "merged", "hardware", "tasks", "chairs", "cycles", "claims", "retries",
                        "receipts", "log", "latest", "chat", "topics", "messages"}
    BY DEF CF!Init
  <2>3. TruthSound(truth)
    <3>1. truth.tasks \in Seq(Nat)
      BY <2>1
    <3>2. truth.chairs \in [Speakers -> CF!Presences] /\ truth.claims \in [Things -> CF!Buckets \cup {"none"}]
      BY <2>1 DEF CF!Presences
    <3> QED BY <2>1, <2>2, <3>1, <3>2 DEF TruthSound
  <2>4. CF!LoopFollowsSwitch
    BY <2>1 DEF CF!Init, CF!LoopFollowsSwitch
  <2>5. about \in NewsKinds /\ news = 0 /\ loop = FALSE /\ feedMode = "active" /\ 0 \in 0..MaxNews
    BY DEF CF!Init, FeedBounds
  <2> QED BY <2>3, <2>4, <2>5 DEF FeedHostSound
<1>2. lines = <<CF!Dialled>> /\ LineSound(CF!Dialled) /\ IsOpen(CF!Dialled)
  BY DEF CF!Init, CF!Dialled, LineSound, IsOpen
<1>3. DOMAIN lines = {1} /\ lines[1] = CF!Dialled
  BY <1>2
<1>4. LinesSound
  <2> DEFINE S == {CF!Dialled}
  <2>1. lines \in Seq(S)
    BY <1>2
  <2> HIDE DEF S
  <2> QED BY <2>1, <1>2, <1>3 DEF LinesSound
<1>5. ShownSound(feedShown) /\ ~feedShown.connected
  BY DEF CF!Init, ShownSound, CF!Presences
<1>6. OpenLines = {1}
  BY <1>2, <1>3 DEF OpenLines
<1>7. OneOpen
  BY <1>5, <1>6 DEF OneOpen, CF!Init
<1> QED BY <1>1, <1>4, <1>5, <1>7 DEF FeedInv, CF!Init

LEMMA FramesHaveLength == ASSUME NEW fs, FramesSound(fs) PROVE Len(fs) \in Nat
BY DEF FramesSound

LEMMA SentSound ==
    ASSUME FeedBounds, NEW l, LineSound(l), NEW fs, FramesSound(fs)
    PROVE  LineSound(CF!Sent(l, fs)) /\ (IsOpen(CF!Sent(l, fs)) <=> IsOpen(l))
<1> DEFINE room == MaxBehind + 1 - Len(l.frames)
<1>1. CASE l.state # "up" \/ fs = << >>
  <2>1. CF!Sent(l, fs) = l
    BY <1>1 DEF CF!Sent
  <2> QED BY <2>1
<1>2. CASE l.state = "up" /\ fs # << >>
  <2>1. FramesSound(l.frames) /\ Len(l.frames) \in Nat /\ Len(fs) \in Nat /\ room \in Int
    BY <1>2, FramesHaveLength DEF LineSound, FeedBounds
  <2> HIDE DEF room
  <2>2. CASE Len(fs) <= room
    <3>1. CF!Sent(l, fs) = [l EXCEPT !.frames = l.frames \o fs]
      BY <1>2, <2>2 DEF CF!Sent, room, LineSound
    <3>2. FramesSound(l.frames \o fs)
      BY <2>1, MoreFrames
    <3> QED BY <1>2, <3>1, <3>2 DEF LineSound, IsOpen
  <2>3. CASE ~(Len(fs) <= room)
    <3>1. CF!Sent(l, fs) = [l EXCEPT !.frames = l.frames \o SubSeq(fs, 1, room), !.whole = FALSE]
      BY <1>2, <2>3 DEF CF!Sent, room, LineSound
    <3>2. FramesSound(SubSeq(fs, 1, room))
      BY <2>1, <2>3, FirstFrames
    <3>3. FramesSound(l.frames \o SubSeq(fs, 1, room))
      BY <2>1, <3>2, MoreFrames
    <3> QED BY <1>2, <3>1, <3>3 DEF LineSound, IsOpen
  <2> QED BY <2>2, <2>3
<1> QED BY <1>1, <1>2

\* What is broadcast opens and closes no socket.
LEMMA BroadcastKeeps ==
    ASSUME FeedBounds, LinesSound, missed \in BOOLEAN, NEW fs, FramesSound(fs), CF!Broadcast(lines, fs)
    PROVE  LinesSound' /\ OpenLines' = OpenLines /\ missed' \in BOOLEAN
<1>1. lines' = [i \in DOMAIN lines |-> CF!Sent(lines[i], fs)] /\ missed' \in BOOLEAN
  BY DEF CF!Broadcast
<1>2. \A i \in DOMAIN lines : LineSound(lines'[i]) /\ (IsOpen(lines'[i]) <=> IsOpen(lines[i]))
  BY <1>1, SentSound DEF LinesSound
<1>3. \E S : lines' \in Seq(S)
  <2>1. DOMAIN lines = 1..Len(lines) /\ Len(lines) \in Nat
    BY DEF LinesSound
  <2> DEFINE S == {lines'[i] : i \in DOMAIN lines}
  <2>2. lines' \in [1..Len(lines) -> S]
    BY <1>1, <2>1
  <2>3. lines' \in Seq(S)
    BY <2>1, <2>2, SeqDef
  <2> HIDE DEF S
  <2> QED BY <2>3
<1>4. DOMAIN lines' = DOMAIN lines
  BY <1>1
<1> QED BY <1>1, <1>2, <1>3, <1>4 DEF LinesSound, OpenLines

\* A step of one socket.
LEMMA LineMoves ==
    ASSUME LinesSound, NEW i \in DOMAIN lines, NEW l, LineSound(l), lines' = [lines EXCEPT ![i] = l]
    PROVE  /\ LinesSound'
           /\ (IsOpen(l) <=> IsOpen(lines[i])) => OpenLines' = OpenLines
           /\ ~IsOpen(l) => OpenLines' = OpenLines \ {i}
<1>1. DOMAIN lines' = DOMAIN lines /\ lines'[i] = l /\ \A j \in DOMAIN lines \ {i} : lines'[j] = lines[j]
  OBVIOUS
<1>2. PICK S : lines \in Seq(S)
  BY DEF LinesSound
<1>3. lines' \in Seq(S \cup {l})
  <2>1. lines \in [1..Len(lines) -> S] /\ Len(lines) \in Nat /\ DOMAIN lines = 1..Len(lines)
    BY <1>2
  <2>2. lines' \in [1..Len(lines) -> S \cup {l}]
    BY <2>1
  <2> QED BY <2>1, <2>2, SeqDef
<1>4. LinesSound'
  BY <1>1, <1>3 DEF LinesSound
<1> QED BY <1>1, <1>4 DEF OpenLines

\* A socket more, that is dialled.
LEMMA LineAdded ==
    ASSUME NEW ls, \E S : ls \in Seq(S), \A i \in DOMAIN ls : LineSound(ls[i]) /\ ~IsOpen(ls[i]),
           lines' = Append(ls, CF!Dialled)
    PROVE  LinesSound' /\ \E i : OpenLines' = {i}
<1>1. PICK S : ls \in Seq(S)
  OBVIOUS
<1>2. LineSound(CF!Dialled) /\ IsOpen(CF!Dialled)
  BY DEF CF!Dialled, LineSound, IsOpen
<1> DEFINE d == CF!Dialled
           T == S \cup {d}
<1>3. ls \in Seq(T)
  <2>1. ls \in [1..Len(ls) -> S] /\ Len(ls) \in Nat
    BY <1>1
  <2>2. ls \in [1..Len(ls) -> T]
    BY <2>1
  <2> QED BY <2>1, <2>2, SeqDef
<1>4. d \in T
  OBVIOUS
<1> HIDE DEF d, T
<1>5. lines' = Append(ls, d)
  BY DEF d
<1>6. /\ lines' \in Seq(T) /\ Len(ls) \in Nat /\ DOMAIN ls = 1..Len(ls)
      /\ DOMAIN lines' = 1..(Len(ls) + 1)
      /\ lines'[Len(ls) + 1] = d /\ \A i \in 1..Len(ls) : lines'[i] = ls[i]
  BY <1>3, <1>4, <1>5, AppendProperties
<1>7. \A i \in DOMAIN lines' : i = Len(ls) + 1 \/ i \in DOMAIN ls
  BY <1>6
<1>8. LinesSound'
  BY <1>2, <1>6, <1>7 DEF LinesSound, d
<1>9. OpenLines' = {Len(ls) + 1}
  BY <1>2, <1>6, <1>7 DEF OpenLines, d
<1> QED BY <1>8, <1>9

LEMMA OpenStays ==
    ASSUME OneOpen, OpenLines' = OpenLines, redial' = redial, feedShown'.connected => feedShown.connected \/ OpenLines # {}
    PROVE  OneOpen'
BY DEF OneOpen

-----------------------------------------------------------------------------
\* The steps of the host.

\* What the host tells, and what it then knows; the page is not touched.
LEMMA HostTells ==
    ASSUME FeedBounds, FeedInv, FeedHostSound', NEW fs, FramesSound(fs), CF!Broadcast(lines, fs), UNCHANGED CF!page
    PROVE  FeedInv'
<1>1. redial' = redial /\ feedShown' = feedShown
  BY DEF CF!page
<1>2. LinesSound' /\ OpenLines' = OpenLines /\ missed' \in BOOLEAN
  BY BroadcastKeeps DEF FeedInv
<1>3. OneOpen'
  BY <1>1, <1>2, OpenStays DEF FeedInv
<1> QED BY <1>1, <1>2, <1>3 DEF FeedInv

LEMMA EventKeeps == ASSUME FeedBounds, FeedInv, CF!Event PROVE FeedInv'
<1>1. FeedHostSound
  BY DEF FeedInv
<1>2. PICK o \in CF!NewsOf(about) : truth' = o.truth /\ CF!Broadcast(lines, o.frames)
  BY DEF CF!Event
<1>3. TruthSound(truth') /\ truth'.chat = truth.chat /\ FramesSound(o.frames)
  BY <1>1, <1>2, NewsSound DEF ToldSound
<1>4. news < MaxNews /\ news' = news + 1 /\ UNCHANGED <<about, loop, feedMode>> /\ UNCHANGED CF!page
  BY DEF CF!Event, CF!Stamp
<1>5. FeedHostSound'
  <2>1. news' \in 0..MaxNews
    BY <1>1, <1>4 DEF FeedHostSound, FeedBounds
  <2>2. CF!LoopFollowsSwitch'
    BY <1>1, <1>3, <1>4 DEF FeedHostSound, CF!LoopFollowsSwitch
  <2> QED BY <1>1, <1>3, <1>4, <2>1, <2>2 DEF FeedHostSound
<1> QED BY <1>2, <1>3, <1>4, <1>5, HostTells

\* The switch of the chat is set, or what it is about.
LEMMA ChatIsSet ==
    ASSUME TruthSound(truth), NEW on \in BOOLEAN, NEW c, DOMAIN c = {"enabled", "mode"}, c.enabled = on,
           NEW t, t = [truth EXCEPT !.chat = c]
    PROVE  TruthSound(t) /\ t.chat.enabled = on
BY DEF TruthSound

LEMMA ToggleKeeps == ASSUME FeedBounds, FeedInv, NEW on \in BOOLEAN, CF!ToggleChat(on) PROVE FeedInv'
<1>1. FeedHostSound /\ TruthSound(truth)
  BY DEF FeedInv, FeedHostSound
<1> DEFINE t == [truth EXCEPT !.chat.enabled = on]
           said == IF on /\ ~loop THEN CF!Banter(t) ELSE CF!Told(t, << >>)
           fs == said.frames \o <<CF!Frame("chat_state", t.chat)>>
<1>2. /\ truth' = said.truth /\ CF!Broadcast(lines, fs) /\ loop' = on
      /\ news < MaxNews /\ news' = news + 1 /\ UNCHANGED <<about, feedMode>> /\ feedMode = "active"
      /\ UNCHANGED CF!page
  BY DEF CF!ToggleChat, CF!Stamp
<1>3. TruthSound(t) /\ t.chat.enabled = on
  <2> DEFINE c == [truth.chat EXCEPT !.enabled = on]
  <2>1. DOMAIN c = {"enabled", "mode"} /\ c.enabled = on
    BY <1>1 DEF TruthSound
  <2>2. t = [truth EXCEPT !.chat = c]
    BY <1>1 DEF TruthSound
  <2> HIDE DEF t, c
  <2> QED BY <1>1, <2>1, <2>2, ChatIsSet
<1> HIDE DEF t
<1>4. TruthLike(said.truth, t) /\ FramesSound(said.frames)
  <2>1. CASE on /\ ~loop
    BY <2>1, <1>3, BanterSound
  <2>2. CASE ~(on /\ ~loop)
    <3>1. said.truth = t /\ said.frames = << >>
      BY <2>2 DEF CF!Told
    <3> QED BY <3>1, NoFrames DEF TruthLike
  <2> QED BY <2>1, <2>2
<1> HIDE DEF said
<1>5. FramesSound(fs)
  BY <1>4, PlainFrame, MoreFrames
<1>6. TruthSound(truth') /\ truth'.chat.enabled = on
  BY <1>2, <1>3, <1>4, LikeIsSound DEF TruthLike
<1>7. FeedHostSound'
  <2>1. news' \in 0..MaxNews
    BY <1>1, <1>2 DEF FeedHostSound, FeedBounds
  <2>2. CF!LoopFollowsSwitch'
    BY <1>2, <1>6 DEF CF!LoopFollowsSwitch
  <2> QED BY <1>1, <1>2, <1>6, <2>1, <2>2 DEF FeedHostSound
<1> HIDE DEF fs
<1> QED BY <1>2, <1>5, <1>7, HostTells

LEMMA ChatModeKeeps == ASSUME FeedBounds, FeedInv, NEW m, CF!SetChatMode(m) PROVE FeedInv'
<1>1. FeedHostSound /\ TruthSound(truth)
  BY DEF FeedInv, FeedHostSound
<1> DEFINE t == [truth EXCEPT !.chat.mode = m]
           said == IF t.chat.enabled THEN CF!Banter(t) ELSE CF!Told(t, << >>)
           fs == <<CF!Frame("chat_state", t.chat)>> \o said.frames
<1>2. /\ truth' = said.truth /\ CF!Broadcast(lines, fs)
      /\ news < MaxNews /\ news' = news + 1 /\ UNCHANGED <<about, loop, feedMode>>
      /\ UNCHANGED CF!page
  BY DEF CF!SetChatMode, CF!Stamp
<1>3. TruthSound(t) /\ t.chat.enabled = truth.chat.enabled
  <2> DEFINE c == [truth.chat EXCEPT !.mode = m]
  <2>1. DOMAIN c = {"enabled", "mode"} /\ c.enabled = truth.chat.enabled /\ truth.chat.enabled \in BOOLEAN
    BY <1>1 DEF TruthSound
  <2>2. t = [truth EXCEPT !.chat = c]
    BY <1>1 DEF TruthSound
  <2> HIDE DEF t, c
  <2> QED BY <1>1, <2>1, <2>2, ChatIsSet
<1> HIDE DEF t
<1>4. TruthLike(said.truth, t) /\ FramesSound(said.frames)
  <2>1. CASE t.chat.enabled
    BY <2>1, <1>3, BanterSound
  <2>2. CASE ~t.chat.enabled
    <3>1. said.truth = t /\ said.frames = << >>
      BY <2>2 DEF CF!Told
    <3> QED BY <3>1, NoFrames DEF TruthLike
  <2> QED BY <2>1, <2>2
<1> HIDE DEF said
<1>5. FramesSound(fs)
  BY <1>4, PlainFrame, MoreFrames
<1>6. TruthSound(truth') /\ truth'.chat.enabled = truth.chat.enabled
  BY <1>2, <1>3, <1>4, LikeIsSound DEF TruthLike
<1>7. FeedHostSound'
  <2>1. news' \in 0..MaxNews
    BY <1>1, <1>2 DEF FeedHostSound, FeedBounds
  <2>2. CF!LoopFollowsSwitch'
    BY <1>1, <1>2, <1>6 DEF FeedHostSound, CF!LoopFollowsSwitch
  <2> QED BY <1>1, <1>2, <1>6, <2>1, <2>2 DEF FeedHostSound
<1> HIDE DEF fs
<1> QED BY <1>2, <1>5, <1>7, HostTells

LEMMA ActivityKeeps == ASSUME FeedBounds, FeedInv, CF!NoteActivity PROVE FeedInv'
<1>1. FeedHostSound /\ TruthSound(truth)
  BY DEF FeedInv, FeedHostSound
<1>2. /\ truth' = CF!Woken.truth /\ CF!Broadcast(lines, CF!Woken.frames)
      /\ loop' = truth.chat.enabled /\ feedMode' = "active"
      /\ UNCHANGED <<about, news>> /\ UNCHANGED CF!page
  BY DEF CF!NoteActivity
<1>3. TruthSound(truth') /\ truth'.chat = truth.chat /\ FramesSound(CF!Woken.frames)
  BY <1>1, <1>2, WokenSound
<1>4. FeedHostSound'
  <2>1. CF!LoopFollowsSwitch' /\ loop' \in BOOLEAN
    BY <1>1, <1>2, <1>3 DEF CF!LoopFollowsSwitch, TruthSound
  <2> QED BY <1>1, <1>2, <1>3, <2>1 DEF FeedHostSound
<1> QED BY <1>2, <1>3, <1>4, HostTells

LEMMA FeedIdles == ASSUME FeedBounds, FeedInv, CF!EnterIdle PROVE FeedInv'
<1>1. FeedHostSound /\ TruthSound(truth)
  BY DEF FeedInv, FeedHostSound
<1> DEFINE list == CF!LastOf(truth.tasks, IdleTasks)
<1>2. /\ truth' = [truth EXCEPT !.telemetry = << >>, !.tasks = list, !.hardware = 0]
      /\ loop' = FALSE /\ feedMode' = "idle" /\ UNCHANGED <<about, news, lines, CF!page, missed>>
  BY DEF CF!EnterIdle
<1>3. list \in Seq(Nat)
  BY <1>1, LastOfIsList DEF TruthSound, FeedBounds
<1> HIDE DEF list
<1>4. TruthSound(truth')
  <2>1. DOMAIN truth' = DOMAIN truth /\ truth'.tasks = list /\ truth'.chairs = truth.chairs
        /\ truth'.claims = truth.claims /\ truth'.chat = truth.chat
    BY <1>1, <1>2 DEF TruthSound
  <2> QED BY <1>1, <1>3, <2>1 DEF TruthSound
<1>5. FeedHostSound'
  BY <1>1, <1>2, <1>4 DEF FeedHostSound, CF!LoopFollowsSwitch
<1>6. UNCHANGED <<lines, redial, feedShown, missed>>
  BY <1>2 DEF CF!page
<1>7. LinesSound' /\ OneOpen'
  BY <1>6 DEF FeedInv, LinesSound, OneOpen, OpenLines
<1> QED BY <1>5, <1>6, <1>7 DEF FeedInv

-----------------------------------------------------------------------------
\* The steps of the sockets and of the page.

\* What leaves the host alone.
LEMMA HostStays ==
    ASSUME FeedHostSound, UNCHANGED <<about, CF!server>> PROVE FeedHostSound'
<1>1. UNCHANGED <<about, news, truth, loop, feedMode>>
  BY DEF CF!server
<1> QED BY <1>1 DEF FeedHostSound, CF!LoopFollowsSwitch

LEMMA AcceptKeeps ==
    ASSUME FeedBounds, FeedInv, NEW i \in DOMAIN lines, CF!Accept(i) PROVE FeedInv'
<1>1. FeedHostSound /\ TruthSound(truth) /\ LinesSound /\ LineSound(lines[i])
  BY DEF FeedInv, FeedHostSound, LinesSound
<1> DEFINE fs == (<<CF!Open>> \o CF!Woken.frames) \o CF!Replay(CF!Woken.truth)
           l == [[lines[i] EXCEPT !.state = "up"] EXCEPT !.frames = fs]
<1>2. /\ lines[i].state = "dialing" /\ truth' = CF!Woken.truth
      /\ lines' = [lines EXCEPT ![i].state = "up", ![i].frames = fs]
      /\ feedMode' = "active" /\ loop' = (loop \/ (feedMode = "idle" /\ truth.chat.enabled))
      /\ UNCHANGED <<about, news, CF!page, missed>>
  BY DEF CF!Accept
<1>3. TruthSound(truth') /\ truth'.chat = truth.chat /\ FramesSound(CF!Woken.frames)
      /\ TruthSound(CF!Woken.truth)
  BY <1>1, <1>2, WokenSound
<1>4. FramesSound(fs)
  <2>1. FramesSound(<<CF!Open>>)
    BY PlainFrame DEF CF!Open
  <2>2. FramesSound(<<CF!Open>> \o CF!Woken.frames)
    BY <2>1, <1>3, MoreFrames
  <2>3. FramesSound(CF!Replay(CF!Woken.truth))
    BY <1>3, ReplaySound
  <2> QED BY <2>2, <2>3, MoreFrames
<1> HIDE DEF fs
<1>5. lines' = [lines EXCEPT ![i] = l]
  BY <1>1, <1>2 DEF LineSound
<1>6. LineSound(l) /\ (IsOpen(l) <=> IsOpen(lines[i]))
  BY <1>1, <1>2, <1>4 DEF LineSound, IsOpen
<1> HIDE DEF l
<1>7. LinesSound' /\ OpenLines' = OpenLines
  BY <1>1, <1>5, <1>6, LineMoves
<1>8. FeedHostSound'
  <2>1. CF!LoopFollowsSwitch' /\ loop' \in BOOLEAN
    BY <1>1, <1>2, <1>3 DEF FeedHostSound, CF!LoopFollowsSwitch, TruthSound
  <2> QED BY <1>1, <1>2, <1>3, <2>1 DEF FeedHostSound
<1>9. redial' = redial /\ feedShown' = feedShown /\ missed' = missed
  BY <1>2 DEF CF!page
<1> QED BY <1>7, <1>8, <1>9, OpenStays DEF FeedInv

LEMMA TwoFrames == \A a, b : <<a>> \o <<b>> = <<a, b>>
<1> TAKE a, b
<1> DEFINE S == {a, b}
           s == <<a>>
           t == <<b>>
           r == <<a, b>>
<1>1. s \in Seq(S) /\ t \in Seq(S) /\ r \in Seq(S) /\ Len(s) = 1 /\ Len(t) = 1 /\ Len(r) = 2
      /\ s[1] = a /\ t[1] = b /\ r[1] = a /\ r[2] = b
  OBVIOUS
<1> HIDE DEF s, t, r, S
<1>2. s \o t \in Seq(S) /\ Len(s \o t) = 2 /\ (s \o t)[1] = a /\ (s \o t)[2] = b
  BY <1>1, ConcatProperties
<1>3. s \o t = r
  BY <1>1, <1>2, SeqEqual
<1> QED BY <1>3 DEF s, t, r

LEMMA RefuseKeeps ==
    ASSUME FeedInv, NEW i \in DOMAIN lines, CF!Refuse(i) PROVE FeedInv'
<1>1. FeedHostSound /\ LinesSound /\ LineSound(lines[i])
  BY DEF FeedInv, LinesSound
<1>2. PICK fs \in {<<CF!Open, CF!Close>>, <<CF!Close>>} :
        lines' = [lines EXCEPT ![i].state = "down", ![i].frames = fs]
  BY DEF CF!Refuse
<1> DEFINE l == [[lines[i] EXCEPT !.state = "down"] EXCEPT !.frames = fs]
<1>3. lines[i].state = "dialing" /\ UNCHANGED <<about, CF!server, CF!page, missed>>
  BY DEF CF!Refuse
<1>4. Closing(fs) /\ fs # << >>
  <2>1. FramesSound(<<CF!Open>>) /\ FramesSound(<< >>)
    BY PlainFrame, NoFrames DEF CF!Open
  <2>2. \A a, b : <<a, b>> = <<a>> \o <<b>> /\ <<a, b>> # << >>
    BY TwoFrames
  <2>3. \A b : <<b>> = << >> \o <<b>> /\ <<b>> # << >>
    OBVIOUS
  <2> QED BY <2>1, <2>2, <2>3 DEF Closing
<1>5. lines' = [lines EXCEPT ![i] = l]
  BY <1>1, <1>2 DEF LineSound
<1>6. LineSound(l) /\ (IsOpen(l) <=> IsOpen(lines[i]))
  BY <1>1, <1>3, <1>4 DEF LineSound, IsOpen
<1> HIDE DEF l
<1>7. LinesSound' /\ OpenLines' = OpenLines
  BY <1>1, <1>5, <1>6, LineMoves
<1>8. redial' = redial /\ feedShown' = feedShown /\ missed' = missed
  BY <1>3 DEF CF!page
<1> QED BY <1>1, <1>3, <1>7, <1>8, OpenStays, HostStays DEF FeedInv

LEMMA LoseKeeps ==
    ASSUME FeedInv, NEW i \in DOMAIN lines, CF!Lose(i) PROVE FeedInv'
<1>1. FeedHostSound /\ LinesSound /\ LineSound(lines[i])
  BY DEF FeedInv, LinesSound
<1>2. lines[i].state = "up" /\ UNCHANGED <<about, CF!server, CF!page>>
  BY DEF CF!Lose
<1>3. FramesSound(lines[i].frames) /\ Len(lines[i].frames) \in Nat
  BY <1>1, <1>2, FramesHaveLength DEF LineSound
<1>4. PICK n \in 0..Len(lines[i].frames) :
        /\ lines' = [lines EXCEPT ![i].state = "down", ![i].frames = SubSeq(@, 1, n) \o <<CF!Close>>]
        /\ missed' = (missed \/ n < Len(lines[i].frames))
  BY DEF CF!Lose
<1> DEFINE s == SubSeq(lines[i].frames, 1, n)
           fs == s \o <<CF!Close>>
           l == [[lines[i] EXCEPT !.state = "down"] EXCEPT !.frames = fs]
<1>5. FramesSound(s)
  BY <1>3, FirstFrames
<1>6. lines' = [lines EXCEPT ![i] = l]
  BY <1>1, <1>4 DEF LineSound
<1> HIDE DEF s
<1>7. Closing(fs) /\ fs # << >>
  <2>1. Closing(fs)
    BY <1>5 DEF Closing
  <2>2. PICK S : s \in Seq(S)
    BY <1>5 DEF FramesSound
  <2> DEFINE T == S \cup {CF!Close}
             c == CF!Close
  <2>3. s \in Seq(T) /\ c \in T
    <3>1. s \in [1..Len(s) -> S] /\ Len(s) \in Nat
      BY <2>2
    <3>2. s \in [1..Len(s) -> T]
      BY <3>1
    <3> QED BY <3>1, <3>2, SeqDef
  <2> HIDE DEF T, c
  <2>4. Len(s \o <<c>>) = Len(s) + 1 /\ Len(s) \in Nat
    BY <2>3
  <2>5. s \o <<c>> # << >>
    BY <2>4
  <2> QED BY <2>1, <2>5 DEF c
<1> HIDE DEF fs
<1>8. LineSound(l) /\ (IsOpen(l) <=> IsOpen(lines[i]))
  BY <1>1, <1>2, <1>7 DEF LineSound, IsOpen
<1> HIDE DEF l
<1>9. LinesSound' /\ OpenLines' = OpenLines
  BY <1>1, <1>6, <1>8, LineMoves
<1>10. redial' = redial /\ feedShown' = feedShown /\ missed' \in BOOLEAN
  BY <1>2, <1>4 DEF CF!page, FeedInv
<1> QED BY <1>1, <1>2, <1>9, <1>10, OpenStays, HostStays DEF FeedInv

LEMMA RedialKeeps == ASSUME FeedInv, CF!Redial PROVE FeedInv'
<1>1. redial /\ redial' = FALSE /\ lines' = Append(lines, CF!Dialled) /\ UNCHANGED <<about, CF!server, feedShown, missed>>
  BY DEF CF!Redial
<1>2. OpenLines = {}
  BY <1>1 DEF FeedInv, OneOpen
<1>3. (\E S : lines \in Seq(S)) /\ \A i \in DOMAIN lines : LineSound(lines[i]) /\ ~IsOpen(lines[i])
  BY <1>2 DEF FeedInv, LinesSound, OpenLines
<1>4. LinesSound' /\ \E i : OpenLines' = {i}
  BY <1>1, <1>3, LineAdded
<1>5. OneOpen'
  BY <1>1, <1>4 DEF OneOpen
<1> QED BY <1>1, <1>4, <1>5, HostStays DEF FeedInv

LEMMA RemountKeeps == ASSUME FeedInv, CF!Remount PROVE FeedInv'
<1> DEFINE ls == [i \in DOMAIN lines |->
                    IF lines[i].state = "down" /\ lines[i].frames = << >> THEN [lines[i] EXCEPT !.mine = FALSE]
                    ELSE [lines[i] EXCEPT !.state = "down", !.mine = FALSE, !.frames = <<CF!Close>>]]
<1>1. /\ lines' = Append(ls, CF!Dialled) /\ redial' = FALSE
      /\ UNCHANGED <<about, CF!server, feedShown>> /\ missed' \in BOOLEAN
  BY DEF CF!Remount, CF!ClearTimeout
<1>2. Closing(<<CF!Close>>)
  <2>1. <<CF!Close>> = << >> \o <<CF!Close>>
    OBVIOUS
  <2> QED BY <2>1, NoFrames DEF Closing
<1>3. ASSUME NEW i \in DOMAIN lines PROVE LineSound(ls[i]) /\ ~IsOpen(ls[i])
  <2>1. LineSound(lines[i])
    BY DEF FeedInv, LinesSound
  <2>2. CASE lines[i].state = "down" /\ lines[i].frames = << >>
    <3>1. ls[i] = [lines[i] EXCEPT !.mine = FALSE]
      BY <2>2
    <3> QED BY <2>1, <3>1 DEF LineSound, IsOpen
  <2>3. CASE ~(lines[i].state = "down" /\ lines[i].frames = << >>)
    <3>1. ls[i] = [lines[i] EXCEPT !.state = "down", !.mine = FALSE, !.frames = <<CF!Close>>]
      BY <2>3
    <3> QED BY <1>2, <2>1, <3>1 DEF LineSound, IsOpen
  <2> QED BY <2>2, <2>3
<1>4. \E S : ls \in Seq(S)
  <2>1. DOMAIN lines = 1..Len(lines) /\ Len(lines) \in Nat
    BY DEF FeedInv, LinesSound
  <2> DEFINE S == {ls[i] : i \in DOMAIN lines}
  <2>2. ls \in [1..Len(lines) -> S]
    BY <2>1
  <2> HIDE DEF S, ls
  <2>3. ls \in Seq(S)
    BY <2>1, <2>2, SeqDef
  <2> QED BY <2>3
<1>5. DOMAIN ls = DOMAIN lines
  OBVIOUS
<1> HIDE DEF ls
<1>6. LinesSound' /\ \E i : OpenLines' = {i}
  BY <1>1, <1>3, <1>4, <1>5, LineAdded
<1>7. OneOpen'
  BY <1>1, <1>6 DEF OneOpen
<1> QED BY <1>1, <1>6, <1>7, HostStays DEF FeedInv

LEMMA ValveKeeps == ASSUME FeedInv, CF!Flush PROVE FeedInv'
<1>1. feedShown' = CF!Flushed(feedShown, buffer) /\ UNCHANGED <<about, CF!server, lines, redial, missed>>
  BY DEF CF!Flush
<1>2. ShownSound(feedShown') /\ feedShown'.connected = feedShown.connected
  BY <1>1, FlushedSound DEF FeedInv
<1>3. LinesSound' /\ OneOpen'
  BY <1>1, <1>2 DEF FeedInv, LinesSound, OneOpen, OpenLines
<1> QED BY <1>1, <1>2, <1>3, HostStays DEF FeedInv

\* A frame is received: a close ends the socket, which is dialled again if it is
\* the one of the page; the store takes what its own socket brings.
LEMMA ReceiveKeeps ==
    ASSUME FeedInv, NEW i \in DOMAIN lines, CF!Receive(i) PROVE FeedInv'
<1> DEFINE f == Head(lines[i].frames)
           mine == lines[i].mine
           l == [lines[i] EXCEPT !.frames = Tail(lines[i].frames)]
<1>1. FeedHostSound /\ LinesSound /\ LineSound(lines[i]) /\ ShownSound(feedShown) /\ OneOpen /\ redial \in BOOLEAN
  BY DEF FeedInv, LinesSound
<1>2. /\ lines[i].frames # << >>
      /\ lines' = [lines EXCEPT ![i].frames = Tail(@)]
      /\ redial' = (redial \/ (f.type = "close" /\ mine))
      /\ feedShown' = IF f.type = "close" THEN [feedShown EXCEPT !.connected = FALSE]
                      ELSE IF ~mine THEN feedShown
                      ELSE IF f.type = "open" THEN [feedShown EXCEPT !.connected = TRUE]
                      ELSE CF!Apply(feedShown, f)
      /\ UNCHANGED <<about, CF!server, missed>>
  BY DEF CF!Receive
<1>3. FeedHostSound' /\ missed' \in BOOLEAN /\ redial' \in BOOLEAN
  <2>1. missed \in BOOLEAN
    BY DEF FeedInv
  <2> QED BY <1>1, <1>2, <2>1, HostStays DEF LineSound
<1>4. lines' = [lines EXCEPT ![i] = l]
  BY <1>2
<1>5. lines[i].state \in {"up", "down"}
  BY <1>1, <1>2 DEF LineSound
<1>6. \/ f = CF!Close /\ Tail(lines[i].frames) = << >> /\ lines[i].state = "down"
      \/ FrameSound(f) /\ LineSound(l) /\ (IsOpen(l) <=> IsOpen(lines[i]))
  <2>1. CASE lines[i].state = "up"
    <3>1. FrameSound(f) /\ FramesSound(Tail(lines[i].frames))
      BY <1>1, <1>2, <2>1, NextFrame DEF LineSound
    <3> QED BY <1>1, <2>1, <3>1 DEF LineSound, IsOpen
  <2>2. CASE lines[i].state = "down"
    <3>1. \/ f = CF!Close /\ Tail(lines[i].frames) = << >>
          \/ FrameSound(f) /\ Closing(Tail(lines[i].frames)) /\ Tail(lines[i].frames) # << >>
      BY <1>1, <1>2, <2>2, NextOfClosing DEF LineSound
    <3> QED BY <1>1, <1>2, <2>2, <3>1 DEF LineSound, IsOpen
  <2> QED BY <1>5, <2>1, <2>2
<1>7. mine \in BOOLEAN /\ (IsOpen(lines[i]) <=> mine)
  BY <1>1, <1>2 DEF LineSound, IsOpen
<1>8. CASE f = CF!Close /\ Tail(lines[i].frames) = << >> /\ lines[i].state = "down"
  <2>1. f.type = "close"
    BY <1>8 DEF CF!Close, CF!Frame
  <2>2. feedShown' = [feedShown EXCEPT !.connected = FALSE] /\ redial' = (redial \/ mine)
    BY <1>2, <2>1
  <2>3. ShownSound(feedShown') /\ ~feedShown'.connected
    BY <1>1, <2>2 DEF ShownSound
  <2>4. LineSound(l) /\ ~IsOpen(l)
    <3>1. DOMAIN l = DOMAIN lines[i] /\ l.frames = << >> /\ l.state = "down" /\ l.mine = mine
      BY <1>1, <1>8 DEF LineSound
    <3> HIDE DEF l
    <3> QED BY <1>1, <3>1 DEF LineSound, IsOpen, Closing
  <2> HIDE DEF l
  <2>5. LinesSound' /\ OpenLines' = OpenLines \ {i}
    BY <1>1, <1>4, <2>4, LineMoves
  <2>6. OneOpen'
    <3>1. CASE mine
      <4>1. i \in OpenLines
        BY <1>7, <3>1 DEF OpenLines
      <4>2. OpenLines' = {}
        BY <1>1, <2>5, <4>1 DEF OneOpen
      <4> QED BY <2>2, <2>3, <3>1, <4>2 DEF OneOpen
    <3>2. CASE ~mine
      <4>1. i \notin OpenLines
        BY <1>7, <3>2 DEF OpenLines
      <4>2. OpenLines' = OpenLines /\ redial' = redial
        BY <1>1, <1>7, <2>2, <2>5, <3>2, <4>1
      <4> QED BY <1>1, <2>3, <4>2 DEF OneOpen
    <3> QED BY <3>1, <3>2
  <2> QED BY <1>3, <2>3, <2>5, <2>6 DEF FeedInv
<1>9. CASE FrameSound(f) /\ LineSound(l) /\ (IsOpen(l) <=> IsOpen(lines[i]))
  <2>1. f.type # "close"
    BY <1>9 DEF FrameSound
  <2>2. LinesSound' /\ OpenLines' = OpenLines
    BY <1>1, <1>4, <1>9, LineMoves
  <2>3. redial' = redial
    BY <1>1, <1>2, <2>1
  <2>4. ShownSound(feedShown') /\ (feedShown'.connected => feedShown.connected \/ mine)
    <3>1. CASE ~mine
      <4>1. feedShown' = feedShown
        BY <1>2, <2>1, <3>1
      <4> QED BY <1>1, <4>1
    <3>2. CASE mine /\ f.type = "open"
      <4>1. feedShown' = [feedShown EXCEPT !.connected = TRUE]
        BY <1>2, <2>1, <3>2
      <4> QED BY <1>1, <3>2, <4>1 DEF ShownSound
    <3>3. CASE mine /\ f.type # "open"
      <4>1. feedShown' = CF!Apply(feedShown, f)
        BY <1>2, <2>1, <3>3
      <4> QED BY <1>1, <1>9, <3>3, <4>1, AppliedSound
    <3> QED BY <1>7, <3>1, <3>2, <3>3
  <2>5. mine => OpenLines # {}
    BY <1>7 DEF OpenLines
  <2>6. OneOpen'
    BY <1>1, <2>2, <2>3, <2>4, <2>5, OpenStays
  <2> QED BY <1>3, <2>2, <2>4, <2>6 DEF FeedInv
<1> QED BY <1>6, <1>8, <1>9

LEMMA FeedStutters == ASSUME FeedInv, UNCHANGED CF!vars PROVE FeedInv'
<1>1. UNCHANGED <<about, CF!server, lines, redial, feedShown, buffer, missed>>
  BY DEF CF!vars, CF!page
<1>2. LinesSound' /\ OneOpen' /\ ShownSound(feedShown')
  BY <1>1 DEF FeedInv, LinesSound, OneOpen, OpenLines
<1> QED BY <1>1, <1>2, HostStays DEF FeedInv

\* Every step of the host, of the sockets and of the page.
LEMMA FeedStep == FeedBounds /\ FeedInv /\ [CF!Next]_CF!vars => FeedInv'
<1> SUFFICES ASSUME FeedBounds, FeedInv, [CF!Next]_CF!vars PROVE FeedInv'
  OBVIOUS
<1>1. CASE CF!Event
  BY <1>1, EventKeeps
<1>2. CASE \E on \in BOOLEAN : CF!ToggleChat(on)
  BY <1>2, ToggleKeeps
<1>3. CASE \E m \in {"technical", "interests"} : CF!SetChatMode(m)
  BY <1>3, ChatModeKeeps
<1>4. CASE CF!NoteActivity
  BY <1>4, ActivityKeeps
<1>5. CASE CF!EnterIdle
  BY <1>5, FeedIdles
<1>6. CASE CF!Redial
  BY <1>6, RedialKeeps
<1>7. CASE CF!Flush
  BY <1>7, ValveKeeps
<1>8. CASE CF!Remount
  BY <1>8, RemountKeeps
<1>9. CASE \E i \in DOMAIN lines : CF!Accept(i) \/ CF!Refuse(i) \/ CF!Lose(i) \/ CF!Receive(i)
  <2>1. PICK i \in DOMAIN lines : CF!Accept(i) \/ CF!Refuse(i) \/ CF!Lose(i) \/ CF!Receive(i)
    BY <1>9
  <2>2. CASE CF!Accept(i)
    BY <2>2, AcceptKeeps
  <2>3. CASE CF!Refuse(i)
    BY <2>3, RefuseKeeps
  <2>4. CASE CF!Lose(i)
    BY <2>4, LoseKeeps
  <2>5. CASE CF!Receive(i)
    BY <2>5, ReceiveKeeps
  <2> QED BY <2>1, <2>2, <2>3, <2>4, <2>5
<1>10. CASE UNCHANGED CF!vars
  BY <1>10, FeedStutters
<1> QED BY <1>1, <1>2, <1>3, <1>4, <1>5, <1>6, <1>7, <1>8, <1>9, <1>10 DEF CF!Next

\* What the cockpit has of the host is of its type, the page has one socket or
\* one timer to dial it, and the chat loop follows the switch.
LEMMA FeedTrue ==
    FeedBounds /\ FeedInv => CF!TypeOK /\ CF!OneLine /\ CF!LoopFollowsSwitch
<1> SUFFICES ASSUME FeedBounds, FeedInv PROVE CF!TypeOK /\ CF!OneLine /\ CF!LoopFollowsSwitch
  OBVIOUS
<1>1. CF!TypeOK
  BY DEF FeedInv, FeedHostSound, LinesSound, LineSound, ShownSound, CF!TypeOK
<1>2. CF!LoopFollowsSwitch
  BY DEF FeedInv, FeedHostSound
<1>3. Cardinality(OpenLines) + (IF redial THEN 1 ELSE 0) = 1
  <2>1. CASE redial
    <3>1. OpenLines = {}
      BY <2>1 DEF FeedInv, OneOpen
    <3> QED BY <2>1, <3>1, FS_EmptySet
  <2>2. CASE ~redial
    <3>1. PICK i : OpenLines = {i}
      BY <2>2 DEF FeedInv, OneOpen
    <3>2. Cardinality({i}) = 1
      BY FS_Singleton
    <3> QED BY <2>2, <3>1, <3>2
  <2> QED BY <2>1, <2>2
<1>4. CF!OneLine
  <2>1. OpenLines = {i \in DOMAIN lines : lines[i].mine /\ (lines[i].state # "down" \/ lines[i].frames # << >>)}
    BY DEF OpenLines, IsOpen
  <2>2. feedShown.connected => OpenLines # {}
    BY DEF FeedInv, OneOpen
  <2> QED BY <1>3, <2>1, <2>2, FeedCardinality DEF CF!OneLine
<1> QED BY <1>1, <1>2, <1>4

-----------------------------------------------------------------------------
\* What the store comes to when the buffer is emptied and the frames that are on
\* their way are applied.

\* The parts that only a frame for the store itself changes.
Told == {"tasks", "cards", "chairs", "status", "claims", "retries", "receipts", "log", "latest", "chat",
         "topics", "messages", "runs"}
Parts == Told \cup {"connected", "telemetry", "hardware"}
IsStore(v) == v = [p \in Parts |-> v[p]]

\* The store with what is buffered, and whatever it says of the connection.
Seen(s, b) == [CF!Flushed(s, b) EXCEPT !.connected = FALSE]

\* What a frame makes of it.
Shows(v, f) ==
    IF f.type = "telemetry" THEN [v EXCEPT !.telemetry = CF!Merge(@, f.data)]
    ELSE IF f.type = "hardware_telemetry" THEN [v EXCEPT !.hardware = f.data]
    ELSE CF!Apply(v, f)

IsBuffer(b) == b = [telemetry |-> b.telemetry, hardware |-> b.hardware]

Alike(s, v) == IsStore(s) /\ IsStore(v) /\ \A p \in Told : s[p] = v[p]

LEMMA PartsAre ==
    /\ Told \subseteq Parts
    /\ {"connected", "telemetry", "hardware"} \subseteq Parts
    /\ {"connected", "telemetry", "hardware"} \cap Told = {}
    /\ \A p \in Parts : p \in Told \/ p = "connected" \/ p = "telemetry" \/ p = "hardware"
BY DEF Parts, Told

\* The store with one part or two of it set anew.
LEMMA PartSet ==
    ASSUME NEW s, IsStore(s), NEW p \in Told, NEW x
    PROVE  /\ IsStore([s EXCEPT ![p] = x])
           /\ [s EXCEPT ![p] = x][p] = x
           /\ \A q \in Parts \ {p} : [s EXCEPT ![p] = x][q] = s[q]
BY PartsAre DEF IsStore

LEMMA AlikeSet ==
    ASSUME NEW s, NEW v, Alike(s, v), NEW p \in Told, NEW x
    PROVE  Alike([s EXCEPT ![p] = x], [v EXCEPT ![p] = x])
BY PartsAre DEF Alike, IsStore

\* What is set of the store leaves the connection and the buffered parts alone.
Leaves(r, s) ==
    IsStore(r) /\ r.connected = s.connected /\ r.telemetry = s.telemetry /\ r.hardware = s.hardware

LEMMA LeavesSet ==
    ASSUME NEW s, NEW r, Leaves(r, s), NEW p \in Told, NEW x
    PROVE  Leaves([r EXCEPT ![p] = x], s)
<1>1. p \notin {"connected", "telemetry", "hardware"} /\ p \in Parts
  BY PartsAre
<1>2. DOMAIN r = Parts /\ {"connected", "telemetry", "hardware"} \subseteq Parts
  BY PartsAre DEF Leaves, IsStore
<1> QED BY <1>1, <1>2 DEF Leaves, IsStore

StoredAlike(s, v, f) == Leaves(CF!Stored(s, f), s) /\ Alike(CF!Stored(s, f), CF!Stored(v, f))

\* What is done to one part of the store, and to two.
LEMMA OneSet ==
    ASSUME NEW s, NEW v, Alike(s, v), NEW f, NEW p \in Told, NEW x,
           CF!Stored(s, f) = [s EXCEPT ![p] = x], CF!Stored(v, f) = [v EXCEPT ![p] = x]
    PROVE  StoredAlike(s, v, f)
<1>1. Leaves(s, s)
  BY DEF Leaves, Alike
<1>2. Leaves([s EXCEPT ![p] = x], s) /\ Alike([s EXCEPT ![p] = x], [v EXCEPT ![p] = x])
  BY <1>1, AlikeSet, LeavesSet
<1> QED BY <1>2 DEF StoredAlike

LEMMA TwoSet ==
    ASSUME NEW s, NEW v, Alike(s, v), NEW f, NEW p \in Told, NEW x, NEW q \in Told, NEW y,
           CF!Stored(s, f) = [[s EXCEPT ![p] = x] EXCEPT ![q] = y],
           CF!Stored(v, f) = [[v EXCEPT ![p] = x] EXCEPT ![q] = y]
    PROVE  StoredAlike(s, v, f)
<1>1. Leaves(s, s)
  BY DEF Leaves, Alike
<1>2. Leaves([s EXCEPT ![p] = x], s) /\ Alike([s EXCEPT ![p] = x], [v EXCEPT ![p] = x])
  BY <1>1, AlikeSet, LeavesSet
<1> DEFINE a == [s EXCEPT ![p] = x]
           b == [v EXCEPT ![p] = x]
<1>3. Leaves(a, s) /\ Alike(a, b)
  BY <1>2
<1> HIDE DEF a, b
<1>4. Leaves([a EXCEPT ![q] = y], s) /\ Alike([a EXCEPT ![q] = y], [b EXCEPT ![q] = y])
  BY <1>3, AlikeSet, LeavesSet
<1> QED BY <1>4 DEF StoredAlike, a, b
\* What the store makes of a frame does not depend on the parts it leaves alone.
LEMMA FramesAlike ==
    ASSUME NEW s, NEW v, Alike(s, v), NEW f PROVE StoredAlike(s, v, f)
<1>0. \A p \in Told : s[p] = v[p]
  BY DEF Alike
<1>1. /\ s.tasks = v.tasks /\ s.cards = v.cards /\ s.chairs = v.chairs /\ s.status = v.status
      /\ s.claims = v.claims /\ s.retries = v.retries /\ s.receipts = v.receipts /\ s.log = v.log
      /\ s.latest = v.latest /\ s.chat = v.chat /\ s.topics = v.topics /\ s.messages = v.messages
  BY <1>0 DEF Told
<1>2. DOMAIN s = Parts /\ DOMAIN v = Parts /\ Told \subseteq Parts
  BY PartsAre DEF Alike, IsStore
<1>3. CASE f.type = "agent_card"
  <2> DEFINE x == s.cards \cup {f.data}
             y == [s.status EXCEPT ![f.data] = "online"]
  <2>1. CF!Stored(s, f) = CF!UpsertAgentNode(s, f.data) /\ CF!Stored(v, f) = CF!UpsertAgentNode(v, f.data)
    BY <1>3 DEF CF!Stored
  <2>2. CF!UpsertAgentNode(s, f.data) = [[s EXCEPT !.cards = x] EXCEPT !.status = y]
    BY <1>2 DEF CF!UpsertAgentNode, Told
  <2>3. CF!UpsertAgentNode(v, f.data) = [[v EXCEPT !.cards = x] EXCEPT !.status = y]
    BY <1>1, <1>2 DEF CF!UpsertAgentNode, Told
  <2>4. "cards" \in Told /\ "status" \in Told
    BY DEF Told
  <2> HIDE DEF x, y
  <2> QED BY <2>1, <2>2, <2>3, <2>4, TwoSet
<1>4. CASE f.type = "phase_change"
  <2> DEFINE x == CF!Newest(f.data.cycle, s.log, LogCap)
             y == [a \in Speakers |->
               IF a = f.data.agent /\ a \in s.cards
               THEN IF f.data.terminal THEN "online" ELSE "dispatching" ELSE s.status[a]]
  <2>1. CF!Stored(s, f) = CF!RecordPhaseEvent(s, f.data) /\ CF!Stored(v, f) = CF!RecordPhaseEvent(v, f.data)
    BY <1>4 DEF CF!Stored
  <2>2. CF!RecordPhaseEvent(s, f.data) = [[s EXCEPT !.log = x] EXCEPT !.status = y]
    BY <1>2 DEF CF!RecordPhaseEvent, Told
  <2>3. CF!RecordPhaseEvent(v, f.data) = [[v EXCEPT !.log = x] EXCEPT !.status = y]
    BY <1>1, <1>2 DEF CF!RecordPhaseEvent, Told
  <2>4. "log" \in Told /\ "status" \in Told
    BY DEF Told
  <2> HIDE DEF x, y
  <2> QED BY <2>1, <2>2, <2>3, <2>4, TwoSet
<1>5. CASE f.type = "chair_event"
  <2> DEFINE x == [a \in Speakers |-> IF a = f.data.agent /\ a \in s.cards THEN f.data.presence ELSE s.chairs[a]]
  <2>1. CF!Stored(s, f) = CF!RecordChairEvent(s, f.data) /\ CF!Stored(v, f) = CF!RecordChairEvent(v, f.data)
    BY <1>5 DEF CF!Stored
  <2>2. CF!RecordChairEvent(s, f.data) = [s EXCEPT !.chairs = x]
    BY <1>2 DEF CF!RecordChairEvent, Told
  <2>3. CF!RecordChairEvent(v, f.data) = [v EXCEPT !.chairs = x]
    BY <1>1, <1>2 DEF CF!RecordChairEvent, Told
  <2>4. "chairs" \in Told
    BY DEF Told
  <2> HIDE DEF x
  <2> QED BY <2>1, <2>2, <2>3, <2>4, OneSet
<1>6. CASE f.type = "chair_roster"
  <2> DEFINE x == [a \in Speakers |-> IF a \in s.cards THEN f.data[a] ELSE s.chairs[a]]
  <2>1. CF!Stored(s, f) = CF!ApplyChairRoster(s, f.data) /\ CF!Stored(v, f) = CF!ApplyChairRoster(v, f.data)
    BY <1>6 DEF CF!Stored
  <2>2. CF!ApplyChairRoster(s, f.data) = [s EXCEPT !.chairs = x]
    BY <1>2 DEF CF!ApplyChairRoster, Told
  <2>3. CF!ApplyChairRoster(v, f.data) = [v EXCEPT !.chairs = x]
    BY <1>1, <1>2 DEF CF!ApplyChairRoster, Told
  <2>4. "chairs" \in Told
    BY DEF Told
  <2> HIDE DEF x
  <2> QED BY <2>1, <2>2, <2>3, <2>4, OneSet
<1>7. CASE f.type = "claim_event"
  <2> DEFINE x == CF!RecordClaimEvent(s, f.data).claims
  <2>1. CF!Stored(s, f) = CF!RecordClaimEvent(s, f.data) /\ CF!Stored(v, f) = CF!RecordClaimEvent(v, f.data)
    BY <1>7 DEF CF!Stored
  <2>2. CF!RecordClaimEvent(s, f.data) = [s EXCEPT !.claims = x]
    BY <1>2 DEF CF!RecordClaimEvent, Told
  <2>3. CF!RecordClaimEvent(v, f.data) = [v EXCEPT !.claims = x]
    BY <1>1, <1>2 DEF CF!RecordClaimEvent, Told
  <2>4. "claims" \in Told
    BY DEF Told
  <2> HIDE DEF x
  <2> QED BY <2>1, <2>2, <2>3, <2>4, OneSet
<1>8. CASE f.type = "retry_event"
  <2> DEFINE x == IF f.data = "scheduled" THEN s.retries + 1 ELSE IF s.retries = 0 THEN 0 ELSE s.retries - 1
  <2>1. CF!Stored(s, f) = CF!RecordRetryEvent(s, f.data) /\ CF!Stored(v, f) = CF!RecordRetryEvent(v, f.data)
    BY <1>8 DEF CF!Stored
  <2>2. CF!RecordRetryEvent(s, f.data) = [s EXCEPT !.retries = x]
    BY <1>2 DEF CF!RecordRetryEvent, Told
  <2>3. CF!RecordRetryEvent(v, f.data) = [v EXCEPT !.retries = x]
    BY <1>1, <1>2 DEF CF!RecordRetryEvent, Told
  <2>4. "retries" \in Told
    BY DEF Told
  <2> HIDE DEF x
  <2> QED BY <2>1, <2>2, <2>3, <2>4, OneSet
<1>9. CASE f.type = "new_task"
  <2> DEFINE x == Append(s.tasks, f.data)
  <2>1. CF!Stored(s, f) = CF!AddTask(s, f.data) /\ CF!Stored(v, f) = CF!AddTask(v, f.data)
    BY <1>9 DEF CF!Stored
  <2>2. CF!AddTask(s, f.data) = [s EXCEPT !.tasks = x]
    BY <1>2 DEF CF!AddTask, Told
  <2>3. CF!AddTask(v, f.data) = [v EXCEPT !.tasks = x]
    BY <1>1, <1>2 DEF CF!AddTask, Told
  <2>4. "tasks" \in Told
    BY DEF Told
  <2> HIDE DEF x
  <2> QED BY <2>1, <2>2, <2>3, <2>4, OneSet
<1>10. CASE f.type = "receipt"
  <2> DEFINE x == s.receipts + 1
             y == CF!Newest(f.data, s.log, LogCap)
  <2>1. CF!Stored(s, f) = CF!AddVerificationReceipt(s, f.data) /\ CF!Stored(v, f) = CF!AddVerificationReceipt(v, f.data)
    BY <1>10 DEF CF!Stored
  <2>2. CF!AddVerificationReceipt(s, f.data) = [[s EXCEPT !.receipts = x] EXCEPT !.log = y]
    BY <1>2 DEF CF!AddVerificationReceipt, Told
  <2>3. CF!AddVerificationReceipt(v, f.data) = [[v EXCEPT !.receipts = x] EXCEPT !.log = y]
    BY <1>1, <1>2 DEF CF!AddVerificationReceipt, Told
  <2>4. "receipts" \in Told /\ "log" \in Told
    BY DEF Told
  <2> HIDE DEF x, y
  <2> QED BY <2>1, <2>2, <2>3, <2>4, TwoSet
<1>11. CASE f.type = "log"
  <2> DEFINE x == CF!Newest(f.data, s.log, LogCap)
  <2>1. CF!Stored(s, f) = CF!RecordInLog(s, f.data) /\ CF!Stored(v, f) = CF!RecordInLog(v, f.data)
    BY <1>11 DEF CF!Stored
  <2>2. CF!RecordInLog(s, f.data) = [s EXCEPT !.log = x]
    BY <1>2 DEF CF!RecordInLog, Told
  <2>3. CF!RecordInLog(v, f.data) = [v EXCEPT !.log = x]
    BY <1>1, <1>2 DEF CF!RecordInLog, Told
  <2>4. "log" \in Told
    BY DEF Told
  <2> HIDE DEF x
  <2> QED BY <2>1, <2>2, <2>3, <2>4, OneSet
<1>12. CASE f.type = "latest"
  <2> DEFINE x == f.data
  <2>1. CF!Stored(s, f) = CF!RecordLatest(s, f.data) /\ CF!Stored(v, f) = CF!RecordLatest(v, f.data)
    BY <1>12 DEF CF!Stored
  <2>2. CF!RecordLatest(s, f.data) = [s EXCEPT !.latest = x]
    BY <1>2 DEF CF!RecordLatest, Told
  <2>3. CF!RecordLatest(v, f.data) = [v EXCEPT !.latest = x]
    BY <1>1, <1>2 DEF CF!RecordLatest, Told
  <2>4. "latest" \in Told
    BY DEF Told
  <2> HIDE DEF x
  <2> QED BY <2>1, <2>2, <2>3, <2>4, OneSet
<1>13. CASE f.type = "chat_state"
  <2> DEFINE x == f.data
  <2>1. CF!Stored(s, f) = CF!SetInterAgentChat(s, f.data) /\ CF!Stored(v, f) = CF!SetInterAgentChat(v, f.data)
    BY <1>13 DEF CF!Stored
  <2>2. CF!SetInterAgentChat(s, f.data) = [s EXCEPT !.chat = x]
    BY <1>2 DEF CF!SetInterAgentChat, Told
  <2>3. CF!SetInterAgentChat(v, f.data) = [v EXCEPT !.chat = x]
    BY <1>1, <1>2 DEF CF!SetInterAgentChat, Told
  <2>4. "chat" \in Told
    BY DEF Told
  <2> HIDE DEF x
  <2> QED BY <2>1, <2>2, <2>3, <2>4, OneSet
<1>14. CASE f.type = "chat_message"
  <2> DEFINE x == CF!LastOf(Append(s.log, f.data), LogCap)
  <2>1. CF!Stored(s, f) = CF!AddInterAgentMessage(s, f.data) /\ CF!Stored(v, f) = CF!AddInterAgentMessage(v, f.data)
    BY <1>14 DEF CF!Stored
  <2>2. CF!AddInterAgentMessage(s, f.data) = [s EXCEPT !.log = x]
    BY <1>2 DEF CF!AddInterAgentMessage, Told
  <2>3. CF!AddInterAgentMessage(v, f.data) = [v EXCEPT !.log = x]
    BY <1>1, <1>2 DEF CF!AddInterAgentMessage, Told
  <2>4. "log" \in Told
    BY DEF Told
  <2> HIDE DEF x
  <2> QED BY <2>1, <2>2, <2>3, <2>4, OneSet
<1>15. CASE f.type = "topic_opened"
  <2> DEFINE x == CF!Merge(s.topics, [x \in {f.data} |-> "open"])
  <2>1. CF!Stored(s, f) = CF!OpenConversation(s, f.data) /\ CF!Stored(v, f) = CF!OpenConversation(v, f.data)
    BY <1>15 DEF CF!Stored
  <2>2. CF!OpenConversation(s, f.data) = [s EXCEPT !.topics = x]
    BY <1>2 DEF CF!OpenConversation, Told
  <2>3. CF!OpenConversation(v, f.data) = [v EXCEPT !.topics = x]
    BY <1>1, <1>2 DEF CF!OpenConversation, Told
  <2>4. "topics" \in Told
    BY DEF Told
  <2> HIDE DEF x
  <2> QED BY <2>1, <2>2, <2>3, <2>4, OneSet
<1>16. CASE f.type = "topic_closed"
  <2> DEFINE x == [x \in DOMAIN s.topics |-> IF x = f.data THEN "closed" ELSE s.topics[x]]
  <2>1. CF!Stored(s, f) = CF!CloseConversation(s, f.data) /\ CF!Stored(v, f) = CF!CloseConversation(v, f.data)
    BY <1>16 DEF CF!Stored
  <2>2. CF!CloseConversation(s, f.data) = [s EXCEPT !.topics = x]
    BY <1>2 DEF CF!CloseConversation, Told
  <2>3. CF!CloseConversation(v, f.data) = [v EXCEPT !.topics = x]
    BY <1>1, <1>2 DEF CF!CloseConversation, Told
  <2>4. "topics" \in Told
    BY DEF Told
  <2> HIDE DEF x
  <2> QED BY <2>1, <2>2, <2>3, <2>4, OneSet
<1>17. CASE f.type = "message_delta"
  <2> DEFINE x == CF!ApplyMessageDelta(s, f.data).messages
  <2>1. CF!Stored(s, f) = CF!ApplyMessageDelta(s, f.data) /\ CF!Stored(v, f) = CF!ApplyMessageDelta(v, f.data)
    BY <1>17 DEF CF!Stored
  <2>2. CF!ApplyMessageDelta(s, f.data) = [s EXCEPT !.messages = x]
    BY <1>2 DEF CF!ApplyMessageDelta, Told
  <2>3. CF!ApplyMessageDelta(v, f.data) = [v EXCEPT !.messages = x]
    BY <1>1, <1>2 DEF CF!ApplyMessageDelta, Told
  <2>4. "messages" \in Told
    BY DEF Told
  <2> HIDE DEF x
  <2> QED BY <2>1, <2>2, <2>3, <2>4, OneSet
<1>18. CASE f.type \notin {"agent_card", "phase_change", "chair_event", "chair_roster", "claim_event",
                           "retry_event", "new_task", "receipt", "log", "latest", "chat_state", "chat_message",
                           "topic_opened", "topic_closed", "message_delta"}
  <2>1. CF!Stored(s, f) = s /\ CF!Stored(v, f) = v
    BY <1>18 DEF CF!Stored
  <2> QED BY <2>1 DEF StoredAlike, Leaves, Alike
<1> QED BY <1>3, <1>4, <1>5, <1>6, <1>7, <1>8, <1>9, <1>10, <1>11, <1>12, <1>13, <1>14, <1>15, <1>16, <1>17, <1>18

LEMMA AppliesAlike ==
    ASSUME NEW s, NEW v, Alike(s, v), NEW f
    PROVE  Leaves(CF!Apply(s, f), s) /\ Alike(CF!Apply(s, f), CF!Apply(v, f))
<1> DEFINE r == CF!Stored(s, f)
           u == CF!Stored(v, f)
           x == CF!AgUiRuns(r.runs, f)
<1>1. Leaves(r, s) /\ Alike(r, u)
  BY FramesAlike DEF StoredAlike
<1>2. "runs" \in Told
  BY DEF Told
<1>3. r.runs = u.runs
  BY <1>1, <1>2 DEF Alike
<1>4. "runs" \in DOMAIN r /\ "runs" \in DOMAIN u
  BY <1>1, <1>2, PartsAre DEF Alike, IsStore
<1>5. CF!Apply(s, f) = [r EXCEPT !.runs = x]
  BY <1>4 DEF CF!Apply
<1>6. CF!Apply(v, f) = [u EXCEPT !.runs = x]
  BY <1>3, <1>4 DEF CF!Apply
<1> HIDE DEF r, u, x
<1>7. Leaves([r EXCEPT !.runs = x], s)
  BY <1>1, <1>2, LeavesSet
<1>8. Alike([r EXCEPT !.runs = x], [u EXCEPT !.runs = x])
  BY <1>1, <1>2, AlikeSet
<1> QED BY <1>5, <1>6, <1>7, <1>8

LEMMA AppliesAStore == ASSUME NEW s, IsStore(s), NEW f PROVE IsStore(CF!Apply(s, f))
<1>1. Alike(s, s)
  BY DEF Alike
<1> QED BY <1>1, AppliesAlike DEF Leaves

\* Two stores that have the same in every part are the same.
LEMMA SameParts ==
    ASSUME NEW s, IsStore(s), NEW v, IsStore(v), \A p \in Parts : s[p] = v[p] PROVE s = v
BY DEF IsStore

LEMMA SeenParts ==
    ASSUME NEW s, IsStore(s), NEW b
    PROVE  /\ IsStore(Seen(s, b))
           /\ Seen(s, b).connected = FALSE
           /\ Seen(s, b).telemetry = CF!Merge(s.telemetry, b.telemetry)
           /\ Seen(s, b).hardware = IF b.hardware = 0 THEN s.hardware ELSE b.hardware
           /\ \A p \in Told : Seen(s, b)[p] = s[p]
<1>1. DOMAIN s = Parts /\ {"connected", "telemetry", "hardware"} \subseteq Parts
  BY PartsAre DEF IsStore
<1>2. "connected" \notin Told /\ "telemetry" \notin Told /\ "hardware" \notin Told /\ Told \subseteq Parts
  BY PartsAre
<1> DEFINE m == CF!Merge(s.telemetry, b.telemetry)
           h == IF b.hardware = 0 THEN s.hardware ELSE b.hardware
<1>3. Seen(s, b) = [[[s EXCEPT !.telemetry = m] EXCEPT !.hardware = h] EXCEPT !.connected = FALSE]
  BY <1>1 DEF Seen, CF!Flushed
<1> HIDE DEF m, h
<1>4. IsStore(Seen(s, b)) /\ Seen(s, b).connected = FALSE /\ Seen(s, b).telemetry = m /\ Seen(s, b).hardware = h
  BY <1>1, <1>3 DEF IsStore
<1>5. \A p \in Told : Seen(s, b)[p] = s[p]
  BY <1>1, <1>2, <1>3
<1> QED BY <1>4, <1>5 DEF m, h

\* A frame for the store does to what is seen what it does to the store.
LEMMA SeenApplies ==
    ASSUME NEW s, IsStore(s), NEW b, NEW f
    PROVE  Seen(CF!Apply(s, f), b) = CF!Apply(Seen(s, b), f)
<1> DEFINE v == Seen(s, b)
           r == CF!Apply(s, f)
           u == CF!Apply(v, f)
           w == Seen(r, b)
<1>1. Alike(s, v) /\ Alike(v, v)
  BY SeenParts DEF Alike
<1>2. Leaves(r, s) /\ Alike(r, u) /\ Leaves(u, v)
  BY <1>1, AppliesAlike
<1>3. /\ IsStore(w) /\ w.connected = FALSE /\ w.telemetry = CF!Merge(r.telemetry, b.telemetry)
      /\ w.hardware = IF b.hardware = 0 THEN r.hardware ELSE b.hardware
      /\ \A p \in Told : w[p] = r[p]
  <2>1. IsStore(r)
    BY <1>2 DEF Leaves
  <2> HIDE DEF r
  <2> QED BY <2>1, SeenParts
<1>4. /\ IsStore(v) /\ v.connected = FALSE /\ v.telemetry = CF!Merge(s.telemetry, b.telemetry)
      /\ v.hardware = IF b.hardware = 0 THEN s.hardware ELSE b.hardware
  BY SeenParts
<1> HIDE DEF v, r, u, w
<1>5. w.connected = u.connected /\ w.telemetry = u.telemetry /\ w.hardware = u.hardware
  BY <1>2, <1>3, <1>4 DEF Leaves
<1>6. \A p \in Told : w[p] = u[p]
  BY <1>2, <1>3 DEF Alike
<1>7. \A p \in Parts : w[p] = u[p]
  BY <1>5, <1>6, PartsAre
<1>8. w = u
  BY <1>2, <1>3, <1>7, SameParts DEF Leaves
<1> QED BY <1>8 DEF v, r, u, w

-----------------------------------------------------------------------------
\* What is merged.

IsRecord(t) == t = [k \in DOMAIN t |-> t[k]]

LEMMA MergeIs ==
    ASSUME NEW a, NEW b
    PROVE  /\ IsRecord(CF!Merge(a, b)) /\ DOMAIN CF!Merge(a, b) = DOMAIN a \cup DOMAIN b
           /\ \A k \in DOMAIN b : CF!Merge(a, b)[k] = b[k]
           /\ \A k \in DOMAIN a \ DOMAIN b : CF!Merge(a, b)[k] = a[k]
BY DEF CF!Merge, IsRecord

LEMMA MergeTwice ==
    ASSUME NEW a, NEW b, NEW c
    PROVE  CF!Merge(CF!Merge(a, b), c) = CF!Merge(a, CF!Merge(b, c))
BY DEF CF!Merge

LEMMA MergeNothing == ASSUME NEW a, IsRecord(a) PROVE CF!Merge(a, << >>) = a
<1>1. DOMAIN << >> = {}
  OBVIOUS
<1> QED BY <1>1 DEF CF!Merge, IsRecord

LEMMA MergeAgain ==
    ASSUME NEW a, NEW d PROVE CF!Merge(CF!Merge(a, d), d) = CF!Merge(a, d)
BY DEF CF!Merge

-----------------------------------------------------------------------------
\* What is seen after a step of the page.

\* The valve moves what is buffered, and no more is to be seen.
LEMMA SeenOnFlush ==
    ASSUME NEW s, IsStore(s), NEW b
    PROVE  Seen(CF!Flushed(s, b), CF!NothingBuffered) = Seen(s, b)
<1> DEFINE r == CF!Flushed(s, b)
           n == CF!NothingBuffered
           m == CF!Merge(s.telemetry, b.telemetry)
           h == IF b.hardware = 0 THEN s.hardware ELSE b.hardware
<1>1. DOMAIN s = Parts /\ {"connected", "telemetry", "hardware"} \subseteq Parts
  BY PartsAre DEF IsStore
<1>2. r = [[s EXCEPT !.telemetry = m] EXCEPT !.hardware = h]
  BY <1>1 DEF CF!Flushed
<1>3. IsStore(r) /\ r.telemetry = m /\ r.hardware = h /\ \A p \in Told : r[p] = s[p]
  <2>1. "telemetry" \notin Told /\ "hardware" \notin Told /\ Told \subseteq Parts
    BY PartsAre
  <2> HIDE DEF m, h, r
  <2>2. IsStore(r) /\ r.telemetry = m /\ r.hardware = h
    BY <1>1, <1>2 DEF IsStore
  <2>3. \A p \in Told : r[p] = s[p]
    BY <1>1, <1>2, <2>1
  <2> QED BY <2>2, <2>3
<1>4. n.hardware = 0 /\ n.telemetry = << >>
  BY DEF CF!NothingBuffered
<1>5. IsRecord(m)
  BY MergeIs
<1> HIDE DEF r, n, m, h
<1>6. /\ IsStore(Seen(r, n)) /\ Seen(r, n).connected = FALSE
      /\ Seen(r, n).telemetry = m /\ Seen(r, n).hardware = h
      /\ \A p \in Told : Seen(r, n)[p] = s[p]
  <2>1. CF!Merge(m, << >>) = m
    BY <1>5, MergeNothing
  <2>2. /\ IsStore(Seen(r, n)) /\ Seen(r, n).connected = FALSE
        /\ Seen(r, n).telemetry = CF!Merge(r.telemetry, n.telemetry)
        /\ Seen(r, n).hardware = IF n.hardware = 0 THEN r.hardware ELSE n.hardware
        /\ \A p \in Told : Seen(r, n)[p] = r[p]
    BY <1>3, SeenParts
  <2> QED BY <1>3, <1>4, <2>1, <2>2
<1>7. /\ IsStore(Seen(s, b)) /\ Seen(s, b).connected = FALSE
      /\ Seen(s, b).telemetry = m /\ Seen(s, b).hardware = h
      /\ \A p \in Told : Seen(s, b)[p] = s[p]
  BY SeenParts DEF m, h
<1>8. \A p \in Parts : Seen(r, n)[p] = Seen(s, b)[p]
  BY <1>6, <1>7, PartsAre
<1>9. Seen(r, n) = Seen(s, b)
  BY <1>6, <1>7, <1>8, SameParts
<1> QED BY <1>9 DEF r, n

\* What it says of the connection is not looked at.
LEMMA SeenOnConnect ==
    ASSUME NEW s, IsStore(s), NEW b, NEW x
    PROVE  Seen([s EXCEPT !.connected = x], b) = Seen(s, b)
<1>1. DOMAIN s = Parts /\ {"connected", "telemetry", "hardware"} \subseteq Parts
  BY PartsAre DEF IsStore
<1> QED BY <1>1 DEF Seen, CF!Flushed, IsStore

\* What is put into the buffer is seen as if the store had it.
LEMMA SeenOnTelemetry ==
    ASSUME NEW s, IsStore(s), NEW b, IsBuffer(b), NEW d
    PROVE  /\ Seen(s, CF!EnqueueTelemetry(b, d)) = [Seen(s, b) EXCEPT !.telemetry = CF!Merge(@, d)]
           /\ IsBuffer(CF!EnqueueTelemetry(b, d))
<1> DEFINE c == CF!EnqueueTelemetry(b, d)
           v == Seen(s, b)
           w == [v EXCEPT !.telemetry = CF!Merge(@, d)]
<1>1. c.telemetry = CF!Merge(b.telemetry, d) /\ c.hardware = b.hardware /\ IsBuffer(c)
  BY DEF CF!EnqueueTelemetry, IsBuffer
<1>2. /\ IsStore(Seen(s, c)) /\ Seen(s, c).connected = FALSE
      /\ Seen(s, c).telemetry = CF!Merge(s.telemetry, c.telemetry)
      /\ Seen(s, c).hardware = IF c.hardware = 0 THEN s.hardware ELSE c.hardware
      /\ \A p \in Told : Seen(s, c)[p] = s[p]
  BY SeenParts
<1>3. /\ IsStore(v) /\ v.connected = FALSE
      /\ v.telemetry = CF!Merge(s.telemetry, b.telemetry)
      /\ v.hardware = IF b.hardware = 0 THEN s.hardware ELSE b.hardware
      /\ \A p \in Told : v[p] = s[p]
  BY SeenParts
<1>4. CF!Merge(s.telemetry, c.telemetry) = CF!Merge(v.telemetry, d)
  BY <1>1, <1>3, MergeTwice
<1> HIDE DEF v
<1>5. IsStore(w) /\ w.connected = v.connected /\ w.telemetry = CF!Merge(v.telemetry, d) /\ w.hardware = v.hardware
      /\ \A p \in Told : w[p] = v[p]
  <2>1. DOMAIN v = Parts /\ "telemetry" \in Parts /\ "telemetry" \notin Told /\ Told \subseteq Parts
        /\ "connected" \in Parts /\ "hardware" \in Parts
    BY <1>3, PartsAre DEF IsStore
  <2> DEFINE x == CF!Merge(v.telemetry, d)
  <2>2. w = [v EXCEPT !.telemetry = x]
    OBVIOUS
  <2> HIDE DEF x, w
  <2>3. IsStore(w) /\ w.connected = v.connected /\ w.telemetry = x /\ w.hardware = v.hardware
    BY <2>1, <2>2 DEF IsStore
  <2>4. \A p \in Told : w[p] = v[p]
    BY <2>1, <2>2
  <2> QED BY <2>3, <2>4 DEF x
<1> HIDE DEF c, w
<1>6. \A p \in Parts : Seen(s, c)[p] = w[p]
  BY <1>1, <1>2, <1>3, <1>4, <1>5, PartsAre
<1>7. Seen(s, c) = w
  BY <1>2, <1>5, <1>6, SameParts
<1> QED BY <1>1, <1>7 DEF c, w, v

LEMMA SeenOnHardware ==
    ASSUME NEW s, IsStore(s), NEW b, IsBuffer(b), NEW d, d # 0
    PROVE  /\ Seen(s, CF!EnqueueHardware(b, d)) = [Seen(s, b) EXCEPT !.hardware = d]
           /\ IsBuffer(CF!EnqueueHardware(b, d))
<1> DEFINE c == CF!EnqueueHardware(b, d)
           v == Seen(s, b)
           w == [v EXCEPT !.hardware = d]
<1>1. c.telemetry = b.telemetry /\ c.hardware = d /\ IsBuffer(c)
  BY DEF CF!EnqueueHardware, IsBuffer
<1>2. /\ IsStore(Seen(s, c)) /\ Seen(s, c).connected = FALSE
      /\ Seen(s, c).telemetry = CF!Merge(s.telemetry, c.telemetry)
      /\ Seen(s, c).hardware = IF c.hardware = 0 THEN s.hardware ELSE c.hardware
      /\ \A p \in Told : Seen(s, c)[p] = s[p]
  BY SeenParts
<1>3. /\ IsStore(v) /\ v.connected = FALSE
      /\ v.telemetry = CF!Merge(s.telemetry, b.telemetry)
      /\ \A p \in Told : v[p] = s[p]
  BY SeenParts
<1> HIDE DEF v
<1>4. IsStore(w) /\ w.connected = v.connected /\ w.telemetry = v.telemetry /\ w.hardware = d
      /\ \A p \in Told : w[p] = v[p]
  <2>1. DOMAIN v = Parts /\ "telemetry" \in Parts /\ "hardware" \notin Told /\ Told \subseteq Parts
        /\ "connected" \in Parts /\ "hardware" \in Parts
    BY <1>3, PartsAre DEF IsStore
  <2> HIDE DEF w
  <2>2. w = [v EXCEPT !.hardware = d]
    BY DEF w
  <2>3. IsStore(w) /\ w.connected = v.connected /\ w.telemetry = v.telemetry /\ w.hardware = d
    BY <2>1, <2>2 DEF IsStore
  <2>4. \A p \in Told : w[p] = v[p]
    BY <2>1, <2>2
  <2> QED BY <2>3, <2>4
<1> HIDE DEF c, w
<1>5. \A p \in Parts : Seen(s, c)[p] = w[p]
  BY <1>1, <1>2, <1>3, <1>4, PartsAre
<1>6. Seen(s, c) = w
  BY <1>2, <1>4, <1>5, SameParts
<1> QED BY <1>1, <1>6 DEF c, w, v

\* A frame that is not for the store changes nothing in it.
LEMMA NotForTheStore ==
    ASSUME NEW s, IsStore(s), NEW f, f.type \in {"open", "close", "telemetry", "hardware_telemetry"}
    PROVE  CF!Apply(s, f) = s
<1>1. CF!Stored(s, f) = s
  BY DEF CF!Stored
<1>2. CF!AgUiRuns(s.runs, f) = s.runs
  BY DEF CF!AgUiRuns
<1>3. "runs" \in Parts
  BY DEF Parts, Told
<1>4. CF!Apply(s, f) = [s EXCEPT !.runs = s.runs]
  BY <1>1, <1>2, <1>3 DEF CF!Apply, IsStore
<1> QED BY <1>3, <1>4 DEF IsStore

LEMMA ShowsAStore == ASSUME NEW v, IsStore(v), NEW f PROVE IsStore(Shows(v, f))
<1>1. CASE f.type = "telemetry"
  <2> DEFINE x == CF!Merge(v.telemetry, f.data)
  <2>1. "telemetry" \in Parts
    BY PartsAre
  <2>2. Shows(v, f) = [v EXCEPT !.telemetry = x]
    BY <1>1 DEF Shows
  <2> HIDE DEF x
  <2> QED BY <2>1, <2>2 DEF IsStore
<1>2. CASE f.type = "hardware_telemetry"
  <2>1. Shows(v, f) = [v EXCEPT !.hardware = f.data] /\ "hardware" \in Parts
    BY <1>2, PartsAre DEF Shows
  <2> QED BY <2>1 DEF IsStore
<1>3. CASE f.type \notin {"telemetry", "hardware_telemetry"}
  BY <1>3, AppliesAStore DEF Shows
<1> QED BY <1>1, <1>2, <1>3

\* What the page receives it shows: at once, or from the buffer.
LEMMA SeenReceives ==
    ASSUME NEW s, IsStore(s), NEW b, IsBuffer(b), NEW f,
           f.type = "hardware_telemetry" => f.data # 0,
           NEW c, c = IF f.type = "telemetry" THEN CF!EnqueueTelemetry(b, f.data)
                      ELSE IF f.type = "hardware_telemetry" THEN CF!EnqueueHardware(b, f.data) ELSE b,
           NEW r, r = IF f.type = "close" THEN [s EXCEPT !.connected = FALSE]
                      ELSE IF f.type = "open" THEN [s EXCEPT !.connected = TRUE] ELSE CF!Apply(s, f)
    PROVE  Seen(r, c) = Shows(Seen(s, b), f) /\ IsBuffer(c)
<1>0. IsStore(Seen(s, b))
  BY SeenParts
<1>1. CASE f.type \in {"open", "close"}
  <2>1. c = b /\ \E x : r = [s EXCEPT !.connected = x]
    BY <1>1
  <2>2. Seen(r, c) = Seen(s, b)
    BY <2>1, SeenOnConnect
  <2>3. Shows(Seen(s, b), f) = Seen(s, b)
    BY <1>0, <1>1, NotForTheStore DEF Shows
  <2> QED BY <2>1, <2>2, <2>3
<1>2. CASE f.type = "telemetry"
  <2>1. c = CF!EnqueueTelemetry(b, f.data) /\ r = s
    BY <1>2, NotForTheStore
  <2>2. Shows(Seen(s, b), f) = [Seen(s, b) EXCEPT !.telemetry = CF!Merge(@, f.data)]
    BY <1>2 DEF Shows
  <2>3. /\ Seen(s, CF!EnqueueTelemetry(b, f.data)) = [Seen(s, b) EXCEPT !.telemetry = CF!Merge(@, f.data)]
        /\ IsBuffer(CF!EnqueueTelemetry(b, f.data))
    BY SeenOnTelemetry
  <2> QED BY <2>1, <2>2, <2>3
<1>3. CASE f.type = "hardware_telemetry"
  <2>1. c = CF!EnqueueHardware(b, f.data) /\ r = s
    BY <1>3, NotForTheStore
  <2>2. Shows(Seen(s, b), f) = [Seen(s, b) EXCEPT !.hardware = f.data]
    BY <1>3 DEF Shows
  <2> QED BY <1>3, <2>1, <2>2, SeenOnHardware
<1>4. CASE f.type \notin {"open", "close", "telemetry", "hardware_telemetry"}
  <2>1. c = b /\ r = CF!Apply(s, f)
    BY <1>4
  <2>2. Shows(Seen(s, b), f) = CF!Apply(Seen(s, b), f)
    BY <1>4 DEF Shows
  <2>3. Seen(CF!Apply(s, f), b) = CF!Apply(Seen(s, b), f)
    BY SeenApplies
  <2> QED BY <2>1, <2>2, <2>3
<1> QED BY <1>1, <1>2, <1>3, <1>4

-----------------------------------------------------------------------------
\* Where a sequence of frames leads what is seen.

Leads(v, fs, e) ==
    \E g : g[0] = v /\ (\A n \in 1..Len(fs) : g[n] = Shows(g[n - 1], fs[n])) /\ g[Len(fs)] = e

IsList(fs) == \E S : fs \in Seq(S)

LEMMA LeadsNowhere ==
    /\ \A v : Leads(v, << >>, v)
    /\ \A v, e : Leads(v, << >>, e) => e = v
<1>1. Len(<< >>) = 0
  OBVIOUS
<1>2. ASSUME NEW v PROVE Leads(v, << >>, v)
  <2> DEFINE g == [n \in {0} |-> v]
  <2>1. g[0] = v /\ \A n \in 1..0 : g[n] = Shows(g[n - 1], << >>[n])
    OBVIOUS
  <2> HIDE DEF g
  <2> QED BY <1>1, <2>1 DEF Leads
<1> QED BY <1>1, <1>2 DEF Leads

LEMMA LeadsOne == ASSUME NEW v, NEW f PROVE Leads(v, <<f>>, Shows(v, f))
<1> DEFINE g == [n \in 0..1 |-> IF n = 0 THEN v ELSE Shows(v, f)]
           fs == <<f>>
<1>1. Len(fs) = 1 /\ fs[1] = f
  OBVIOUS
<1>2. g[0] = v /\ g[1] = Shows(v, f)
  OBVIOUS
<1> HIDE DEF g, fs
<1>3. \A n \in 1..1 : g[n] = Shows(g[n - 1], fs[n])
  <2> TAKE n \in 1..1
  <2>1. n = 1 /\ n - 1 = 0
    OBVIOUS
  <2> QED BY <1>1, <1>2, <2>1
<1>4. Leads(v, fs, Shows(v, f))
  BY <1>1, <1>2, <1>3 DEF Leads
<1> QED BY <1>4 DEF fs

LEMMA LeadsNext ==
    ASSUME NEW fs, IsList(fs), fs # << >>, NEW v, NEW e, Leads(v, fs, e)
    PROVE  Leads(Shows(v, Head(fs)), Tail(fs), e)
<1>1. PICK S : fs \in Seq(S)
  BY DEF IsList
<1>2. PICK g : g[0] = v /\ (\A n \in 1..Len(fs) : g[n] = Shows(g[n - 1], fs[n])) /\ g[Len(fs)] = e
  BY DEF Leads
<1>3. /\ Len(fs) \in Nat /\ Len(fs) >= 1 /\ Len(Tail(fs)) = Len(fs) - 1 /\ Head(fs) = fs[1]
      /\ \A n \in 1..Len(fs) - 1 : Tail(fs)[n] = fs[n + 1]
  BY <1>1
<1> DEFINE h == [n \in 0..Len(fs) - 1 |-> g[n + 1]]
<1>4. h[0] = Shows(v, Head(fs))
  <2>1. h[0] = g[1] /\ g[1] = Shows(g[0], fs[1])
    <3>1. 0 \in 0..Len(fs) - 1 /\ 1 \in 1..Len(fs) /\ 0 + 1 = 1 /\ 1 - 1 = 0
      BY <1>3
    <3>2. h[0] = g[1]
      BY <3>1
    <3>3. g[1] = Shows(g[1 - 1], fs[1])
      BY <1>2, <3>1
    <3> QED BY <3>1, <3>2, <3>3
  <2> QED BY <1>2, <1>3, <2>1
<1>5. \A n \in 1..Len(Tail(fs)) : h[n] = Shows(h[n - 1], Tail(fs)[n])
  <2> TAKE n \in 1..Len(Tail(fs))
  <2>1. n \in 1..Len(fs) - 1 /\ n \in 0..Len(fs) - 1 /\ n - 1 \in 0..Len(fs) - 1 /\ n + 1 \in 1..Len(fs)
        /\ (n + 1) - 1 = n /\ (n - 1) + 1 = n
    BY <1>3
  <2>2. h[n] = g[n + 1] /\ h[n - 1] = g[n]
    BY <2>1
  <2>3. g[n + 1] = Shows(g[(n + 1) - 1], fs[n + 1])
    BY <1>2, <2>1
  <2>4. Tail(fs)[n] = fs[n + 1]
    BY <1>3, <2>1
  <2> HIDE DEF h
  <2> QED BY <2>1, <2>2, <2>3, <2>4
<1>6. h[Len(Tail(fs))] = e
  <2>1. Len(fs) - 1 \in 0..Len(fs) - 1 /\ (Len(fs) - 1) + 1 = Len(fs)
    BY <1>3
  <2> QED BY <1>2, <1>3, <2>1
<1> HIDE DEF h
<1> QED BY <1>4, <1>5, <1>6 DEF Leads

LEMMA ListsJoin ==
    ASSUME NEW s, IsList(s), NEW t, IsList(t)
    PROVE  /\ IsList(s \o t) /\ Len(s) \in Nat /\ Len(t) \in Nat /\ Len(s \o t) = Len(s) + Len(t)
           /\ \A n \in 1..Len(s) : (s \o t)[n] = s[n]
           /\ \A n \in Len(s) + 1..Len(s) + Len(t) : (s \o t)[n] = t[n - Len(s)]
<1>1. PICK S : s \in Seq(S)
  BY DEF IsList
<1>2. PICK T : t \in Seq(T)
  BY DEF IsList
<1>3. s \in Seq(S \cup T) /\ t \in Seq(S \cup T)
  <2>1. s \in [1..Len(s) -> S] /\ Len(s) \in Nat
    BY <1>1
  <2>2. t \in [1..Len(t) -> T] /\ Len(t) \in Nat
    BY <1>2
  <2>3. s \in [1..Len(s) -> S \cup T] /\ t \in [1..Len(t) -> S \cup T]
    BY <2>1, <2>2
  <2> QED BY <2>1, <2>2, <2>3, SeqDef
<1>4. s \o t \in Seq(S \cup T)
  BY <1>3
<1>5. Len(s) \in Nat /\ Len(t) \in Nat /\ Len(s \o t) = Len(s) + Len(t)
  BY <1>3
<1>6. \A n \in 1..Len(s) + Len(t) : (s \o t)[n] = IF n <= Len(s) THEN s[n] ELSE t[n - Len(s)]
  BY <1>3
<1> QED BY <1>4, <1>5, <1>6 DEF IsList

LEMMA LeadsOn ==
    ASSUME NEW fs, IsList(fs), NEW hs, IsList(hs), NEW v, NEW u, NEW e, Leads(v, fs, u), Leads(u, hs, e)
    PROVE  Leads(v, fs \o hs, e)
<1>1. PICK g : g[0] = v /\ (\A n \in 1..Len(fs) : g[n] = Shows(g[n - 1], fs[n])) /\ g[Len(fs)] = u
  BY DEF Leads
<1>2. PICK h : h[0] = u /\ (\A n \in 1..Len(hs) : h[n] = Shows(h[n - 1], hs[n])) /\ h[Len(hs)] = e
  BY DEF Leads
<1> DEFINE m == Len(fs)
           all == fs \o hs
           k == [n \in 0..Len(all) |-> IF n <= m THEN g[n] ELSE h[n - m]]
<1>3. /\ m \in Nat /\ Len(hs) \in Nat /\ Len(all) = m + Len(hs)
      /\ \A n \in 1..m : all[n] = fs[n]
      /\ \A n \in m + 1..m + Len(hs) : all[n] = hs[n - m]
  BY ListsJoin
<1>4. \A n \in 0..m : n \in 0..Len(all) /\ k[n] = g[n]
  BY <1>3
<1>5. \A n \in m..Len(all) : k[n] = h[n - m]
  <2> TAKE n \in m..Len(all)
  <2>1. CASE n = m
    <3>1. k[n] = g[m] /\ n - m = 0
      BY <1>3, <1>4, <2>1
    <3> QED BY <1>1, <1>2, <3>1
  <2>2. CASE n # m
    <3>1. n \in 0..Len(all) /\ ~(n <= m)
      BY <1>3, <2>2
    <3> QED BY <3>1
  <2> QED BY <2>1, <2>2
<1> HIDE DEF k, all, m
<1>6. \A n \in 1..Len(all) : k[n] = Shows(k[n - 1], all[n])
  <2> TAKE n \in 1..Len(all)
  <2>1. CASE n <= m
    <3>1. n \in 1..m /\ n \in 0..m /\ n - 1 \in 0..m
      BY <1>3, <2>1
    <3>2. k[n] = g[n] /\ k[n - 1] = g[n - 1] /\ all[n] = fs[n]
      BY <1>3, <1>4, <3>1
    <3>3. g[n] = Shows(g[n - 1], fs[n])
      BY <1>1, <3>1 DEF m
    <3> QED BY <3>2, <3>3
  <2>2. CASE ~(n <= m)
    <3>1. n \in m..Len(all) /\ n - 1 \in m..Len(all) /\ n \in m + 1..m + Len(hs) /\ n - m \in 1..Len(hs)
          /\ (n - 1) - m = (n - m) - 1
      BY <1>3, <2>2
    <3>2. k[n] = h[n - m] /\ k[n - 1] = h[(n - m) - 1] /\ all[n] = hs[n - m]
      BY <1>3, <1>5, <3>1
    <3>3. h[n - m] = Shows(h[(n - m) - 1], hs[n - m])
      BY <1>2, <3>1
    <3> QED BY <3>2, <3>3
  <2> QED BY <2>1, <2>2
<1>7. k[0] = v
  BY <1>1, <1>3, <1>4
<1>8. k[Len(all)] = e
  <2>1. Len(all) \in m..Len(all) /\ Len(all) - m = Len(hs)
    BY <1>3
  <2> QED BY <1>2, <1>5, <2>1
<1> QED BY <1>6, <1>7, <1>8 DEF Leads, all

-----------------------------------------------------------------------------
\* What is shown, and what it is true of.

StoreSound(v) == IsStore(v) /\ ShownSound(v) /\ IsList(v.tasks)

\* A truth the frames of which can be followed.
TruthTells(t) ==
    /\ IsRecord(t.merged) /\ CF!Merge(t.merged, t.telemetry) = t.merged
    /\ t.cycles \in [Things -> Speakers \cup {NoAgent}]
    /\ about # "chairs" => \A a \in Speakers : t.chairs[a] = "absent"

\* Followed and Repaired, said of any store and truth, and what they rest on: a
\* topic that is shown has its run, and where cards matter there is every card.
FollowedBy(v, t) ==
    /\ v.telemetry = t.merged /\ v.chairs = t.chairs
    /\ \A b \in CF!Buckets \ {"Released"} : v.claims[b] = Cardinality({x \in Things : t.claims[x] = b})
    /\ v.receipts = t.receipts /\ v.log = t.log /\ v.latest = t.latest
    /\ v.messages = t.messages
    /\ DOMAIN v.topics = DOMAIN t.topics /\ DOMAIN v.topics \subseteq DOMAIN v.runs
    /\ \A x \in DOMAIN v.topics :
          /\ (v.topics[x] = "closed") <=> (t.topics[x] = "closed")
          /\ (v.runs[x] = "finished") <=> (t.topics[x] # "open")

RepairedBy(v, t) ==
    /\ \A k \in DOMAIN t.telemetry : v.telemetry[k] = t.telemetry[k]
    /\ t.hardware # 0 => v.hardware = t.hardware
    /\ CF!ToSet(t.tasks) \subseteq CF!ToSet(v.tasks)
    /\ about = "chat" => v.chat = t.chat
    /\ \A a \in Speakers : t.chairs[a] # "absent" => v.chairs[a] = t.chairs[a]
    /\ \A a \in Speakers : v.status[a] = "dispatching" => \E c \in Things : t.cycles[c] = a
    /\ about \in {"chairs", "phases"} => Speakers \subseteq v.cards

\* What a frame carries from one truth to the next.
Carries(f, t, u) ==
    /\ FrameSound(f)
    /\ \A v : StoreSound(v) /\ RepairedBy(v, t) =>
          /\ RepairedBy(Shows(v, f), u)
          /\ FollowedBy(v, t) => FollowedBy(Shows(v, f), u)

\* What is true of the next truth without a frame.
Keeps(t, u) ==
    \A v : StoreSound(v) => /\ RepairedBy(v, t) => RepairedBy(v, u)
                            /\ FollowedBy(v, t) => FollowedBy(v, u)

Carried(o) ==
    /\ TruthTells(o.truth)
    /\ \/ o.frames = << >> /\ Keeps(truth, o.truth)
       \/ \E f : o.frames = <<f>> /\ Carries(f, truth, o.truth)

LEMMA StoreFields ==
    ASSUME NEW v, IsStore(v)
    PROVE  /\ DOMAIN v = {"tasks", "cards", "chairs", "status", "claims", "retries", "receipts", "log", "latest",
                          "chat", "topics", "messages", "runs", "connected", "telemetry", "hardware"}
           /\ v = [p \in DOMAIN v |-> v[p]]
BY DEF IsStore, Parts, Told

\* A frame that says nothing of topics touches no run.
LEMMA ShowsStored ==
    ASSUME NEW v, IsStore(v), NEW f,
           f.type \notin {"telemetry", "hardware_telemetry", "topic_opened", "stopped", "topic_closed"}
    PROVE  Shows(v, f) = CF!Stored(v, f)
<1> DEFINE r == CF!Stored(v, f)
<1>1. Alike(v, v)
  BY DEF Alike
<1>2. Leaves(r, v)
  BY <1>1, FramesAlike DEF StoredAlike
<1>3. CF!AgUiRuns(r.runs, f) = r.runs
  BY DEF CF!AgUiRuns
<1>4. Shows(v, f) = [r EXCEPT !.runs = CF!AgUiRuns(r.runs, f)]
  <2>1. IsStore(r) /\ "runs" \in Parts
    BY <1>2 DEF Leaves, Parts, Told
  <2> QED BY <2>1 DEF Shows, CF!Apply, IsStore
<1> HIDE DEF r
<1>5. IsStore(r) /\ "runs" \in Parts
  BY <1>2 DEF Leaves, Parts, Told
<1>6. Shows(v, f) = [r EXCEPT !.runs = r.runs]
  BY <1>3, <1>4
<1>7. Shows(v, f) = r
  BY <1>5, <1>6 DEF IsStore
<1> QED BY <1>7 DEF r

LEMMA LatestCarried ==
    ASSUME TruthSound(truth), TruthTells(truth), NEW o \in CF!LatestNews PROVE Carried(o)
<1> DEFINE t == [truth EXCEPT !.latest = CF!Stamp]
           f == CF!Frame("latest", CF!Stamp)
<1>1. o.truth = t /\ o.frames = <<f>>
  BY DEF CF!LatestNews, CF!Told
<1>2. FrameSound(f)
  BY PlainFrame
<1>3. TruthTells(t)
  BY DEF TruthTells, TruthSound
<1>4. ASSUME NEW v, StoreSound(v), RepairedBy(v, truth)
      PROVE  RepairedBy(Shows(v, f), t) /\ (FollowedBy(v, truth) => FollowedBy(Shows(v, f), t))
  <2>1. Shows(v, f) = [v EXCEPT !.latest = CF!Stamp]
    BY <1>4, ShowsStored DEF CF!Stored, CF!Frame, CF!RecordLatest, StoreSound
  <2> HIDE DEF f
  <2>2. IsStore(v)
    BY <1>4 DEF StoreSound
  <2>3. RepairedBy(Shows(v, f), t)
    BY <1>4, <2>1, <2>2, StoreFields DEF RepairedBy, TruthSound
  <2>4. FollowedBy(v, truth) => FollowedBy(Shows(v, f), t)
    BY <1>4, <2>1, <2>2, StoreFields DEF FollowedBy, TruthSound
  <2> QED BY <2>3, <2>4
<1> QED BY <1>1, <1>2, <1>3, <1>4 DEF Carried, Carries

LEMMA LogCarried ==
    ASSUME TruthSound(truth), TruthTells(truth), NEW o \in CF!LogNews PROVE Carried(o)
<1> DEFINE t == [truth EXCEPT !.log = CF!Newest(CF!Stamp, @, LogCap)]
           f == CF!Frame("log", CF!Stamp)
<1>1. o.truth = t /\ o.frames = <<f>>
  BY DEF CF!LogNews, CF!Told
<1>2. FrameSound(f)
  BY PlainFrame
<1>3. TruthTells(t)
  BY DEF TruthTells, TruthSound
<1>4. ASSUME NEW v, StoreSound(v), RepairedBy(v, truth)
      PROVE  RepairedBy(Shows(v, f), t) /\ (FollowedBy(v, truth) => FollowedBy(Shows(v, f), t))
  <2>1. Shows(v, f) = [v EXCEPT !.log = CF!Newest(CF!Stamp, @, LogCap)]
    BY <1>4, ShowsStored DEF CF!Stored, CF!Frame, CF!RecordInLog, StoreSound
  <2> HIDE DEF f
  <2>2. IsStore(v)
    BY <1>4 DEF StoreSound
  <2>3. RepairedBy(Shows(v, f), t)
    BY <1>4, <2>1, <2>2, StoreFields DEF RepairedBy, TruthSound
  <2>4. FollowedBy(v, truth) => FollowedBy(Shows(v, f), t)
    BY <1>4, <2>1, <2>2, StoreFields DEF FollowedBy, TruthSound
  <2> QED BY <2>3, <2>4
<1> QED BY <1>1, <1>2, <1>3, <1>4 DEF Carried, Carries

LEMMA ReceiptCarried ==
    ASSUME TruthSound(truth), TruthTells(truth), NEW o \in CF!ReceiptNews PROVE Carried(o)
<1> DEFINE t == [truth EXCEPT !.receipts = @ + 1, !.log = CF!Newest(CF!Stamp, @, LogCap)]
           f == CF!Frame("receipt", CF!Stamp)
<1>1. o.truth = t /\ o.frames = <<f>>
  BY DEF CF!ReceiptNews, CF!Told
<1>2. FrameSound(f)
  BY PlainFrame
<1>3. TruthTells(t)
  BY DEF TruthTells, TruthSound
<1>4. ASSUME NEW v, StoreSound(v), RepairedBy(v, truth)
      PROVE  RepairedBy(Shows(v, f), t) /\ (FollowedBy(v, truth) => FollowedBy(Shows(v, f), t))
  <2>1. Shows(v, f) = [v EXCEPT !.receipts = @ + 1, !.log = CF!Newest(CF!Stamp, @, LogCap)]
    <3>1. Shows(v, f) = CF!Stored(v, f) /\ f.type = "receipt" /\ f.data = CF!Stamp
      BY <1>4, ShowsStored DEF CF!Frame, StoreSound
    <3>2. CF!Stored(v, f) = CF!AddVerificationReceipt(v, CF!Stamp)
      BY <3>1 DEF CF!Stored
    <3> QED BY <3>1, <3>2 DEF CF!AddVerificationReceipt
  <2> HIDE DEF f
  <2>2. IsStore(v)
    BY <1>4 DEF StoreSound
  <2>3. RepairedBy(Shows(v, f), t)
    BY <1>4, <2>1, <2>2, StoreFields DEF RepairedBy, TruthSound
  <2>4. FollowedBy(v, truth) => FollowedBy(Shows(v, f), t)
    BY <1>4, <2>1, <2>2, StoreFields DEF FollowedBy, TruthSound
  <2> QED BY <2>3, <2>4
<1> QED BY <1>1, <1>2, <1>3, <1>4 DEF Carried, Carries

\* A line of the dialogue, whatever else is true.
LEMMA BanterCarried ==
    ASSUME NEW t, TruthSound(t), TruthTells(t)
    PROVE  /\ TruthTells(CF!Banter(t).truth)
           /\ \E f : CF!Banter(t).frames = <<f>> /\ Carries(f, t, CF!Banter(t).truth)
<1> DEFINE u == [t EXCEPT !.log = CF!LastOf(Append(@, CF!Stamp), LogCap)]
           f == CF!Frame("chat_message", CF!Stamp)
<1>1. CF!Banter(t).truth = u /\ CF!Banter(t).frames = <<f>>
  BY DEF CF!Banter, CF!Told
<1>2. FrameSound(f)
  BY PlainFrame
<1>3. TruthTells(u)
  BY DEF TruthTells, TruthSound
<1>4. ASSUME NEW v, StoreSound(v), RepairedBy(v, t)
      PROVE  RepairedBy(Shows(v, f), u) /\ (FollowedBy(v, t) => FollowedBy(Shows(v, f), u))
  <2>1. Shows(v, f) = [v EXCEPT !.log = CF!LastOf(Append(@, CF!Stamp), LogCap)]
    BY <1>4, ShowsStored DEF CF!Stored, CF!Frame, CF!AddInterAgentMessage, StoreSound
  <2> HIDE DEF f
  <2>2. IsStore(v)
    BY <1>4 DEF StoreSound
  <2>3. RepairedBy(Shows(v, f), u)
    BY <1>4, <2>1, <2>2, StoreFields DEF RepairedBy, TruthSound
  <2>4. FollowedBy(v, t) => FollowedBy(Shows(v, f), u)
    BY <1>4, <2>1, <2>2, StoreFields DEF FollowedBy, TruthSound
  <2> QED BY <2>3, <2>4
<1> QED BY <1>1, <1>2, <1>3, <1>4 DEF Carries

LEMMA TelemetryCarried ==
    ASSUME TruthSound(truth), TruthTells(truth), NEW o \in CF!TelemetryNews PROVE Carried(o)
<1>0. PICK ks : LET data == [k \in ks |-> CF!Stamp]
                IN  o = CF!Told([truth EXCEPT !.telemetry = data, !.merged = CF!Merge(@, data)],
                                <<CF!Frame("telemetry", data)>>)
  BY DEF CF!TelemetryNews
<1> DEFINE data == [k \in ks |-> CF!Stamp]
           t == [truth EXCEPT !.telemetry = data, !.merged = CF!Merge(@, data)]
           f == CF!Frame("telemetry", data)
<1>1. o.truth = t /\ o.frames = <<f>>
  BY <1>0 DEF CF!Told
<1>2. FrameSound(f)
  BY PlainFrame
<1> HIDE DEF data
<1>3. TruthTells(t)
  <2>1. IsRecord(CF!Merge(truth.merged, data))
        /\ CF!Merge(CF!Merge(truth.merged, data), data) = CF!Merge(truth.merged, data)
    BY MergeIs, MergeAgain
  <2> QED BY <2>1 DEF TruthTells, TruthSound
<1>4. ASSUME NEW v, StoreSound(v), RepairedBy(v, truth)
      PROVE  RepairedBy(Shows(v, f), t) /\ (FollowedBy(v, truth) => FollowedBy(Shows(v, f), t))
  <2>1. Shows(v, f) = [v EXCEPT !.telemetry = CF!Merge(@, data)]
    BY DEF Shows, CF!Frame
  <2> HIDE DEF f
  <2>2. IsStore(v)
    BY <1>4 DEF StoreSound
  <2>3. RepairedBy(Shows(v, f), t)
    <3>1. \A k \in DOMAIN data : CF!Merge(v.telemetry, data)[k] = data[k]
      BY MergeIs
    <3> QED BY <1>4, <2>1, <2>2, <3>1, StoreFields DEF RepairedBy, TruthSound
  <2>4. FollowedBy(v, truth) => FollowedBy(Shows(v, f), t)
    BY <1>4, <2>1, <2>2, StoreFields DEF FollowedBy, TruthSound
  <2> QED BY <2>3, <2>4
<1> QED BY <1>1, <1>2, <1>3, <1>4 DEF Carried, Carries

LEMMA HardwareCarried ==
    ASSUME TruthSound(truth), TruthTells(truth), news \in Nat, NEW o \in CF!HardwareNews PROVE Carried(o)
<1> DEFINE t == [truth EXCEPT !.hardware = CF!Stamp]
           f == CF!Frame("hardware_telemetry", CF!Stamp)
<1>1. o.truth = t /\ o.frames = <<f>>
  BY DEF CF!HardwareNews, CF!Told
<1>2. FrameSound(f)
  BY DEF FrameSound, CF!Frame, CF!Stamp
<1>3. TruthTells(t)
  BY DEF TruthTells, TruthSound
<1>4. ASSUME NEW v, StoreSound(v), RepairedBy(v, truth)
      PROVE  RepairedBy(Shows(v, f), t) /\ (FollowedBy(v, truth) => FollowedBy(Shows(v, f), t))
  <2>1. Shows(v, f) = [v EXCEPT !.hardware = CF!Stamp]
    BY DEF Shows, CF!Frame
  <2> HIDE DEF f
  <2>2. IsStore(v)
    BY <1>4 DEF StoreSound
  <2>3. RepairedBy(Shows(v, f), t)
    BY <1>4, <2>1, <2>2, StoreFields DEF RepairedBy, TruthSound
  <2>4. FollowedBy(v, truth) => FollowedBy(Shows(v, f), t)
    BY <1>4, <2>1, <2>2, StoreFields DEF FollowedBy, TruthSound
  <2> QED BY <2>3, <2>4
<1> QED BY <1>1, <1>2, <1>3, <1>4 DEF Carried, Carries

LEMMA RetryCarried ==
    ASSUME TruthSound(truth), TruthTells(truth), NEW o \in CF!RetryNews PROVE Carried(o)
<1>1. PICK x : (o.truth = truth \/ o.truth = [truth EXCEPT !.retries = x])
               /\ (o.frames = << >> \/ \E d : o.frames = <<CF!Frame("retry_event", d)>>)
  <2>1. PICK t \in Things :
          \/ \E fs \in {<<CF!Frame("retry_event", "dispatching")>>, << >>} :
                o = CF!Told([truth EXCEPT !.retries = @ \ {t}], fs)
          \/ o = CF!Told([truth EXCEPT !.retries = @ \cup {t}], <<CF!Frame("retry_event", "scheduled")>>)
          \/ o = CF!Told(truth, <<CF!Frame("retry_event", "exhausted")>>)
    BY DEF CF!RetryNews
  <2>2. CASE \E fs \in {<<CF!Frame("retry_event", "dispatching")>>, << >>} :
                o = CF!Told([truth EXCEPT !.retries = @ \ {t}], fs)
    <3>1. PICK fs \in {<<CF!Frame("retry_event", "dispatching")>>, << >>} :
            o = CF!Told([truth EXCEPT !.retries = truth.retries \ {t}], fs)
      BY <2>2
    <3>2. o.truth = [truth EXCEPT !.retries = truth.retries \ {t}] /\ o.frames = fs
      BY <3>1 DEF CF!Told
    <3> QED BY <3>1, <3>2
  <2>3. CASE o = CF!Told([truth EXCEPT !.retries = @ \cup {t}], <<CF!Frame("retry_event", "scheduled")>>)
    <3>1. o.truth = [truth EXCEPT !.retries = truth.retries \cup {t}]
          /\ o.frames = <<CF!Frame("retry_event", "scheduled")>>
      BY <2>3 DEF CF!Told
    <3> QED BY <3>1
  <2>4. CASE o = CF!Told(truth, <<CF!Frame("retry_event", "exhausted")>>)
    <3>1. o.truth = truth /\ o.frames = <<CF!Frame("retry_event", "exhausted")>>
      BY <2>4 DEF CF!Told
    <3> QED BY <3>1
  <2> QED BY <2>1, <2>2, <2>3, <2>4
<1> DEFINE t == o.truth
<1>2. TruthTells(t)
  BY <1>1 DEF TruthTells, TruthSound
<1>0. /\ t.telemetry = truth.telemetry /\ t.merged = truth.merged /\ t.hardware = truth.hardware
      /\ t.tasks = truth.tasks /\ t.chairs = truth.chairs /\ t.cycles = truth.cycles /\ t.claims = truth.claims
      /\ t.receipts = truth.receipts /\ t.log = truth.log /\ t.latest = truth.latest /\ t.chat = truth.chat
      /\ t.topics = truth.topics /\ t.messages = truth.messages
  BY <1>1 DEF TruthSound
<1> HIDE DEF t
<1>3. CASE o.frames = << >>
  <2>1. Keeps(truth, t)
    BY <1>0 DEF Keeps, RepairedBy, FollowedBy
  <2> QED BY <1>2, <1>3, <2>1 DEF Carried, t
<1>4. CASE \E d : o.frames = <<CF!Frame("retry_event", d)>>
  <2>1. PICK d : o.frames = <<CF!Frame("retry_event", d)>>
    BY <1>4
  <2> DEFINE f == CF!Frame("retry_event", d)
  <2>2. FrameSound(f)
    BY PlainFrame
  <2>3. ASSUME NEW v, StoreSound(v), RepairedBy(v, truth)
        PROVE  RepairedBy(Shows(v, f), t) /\ (FollowedBy(v, truth) => FollowedBy(Shows(v, f), t))
    <3>1. \E y : Shows(v, f) = [v EXCEPT !.retries = y]
      BY <2>3, ShowsStored DEF CF!Stored, CF!Frame, CF!RecordRetryEvent, StoreSound
    <3> HIDE DEF f
    <3>2. IsStore(v)
      BY <2>3 DEF StoreSound
    <3>3. RepairedBy(Shows(v, f), t)
      BY <1>0, <2>3, <3>1, <3>2, StoreFields DEF RepairedBy
    <3>4. FollowedBy(v, truth) => FollowedBy(Shows(v, f), t)
      BY <1>0, <2>3, <3>1, <3>2, StoreFields DEF FollowedBy
    <3> QED BY <3>3, <3>4
  <2> QED BY <1>2, <2>1, <2>2, <2>3 DEF Carried, Carries, t
<1> QED BY <1>1, <1>3, <1>4

\* The list of tasks grows with a task's frame, and with no other.
LEMMA TasksShown ==
    ASSUME NEW v, IsStore(v), NEW f, f.type # "new_task"
    PROVE  Shows(v, f).tasks = v.tasks
<1>1. DOMAIN v = Parts /\ "tasks" \in Parts /\ "runs" \in Parts /\ "telemetry" \in Parts /\ "hardware" \in Parts
  BY DEF IsStore, Parts, Told
<1>2. CF!Stored(v, f).tasks = v.tasks
  BY <1>1, StoreFields DEF CF!Stored, CF!UpsertAgentNode, CF!RecordPhaseEvent, CF!RecordChairEvent, CF!ApplyChairRoster,
     CF!RecordClaimEvent, CF!RecordRetryEvent, CF!AddVerificationReceipt, CF!RecordInLog, CF!RecordLatest,
     CF!SetInterAgentChat, CF!AddInterAgentMessage, CF!OpenConversation, CF!CloseConversation, CF!ApplyMessageDelta
<1>3. IsStore(CF!Stored(v, f))
  <2>1. Alike(v, v)
    BY DEF Alike
  <2> QED BY <2>1, FramesAlike DEF StoredAlike, Leaves
<1>4. CF!Apply(v, f).tasks = v.tasks
  <2> DEFINE r == CF!Stored(v, f)
             x == CF!AgUiRuns(r.runs, f)
  <2>1. CF!Apply(v, f) = [r EXCEPT !.runs = x]
    BY <1>1, <1>3 DEF CF!Apply, IsStore
  <2> HIDE DEF r, x
  <2>2. CF!Apply(v, f).tasks = r.tasks
    BY <1>1, <2>1
  <2> QED BY <1>2, <2>2 DEF r
<1>5. CASE f.type = "telemetry"
  <2> DEFINE x == CF!Merge(v.telemetry, f.data)
  <2>1. Shows(v, f) = [v EXCEPT !.telemetry = x]
    BY <1>5 DEF Shows
  <2> HIDE DEF x
  <2> QED BY <1>1, <2>1
<1>6. CASE f.type = "hardware_telemetry"
  BY <1>1, <1>6 DEF Shows
<1>7. CASE f.type \notin {"telemetry", "hardware_telemetry"}
  BY <1>4, <1>7 DEF Shows
<1> QED BY <1>5, <1>6, <1>7

LEMMA ShowsSound ==
    ASSUME NEW v, StoreSound(v), NEW f, FrameSound(f) PROVE StoreSound(Shows(v, f))
<1>1. IsStore(v) /\ ShownSound(v) /\ IsList(v.tasks)
  BY DEF StoreSound
<1>2. IsStore(Shows(v, f))
  BY <1>1, ShowsAStore
<1>3. ShownSound(Shows(v, f))
  <2>1. CASE f.type = "telemetry"
    <3> DEFINE x == CF!Merge(v.telemetry, f.data)
    <3>1. Shows(v, f) = [v EXCEPT !.telemetry = x]
      BY <2>1 DEF Shows
    <3> HIDE DEF x
    <3>2. Same(Shows(v, f), v)
      BY <1>1, <3>1 DEF Same, ShownSound
    <3> QED BY <1>1, <3>2, SameIsSound
  <2>2. CASE f.type = "hardware_telemetry"
    <3>1. Shows(v, f) = [v EXCEPT !.hardware = f.data]
      BY <2>2 DEF Shows
    <3>2. Same(Shows(v, f), v)
      BY <1>1, <3>1 DEF Same, ShownSound
    <3> QED BY <1>1, <3>2, SameIsSound
  <2>3. CASE f.type \notin {"telemetry", "hardware_telemetry"}
    BY <1>1, <2>3, AppliedSound DEF Shows
  <2> QED BY <2>1, <2>2, <2>3
<1>4. IsList(Shows(v, f).tasks)
  <2>1. CASE f.type = "new_task"
    <3>1. CF!Stored(v, f) = CF!AddTask(v, f.data)
      BY <2>1 DEF CF!Stored
    <3>2. Shows(v, f) = CF!AddTask(v, f.data)
      BY <1>1, <2>1, <3>1, ShowsStored
    <3>3. Shows(v, f).tasks = Append(v.tasks, f.data)
      BY <1>1, <3>2, StoreFields DEF CF!AddTask
    <3>4. PICK S : v.tasks \in Seq(S)
      BY <1>1 DEF IsList
    <3> DEFINE T == S \cup {f.data}
               q == v.tasks
    <3>5. q \in Seq(T) /\ f.data \in T
      <4>1. q \in [1..Len(q) -> S] /\ Len(q) \in Nat
        BY <3>4
      <4>2. q \in [1..Len(q) -> T]
        BY <4>1
      <4> QED BY <4>1, <4>2, SeqDef
    <3> HIDE DEF T
    <3>6. Append(q, f.data) \in Seq(T)
      BY <3>5, AppendProperties
    <3> QED BY <3>3, <3>6 DEF IsList
  <2>2. CASE f.type # "new_task"
    BY <1>1, <2>2, TasksShown
  <2> QED BY <2>1, <2>2
<1> QED BY <1>2, <1>3, <1>4 DEF StoreSound

LEMMA LastOfHolds ==
    ASSUME NEW q \in Seq(Nat), NEW n \in Nat PROVE CF!ToSet(CF!LastOf(q, n)) \subseteq CF!ToSet(q)
<1> DEFINE m == IF Len(q) > n THEN Len(q) - n + 1 ELSE 1
           r == SubSeq(q, m, Len(q))
<1>1. Len(q) \in Nat /\ m \in Nat /\ m >= 1 /\ DOMAIN q = 1..Len(q)
  OBVIOUS
<1>2. CF!LastOf(q, n) = r
  BY DEF CF!LastOf
<1> HIDE DEF m
<1>3. \A i \in DOMAIN r : \E j \in DOMAIN q : r[i] = q[j]
  <2>1. Len(r) = IF m <= Len(q) THEN Len(q) - m + 1 ELSE 0
    BY <1>1, SubSeqProperties
  <2>2. DOMAIN r = 1..Len(r)
    BY <1>1, SubSeqProperties
  <2>3. ASSUME NEW i \in DOMAIN r PROVE \E j \in DOMAIN q : r[i] = q[j]
    <3>1. i \in 1..(Len(q) - m + 1) /\ m + i - 1 \in DOMAIN q
      BY <1>1, <2>1, <2>2
    <3>2. r[i] = q[m + i - 1]
      BY <1>1, <3>1, SubSeqProperties
    <3> QED BY <3>1, <3>2
  <2> QED BY <2>3
<1> HIDE DEF r
<1> QED BY <1>2, <1>3 DEF CF!ToSet

LEMMA OneMore ==
    ASSUME NEW q, IsList(q), NEW x PROVE CF!ToSet(Append(q, x)) = CF!ToSet(q) \cup {x}
<1>1. PICK S : q \in Seq(S)
  BY DEF IsList
<1> DEFINE T == S \cup {x}
<1>2. q \in Seq(T) /\ x \in T
  <2>1. q \in [1..Len(q) -> S] /\ Len(q) \in Nat
    BY <1>1
  <2>2. q \in [1..Len(q) -> T]
    BY <2>1
  <2> QED BY <2>1, <2>2, SeqDef
<1> HIDE DEF T
<1>3. /\ Len(q) \in Nat /\ DOMAIN q = 1..Len(q) /\ DOMAIN Append(q, x) = 1..Len(q) + 1
      /\ Append(q, x)[Len(q) + 1] = x /\ \A i \in 1..Len(q) : Append(q, x)[i] = q[i]
  BY <1>2, AppendProperties
<1>4. \A i \in 1..Len(q) + 1 : i \in 1..Len(q) \/ i = Len(q) + 1
  BY <1>3
<1>5. \A i \in 1..Len(q) : i \in 1..Len(q) + 1
  BY <1>3
<1>6. Len(q) + 1 \in 1..Len(q) + 1
  BY <1>3
<1> QED BY <1>3, <1>4, <1>5, <1>6 DEF CF!ToSet

LEMMA TasksCarried ==
    ASSUME TruthSound(truth), TruthTells(truth), news \in Nat, TaskCap \in Nat, NEW o \in CF!TaskNews PROVE Carried(o)
<1> DEFINE list == CF!LastOf(Append(truth.tasks, CF!Stamp), TaskCap)
           t == [truth EXCEPT !.tasks = list]
           f == CF!Frame("new_task", CF!Stamp)
<1>1. o.truth = t /\ o.frames = <<f>>
  BY DEF CF!TaskNews, CF!Told
<1>2. FrameSound(f)
  BY PlainFrame
<1>3. CF!ToSet(list) \subseteq CF!ToSet(truth.tasks) \cup {CF!Stamp}
  <2>1. truth.tasks \in Seq(Nat) /\ CF!Stamp \in Nat
    BY DEF TruthSound, CF!Stamp
  <2>2. Append(truth.tasks, CF!Stamp) \in Seq(Nat) /\ IsList(truth.tasks)
    BY <2>1 DEF IsList
  <2>3. CF!ToSet(Append(truth.tasks, CF!Stamp)) = CF!ToSet(truth.tasks) \cup {CF!Stamp}
    BY <2>2, OneMore
  <2> QED BY <2>2, <2>3, LastOfHolds
<1> HIDE DEF list
<1>4. TruthTells(t)
  BY DEF TruthTells, TruthSound
<1>5. ASSUME NEW v, StoreSound(v), RepairedBy(v, truth)
      PROVE  RepairedBy(Shows(v, f), t) /\ (FollowedBy(v, truth) => FollowedBy(Shows(v, f), t))
  <2>1. Shows(v, f) = [v EXCEPT !.tasks = Append(v.tasks, CF!Stamp)]
    BY <1>5, ShowsStored, StoreFields DEF CF!Stored, CF!Frame, CF!AddTask, StoreSound
  <2> HIDE DEF f
  <2>2. IsStore(v) /\ IsList(v.tasks)
    BY <1>5 DEF StoreSound
  <2>3. CF!ToSet(t.tasks) \subseteq CF!ToSet(Shows(v, f).tasks)
    <3>1. t.tasks = list /\ Shows(v, f).tasks = Append(v.tasks, CF!Stamp)
      BY <2>1, <2>2, StoreFields DEF TruthSound
    <3>2. CF!ToSet(Append(v.tasks, CF!Stamp)) = CF!ToSet(v.tasks) \cup {CF!Stamp}
      BY <2>2, OneMore
    <3>3. CF!ToSet(truth.tasks) \subseteq CF!ToSet(v.tasks)
      BY <1>5 DEF RepairedBy
    <3> QED BY <1>3, <3>1, <3>2, <3>3
  <2>4. RepairedBy(Shows(v, f), t)
    BY <1>5, <2>1, <2>2, <2>3, StoreFields DEF RepairedBy, TruthSound
  <2>5. FollowedBy(v, truth) => FollowedBy(Shows(v, f), t)
    BY <1>5, <2>1, <2>2, StoreFields DEF FollowedBy, TruthSound
  <2> QED BY <2>4, <2>5
<1> QED BY <1>1, <1>2, <1>4, <1>5 DEF Carried, Carries

\* A chair taken or left, shown on its card.
LEMMA ChairCarried ==
    ASSUME TruthSound(truth), TruthTells(truth), about = "chairs", NEW o \in CF!ChairNews PROVE Carried(o)
<1>0. PICK c \in [agent : Speakers, presence : CF!Presences] :
        o = CF!Told([truth EXCEPT !.chairs[c.agent] = c.presence], <<CF!Frame("chair_event", c)>>)
  BY DEF CF!ChairNews
<1> DEFINE chairs == [truth.chairs EXCEPT ![c.agent] = c.presence]
           t == [truth EXCEPT !.chairs = chairs]
           f == CF!Frame("chair_event", c)
<1>1. o.truth = t /\ o.frames = <<f>>
  <2>1. [truth EXCEPT !.chairs[c.agent] = c.presence] = t
    BY DEF TruthSound
  <2> QED BY <1>0, <2>1 DEF CF!Told
<1>2. FrameSound(f)
  BY DEF FrameSound, CF!Frame
<1>3. TruthTells(t)
  BY DEF TruthTells, TruthSound
<1>4. ASSUME NEW v, StoreSound(v), RepairedBy(v, truth)
      PROVE  RepairedBy(Shows(v, f), t) /\ (FollowedBy(v, truth) => FollowedBy(Shows(v, f), t))
  <2> DEFINE now2 == [a \in Speakers |-> IF a = c.agent /\ a \in v.cards THEN c.presence ELSE v.chairs[a]]
  <2>1. Shows(v, f) = [v EXCEPT !.chairs = now2]
    <3>1. Shows(v, f) = CF!Stored(v, f) /\ f.type = "chair_event" /\ f.data = c
      BY <1>4, ShowsStored DEF CF!Frame, StoreSound
    <3>2. CF!Stored(v, f) = CF!RecordChairEvent(v, c)
      BY <3>1 DEF CF!Stored
    <3>3. CF!RecordChairEvent(v, c) = [v EXCEPT !.chairs = now2]
      BY <1>4, StoreFields DEF CF!RecordChairEvent, StoreSound
    <3> QED BY <3>1, <3>2, <3>3
  <2> HIDE DEF f
  <2>2. IsStore(v)
    BY <1>4 DEF StoreSound
  <2>3. Speakers \subseteq v.cards
    BY <1>4 DEF RepairedBy
  <2>4. now2 = [v.chairs EXCEPT ![c.agent] = c.presence] /\ v.chairs \in [Speakers -> CF!Presences]
    BY <1>4, <2>3 DEF StoreSound, ShownSound
  <2>5. truth.chairs \in [Speakers -> CF!Presences] /\ c.agent \in Speakers
    BY DEF TruthSound
  <2>6. \A a \in Speakers : chairs[a] # "absent" => now2[a] = chairs[a]
    BY <1>4, <2>4, <2>5 DEF RepairedBy
  <2>7. v.chairs = truth.chairs => now2 = chairs
    BY <2>4
  <2> HIDE DEF now2, chairs
  <2>8. RepairedBy(Shows(v, f), t)
    BY <1>4, <2>1, <2>2, <2>6, StoreFields DEF RepairedBy, TruthSound
  <2>9. FollowedBy(v, truth) => FollowedBy(Shows(v, f), t)
    BY <1>4, <2>1, <2>2, <2>7, StoreFields DEF FollowedBy, TruthSound
  <2> QED BY <2>8, <2>9
<1> QED BY <1>1, <1>2, <1>3, <1>4 DEF Carried, Carries

\* A cycle begins, goes on or ends: its agent's card says so, and any other card
\* that is busy has a cycle still.
LEMMA PhaseCarried ==
    ASSUME NoAgent \notin Speakers, TruthSound(truth), TruthTells(truth), about = "phases", NEW o \in CF!PhaseNews
    PROVE  Carried(o)
<1>0. PICK e \in [cycle : Things, agent : Speakers, terminal : BOOLEAN] :
        /\ truth.cycles[e.cycle] \in IF e.terminal THEN {e.agent} ELSE {e.agent, NoAgent}
        /\ o = CF!Told([truth EXCEPT !.cycles[e.cycle] = IF e.terminal THEN NoAgent ELSE e.agent,
                                     !.log = CF!Newest(e.cycle, @, LogCap)], <<CF!Frame("phase_change", e)>>)
  BY DEF CF!PhaseNews
<1> DEFINE cycles == [truth.cycles EXCEPT ![e.cycle] = IF e.terminal THEN NoAgent ELSE e.agent]
           t == [truth EXCEPT !.cycles = cycles, !.log = CF!Newest(e.cycle, @, LogCap)]
           f == CF!Frame("phase_change", e)
<1>1. o.truth = t /\ o.frames = <<f>>
  <2>1. [truth EXCEPT !.cycles[e.cycle] = IF e.terminal THEN NoAgent ELSE e.agent,
                      !.log = CF!Newest(e.cycle, @, LogCap)] = t
    BY DEF TruthSound
  <2> QED BY <1>0, <2>1 DEF CF!Told
<1>2. FrameSound(f)
  BY PlainFrame
<1>3. e.cycle \in Things /\ e.agent \in Speakers /\ e.terminal \in BOOLEAN
      /\ truth.cycles \in [Things -> Speakers \cup {NoAgent}]
  BY <1>0 DEF TruthTells
<1>4. cycles \in [Things -> Speakers \cup {NoAgent}]
  BY <1>3
<1>5. \A c \in Things : cycles[c] = IF c = e.cycle THEN IF e.terminal THEN NoAgent ELSE e.agent ELSE truth.cycles[c]
  BY <1>3
<1> HIDE DEF cycles
<1>6. TruthTells(t)
  BY <1>4 DEF TruthTells, TruthSound
<1>7. ASSUME NEW v, StoreSound(v), RepairedBy(v, truth)
      PROVE  RepairedBy(Shows(v, f), t) /\ (FollowedBy(v, truth) => FollowedBy(Shows(v, f), t))
  <2> DEFINE now2 == [a \in Speakers |-> IF a = e.agent /\ a \in v.cards
                                        THEN IF e.terminal THEN "online" ELSE "dispatching" ELSE v.status[a]]
  <2>1. Shows(v, f) = [v EXCEPT !.log = CF!Newest(e.cycle, @, LogCap), !.status = now2]
    <3>1. Shows(v, f) = CF!Stored(v, f) /\ f.type = "phase_change" /\ f.data = e
      BY <1>7, ShowsStored DEF CF!Frame, StoreSound
    <3>2. CF!Stored(v, f) = CF!RecordPhaseEvent(v, e)
      BY <3>1 DEF CF!Stored
    <3>3. CF!RecordPhaseEvent(v, e) = [v EXCEPT !.log = CF!Newest(e.cycle, @, LogCap), !.status = now2]
      BY <1>7, StoreFields DEF CF!RecordPhaseEvent, StoreSound
    <3> QED BY <3>1, <3>2, <3>3
  <2> HIDE DEF f
  <2>2. IsStore(v)
    BY <1>7 DEF StoreSound
  <2>3. Speakers \subseteq v.cards
    BY <1>7 DEF RepairedBy
  <2>4. \A a \in Speakers : now2[a] = "dispatching" => \E c \in Things : cycles[c] = a
    <3> TAKE a \in Speakers
    <3>1. CASE a = e.agent
      <4>1. now2[a] = IF e.terminal THEN "online" ELSE "dispatching"
        BY <2>3, <3>1
      <4> QED BY <1>3, <1>5, <3>1, <4>1
    <3>2. CASE a # e.agent
      <4>1. now2[a] = v.status[a]
        BY <3>2
      <4>2. v.status[a] = "dispatching" => \E c \in Things : truth.cycles[c] = a
        BY <1>7 DEF RepairedBy
      <4>3. \A c \in Things : truth.cycles[c] = a => c # e.cycle
        BY <1>0, <3>2
      <4> QED BY <1>5, <4>1, <4>2, <4>3
    <3> QED BY <3>1, <3>2
  <2> HIDE DEF now2
  <2>5. RepairedBy(Shows(v, f), t)
    BY <1>7, <2>1, <2>2, <2>4, StoreFields DEF RepairedBy, TruthSound
  <2>6. FollowedBy(v, truth) => FollowedBy(Shows(v, f), t)
    BY <1>7, <2>1, <2>2, StoreFields DEF FollowedBy, TruthSound
  <2> QED BY <2>5, <2>6
<1> QED BY <1>1, <1>2, <1>6, <1>7 DEF Carried, Carries

\* How many claims are in a bucket, when one goes from it or comes to it.
InBucket(claims, b) == Cardinality({x \in Things : claims[x] = b})

ClaimMove(B, claims, c, to, d) ==
    /\ IsFiniteSet(Things) /\ claims \in [Things -> B]
    /\ c \in Things /\ to \in B /\ to # claims[c] /\ d = [claims EXCEPT ![c] = to]

LEMMA ClaimMoves ==
    ASSUME NEW B, NEW claims, NEW c, NEW to, NEW d, ClaimMove(B, claims, c, to, d), NEW b
    PROVE  /\ InBucket(claims, b) \in Nat
           /\ InBucket(d, b) =
                 IF b = to THEN InBucket(claims, b) + 1
                 ELSE IF b = claims[c] THEN InBucket(claims, b) - 1 ELSE InBucket(claims, b)
           /\ b = claims[c] => InBucket(claims, b) # 0
<1> DEFINE S == {x \in Things : claims[x] = b}
           T == {x \in Things : d[x] = b}
<1> USE DEF ClaimMove
<1>1. IsFiniteSet(S) /\ Cardinality(S) \in Nat
  BY FS_Subset, FS_CardinalityType
<1>2. CASE b = to
  <2>1. T = S \cup {c} /\ c \notin S
    BY <1>2
  <2>2. Cardinality(S \cup {c}) = Cardinality(S) + 1
    BY <1>1, <2>1, FS_AddElement
  <2> QED BY <1>1, <1>2, <2>1, <2>2 DEF InBucket
<1>3. CASE b = claims[c]
  <2>1. T = S \ {c} /\ c \in S
    BY <1>3
  <2>2. Cardinality(S \ {c}) = Cardinality(S) - 1 /\ IsFiniteSet(S \ {c})
    BY <1>1, <2>1, FS_RemoveElement
  <2>3. Cardinality(S \ {c}) \in Nat
    BY <2>2, FS_CardinalityType
  <2>4. Cardinality(S) # 0
    BY <1>1, <2>2, <2>3
  <2> QED BY <1>1, <1>3, <2>1, <2>2, <2>4 DEF InBucket
<1>4. CASE b # to /\ b # claims[c]
  <2>1. T = S
    BY <1>4
  <2> QED BY <1>1, <1>4, <2>1 DEF InBucket
<1> QED BY <1>2, <1>3, <1>4

\* FollowedBy, but for the counts of claims.
FollowedElse(v, t) ==
    /\ v.telemetry = t.merged /\ v.chairs = t.chairs
    /\ v.receipts = t.receipts /\ v.log = t.log /\ v.latest = t.latest
    /\ v.messages = t.messages
    /\ DOMAIN v.topics = DOMAIN t.topics /\ DOMAIN v.topics \subseteq DOMAIN v.runs
    /\ \A x \in DOMAIN v.topics :
          /\ (v.topics[x] = "closed") <=> (t.topics[x] = "closed")
          /\ (v.runs[x] = "finished") <=> (t.topics[x] # "open")

LEMMA FollowedParts ==
    ASSUME NEW v, NEW t
    PROVE  FollowedBy(v, t) <=>
               /\ FollowedElse(v, t)
               /\ \A b \in CF!Buckets \ {"Released"} : v.claims[b] = InBucket(t.claims, b)
BY DEF FollowedBy, FollowedElse, InBucket

\* The counts that the store makes of a claim's move are those of the claims.
LEMMA CountsMove ==
    ASSUME IsFiniteSet(Things), NEW claims \in [Things -> CF!Buckets \cup {"none"}], NEW c \in Things,
           NEW to \in CF!Buckets, to # claims[c], NEW s, s.claims \in [CF!Buckets -> Nat], "claims" \in DOMAIN s,
           \A b \in CF!Buckets \ {"Released"} : s.claims[b] = InBucket(claims, b),
           claims[c] # "Released", NEW e, e = [previous |-> claims[c], state |-> to]
    PROVE  \A b \in CF!Buckets \ {"Released"} :
              CF!RecordClaimEvent(s, e).claims[b] = InBucket([claims EXCEPT ![c] = to], b)
<1> DEFINE p == claims[c]
           B == CF!Buckets \cup {"none"}
           n == s.claims
           m == IF n[p] = 0 THEN 0 ELSE n[p] - 1
           left == [n EXCEPT ![p] = m]
           from == IF p = "none" THEN n ELSE left
           counted == [from EXCEPT ![to] = from[to] + 1]
<1>1. CF!RecordClaimEvent(s, e).claims = counted
  <2>1. e.previous = p /\ e.state = to
    OBVIOUS
  <2> HIDE DEF p
  <2>2. CF!RecordClaimEvent(s, e) = [s EXCEPT !.claims = counted]
    BY <2>1 DEF CF!RecordClaimEvent
  <2> QED BY <2>2
<1>2. "none" \notin CF!Buckets /\ p \in B /\ to \in B /\ claims \in [Things -> B] /\ to # claims[c]
  BY DEF CF!Buckets
<1>3. n \in [CF!Buckets -> Nat]
  OBVIOUS
<1>4. \A b \in CF!Buckets \ {"Released"} : n[b] = InBucket(claims, b)
  OBVIOUS
<1> HIDE DEF n
<1>5. TAKE b \in CF!Buckets \ {"Released"}
<1>6. /\ InBucket(claims, b) \in Nat
      /\ InBucket([claims EXCEPT ![c] = to], b) =
            IF b = to THEN InBucket(claims, b) + 1
            ELSE IF b = claims[c] THEN InBucket(claims, b) - 1 ELSE InBucket(claims, b)
      /\ b = claims[c] => InBucket(claims, b) # 0
  <2> DEFINE d == [claims EXCEPT ![c] = to]
  <2>1. d = [claims EXCEPT ![c] = to]
    OBVIOUS
  <2> HIDE DEF B, p, m, left, from, counted, d
  <2>2. /\ InBucket(claims, b) \in Nat
        /\ InBucket(d, b) =
              IF b = to THEN InBucket(claims, b) + 1
              ELSE IF b = claims[c] THEN InBucket(claims, b) - 1 ELSE InBucket(claims, b)
        /\ b = claims[c] => InBucket(claims, b) # 0
    <3>1. ClaimMove(B, claims, c, to, d)
      BY <1>2, <2>1 DEF ClaimMove
    <3> QED BY <3>1, ClaimMoves
  <2> QED BY <2>2 DEF d
<1>7. from[b] = IF b = p THEN n[b] - 1 ELSE n[b]
  <2>1. CASE b = p
    <3>1. n[b] # 0 /\ p # "none"
      BY <1>2, <1>4, <1>6, <2>1
    <3>2. from[b] = m
      BY <1>3, <2>1, <3>1
    <3> QED BY <2>1, <3>1, <3>2
  <2>2. CASE b # p
    BY <1>3, <2>2
  <2> QED BY <2>1, <2>2
<1>8. counted[b] = IF b = to THEN from[b] + 1 ELSE from[b]
  <2>1. DOMAIN from = CF!Buckets
    BY <1>3
  <2> HIDE DEF from
  <2> QED BY <2>1
<1>9. counted[b] = IF b = to THEN n[b] + 1 ELSE IF b = p THEN n[b] - 1 ELSE n[b]
  <2> HIDE DEF counted, from
  <2> QED BY <1>7, <1>8
<1> HIDE DEF counted
<1> QED BY <1>1, <1>4, <1>6, <1>9

LEMMA LegalMoves == \A b \in CF!Buckets : b \notin CF!Legal[b]
BY DEF CF!Legal, CF!Buckets

LEMMA NoMoveFromReleased == CF!Legal["Released"] = {}
BY DEF CF!Legal

LEMMA ClaimCarried ==
    ASSUME IsFiniteSet(Things), TruthSound(truth), TruthTells(truth), NEW o \in CF!ClaimNews PROVE Carried(o)
<1>0. truth.claims \in [Things -> CF!Buckets \cup {"none"}]
  BY DEF TruthSound
<1>1. ASSUME NEW c \in Things, NEW to
      PROVE  /\ [truth EXCEPT !.claims[c] = to] = [truth EXCEPT !.claims = [truth.claims EXCEPT ![c] = to]]
             /\ TruthTells([truth EXCEPT !.claims = [truth.claims EXCEPT ![c] = to]])
  <2> DEFINE x == [truth.claims EXCEPT ![c] = to]
  <2>1. [truth EXCEPT !.claims[c] = to] = [truth EXCEPT !.claims = x]
    BY DEF TruthSound
  <2> HIDE DEF x
  <2>2. TruthTells([truth EXCEPT !.claims = x])
    BY DEF TruthTells, TruthSound
  <2> QED BY <2>1, <2>2 DEF x
<1>2. CASE \E c \in Things : truth.claims[c] = "Released" /\ o = CF!Told([truth EXCEPT !.claims[c] = "none"], << >>)
  <2>1. PICK c \in Things : truth.claims[c] = "Released" /\ o = CF!Told([truth EXCEPT !.claims[c] = "none"], << >>)
    BY <1>2
  <2> DEFINE claims == [truth.claims EXCEPT ![c] = "none"]
             t == [truth EXCEPT !.claims = claims]
  <2>2. o.truth = t /\ o.frames = << >> /\ TruthTells(t)
    BY <1>1, <2>1 DEF CF!Told
  <2>3. \A b \in CF!Buckets \ {"Released"} : InBucket(claims, b) = InBucket(truth.claims, b)
    <3> TAKE b \in CF!Buckets \ {"Released"}
    <3>1. b # "none" /\ b # "Released"
      BY DEF CF!Buckets
    <3> DEFINE B == CF!Buckets \cup {"none"}
    <3>2. truth.claims \in [Things -> B] /\ "none" \in B /\ "none" # truth.claims[c]
      BY <1>0, <2>1
    <3> HIDE DEF B
    <3>3. claims = [truth.claims EXCEPT ![c] = "none"]
      OBVIOUS
    <3> HIDE DEF claims
    <3>4. InBucket(claims, b) =
            IF b = "none" THEN InBucket(truth.claims, b) + 1
            ELSE IF b = truth.claims[c] THEN InBucket(truth.claims, b) - 1 ELSE InBucket(truth.claims, b)
      <4>1. ClaimMove(B, truth.claims, c, "none", claims)
        BY <3>2, <3>3 DEF ClaimMove
      <4> QED BY <4>1, ClaimMoves
    <3> QED BY <2>1, <3>1, <3>4
  <2> HIDE DEF claims
  <2>4. ASSUME NEW v PROVE RepairedBy(v, truth) => RepairedBy(v, t)
    BY DEF RepairedBy, TruthSound
  <2>5. ASSUME NEW v PROVE FollowedBy(v, truth) => FollowedBy(v, t)
    <3>1. FollowedElse(v, truth) => FollowedElse(v, t)
      BY DEF FollowedElse, TruthSound
    <3>2. t.claims = claims
      BY DEF TruthSound
    <3> QED BY <2>3, <3>1, <3>2, FollowedParts
  <2> QED BY <2>2, <2>4, <2>5 DEF Carried, Keeps
<1>3. CASE \E c \in Things :
             \E to \in IF truth.claims[c] = "none" THEN {"Unclaimed"} ELSE CF!Legal[truth.claims[c]] :
                o = CF!Told([truth EXCEPT !.claims[c] = to],
                            <<CF!Frame("claim_event", [previous |-> truth.claims[c], state |-> to])>>)
  <2>0. PICK c \in Things :
          \E to \in IF truth.claims[c] = "none" THEN {"Unclaimed"} ELSE CF!Legal[truth.claims[c]] :
             o = CF!Told([truth EXCEPT !.claims[c] = to],
                         <<CF!Frame("claim_event", [previous |-> truth.claims[c], state |-> to])>>)
    BY <1>3
  <2>1. PICK to \in IF truth.claims[c] = "none" THEN {"Unclaimed"} ELSE CF!Legal[truth.claims[c]] :
          o = CF!Told([truth EXCEPT !.claims[c] = to],
                      <<CF!Frame("claim_event", [previous |-> truth.claims[c], state |-> to])>>)
    BY <2>0
  <2> DEFINE e == [previous |-> truth.claims[c], state |-> to]
             claims == [truth.claims EXCEPT ![c] = to]
             t == [truth EXCEPT !.claims = claims]
             f == CF!Frame("claim_event", e)
  <2>2. o.truth = t /\ o.frames = <<f>> /\ TruthTells(t)
    BY <1>1, <2>1 DEF CF!Told
  <2>3. truth.claims[c] \in CF!Buckets \cup {"none"}
    BY <1>0
  <2>4. to \in CF!Buckets /\ to # truth.claims[c] /\ truth.claims[c] # "Released"
    <3>1. CASE truth.claims[c] = "none"
      BY <2>1, <3>1 DEF CF!Buckets
    <3>2. CASE truth.claims[c] # "none"
      BY <2>1, <2>3, <3>2, LegalIsBucket, LegalMoves, NoMoveFromReleased
    <3> QED BY <3>1, <3>2
  <2>5. FrameSound(f)
    BY <2>3, <2>4 DEF FrameSound, CF!Frame
  <2>6. ASSUME NEW v, StoreSound(v), RepairedBy(v, truth)
        PROVE  RepairedBy(Shows(v, f), t) /\ (FollowedBy(v, truth) => FollowedBy(Shows(v, f), t))
    <3>1. IsStore(v) /\ v.claims \in [CF!Buckets -> Nat]
      BY <2>6 DEF StoreSound, ShownSound
    <3>2. Shows(v, f) = CF!RecordClaimEvent(v, e)
      <4>1. Shows(v, f) = CF!Stored(v, f) /\ f.type = "claim_event" /\ f.data = e
        BY <3>1, ShowsStored DEF CF!Frame
      <4> QED BY <4>1 DEF CF!Stored
    <3> DEFINE n == CF!RecordClaimEvent(v, e).claims
    <3>3. Shows(v, f) = [v EXCEPT !.claims = n]
      <4>1. \E x : CF!RecordClaimEvent(v, e) = [v EXCEPT !.claims = x]
        BY DEF CF!RecordClaimEvent
      <4>2. PICK x : CF!RecordClaimEvent(v, e) = [v EXCEPT !.claims = x]
        BY <4>1
      <4>3. n = x
        BY <3>1, <4>2, StoreFields
      <4> QED BY <3>2, <4>2, <4>3
    <3>4. (\A b \in CF!Buckets \ {"Released"} : v.claims[b] = InBucket(truth.claims, b))
          => \A b \in CF!Buckets \ {"Released"} : n[b] = InBucket(claims, b)
      <4>1. "claims" \in DOMAIN v
        BY <3>1, StoreFields
      <4> QED BY <1>0, <2>4, <3>1, <4>1, CountsMove
    <3> HIDE DEF f, n, claims
    <3>5. RepairedBy(Shows(v, f), t)
      BY <2>6, <3>1, <3>3, StoreFields DEF RepairedBy, TruthSound
    <3>6. FollowedElse(v, truth) => FollowedElse(Shows(v, f), t)
      BY <3>1, <3>3, StoreFields DEF FollowedElse, TruthSound
    <3>7. Shows(v, f).claims = n /\ t.claims = claims
      BY <3>1, <3>3, StoreFields DEF TruthSound
    <3>8. FollowedBy(v, truth) => FollowedBy(Shows(v, f), t)
      BY <3>4, <3>6, <3>7, FollowedParts
    <3> QED BY <3>5, <3>8
  <2> QED BY <2>2, <2>5, <2>6 DEF Carried, Carries
<1>4. \/ \E c \in Things : truth.claims[c] = "Released" /\ o = CF!Told([truth EXCEPT !.claims[c] = "none"], << >>)
      \/ \E c \in Things :
            \E to \in IF truth.claims[c] = "none" THEN {"Unclaimed"} ELSE CF!Legal[truth.claims[c]] :
               o = CF!Told([truth EXCEPT !.claims[c] = to],
                           <<CF!Frame("claim_event", [previous |-> truth.claims[c], state |-> to])>>)
  BY DEF CF!ClaimNews
<1> QED BY <1>2, <1>3, <1>4

\* What a debate's frame is to the two readers of it: the store's topics and the
\* runs of the AG-UI envelope.
LEMMA TopicShown ==
    ASSUME NEW v, IsStore(v), NEW x
    PROVE  /\ Shows(v, CF!Frame("topic_opened", x)) =
                 [v EXCEPT !.topics = CF!Merge(@, [y \in {x} |-> "open"]), !.runs = CF!Merge(@, [y \in {x} |-> "started"])]
           /\ Shows(v, CF!Frame("stopped", x)) = [v EXCEPT !.runs = CF!Merge(@, [y \in {x} |-> "finished"])]
           /\ Shows(v, CF!Frame("topic_closed", x)) =
                 [v EXCEPT !.topics = [y \in DOMAIN @ |-> IF y = x THEN "closed" ELSE @[y]],
                           !.runs = CF!Merge(@, [y \in {x} |-> "finished"])]
<1>0. "topics" \in DOMAIN v /\ "runs" \in DOMAIN v
  BY StoreFields
<1>1. Shows(v, CF!Frame("topic_opened", x)) =
        [v EXCEPT !.topics = CF!Merge(@, [y \in {x} |-> "open"]), !.runs = CF!Merge(@, [y \in {x} |-> "started"])]
  <2> DEFINE f == CF!Frame("topic_opened", x)
             m == CF!Merge(v.topics, [y \in {x} |-> "open"])
             n == CF!Merge(v.runs, [y \in {x} |-> "started"])
  <2>1. CF!Stored(v, f) = [v EXCEPT !.topics = m]
    BY DEF CF!Stored, CF!OpenConversation, CF!Frame
  <2>2. CF!AgUiRuns(v.runs, f) = n
    BY DEF CF!AgUiRuns, CF!Frame
  <2>3. Shows(v, f) = CF!Apply(v, f)
    BY DEF Shows, CF!Frame
  <2> HIDE DEF f, m, n
  <2>4. [v EXCEPT !.topics = m].runs = v.runs /\ "runs" \in DOMAIN [v EXCEPT !.topics = m]
    BY <1>0
  <2>5. CF!Apply(v, f) = [[v EXCEPT !.topics = m] EXCEPT !.runs = n]
    BY <2>1, <2>2, <2>4 DEF CF!Apply
  <2>6. [v EXCEPT !.topics = CF!Merge(@, [y \in {x} |-> "open"]), !.runs = CF!Merge(@, [y \in {x} |-> "started"])]
        = [[v EXCEPT !.topics = m] EXCEPT !.runs = n]
    BY <1>0 DEF m, n
  <2>7. Shows(v, f) =
        [v EXCEPT !.topics = CF!Merge(@, [y \in {x} |-> "open"]), !.runs = CF!Merge(@, [y \in {x} |-> "started"])]
    BY <2>3, <2>5, <2>6
  <2> QED BY <2>7 DEF f
<1>2. Shows(v, CF!Frame("stopped", x)) = [v EXCEPT !.runs = CF!Merge(@, [y \in {x} |-> "finished"])]
  <2> DEFINE f == CF!Frame("stopped", x)
             n == CF!Merge(v.runs, [y \in {x} |-> "finished"])
  <2>1. CF!Stored(v, f) = v
    BY DEF CF!Stored, CF!Frame
  <2>2. CF!AgUiRuns(v.runs, f) = n
    BY DEF CF!AgUiRuns, CF!Frame
  <2>3. Shows(v, f) = CF!Apply(v, f)
    BY DEF Shows, CF!Frame
  <2> HIDE DEF f, n
  <2>4. Shows(v, f) = [v EXCEPT !.runs = n]
    BY <1>0, <2>1, <2>2, <2>3 DEF CF!Apply
  <2> QED BY <2>4 DEF f, n
<1>3. Shows(v, CF!Frame("topic_closed", x)) =
        [v EXCEPT !.topics = [y \in DOMAIN @ |-> IF y = x THEN "closed" ELSE @[y]],
                  !.runs = CF!Merge(@, [y \in {x} |-> "finished"])]
  <2> DEFINE f == CF!Frame("topic_closed", x)
             m == [y \in DOMAIN v.topics |-> IF y = x THEN "closed" ELSE v.topics[y]]
             n == CF!Merge(v.runs, [y \in {x} |-> "finished"])
  <2>1. CF!Stored(v, f) = [v EXCEPT !.topics = m]
    BY DEF CF!Stored, CF!CloseConversation, CF!Frame
  <2>2. CF!AgUiRuns(v.runs, f) = n
    BY DEF CF!AgUiRuns, CF!Frame
  <2>3. Shows(v, f) = CF!Apply(v, f)
    BY DEF Shows, CF!Frame
  <2> HIDE DEF f, m, n
  <2>4. [v EXCEPT !.topics = m].runs = v.runs /\ "runs" \in DOMAIN [v EXCEPT !.topics = m]
    BY <1>0
  <2>5. CF!Apply(v, f) = [[v EXCEPT !.topics = m] EXCEPT !.runs = n]
    BY <2>1, <2>2, <2>4 DEF CF!Apply
  <2>6. Shows(v, f) = [[v EXCEPT !.topics = m] EXCEPT !.runs = n]
    BY <2>3, <2>5
  <2> QED BY <2>6 DEF f, m, n
<1> QED BY <1>1, <1>2, <1>3

\* FollowedBy, but for the topics.
TopicsFollowed(v, t) ==
    /\ DOMAIN v.topics = DOMAIN t.topics /\ DOMAIN v.topics \subseteq DOMAIN v.runs
    /\ \A x \in DOMAIN v.topics :
          /\ (v.topics[x] = "closed") <=> (t.topics[x] = "closed")
          /\ (v.runs[x] = "finished") <=> (t.topics[x] # "open")

\* A store and a truth that differ from others in nothing but their topics.
TopicsOnly(v, w, t, u, m, n, k) ==
    /\ IsStore(v) /\ TruthSound(t)
    /\ w = [[v EXCEPT !.topics = m] EXCEPT !.runs = n] /\ u = [t EXCEPT !.topics = k]

LEMMA TopicsChange ==
    ASSUME NEW v, NEW w, NEW t, NEW u, NEW m, NEW n, NEW k, TopicsOnly(v, w, t, u, m, n, k)
    PROVE  /\ RepairedBy(v, t) => RepairedBy(w, u)
           /\ FollowedBy(v, t) /\ TopicsFollowed(w, u) => FollowedBy(w, u)
           /\ FollowedBy(v, t) => TopicsFollowed(v, t)
           /\ w.topics = m /\ w.runs = n /\ u.topics = k
<1>1. w.topics = m /\ w.runs = n /\ u.topics = k
  BY StoreFields DEF TruthSound, TopicsOnly
<1>2. /\ w.telemetry = v.telemetry /\ w.hardware = v.hardware /\ w.tasks = v.tasks /\ w.cards = v.cards
      /\ w.chairs = v.chairs /\ w.status = v.status /\ w.claims = v.claims /\ w.receipts = v.receipts
      /\ w.log = v.log /\ w.latest = v.latest /\ w.chat = v.chat /\ w.messages = v.messages
  BY StoreFields DEF TopicsOnly
<1>3. /\ u.telemetry = t.telemetry /\ u.merged = t.merged /\ u.hardware = t.hardware
      /\ u.tasks = t.tasks /\ u.chairs = t.chairs /\ u.cycles = t.cycles /\ u.claims = t.claims
      /\ u.receipts = t.receipts /\ u.log = t.log /\ u.latest = t.latest /\ u.chat = t.chat
      /\ u.messages = t.messages
  BY DEF TruthSound, TopicsOnly
<1>4. RepairedBy(v, t) => RepairedBy(w, u)
  BY <1>2, <1>3 DEF RepairedBy
<1>5. FollowedBy(v, t) /\ TopicsFollowed(w, u) => FollowedBy(w, u)
  BY <1>2, <1>3 DEF FollowedBy, TopicsFollowed
<1>6. FollowedBy(v, t) => TopicsFollowed(v, t)
  BY DEF FollowedBy, TopicsFollowed
<1> QED BY <1>1, <1>4, <1>5, <1>6

TopicTruth(k) == [truth EXCEPT !.topics = k]

LEMMA TopicOpensCarried ==
    ASSUME TruthSound(truth), NEW x \in Things \ DOMAIN truth.topics
    PROVE  Carries(CF!Frame("topic_opened", x), truth,
                   TopicTruth(CF!Merge(truth.topics, [y \in {x} |-> "open"])))
<1> DEFINE f == CF!Frame("topic_opened", x)
           k == CF!Merge(truth.topics, [y \in {x} |-> "open"])
           t == TopicTruth(k)
<1>1. FrameSound(f)
  BY PlainFrame
<1>2. ASSUME NEW v, StoreSound(v), RepairedBy(v, truth)
      PROVE  RepairedBy(Shows(v, f), t) /\ (FollowedBy(v, truth) => FollowedBy(Shows(v, f), t))
  <2> DEFINE m == CF!Merge(v.topics, [y \in {x} |-> "open"])
             n == CF!Merge(v.runs, [y \in {x} |-> "started"])
             w == Shows(v, f)
  <2>1. IsStore(v)
    BY <1>2 DEF StoreSound
  <2>2. w = [[v EXCEPT !.topics = m] EXCEPT !.runs = n]
    BY <2>1, TopicShown, StoreFields
  <2>3. TopicsFollowed(v, truth) => DOMAIN m = DOMAIN k /\ DOMAIN m \subseteq DOMAIN n
        /\ \A y \in DOMAIN m : /\ (m[y] = "closed") <=> (k[y] = "closed")
                               /\ (n[y] = "finished") <=> (k[y] # "open")
    BY DEF TopicsFollowed, CF!Merge
  <2>4. t = [truth EXCEPT !.topics = k]
    BY DEF TopicTruth
  <2> HIDE DEF m, n, w, k, t
  <2>5. /\ RepairedBy(v, truth) => RepairedBy(w, t)
        /\ FollowedBy(v, truth) /\ TopicsFollowed(w, t) => FollowedBy(w, t)
        /\ FollowedBy(v, truth) => TopicsFollowed(v, truth)
        /\ w.topics = m /\ w.runs = n /\ t.topics = k
    <3>1. TopicsOnly(v, w, truth, t, m, n, k)
      BY <2>1, <2>2, <2>4 DEF TopicsOnly
    <3> QED BY <3>1, TopicsChange
  <2>6. TopicsFollowed(v, truth) => TopicsFollowed(w, t)
    BY <2>3, <2>5 DEF TopicsFollowed
  <2>7. RepairedBy(w, t) /\ (FollowedBy(v, truth) => FollowedBy(w, t))
    BY <1>2, <2>5, <2>6
  <2> QED BY <2>7 DEF w
<1> HIDE DEF f, t, k
<1>3. Carries(f, truth, t)
  BY <1>1, <1>2 DEF Carries
<1> QED BY <1>3 DEF f, t, k

LEMMA TopicStopsCarried ==
    ASSUME TruthSound(truth), NEW x \in DOMAIN truth.topics, truth.topics[x] = "open"
    PROVE  Carries(CF!Frame("stopped", x), truth, TopicTruth([truth.topics EXCEPT ![x] = "stopped"]))
<1> DEFINE f == CF!Frame("stopped", x)
           k == [truth.topics EXCEPT ![x] = "stopped"]
           t == TopicTruth(k)
<1>1. FrameSound(f)
  BY PlainFrame
<1>2. ASSUME NEW v, StoreSound(v), RepairedBy(v, truth)
      PROVE  RepairedBy(Shows(v, f), t) /\ (FollowedBy(v, truth) => FollowedBy(Shows(v, f), t))
  <2> DEFINE m == v.topics
             n == CF!Merge(v.runs, [y \in {x} |-> "finished"])
             w == Shows(v, f)
  <2>1. IsStore(v)
    BY <1>2 DEF StoreSound
  <2>2. w = [[v EXCEPT !.topics = m] EXCEPT !.runs = n]
    <3>1. w = [v EXCEPT !.runs = n]
      BY <2>1, TopicShown
    <3>2. [v EXCEPT !.topics = m] = v
      BY <2>1, StoreFields
    <3> QED BY <3>1, <3>2
  <2>3. TopicsFollowed(v, truth) => DOMAIN m = DOMAIN k /\ DOMAIN m \subseteq DOMAIN n
        /\ \A y \in DOMAIN m : /\ (m[y] = "closed") <=> (k[y] = "closed")
                               /\ (n[y] = "finished") <=> (k[y] # "open")
    BY DEF TopicsFollowed, CF!Merge
  <2>4. t = [truth EXCEPT !.topics = k]
    BY DEF TopicTruth
  <2> HIDE DEF m, n, w, k, t
  <2>5. /\ RepairedBy(v, truth) => RepairedBy(w, t)
        /\ FollowedBy(v, truth) /\ TopicsFollowed(w, t) => FollowedBy(w, t)
        /\ FollowedBy(v, truth) => TopicsFollowed(v, truth)
        /\ w.topics = m /\ w.runs = n /\ t.topics = k
    <3>1. TopicsOnly(v, w, truth, t, m, n, k)
      BY <2>1, <2>2, <2>4 DEF TopicsOnly
    <3> QED BY <3>1, TopicsChange
  <2>6. TopicsFollowed(v, truth) => TopicsFollowed(w, t)
    BY <2>3, <2>5 DEF TopicsFollowed
  <2>7. RepairedBy(w, t) /\ (FollowedBy(v, truth) => FollowedBy(w, t))
    BY <1>2, <2>5, <2>6
  <2> QED BY <2>7 DEF w
<1> HIDE DEF f, t, k
<1>3. Carries(f, truth, t)
  BY <1>1, <1>2 DEF Carries
<1> QED BY <1>3 DEF f, t, k

LEMMA TopicClosesCarried ==
    ASSUME TruthSound(truth), NEW x \in DOMAIN truth.topics
    PROVE  Carries(CF!Frame("topic_closed", x), truth, TopicTruth([truth.topics EXCEPT ![x] = "closed"]))
<1> DEFINE f == CF!Frame("topic_closed", x)
           k == [truth.topics EXCEPT ![x] = "closed"]
           t == TopicTruth(k)
<1>1. FrameSound(f)
  BY PlainFrame
<1>2. ASSUME NEW v, StoreSound(v), RepairedBy(v, truth)
      PROVE  RepairedBy(Shows(v, f), t) /\ (FollowedBy(v, truth) => FollowedBy(Shows(v, f), t))
  <2> DEFINE m == [y \in DOMAIN v.topics |-> IF y = x THEN "closed" ELSE v.topics[y]]
             n == CF!Merge(v.runs, [y \in {x} |-> "finished"])
             w == Shows(v, f)
  <2>1. IsStore(v)
    BY <1>2 DEF StoreSound
  <2>2. w = [[v EXCEPT !.topics = m] EXCEPT !.runs = n]
    BY <2>1, TopicShown, StoreFields
  <2>3. TopicsFollowed(v, truth) => DOMAIN m = DOMAIN k /\ DOMAIN m \subseteq DOMAIN n
        /\ \A y \in DOMAIN m : /\ (m[y] = "closed") <=> (k[y] = "closed")
                               /\ (n[y] = "finished") <=> (k[y] # "open")
    BY DEF TopicsFollowed, CF!Merge
  <2>4. t = [truth EXCEPT !.topics = k]
    BY DEF TopicTruth
  <2> HIDE DEF m, n, w, k, t
  <2>5. /\ RepairedBy(v, truth) => RepairedBy(w, t)
        /\ FollowedBy(v, truth) /\ TopicsFollowed(w, t) => FollowedBy(w, t)
        /\ FollowedBy(v, truth) => TopicsFollowed(v, truth)
        /\ w.topics = m /\ w.runs = n /\ t.topics = k
    <3>1. TopicsOnly(v, w, truth, t, m, n, k)
      BY <2>1, <2>2, <2>4 DEF TopicsOnly
    <3> QED BY <3>1, TopicsChange
  <2>6. TopicsFollowed(v, truth) => TopicsFollowed(w, t)
    BY <2>3, <2>5 DEF TopicsFollowed
  <2>7. RepairedBy(w, t) /\ (FollowedBy(v, truth) => FollowedBy(w, t))
    BY <1>2, <2>5, <2>6
  <2> QED BY <2>7 DEF w
<1> HIDE DEF f, t, k
<1>3. Carries(f, truth, t)
  BY <1>1, <1>2 DEF Carries
<1> QED BY <1>3 DEF f, t, k

\* The messages of a debate, after a delta of one.
MessagesAfter(list, m) ==
    LET at == {i \in DOMAIN list : list[i].id = m}
    IN  IF at # {} THEN [i \in DOMAIN list |-> IF i \in at THEN [id |-> m, parts |-> list[i].parts + 1] ELSE list[i]]
        ELSE CF!LastOf(Append(list, [id |-> m, parts |-> 1]), LogCap)

LEMMA DeltaApplied ==
    ASSUME NEW s, NEW m, "messages" \in DOMAIN s
    PROVE  /\ CF!ApplyMessageDelta(s, m) = [s EXCEPT !.messages = MessagesAfter(s.messages, m)]
           /\ CF!ApplyMessageDelta(s, m).messages = MessagesAfter(s.messages, m)
<1> DEFINE x == MessagesAfter(s.messages, m)
<1>1. CF!ApplyMessageDelta(s, m) = [s EXCEPT !.messages = x]
  <2> DEFINE at == {i \in DOMAIN s.messages : s.messages[i].id = m}
             old == [i \in DOMAIN s.messages |-> IF i \in at THEN [id |-> m, parts |-> s.messages[i].parts + 1]
                                                 ELSE s.messages[i]]
             more == CF!LastOf(Append(s.messages, [id |-> m, parts |-> 1]), LogCap)
  <2>1. CF!ApplyMessageDelta(s, m) = [s EXCEPT !.messages = IF at # {} THEN old ELSE more]
    BY Zenon DEF CF!ApplyMessageDelta
  <2>2. x = IF at # {} THEN old ELSE more
    BY Zenon DEF MessagesAfter
  <2> QED BY <2>1, <2>2
<1> HIDE DEF x
<1>2. CF!ApplyMessageDelta(s, m).messages = x
  BY <1>1
<1> QED BY <1>1, <1>2 DEF x

LEMMA MessageCarried ==
    ASSUME TruthSound(truth), NEW x
    PROVE  Carries(CF!Frame("message_delta", x), truth,
                   [truth EXCEPT !.messages = CF!ApplyMessageDelta(truth, x).messages])
<1> DEFINE f == CF!Frame("message_delta", x)
           k == CF!ApplyMessageDelta(truth, x).messages
           t == [truth EXCEPT !.messages = k]
<1>1. FrameSound(f)
  BY PlainFrame
<1>2. k = MessagesAfter(truth.messages, x)
  BY DeltaApplied DEF TruthSound
<1>3. ASSUME NEW v, StoreSound(v), RepairedBy(v, truth)
      PROVE  RepairedBy(Shows(v, f), t) /\ (FollowedBy(v, truth) => FollowedBy(Shows(v, f), t))
  <2> DEFINE m == MessagesAfter(v.messages, x)
  <2>1. IsStore(v)
    BY <1>3 DEF StoreSound
  <2>2. Shows(v, f) = [v EXCEPT !.messages = m]
    <3>1. Shows(v, f) = CF!Stored(v, f) /\ f.type = "message_delta" /\ f.data = x
      BY <2>1, ShowsStored DEF CF!Frame
    <3>2. CF!Stored(v, f) = CF!ApplyMessageDelta(v, x)
      BY <3>1 DEF CF!Stored
    <3> QED BY <2>1, <3>1, <3>2, DeltaApplied, StoreFields
  <2>3. v.messages = truth.messages => m = k
    BY <1>2
  <2> HIDE DEF m, f, k
  <2>4. RepairedBy(Shows(v, f), t)
    BY <1>3, <2>1, <2>2, StoreFields DEF RepairedBy, TruthSound
  <2>5. FollowedBy(v, truth) => FollowedBy(Shows(v, f), t)
    BY <2>1, <2>2, <2>3, StoreFields DEF FollowedBy, TruthSound
  <2> QED BY <2>4, <2>5
<1> HIDE DEF f, k
<1>4. Carries(f, truth, t)
  BY <1>1, <1>3 DEF Carries
<1> QED BY <1>4 DEF f, k

LEMMA DebateCarried ==
    ASSUME TruthSound(truth), TruthTells(truth), NEW o \in CF!DebateNews PROVE Carried(o)
<1>0. "topics" \in DOMAIN truth /\ "messages" \in DOMAIN truth
  BY DEF TruthSound
<1>1. ASSUME NEW k PROVE TruthTells(TopicTruth(k)) /\ TruthTells([truth EXCEPT !.messages = k])
  BY DEF TopicTruth, TruthTells, TruthSound
<1>2. CASE \E x \in Things \ DOMAIN truth.topics :
             o = CF!Told([truth EXCEPT !.topics = CF!Merge(@, [y \in {x} |-> "open"])], <<CF!Frame("topic_opened", x)>>)
  <2>1. PICK x \in Things \ DOMAIN truth.topics :
             o = CF!Told([truth EXCEPT !.topics = CF!Merge(@, [y \in {x} |-> "open"])], <<CF!Frame("topic_opened", x)>>)
    BY <1>2
  <2> DEFINE k == CF!Merge(truth.topics, [y \in {x} |-> "open"])
             f == CF!Frame("topic_opened", x)
  <2>2. o.truth = TopicTruth(k) /\ o.frames = <<f>>
    BY <2>1 DEF CF!Told, TopicTruth
  <2>3. Carries(f, truth, TopicTruth(k))
    BY TopicOpensCarried
  <2> HIDE DEF k, f
  <2> QED BY <1>1, <2>2, <2>3 DEF Carried
<1>3. CASE \E x \in {y \in DOMAIN truth.topics : truth.topics[y] = "open"} :
             o = CF!Told([truth EXCEPT !.topics[x] = "stopped"], <<CF!Frame("stopped", x)>>)
  <2>1. PICK x \in {y \in DOMAIN truth.topics : truth.topics[y] = "open"} :
             o = CF!Told([truth EXCEPT !.topics[x] = "stopped"], <<CF!Frame("stopped", x)>>)
    BY <1>3
  <2> DEFINE k == [truth.topics EXCEPT ![x] = "stopped"]
             f == CF!Frame("stopped", x)
  <2>2. o.truth = TopicTruth(k) /\ o.frames = <<f>>
    BY <2>1 DEF CF!Told, TopicTruth
  <2>3. Carries(f, truth, TopicTruth(k))
    BY TopicStopsCarried
  <2> HIDE DEF k, f
  <2> QED BY <1>1, <2>2, <2>3 DEF Carried
<1>4. CASE \E x \in DOMAIN truth.topics :
             o = CF!Told([truth EXCEPT !.topics[x] = "closed"], <<CF!Frame("topic_closed", x)>>)
  <2>1. PICK x \in DOMAIN truth.topics :
             o = CF!Told([truth EXCEPT !.topics[x] = "closed"], <<CF!Frame("topic_closed", x)>>)
    BY <1>4
  <2> DEFINE k == [truth.topics EXCEPT ![x] = "closed"]
             f == CF!Frame("topic_closed", x)
  <2>2. o.truth = TopicTruth(k) /\ o.frames = <<f>>
    BY <2>1 DEF CF!Told, TopicTruth
  <2>3. Carries(f, truth, TopicTruth(k))
    BY TopicClosesCarried
  <2> HIDE DEF k, f
  <2> QED BY <1>1, <2>2, <2>3 DEF Carried
<1>5. CASE \E x : o = CF!Told([truth EXCEPT !.messages = CF!ApplyMessageDelta(truth, x).messages],
                              <<CF!Frame("message_delta", x)>>)
  <2>1. PICK x : o = CF!Told([truth EXCEPT !.messages = CF!ApplyMessageDelta(truth, x).messages],
                             <<CF!Frame("message_delta", x)>>)
    BY <1>5
  <2> DEFINE k == CF!ApplyMessageDelta(truth, x).messages
             f == CF!Frame("message_delta", x)
  <2>2. o.truth = [truth EXCEPT !.messages = k] /\ o.frames = <<f>>
    BY <2>1 DEF CF!Told
  <2>3. Carries(f, truth, [truth EXCEPT !.messages = k])
    BY MessageCarried
  <2> HIDE DEF k, f
  <2> QED BY <1>1, <2>2, <2>3 DEF Carried
<1>6. \/ \E x \in Things \ DOMAIN truth.topics :
             o = CF!Told([truth EXCEPT !.topics = CF!Merge(@, [y \in {x} |-> "open"])], <<CF!Frame("topic_opened", x)>>)
      \/ \E x \in {y \in DOMAIN truth.topics : truth.topics[y] = "open"} :
             o = CF!Told([truth EXCEPT !.topics[x] = "stopped"], <<CF!Frame("stopped", x)>>)
      \/ \E x \in DOMAIN truth.topics :
             o = CF!Told([truth EXCEPT !.topics[x] = "closed"], <<CF!Frame("topic_closed", x)>>)
      \/ \E x : o = CF!Told([truth EXCEPT !.messages = CF!ApplyMessageDelta(truth, x).messages],
                            <<CF!Frame("message_delta", x)>>)
  BY DEF CF!DebateNews
<1> QED BY <1>2, <1>3, <1>4, <1>5, <1>6

LEMMA NewsCarried ==
    ASSUME FeedBounds, FeedHostSound, TruthTells(truth), NEW o \in CF!NewsOf(about) PROVE Carried(o)
<1>1. TruthSound(truth) /\ TaskCap \in Nat /\ news \in Nat /\ IsFiniteSet(Things) /\ NoAgent \notin Speakers
  BY DEF FeedHostSound, FeedBounds
<1>2. about \in {"telemetry", "hardware", "tasks", "chairs", "phases", "claims", "retries",
                 "receipts", "log", "latest", "chat", "debate"}
  BY DEF FeedHostSound, FeedBounds
<1>3. CASE about = "telemetry"
  BY <1>1, <1>3, TelemetryCarried DEF CF!NewsOf
<1>4. CASE about = "hardware"
  BY <1>1, <1>4, HardwareCarried DEF CF!NewsOf
<1>5. CASE about = "tasks"
  BY <1>1, <1>5, TasksCarried DEF CF!NewsOf
<1>6. CASE about = "chairs"
  BY <1>1, <1>6, ChairCarried DEF CF!NewsOf
<1>7. CASE about = "phases"
  BY <1>1, <1>7, PhaseCarried DEF CF!NewsOf
<1>8. CASE about = "claims"
  BY <1>1, <1>8, ClaimCarried DEF CF!NewsOf
<1>9. CASE about = "retries"
  BY <1>1, <1>9, RetryCarried DEF CF!NewsOf
<1>10. CASE about = "receipts"
  BY <1>1, <1>10, ReceiptCarried DEF CF!NewsOf
<1>11. CASE about = "log"
  BY <1>1, <1>11, LogCarried DEF CF!NewsOf
<1>12. CASE about = "latest"
  BY <1>1, <1>12, LatestCarried DEF CF!NewsOf
<1>13. CASE about = "debate"
  BY <1>1, <1>13, DebateCarried DEF CF!NewsOf
<1>14. CASE about = "chat"
  <2>1. o = CF!Banter(truth)
    BY <1>14 DEF CF!NewsOf, CF!ChatNews
  <2> QED BY <1>1, <2>1, BanterCarried DEF Carried
<1> QED BY <1>2, <1>3, <1>4, <1>5, <1>6, <1>7, <1>8, <1>9, <1>10, <1>11, <1>12, <1>13, <1>14

-----------------------------------------------------------------------------
\* What a sequence of frames tells.
Tells(fs, t, u) ==
    \A v : StoreSound(v) /\ RepairedBy(v, t) =>
       \E w : /\ Leads(v, fs, w) /\ StoreSound(w) /\ RepairedBy(w, u)
              /\ FollowedBy(v, t) => FollowedBy(w, u)

LEMMA TellsOne == ASSUME NEW f, NEW t, NEW u, Carries(f, t, u) PROVE Tells(<<f>>, t, u)
<1> SUFFICES ASSUME NEW v, StoreSound(v), RepairedBy(v, t)
             PROVE  \E w : /\ Leads(v, <<f>>, w) /\ StoreSound(w) /\ RepairedBy(w, u)
                           /\ FollowedBy(v, t) => FollowedBy(w, u)
  BY DEF Tells
<1>1. Leads(v, <<f>>, Shows(v, f))
  BY LeadsOne
<1>2. StoreSound(Shows(v, f))
  BY ShowsSound DEF Carries
<1> QED BY <1>1, <1>2 DEF Carries

LEMMA TellsNothing == ASSUME NEW t, NEW u, Keeps(t, u) PROVE Tells(<< >>, t, u)
BY LeadsNowhere DEF Tells, Keeps

LEMMA TellsOn ==
    ASSUME NEW fs, IsList(fs), NEW hs, IsList(hs), NEW t, NEW u, NEW x, Tells(fs, t, u), Tells(hs, u, x)
    PROVE  Tells(fs \o hs, t, x)
<1> SUFFICES ASSUME NEW v, StoreSound(v), RepairedBy(v, t)
             PROVE  \E w : /\ Leads(v, fs \o hs, w) /\ StoreSound(w) /\ RepairedBy(w, x)
                           /\ FollowedBy(v, t) => FollowedBy(w, x)
  BY DEF Tells
<1>1. PICK m : /\ Leads(v, fs, m) /\ StoreSound(m) /\ RepairedBy(m, u)
               /\ FollowedBy(v, t) => FollowedBy(m, u)
  BY DEF Tells
<1>2. PICK w : /\ Leads(m, hs, w) /\ StoreSound(w) /\ RepairedBy(w, x)
               /\ FollowedBy(m, u) => FollowedBy(w, x)
  BY <1>1 DEF Tells
<1>3. Leads(v, fs \o hs, w)
  BY <1>1, <1>2, LeadsOn
<1> QED BY <1>1, <1>2, <1>3

LEMMA KeepsItself == \A t : Keeps(t, t)
BY DEF Keeps

\* The switch of the chat, told after whatever else is true.
LEMMA ChatCarried ==
    ASSUME NEW t, TruthSound(t), NEW c
    PROVE  /\ Carries(CF!Frame("chat_state", c), t, [t EXCEPT !.chat = c])
           /\ TruthTells(t) => TruthTells([t EXCEPT !.chat = c])
<1> DEFINE u == [t EXCEPT !.chat = c]
           f == CF!Frame("chat_state", c)
<1>1. FrameSound(f)
  BY PlainFrame
<1>2. TruthTells(t) => TruthTells(u)
  BY DEF TruthTells, TruthSound
<1>3. ASSUME NEW v, StoreSound(v), RepairedBy(v, t)
      PROVE  RepairedBy(Shows(v, f), u) /\ (FollowedBy(v, t) => FollowedBy(Shows(v, f), u))
  <2>1. Shows(v, f) = [v EXCEPT !.chat = c]
    BY <1>3, ShowsStored DEF CF!Stored, CF!Frame, CF!SetInterAgentChat, StoreSound
  <2> HIDE DEF f
  <2>2. IsStore(v)
    BY <1>3 DEF StoreSound
  <2>3. RepairedBy(Shows(v, f), u)
    BY <1>3, <2>1, <2>2, StoreFields DEF RepairedBy, TruthSound
  <2>4. FollowedBy(v, t) => FollowedBy(Shows(v, f), u)
    BY <1>3, <2>1, <2>2, StoreFields DEF FollowedBy, TruthSound
  <2> QED BY <2>3, <2>4
<1> QED BY <1>1, <1>2, <1>3 DEF Carries
-----------------------------------------------------------------------------
\* What is true of the page, and of what is on its way to it.

\* Only a behaviour about phases has frames of them, and makes a card busy.
Quiet(fs) == about # "phases" => \A n \in 1..Len(fs) : fs[n].type # "phase_change"
Calm(v) == about # "phases" => \A a \in Speakers : v.status[a] = "online"

PageSound(s, b) ==
    IsStore(s) /\ ShownSound(s) /\ IsList(s.tasks) /\ IsRecord(s.telemetry) /\ IsBuffer(b) /\ Calm(s)

\* The frames of a socket lead to the truth: to all of it as long as none was
\* missed, and to what is sent again if the socket is whole.
LineTells(l, v, t, lost) ==
    ~lost \/ (l.state = "up" /\ l.whole) =>
        \E e : /\ Leads(v, l.frames, e) /\ StoreSound(e)
               /\ ~lost => FollowedBy(e, t)
               /\ l.state = "up" /\ l.whole => RepairedBy(e, t)

Tidings(t, ls, waits, s, b, lost) ==
    /\ TruthTells(t) /\ PageSound(s, b)
    /\ \A i \in DOMAIN ls : IsOpen(ls[i]) => Quiet(ls[i].frames) /\ LineTells(ls[i], Seen(s, b), t, lost)
    /\ waits /\ ~lost => FollowedBy(Seen(s, b), t)

FeedTells == Tidings(truth, lines, redial, feedShown, buffer, missed)

LEMMA TidingsNext ==
    ASSUME about' = about, Tidings(truth', lines', redial', feedShown', buffer', missed')
    PROVE  FeedTells'
BY DEF FeedTells, Tidings, TruthTells, PageSound, Calm, Quiet, LineTells, RepairedBy

LEMMA SeenSound ==
    ASSUME NEW s, NEW b, PageSound(s, b)
    PROVE  StoreSound(Seen(s, b)) /\ Calm(Seen(s, b))
<1>1. /\ IsStore(Seen(s, b)) /\ Seen(s, b).connected = FALSE
      /\ \A p \in Told : Seen(s, b)[p] = s[p]
  BY SeenParts DEF PageSound
<1>2. {"tasks", "claims", "chairs", "status"} \subseteq Told
  BY DEF Told
<1>3. /\ Seen(s, b).tasks = s.tasks /\ Seen(s, b).claims = s.claims
      /\ Seen(s, b).chairs = s.chairs /\ Seen(s, b).status = s.status
  BY <1>1, <1>2
<1>4. {"connected", "claims", "chairs", "status"} \subseteq DOMAIN Seen(s, b)
  BY <1>1, StoreFields, Zenon
<1>5. ShownSound(Seen(s, b))
  BY <1>1, <1>3, <1>4 DEF ShownSound, PageSound
<1> QED BY <1>1, <1>3, <1>5 DEF StoreSound, PageSound, Calm
-----------------------------------------------------------------------------
\* What a new client is sent repairs what is shown.

\* Each agent has its card among those that are sent.
LEMMA CardsAre ==
    ASSUME FeedBounds
    PROVE  \E n \in Nat : \E q \in [1..n -> Speakers] :
              /\ \A a \in Speakers : \E k \in 1..n : q[k] = a
              /\ Len(CF!Cards) = n /\ DOMAIN CF!Cards = 1..n /\ IsList(CF!Cards)
              /\ \A k \in 1..n : CF!Cards[k] = CF!Frame("agent_card", q[k])
<1> DEFINE n == Cardinality(Speakers)
           q == CF!SetToSeq(Speakers)
<1>1. n \in Nat /\ IsFiniteSet(Speakers)
  BY FS_CardinalityType DEF FeedBounds
<1>2. q \in [1..n -> Speakers] /\ \A i, j \in 1..n : q[i] = q[j] => i = j
  <2>1. \E f \in [1..n -> Speakers] : CF!IsInjective(f)
    <3>1. ExistsBijection(1..n, Speakers)
      BY <1>1, FS_CardinalityType
    <3>2. PICK f : f \in Bijection(1..n, Speakers)
      BY <3>1 DEF ExistsBijection
    <3>3. f \in [1..n -> Speakers] /\ \A i, j \in 1..n : f[i] = f[j] => i = j
      BY <3>2 DEF Bijection, Injection, IsInjective
    <3> QED BY <3>3 DEF CF!IsInjective
  <2>2. q = CHOOSE f \in [1..n -> Speakers] : CF!IsInjective(f)
    BY FeedCardinality DEF CF!SetToSeq
  <2> HIDE DEF q, n
  <2>3. q \in [1..n -> Speakers] /\ CF!IsInjective(q)
    BY <2>1, <2>2
  <2> QED BY <2>3 DEF CF!IsInjective
<1>3. \A a \in Speakers : \E k \in 1..n : q[k] = a
  <2> HIDE DEF q
  <2>1. q \in Injection(1..n, Speakers)
    BY <1>2 DEF Injection, IsInjective
  <2>2. Cardinality(1..n) = n
    BY <1>1, FS_Interval
  <2>3. q \in Surjection(1..n, Speakers)
    BY <1>1, <2>1, <2>2, FS_Injection
  <2> QED BY <2>3 DEF Surjection
<1>4. CF!Cards = [k \in 1..n |-> CF!Frame("agent_card", q[k])]
  BY FeedCardinality DEF CF!Cards
<1> HIDE DEF n, q
<1>5. /\ Len(CF!Cards) = n /\ DOMAIN CF!Cards = 1..n
      /\ \A k \in 1..n : CF!Cards[k] = CF!Frame("agent_card", q[k])
  BY <1>1, <1>4
<1>6. CF!Cards \in Seq({CF!Frame("agent_card", q[k]) : k \in 1..n})
  BY <1>1, <1>4
<1> QED BY <1>1, <1>2, <1>3, <1>5, <1>6 DEF IsList

LEMMA CardShown ==
    ASSUME NEW v, IsStore(v), NEW a
    PROVE  Shows(v, CF!Frame("agent_card", a)) = CF!UpsertAgentNode(v, a)
<1> DEFINE f == CF!Frame("agent_card", a)
<1>1. f.type = "agent_card" /\ f.data = a
  BY DEF CF!Frame
<1> HIDE DEF f
<1>2. Shows(v, f) = CF!Stored(v, f)
  BY <1>1, ShowsStored
<1>3. CF!Stored(v, f) = CF!UpsertAgentNode(v, a)
  BY <1>1 DEF CF!Stored
<1> QED BY <1>2, <1>3 DEF f

\* The store with the cards of some agents come anew.
WithCards(v, B) ==
    [v EXCEPT !.cards = @ \cup B, !.status = [a \in Speakers |-> IF a \in B THEN "online" ELSE @[a]]]

LEMMA WithNoCards ==
    ASSUME NEW v, StoreSound(v) PROVE WithCards(v, {}) = v
<1>1. v = [p \in DOMAIN v |-> v[p]] /\ {"cards", "status"} \subseteq DOMAIN v
  BY StoreFields DEF StoreSound
<1>2. v.status = [a \in Speakers |-> v.status[a]]
  BY DEF StoreSound, ShownSound
<1> DEFINE m == v.cards \cup {}
           n == [a \in Speakers |-> IF a \in {} THEN "online" ELSE v.status[a]]
<1>3. WithCards(v, {}) = [[v EXCEPT !.cards = m] EXCEPT !.status = n]
  BY <1>1 DEF WithCards
<1>4. m = v.cards /\ n = v.status
  BY <1>2
<1> HIDE DEF m, n
<1> QED BY <1>1, <1>3, <1>4

LEMMA WithACard ==
    ASSUME NEW v, StoreSound(v), NEW B, NEW a \in Speakers
    PROVE  /\ CF!UpsertAgentNode(WithCards(v, B), a) = WithCards(v, B \cup {a})
           /\ IsStore(WithCards(v, B))
<1> DEFINE m == v.cards \cup B
           n == [x \in Speakers |-> IF x \in B THEN "online" ELSE v.status[x]]
           w == [[v EXCEPT !.cards = m] EXCEPT !.status = n]
<1>1. v = [p \in DOMAIN v |-> v[p]] /\ {"cards", "status"} \subseteq DOMAIN v
  BY StoreFields DEF StoreSound
<1>2. WithCards(v, B) = w
  BY <1>1 DEF WithCards
<1>3. WithCards(v, B \cup {a}) = [[v EXCEPT !.cards = m \cup {a}] EXCEPT !.status = [n EXCEPT ![a] = "online"]]
  <2>1. v.cards \cup (B \cup {a}) = m \cup {a}
    OBVIOUS
  <2>2. [x \in Speakers |-> IF x \in B \cup {a} THEN "online" ELSE v.status[x]] = [n EXCEPT ![a] = "online"]
    OBVIOUS
  <2>3. WithCards(v, B \cup {a}) =
           [[v EXCEPT !.cards = v.cards \cup (B \cup {a})]
               EXCEPT !.status = [x \in Speakers |-> IF x \in B \cup {a} THEN "online" ELSE v.status[x]]]
    BY <1>1 DEF WithCards
  <2> HIDE DEF m, n
  <2> QED BY <2>1, <2>2, <2>3
<1> HIDE DEF m, n
<1>4. w.cards = m /\ w.status = n
  BY <1>1
<1>5. CF!UpsertAgentNode(w, a) = [[w EXCEPT !.cards = m \cup {a}] EXCEPT !.status = [n EXCEPT ![a] = "online"]]
  BY <1>1, <1>4 DEF CF!UpsertAgentNode
<1>6. CF!UpsertAgentNode(w, a) = [[v EXCEPT !.cards = m \cup {a}] EXCEPT !.status = [n EXCEPT ![a] = "online"]]
  BY <1>1, <1>5
<1>7. IsStore(w)
  <2>1. "cards" \in Told /\ "status" \in Told
    BY DEF Told
  <2>2. IsStore([v EXCEPT !.cards = m])
    BY <2>1, PartSet DEF StoreSound
  <2> QED BY <2>1, <2>2, PartSet
<1> QED BY <1>2, <1>3, <1>6, <1>7

LEMMA CardsShown ==
    ASSUME FeedBounds, NEW v, StoreSound(v)
    PROVE  Leads(v, CF!Cards, WithCards(v, Speakers))
<1>0. PICK n \in Nat : \E q \in [1..n -> Speakers] :
              /\ \A a \in Speakers : \E k \in 1..n : q[k] = a
              /\ Len(CF!Cards) = n /\ DOMAIN CF!Cards = 1..n /\ IsList(CF!Cards)
              /\ \A k \in 1..n : CF!Cards[k] = CF!Frame("agent_card", q[k])
  BY CardsAre
<1>1. PICK q \in [1..n -> Speakers] :
              /\ \A a \in Speakers : \E k \in 1..n : q[k] = a
              /\ Len(CF!Cards) = n /\ DOMAIN CF!Cards = 1..n /\ IsList(CF!Cards)
              /\ \A k \in 1..n : CF!Cards[k] = CF!Frame("agent_card", q[k])
  BY <1>0
<1> DEFINE B(k) == {q[j] : j \in 1..k}
           g == [k \in 0..n |-> WithCards(v, B(k))]
<1>2. g[0] = v
  <2>1. B(0) = {} /\ 0 \in 0..n
    OBVIOUS
  <2>2. g[0] = WithCards(v, {})
    BY <2>1
  <2> QED BY <2>2, WithNoCards
<1>3. \A k \in 1..n : g[k] = Shows(g[k - 1], CF!Cards[k])
  <2> SUFFICES ASSUME NEW k \in 1..n PROVE g[k] = Shows(g[k - 1], CF!Cards[k])
    OBVIOUS
  <2>1. B(k) = B(k - 1) \cup {q[k]}
    OBVIOUS
  <2>2. k \in 0..n /\ k - 1 \in 0..n /\ q[k] \in Speakers
    OBVIOUS
  <2>3. g[k] = WithCards(v, B(k - 1) \cup {q[k]}) /\ g[k - 1] = WithCards(v, B(k - 1))
    BY <2>1, <2>2
  <2> HIDE DEF B, g
  <2>4. CF!UpsertAgentNode(g[k - 1], q[k]) = g[k] /\ IsStore(g[k - 1])
    BY <2>2, <2>3, WithACard
  <2>5. Shows(g[k - 1], CF!Frame("agent_card", q[k])) = CF!UpsertAgentNode(g[k - 1], q[k])
    BY <2>4, CardShown
  <2> QED BY <1>1, <2>4, <2>5
<1>4. g[n] = WithCards(v, Speakers)
  <2>1. B(n) = Speakers /\ n \in 0..n
    BY <1>1
  <2>2. g[n] = WithCards(v, B(n))
    BY <2>1
  <2> QED BY <2>1, <2>2
<1> HIDE DEF g
<1> QED BY <1>1, <1>2, <1>3, <1>4 DEF Leads

LEMMA TaskShown ==
    ASSUME NEW v, IsStore(v), NEW x
    PROVE  Shows(v, CF!Frame("new_task", x)) = [v EXCEPT !.tasks = Append(@, x)]
<1> DEFINE f == CF!Frame("new_task", x)
<1>1. f.type = "new_task" /\ f.data = x
  BY DEF CF!Frame
<1> HIDE DEF f
<1>2. Shows(v, f) = CF!Stored(v, f)
  BY <1>1, ShowsStored
<1>3. CF!Stored(v, f) = CF!AddTask(v, x)
  BY <1>1 DEF CF!Stored
<1> QED BY <1>2, <1>3 DEF f, CF!AddTask

\* The tasks that are cached are added to those that are shown.
LEMMA CachedTasksShown ==
    ASSUME NEW v, StoreSound(v), NEW q \in Seq(Nat)
    PROVE  Leads(v, [i \in DOMAIN q |-> CF!Frame("new_task", q[i])], [v EXCEPT !.tasks = @ \o q])
<1> DEFINE n == Len(q)
           fs == [i \in DOMAIN q |-> CF!Frame("new_task", q[i])]
           g == [k \in 0..n |-> [v EXCEPT !.tasks = v.tasks \o SubSeq(q, 1, k)]]
<1>1. n \in Nat /\ DOMAIN q = 1..n /\ Len(fs) = n /\ \A k \in 1..n : fs[k] = CF!Frame("new_task", q[k])
  OBVIOUS
<1>2. IsStore(v) /\ v = [p \in DOMAIN v |-> v[p]] /\ "tasks" \in DOMAIN v /\ "tasks" \in Told
  BY StoreFields DEF StoreSound, Told
<1>3. PICK S : v.tasks \in Seq(S)
  BY DEF StoreSound, IsList
<1>4. v.tasks \in Seq(S \cup Nat) /\ q \in Seq(S \cup Nat)
  BY <1>3
<1>5. g[0] = v
  <2>1. v.tasks \o SubSeq(q, 1, 0) = v.tasks
    BY <1>4
  <2>2. g[0] = [v EXCEPT !.tasks = v.tasks \o SubSeq(q, 1, 0)]
    BY <1>1
  <2> QED BY <1>2, <2>1, <2>2
<1>6. \A k \in 1..n : g[k] = Shows(g[k - 1], fs[k])
  <2> SUFFICES ASSUME NEW k \in 1..n PROVE g[k] = Shows(g[k - 1], fs[k])
    OBVIOUS
  <2> DEFINE old == v.tasks \o SubSeq(q, 1, k - 1)
  <2>1. v.tasks \o SubSeq(q, 1, k) = Append(old, q[k])
    <3> DEFINE T == S \cup Nat
               h == SubSeq(q, 1, k - 1)
               c == SubSeq(q, 1, k)
               more == v.tasks \o c
               one == Append(v.tasks \o h, q[k])
    <3>0. k \in Nat /\ k >= 1
      BY <1>1
    <3>1. h \in Seq(T) /\ c \in Seq(T) /\ q[k] \in T /\ v.tasks \in Seq(T)
      BY <1>1, <1>4
    <3>2. /\ Len(c) = k /\ Len(h) = k - 1
          /\ \A i \in 1..k : c[i] = q[i]
          /\ \A i \in 1..k - 1 : h[i] = q[i]
      BY <1>1, <1>4
    <3> HIDE DEF T, h, c
    <3>3. /\ v.tasks \o h \in Seq(T) /\ Len(v.tasks \o h) = Len(v.tasks) + k - 1 /\ Len(v.tasks) \in Nat
          /\ \A i \in 1..Len(v.tasks) + k - 1 :
                (v.tasks \o h)[i] = IF i <= Len(v.tasks) THEN v.tasks[i] ELSE h[i - Len(v.tasks)]
      <4>1. /\ v.tasks \o h \in Seq(T) /\ Len(v.tasks \o h) = Len(v.tasks) + Len(h)
            /\ \A i \in 1..Len(v.tasks) + Len(h) :
                  (v.tasks \o h)[i] = IF i <= Len(v.tasks) THEN v.tasks[i] ELSE h[i - Len(v.tasks)]
        BY <3>1, ConcatProperties
      <4>2. Len(v.tasks) \in Nat
        BY <3>1
      <4>3. Len(v.tasks) + Len(h) = Len(v.tasks) + k - 1
        BY <3>0, <3>2, <4>2
      <4> QED BY <4>1, <4>2, <4>3
    <3>4. /\ more \in Seq(T) /\ Len(more) = Len(v.tasks) + k
          /\ \A i \in 1..Len(v.tasks) + k :
                more[i] = IF i <= Len(v.tasks) THEN v.tasks[i] ELSE c[i - Len(v.tasks)]
      <4>1. /\ v.tasks \o c \in Seq(T) /\ Len(v.tasks \o c) = Len(v.tasks) + Len(c)
            /\ \A i \in 1..Len(v.tasks) + Len(c) :
                  (v.tasks \o c)[i] = IF i <= Len(v.tasks) THEN v.tasks[i] ELSE c[i - Len(v.tasks)]
        BY <3>1, ConcatProperties
      <4> QED BY <3>2, <4>1
    <3>5. /\ one \in Seq(T) /\ Len(one) = Len(v.tasks) + k
          /\ \A i \in 1..Len(v.tasks) + k - 1 : one[i] = (v.tasks \o h)[i]
          /\ one[Len(v.tasks) + k] = q[k]
      <4> DEFINE b == v.tasks \o h
      <4>1. b \in Seq(T) /\ Len(b) = Len(v.tasks) + k - 1
        BY <3>3
      <4> HIDE DEF b
      <4>2. /\ Append(b, q[k]) \in Seq(T) /\ Len(Append(b, q[k])) = Len(b) + 1
            /\ \A i \in 1..Len(b) : Append(b, q[k])[i] = b[i]
            /\ Append(b, q[k])[Len(b) + 1] = q[k]
        BY <3>1, <4>1, AppendProperties
      <4>3. Len(b) + 1 = Len(v.tasks) + k
        BY <3>3, <4>1
      <4> QED BY <4>1, <4>2, <4>3 DEF b
    <3> HIDE DEF more, one
    <3>6. \A i \in 1..Len(more) : more[i] = one[i]
      <4> SUFFICES ASSUME NEW i \in 1..Len(v.tasks) + k PROVE more[i] = one[i]
        BY <3>4
      <4>0. Len(v.tasks) \in Nat
        BY <3>3
      <4>1. CASE i \in 1..Len(v.tasks)
        <5>1. i \in 1..Len(v.tasks) + k /\ i \in 1..Len(v.tasks) + k - 1 /\ i <= Len(v.tasks)
          BY <3>0, <4>0, <4>1
        <5> QED BY <3>3, <3>4, <3>5, <5>1
      <4>2. CASE i \in Len(v.tasks) + 1..Len(v.tasks) + k - 1
        <5>1. i - Len(v.tasks) \in 1..k - 1 /\ i - Len(v.tasks) \in 1..k /\ ~(i <= Len(v.tasks))
          BY <3>0, <3>3, <4>2
        <5>2. i \in 1..Len(v.tasks) + k /\ i \in 1..Len(v.tasks) + k - 1
          BY <3>0, <3>3, <4>2
        <5>3. c[i - Len(v.tasks)] = q[i - Len(v.tasks)] /\ h[i - Len(v.tasks)] = q[i - Len(v.tasks)]
          BY <3>2, <5>1
        <5> QED BY <3>3, <3>4, <3>5, <5>1, <5>2, <5>3
      <4>3. CASE i = Len(v.tasks) + k
        <5>1. i - Len(v.tasks) = k /\ k \in 1..k /\ ~(i <= Len(v.tasks))
          BY <3>0, <3>3, <4>3
        <5> QED BY <3>2, <3>4, <3>5, <4>3, <5>1
      <4>4. i \in 1..Len(v.tasks) \/ i \in Len(v.tasks) + 1..Len(v.tasks) + k - 1 \/ i = Len(v.tasks) + k
        BY <3>0, <4>0
      <4> QED BY <4>1, <4>2, <4>3, <4>4
    <3>7. more = one
      BY <3>4, <3>5, <3>6, SeqEqual
    <3> QED BY <3>7 DEF more, one, h, c
  <2>2. g[k] = [v EXCEPT !.tasks = v.tasks \o SubSeq(q, 1, k)] /\ g[k - 1] = [v EXCEPT !.tasks = old]
    BY <1>1
  <2> HIDE DEF old, g, fs
  <2>3. IsStore(g[k - 1])
    <3>1. IsStore([v EXCEPT !.tasks = old])
      BY <1>2, PartSet
    <3> QED BY <2>2, <3>1
  <2>4. Shows(g[k - 1], CF!Frame("new_task", q[k])) = [g[k - 1] EXCEPT !.tasks = Append(@, q[k])]
    BY <2>3, TaskShown
  <2>5. [g[k - 1] EXCEPT !.tasks = Append(@, q[k])] = [v EXCEPT !.tasks = Append(old, q[k])]
    BY <1>2, <2>2
  <2> QED BY <1>1, <2>1, <2>2, <2>4, <2>5
<1>7. g[n] = [v EXCEPT !.tasks = v.tasks \o q]
  <2>1. SubSeq(q, 1, n) = q
    BY <1>4
  <2>2. g[n] = [v EXCEPT !.tasks = v.tasks \o SubSeq(q, 1, n)]
    BY <1>1
  <2> QED BY <2>1, <2>2
<1>8. [v EXCEPT !.tasks = @ \o q] = [v EXCEPT !.tasks = v.tasks \o q]
  OBVIOUS
<1> HIDE DEF g, fs, n
<1>9. Leads(v, fs, [v EXCEPT !.tasks = v.tasks \o q])
  BY <1>1, <1>5, <1>6, <1>7 DEF Leads
<1> QED BY <1>8, <1>9 DEF fs

\* The same store but for one part or two.
But(v, w, P) == IsStore(w) /\ \A p \in Parts \ P : w[p] = v[p]

LEMMA ButOne ==
    ASSUME NEW v, IsStore(v), NEW p \in Parts, NEW x
    PROVE  But(v, [v EXCEPT ![p] = x], {p}) /\ [v EXCEPT ![p] = x][p] = x
BY DEF But, IsStore

LEMMA ButNone == ASSUME NEW v, IsStore(v), NEW P PROVE But(v, v, P)
BY DEF But

\* The cards come first.
LEMMA ReplaysCards ==
    ASSUME FeedBounds, NEW v, StoreSound(v), Calm(v)
    PROVE  \E w : /\ Leads(v, IF about \in {"chairs", "phases"} THEN CF!Cards ELSE << >>, w)
                  /\ But(v, w, {"cards", "status"})
                  /\ w.status \in [Speakers -> {"online", "dispatching"}]
                  /\ \A a \in Speakers : w.status[a] = "online"
                  /\ about \in {"chairs", "phases"} => Speakers \subseteq w.cards
<1>1. IsStore(v) /\ v.status \in [Speakers -> {"online", "dispatching"}]
  BY DEF StoreSound, ShownSound
<1>2. CASE about \in {"chairs", "phases"}
  <2> DEFINE w == WithCards(v, Speakers)
             m == v.cards \cup Speakers
             n == [a \in Speakers |-> IF a \in Speakers THEN "online" ELSE v.status[a]]
  <2>1. Leads(v, CF!Cards, w)
    BY CardsShown
  <2>2. w = [[v EXCEPT !.cards = m] EXCEPT !.status = n]
    BY <1>1, StoreFields DEF WithCards
  <2> HIDE DEF w, m, n
  <2>3. w.cards = m /\ w.status = n /\ IsStore(w) /\ \A p \in Parts \ {"cards", "status"} : w[p] = v[p]
    BY <1>1, <2>2 DEF IsStore, Parts, Told
  <2>4. Speakers \subseteq m /\ n \in [Speakers -> {"online", "dispatching"}] /\ \A a \in Speakers : n[a] = "online"
    BY DEF m, n
  <2> QED BY <1>2, <2>1, <2>3, <2>4 DEF But
<1>3. CASE about \notin {"chairs", "phases"}
  BY <1>1, <1>3, LeadsNowhere, ButNone DEF Calm
<1> QED BY <1>2, <1>3

LEMMA ReplaysTelemetry ==
    ASSUME NEW t, TruthTells(t), NEW v, IsStore(v)
    PROVE  \E w : /\ Leads(v, CF!When(t.telemetry # << >>, CF!Frame("telemetry", t.telemetry)), w)
                  /\ But(v, w, {"telemetry"})
                  /\ \A k \in DOMAIN t.telemetry : w.telemetry[k] = t.telemetry[k]
                  /\ v.telemetry = t.merged => w.telemetry = t.merged
<1>1. CASE t.telemetry # << >>
  <2> DEFINE f == CF!Frame("telemetry", t.telemetry)
             m == CF!Merge(v.telemetry, t.telemetry)
             w == [v EXCEPT !.telemetry = m]
  <2>1. Shows(v, f) = w
    BY DEF Shows, CF!Frame
  <2>2. \A k \in DOMAIN t.telemetry : m[k] = t.telemetry[k]
    BY DEF CF!Merge
  <2>3. v.telemetry = t.merged => m = t.merged
    BY DEF TruthTells
  <2> HIDE DEF f, m
  <2>4. But(v, w, {"telemetry"}) /\ w.telemetry = m
    BY ButOne, PartsAre
  <2>5. Leads(v, <<f>>, w)
    BY <2>1, LeadsOne
  <2> HIDE DEF w
  <2> QED BY <1>1, <2>2, <2>3, <2>4, <2>5 DEF CF!When, f
<1>2. CASE t.telemetry = << >>
  <2>1. DOMAIN t.telemetry = {}
    BY <1>2
  <2> QED BY <1>2, <2>1, LeadsNowhere, ButNone DEF CF!When
<1> QED BY <1>1, <1>2

LEMMA ReplaysTasks ==
    ASSUME NEW t, TruthSound(t), NEW v, StoreSound(v)
    PROVE  \E w : /\ Leads(v, [i \in DOMAIN t.tasks |-> CF!Frame("new_task", t.tasks[i])], w)
                  /\ But(v, w, {"tasks"})
                  /\ IsList(w.tasks) /\ CF!ToSet(t.tasks) \subseteq CF!ToSet(w.tasks)
<1> DEFINE q == t.tasks
           w == [v EXCEPT !.tasks = v.tasks \o q]
<1>1. q \in Seq(Nat)
  BY DEF TruthSound
<1>2. [v EXCEPT !.tasks = @ \o q] = w
  OBVIOUS
<1>3. Leads(v, [i \in DOMAIN q |-> CF!Frame("new_task", q[i])], w)
  BY <1>1, <1>2, CachedTasksShown
<1>4. "tasks" \in Parts
  BY DEF Parts, Told
<1>5. But(v, w, {"tasks"}) /\ w.tasks = v.tasks \o q
  BY <1>4, ButOne DEF StoreSound
<1> HIDE DEF w
<1>6. IsList(v.tasks \o q) /\ CF!ToSet(q) \subseteq CF!ToSet(v.tasks \o q)
  <2> DEFINE u == v.tasks \o q
  <2>1. IsList(q) /\ IsList(v.tasks)
    BY <1>1 DEF IsList, StoreSound
  <2>2. /\ IsList(u) /\ Len(v.tasks) \in Nat /\ Len(q) \in Nat /\ Len(u) = Len(v.tasks) + Len(q)
        /\ \A n \in Len(v.tasks) + 1..Len(v.tasks) + Len(q) : u[n] = q[n - Len(v.tasks)]
    BY <2>1, ListsJoin
  <2>3. DOMAIN q = 1..Len(q) /\ DOMAIN u = 1..Len(u)
    BY <1>1, <2>2 DEF IsList
  <2> HIDE DEF u, q
  <2>4. ASSUME NEW i \in DOMAIN q PROVE \E n \in DOMAIN u : u[n] = q[i]
    <3>1. i + Len(v.tasks) \in Len(v.tasks) + 1..Len(v.tasks) + Len(q) /\ i + Len(v.tasks) - Len(v.tasks) = i
      BY <2>2, <2>3
    <3>2. i + Len(v.tasks) \in DOMAIN u
      BY <2>2, <2>3, <3>1
    <3> QED BY <2>2, <3>1, <3>2
  <2>5. CF!ToSet(q) \subseteq CF!ToSet(u)
    BY <2>4 DEF CF!ToSet
  <2> QED BY <2>2, <2>5 DEF u
<1> QED BY <1>3, <1>5, <1>6 DEF q

LEMMA ReplaysHardware ==
    ASSUME NEW t, NEW v, IsStore(v)
    PROVE  \E w : /\ Leads(v, CF!When(t.hardware # 0, CF!Frame("hardware_telemetry", t.hardware)), w)
                  /\ But(v, w, {"hardware"})
                  /\ t.hardware # 0 => w.hardware = t.hardware
<1>1. CASE t.hardware # 0
  <2> DEFINE f == CF!Frame("hardware_telemetry", t.hardware)
             w == [v EXCEPT !.hardware = t.hardware]
  <2>1. Shows(v, f) = w
    BY DEF Shows, CF!Frame
  <2> HIDE DEF f
  <2>2. But(v, w, {"hardware"}) /\ w.hardware = t.hardware
    BY ButOne, PartsAre
  <2>3. Leads(v, <<f>>, w)
    BY <2>1, LeadsOne
  <2> HIDE DEF w
  <2> QED BY <1>1, <2>2, <2>3 DEF CF!When, f
<1>2. CASE t.hardware = 0
  BY <1>2, LeadsNowhere, ButNone DEF CF!When
<1> QED BY <1>1, <1>2

LEMMA ReplaysChat ==
    ASSUME NEW t, NEW v, IsStore(v)
    PROVE  \E w : /\ Leads(v, CF!When(about = "chat", CF!Frame("chat_state", t.chat)), w)
                  /\ But(v, w, {"chat"})
                  /\ about = "chat" => w.chat = t.chat
<1>1. CASE about = "chat"
  <2> DEFINE f == CF!Frame("chat_state", t.chat)
             w == [v EXCEPT !.chat = t.chat]
  <2>1. f.type = "chat_state" /\ f.data = t.chat
    BY DEF CF!Frame
  <2> HIDE DEF f
  <2>2. Shows(v, f) = w
    <3>1. CF!Stored(v, f) = CF!SetInterAgentChat(v, t.chat)
      BY <2>1 DEF CF!Stored
    <3> QED BY <2>1, <3>1, ShowsStored DEF CF!SetInterAgentChat
  <2>3. "chat" \in Parts
    BY DEF Parts, Told
  <2>4. But(v, w, {"chat"}) /\ w.chat = t.chat
    BY <2>3, ButOne
  <2>5. Leads(v, <<f>>, w)
    BY <2>2, LeadsOne
  <2> HIDE DEF w
  <2> QED BY <1>1, <2>4, <2>5 DEF CF!When, f
<1>2. CASE about # "chat"
  BY <1>2, LeadsNowhere, ButNone DEF CF!When
<1> QED BY <1>1, <1>2

LEMMA ReplaysRoster ==
    ASSUME NEW t, NEW v, IsStore(v), v.chairs \in [Speakers -> CF!Presences], t.chairs \in [Speakers -> CF!Presences]
    PROVE  \E w : /\ Leads(v, CF!When(\E a \in Speakers : t.chairs[a] # "absent",
                                      CF!Frame("chair_roster", t.chairs)), w)
                  /\ But(v, w, {"chairs"})
                  /\ w.chairs \in [Speakers -> CF!Presences]
                  /\ Speakers \subseteq v.cards /\ (\E a \in Speakers : t.chairs[a] # "absent") => w.chairs = t.chairs
                  /\ v.chairs = t.chairs => w.chairs = t.chairs
<1>1. CASE \E a \in Speakers : t.chairs[a] # "absent"
  <2> DEFINE f == CF!Frame("chair_roster", t.chairs)
             m == [a \in Speakers |-> IF a \in v.cards THEN t.chairs[a] ELSE v.chairs[a]]
             w == [v EXCEPT !.chairs = m]
  <2>1. f.type = "chair_roster" /\ f.data = t.chairs
    BY DEF CF!Frame
  <2> HIDE DEF f
  <2>2. Shows(v, f) = w
    <3>1. CF!Stored(v, f) = CF!ApplyChairRoster(v, t.chairs)
      BY <2>1 DEF CF!Stored
    <3> QED BY <2>1, <3>1, ShowsStored DEF CF!ApplyChairRoster
  <2>3. "chairs" \in Parts
    BY DEF Parts, Told
  <2>4. /\ m \in [Speakers -> CF!Presences]
        /\ Speakers \subseteq v.cards => m = t.chairs
        /\ v.chairs = t.chairs => m = t.chairs
    OBVIOUS
  <2> HIDE DEF m
  <2>5. But(v, w, {"chairs"}) /\ w.chairs = m
    BY <2>3, ButOne
  <2>6. Leads(v, <<f>>, w)
    BY <2>2, LeadsOne
  <2> HIDE DEF w
  <2> QED BY <1>1, <2>4, <2>5, <2>6 DEF CF!When, f
<1>2. CASE ~\E a \in Speakers : t.chairs[a] # "absent"
  BY <1>2, LeadsNowhere, ButNone DEF CF!When
<1> QED BY <1>1, <1>2

LEMMA SoundIsList == ASSUME NEW fs, FramesSound(fs) PROVE IsList(fs)
BY DEF FramesSound, IsList

LEMMA WhenIsList == ASSUME NEW p \in BOOLEAN, NEW f PROVE IsList(CF!When(p, f))
<1>1. <<f>> \in Seq({f}) /\ << >> \in Seq({f})
  OBVIOUS
<1> QED BY <1>1 DEF CF!When, IsList

\* Whatever was shown before, what is sent to a new client repairs it, and it
\* breaks nothing that was right.
LEMMA ReplayTells ==
    ASSUME FeedBounds, NEW t, TruthSound(t), TruthTells(t), NEW v, StoreSound(v), Calm(v)
    PROVE  \E w : /\ Leads(v, CF!Replay(t), w) /\ StoreSound(w) /\ RepairedBy(w, t)
                  /\ FollowedBy(v, t) => FollowedBy(w, t)
<1> DEFINE a == IF about \in {"chairs", "phases"} THEN CF!Cards ELSE << >>
           b == CF!When(t.telemetry # << >>, CF!Frame("telemetry", t.telemetry))
           c == [i \in DOMAIN t.tasks |-> CF!Frame("new_task", t.tasks[i])]
           d == CF!When(t.hardware # 0, CF!Frame("hardware_telemetry", t.hardware))
           e == CF!When(about = "chat", CF!Frame("chat_state", t.chat))
           f == CF!When(\E s \in Speakers : t.chairs[s] # "absent", CF!Frame("chair_roster", t.chairs))
<1>a. CF!Replay(t) = ((((a \o b) \o c) \o d) \o e) \o f
  BY DEF CF!Replay
<1>b. IsList(a)
  <2>1. IsList(CF!Cards)
    BY CardsAre
  <2>2. << >> \in Seq({})
    OBVIOUS
  <2>3. IsList(<< >>)
    BY <2>2 DEF IsList
  <2> QED BY <2>1, <2>3
<1>c. IsList(b) /\ IsList(d) /\ IsList(e) /\ IsList(f)
  BY WhenIsList
<1>d. IsList(c)
  <2>1. t.tasks \in Seq(Nat)
    BY DEF TruthSound
  <2>2. c \in Seq({CF!Frame("new_task", t.tasks[i]) : i \in DOMAIN t.tasks})
    BY <2>1
  <2> QED BY <2>2 DEF IsList
<1>1. /\ a = (IF about \in {"chairs", "phases"} THEN CF!Cards ELSE << >>)
      /\ b = CF!When(t.telemetry # << >>, CF!Frame("telemetry", t.telemetry))
      /\ c = [i \in DOMAIN t.tasks |-> CF!Frame("new_task", t.tasks[i])]
      /\ d = CF!When(t.hardware # 0, CF!Frame("hardware_telemetry", t.hardware))
      /\ e = CF!When(about = "chat", CF!Frame("chat_state", t.chat))
      /\ f = CF!When(\E s \in Speakers : t.chairs[s] # "absent", CF!Frame("chair_roster", t.chairs))
      /\ CF!Replay(t) = ((((a \o b) \o c) \o d) \o e) \o f
      /\ IsList(a) /\ IsList(b) /\ IsList(c) /\ IsList(d) /\ IsList(e) /\ IsList(f)
  BY <1>a, <1>b, <1>c, <1>d
<1> HIDE DEF a, b, c, d, e, f
<1>2. PICK v1 : /\ Leads(v, a, v1) /\ But(v, v1, {"cards", "status"})
                /\ v1.status \in [Speakers -> {"online", "dispatching"}]
                /\ \A x \in Speakers : v1.status[x] = "online"
                /\ about \in {"chairs", "phases"} => Speakers \subseteq v1.cards
  BY <1>1, ReplaysCards
<1>3. PICK v2 : /\ Leads(v1, b, v2) /\ But(v1, v2, {"telemetry"})
                /\ \A k \in DOMAIN t.telemetry : v2.telemetry[k] = t.telemetry[k]
                /\ v1.telemetry = t.merged => v2.telemetry = t.merged
  <2>1. IsStore(v1)
    BY <1>2 DEF But
  <2> QED BY <1>1, <2>1, ReplaysTelemetry
<1>4. /\ IsStore(v) /\ IsList(v.tasks) /\ ShownSound(v)
      /\ IsStore(v1) /\ v1.connected = v.connected /\ v1.telemetry = v.telemetry /\ v1.tasks = v.tasks
      /\ v1.claims = v.claims /\ v1.chairs = v.chairs /\ v1.receipts = v.receipts /\ v1.log = v.log
      /\ v1.latest = v.latest /\ v1.topics = v.topics /\ v1.messages = v.messages /\ v1.runs = v.runs
  BY <1>2 DEF StoreSound, But, Parts, Told
<1>5. /\ IsStore(v2) /\ v2.connected = v.connected /\ v2.tasks = v.tasks
      /\ v2.claims = v.claims /\ v2.chairs = v.chairs /\ v2.receipts = v.receipts /\ v2.log = v.log
      /\ v2.latest = v.latest /\ v2.topics = v.topics /\ v2.messages = v.messages /\ v2.runs = v.runs
      /\ v2.cards = v1.cards /\ v2.status = v1.status
      /\ v.telemetry = t.merged => v2.telemetry = t.merged
  BY <1>3, <1>4 DEF But, Parts, Told
<1>6. StoreSound(v2)
  <2>1. {"connected", "claims", "chairs", "status"} \subseteq DOMAIN v2
    BY <1>5, StoreFields, Zenon
  <2>2. ShownSound(v2)
    BY <1>2, <1>4, <1>5, <2>1 DEF ShownSound
  <2> QED BY <1>4, <1>5, <2>2 DEF StoreSound
<1>7. PICK v3 : /\ Leads(v2, c, v3) /\ But(v2, v3, {"tasks"})
                /\ IsList(v3.tasks) /\ CF!ToSet(t.tasks) \subseteq CF!ToSet(v3.tasks)
  BY <1>1, <1>6, ReplaysTasks
<1>8. PICK v4 : /\ Leads(v3, d, v4) /\ But(v3, v4, {"hardware"})
                /\ t.hardware # 0 => v4.hardware = t.hardware
  <2>1. IsStore(v3)
    BY <1>7 DEF But
  <2> QED BY <1>1, <2>1, ReplaysHardware
<1>9. PICK v5 : /\ Leads(v4, e, v5) /\ But(v4, v5, {"chat"})
                /\ about = "chat" => v5.chat = t.chat
  <2>1. IsStore(v4)
    BY <1>8 DEF But
  <2> QED BY <1>1, <2>1, ReplaysChat
<1>10. /\ IsStore(v3) /\ v3.connected = v.connected /\ v3.telemetry = v2.telemetry
       /\ v3.claims = v.claims /\ v3.chairs = v.chairs /\ v3.receipts = v.receipts /\ v3.log = v.log
       /\ v3.latest = v.latest /\ v3.topics = v.topics /\ v3.messages = v.messages /\ v3.runs = v.runs
       /\ v3.cards = v1.cards /\ v3.status = v1.status
  BY <1>5, <1>7 DEF But, Parts, Told
<1>11. /\ IsStore(v4) /\ v4.connected = v.connected /\ v4.telemetry = v2.telemetry
       /\ v4.claims = v.claims /\ v4.chairs = v.chairs /\ v4.receipts = v.receipts /\ v4.log = v.log
       /\ v4.latest = v.latest /\ v4.topics = v.topics /\ v4.messages = v.messages /\ v4.runs = v.runs
       /\ v4.cards = v1.cards /\ v4.status = v1.status /\ v4.tasks = v3.tasks
  BY <1>8, <1>10 DEF But, Parts, Told
<1>12. /\ IsStore(v5) /\ v5.connected = v.connected /\ v5.telemetry = v2.telemetry
       /\ v5.claims = v.claims /\ v5.chairs = v.chairs /\ v5.receipts = v.receipts /\ v5.log = v.log
       /\ v5.latest = v.latest /\ v5.topics = v.topics /\ v5.messages = v.messages /\ v5.runs = v.runs
       /\ v5.cards = v1.cards /\ v5.status = v1.status /\ v5.tasks = v3.tasks /\ v5.hardware = v4.hardware
  BY <1>9, <1>11 DEF But, Parts, Told
<1>13. PICK w : /\ Leads(v5, f, w) /\ But(v5, w, {"chairs"})
                /\ w.chairs \in [Speakers -> CF!Presences]
                /\ Speakers \subseteq v5.cards /\ (\E s \in Speakers : t.chairs[s] # "absent") => w.chairs = t.chairs
                /\ v5.chairs = t.chairs => w.chairs = t.chairs
  <2>1. v5.chairs \in [Speakers -> CF!Presences] /\ t.chairs \in [Speakers -> CF!Presences]
    BY <1>4, <1>12 DEF ShownSound, TruthSound
  <2> QED BY <1>1, <1>12, <2>1, ReplaysRoster
<1>14. /\ IsStore(w) /\ w.connected = v.connected /\ w.telemetry = v2.telemetry
       /\ w.claims = v.claims /\ w.receipts = v.receipts /\ w.log = v.log
       /\ w.latest = v.latest /\ w.topics = v.topics /\ w.messages = v.messages /\ w.runs = v.runs
       /\ w.cards = v1.cards /\ w.status = v1.status /\ w.tasks = v3.tasks /\ w.hardware = v4.hardware
       /\ w.chat = v5.chat
  BY <1>12, <1>13 DEF But, Parts, Told
<1>15. Leads(v, CF!Replay(t), w)
  <2>1. Leads(v, a \o b, v2) /\ IsList(a \o b)
    BY <1>1, <1>2, <1>3, LeadsOn, ListsJoin
  <2>2. Leads(v, (a \o b) \o c, v3) /\ IsList((a \o b) \o c)
    BY <1>1, <1>7, <2>1, LeadsOn, ListsJoin
  <2>3. Leads(v, ((a \o b) \o c) \o d, v4) /\ IsList(((a \o b) \o c) \o d)
    BY <1>1, <1>8, <2>2, LeadsOn, ListsJoin
  <2>4. Leads(v, (((a \o b) \o c) \o d) \o e, v5) /\ IsList((((a \o b) \o c) \o d) \o e)
    BY <1>1, <1>9, <2>3, LeadsOn, ListsJoin
  <2>5. Leads(v, ((((a \o b) \o c) \o d) \o e) \o f, w)
    BY <1>1, <1>13, <2>4, LeadsOn
  <2> QED BY <1>1, <2>5
<1>16. StoreSound(w)
  <2>1. {"connected", "claims", "chairs", "status"} \subseteq DOMAIN w
    BY <1>14, StoreFields, Zenon
  <2>2. ShownSound(w)
    BY <1>2, <1>4, <1>13, <1>14, <2>1 DEF ShownSound
  <2> QED BY <1>7, <1>14, <2>2 DEF StoreSound
<1>17. RepairedBy(w, t)
  <2>1. \A x \in Speakers : t.chairs[x] # "absent" => w.chairs[x] = t.chairs[x]
    <3>1. CASE about = "chairs"
      BY <1>2, <1>12, <1>13, <3>1
    <3>2. CASE about # "chairs"
      BY <3>2 DEF TruthTells
    <3> QED BY <3>1, <3>2
  <2>2. \A x \in Speakers : w.status[x] = "online"
    BY <1>2, <1>14
  <2> QED BY <1>2, <1>3, <1>7, <1>8, <1>9, <1>14, <2>1, <2>2 DEF RepairedBy
<1>18. FollowedBy(v, t) => FollowedBy(w, t)
  <2> HAVE FollowedBy(v, t)
  <2>1. w.telemetry = v.telemetry /\ w.chairs = v.chairs
    BY <1>5, <1>12, <1>13, <1>14 DEF FollowedBy
  <2> QED BY <1>14, <2>1 DEF FollowedBy
<1> QED BY <1>15, <1>16, <1>17, <1>18

\* Sequences of frames none of which makes a card busy.
LEMMA QuietJoin ==
    ASSUME NEW s, IsList(s), NEW t, IsList(t), Quiet(s), Quiet(t) PROVE Quiet(s \o t)
<1>1. /\ Len(s) \in Nat /\ Len(t) \in Nat /\ Len(s \o t) = Len(s) + Len(t)
      /\ \A n \in 1..Len(s) : (s \o t)[n] = s[n]
      /\ \A n \in Len(s) + 1..Len(s) + Len(t) : (s \o t)[n] = t[n - Len(s)]
  BY ListsJoin
<1> SUFFICES ASSUME about # "phases", NEW n \in 1..Len(s) + Len(t) PROVE (s \o t)[n].type # "phase_change"
  BY <1>1 DEF Quiet
<1>2. CASE n \in 1..Len(s)
  BY <1>1, <1>2 DEF Quiet
<1>3. CASE n \in Len(s) + 1..Len(s) + Len(t)
  <2>1. n - Len(s) \in 1..Len(t)
    BY <1>1, <1>3
  <2>2. t[n - Len(s)].type # "phase_change"
    BY <2>1 DEF Quiet
  <2> QED BY <1>1, <1>3, <2>2
<1> QED BY <1>1, <1>2, <1>3

LEMMA QuietFirst ==
    ASSUME NEW fs, IsList(fs), Quiet(fs), NEW n \in 0..Len(fs)
    PROVE  Quiet(SubSeq(fs, 1, n)) /\ IsList(SubSeq(fs, 1, n))
<1>1. PICK S : fs \in Seq(S)
  BY DEF IsList
<1>2. /\ SubSeq(fs, 1, n) \in Seq(S) /\ Len(SubSeq(fs, 1, n)) = n
      /\ \A k \in 1..n : SubSeq(fs, 1, n)[k] = fs[k] /\ k \in 1..Len(fs)
  BY <1>1
<1> QED BY <1>2 DEF Quiet, IsList

LEMMA QuietNext ==
    ASSUME NEW fs, IsList(fs), Quiet(fs), fs # << >>
    PROVE  /\ Quiet(Tail(fs)) /\ IsList(Tail(fs))
           /\ about # "phases" => Head(fs).type # "phase_change"
<1>1. PICK S : fs \in Seq(S)
  BY DEF IsList
<1>2. /\ Tail(fs) \in Seq(S) /\ Len(fs) \in Nat \ {0} /\ Len(Tail(fs)) = Len(fs) - 1
      /\ \A k \in 1..Len(Tail(fs)) : Tail(fs)[k] = fs[k + 1] /\ k + 1 \in 1..Len(fs)
      /\ Head(fs) = fs[1] /\ 1 \in 1..Len(fs)
  BY <1>1
<1> QED BY <1>2 DEF Quiet, IsList

LEMMA QuietNothing == Quiet(<< >>) /\ IsList(<< >>)
<1>1. << >> \in Seq({}) /\ Len(<< >>) = 0
  OBVIOUS
<1> QED BY <1>1 DEF Quiet, IsList

LEMMA QuietOne ==
    ASSUME NEW f, about # "phases" => f.type # "phase_change" PROVE Quiet(<<f>>) /\ IsList(<<f>>)
<1>1. <<f>> \in Seq({f}) /\ Len(<<f>>) = 1 /\ <<f>>[1] = f
  OBVIOUS
<1>2. \A n \in 1..Len(<<f>>) : <<f>>[n] = f
  BY <1>1
<1>3. Quiet(<<f>>)
  <2> DEFINE fs == <<f>>
  <2>1. \A n \in 1..Len(fs) : fs[n] = f
    BY <1>2
  <2> HIDE DEF fs
  <2> QED BY <2>1 DEF Quiet
<1> QED BY <1>1, <1>3 DEF IsList

LEMMA QuietFrame ==
    ASSUME NEW x, x # "phase_change", NEW d PROVE Quiet(<<CF!Frame(x, d)>>) /\ IsList(<<CF!Frame(x, d)>>)
<1>1. CF!Frame(x, d).type # "phase_change"
  BY DEF CF!Frame
<1> QED BY <1>1, QuietOne

LEMMA QuietWhen ==
    ASSUME NEW p \in BOOLEAN, NEW x, x # "phase_change", NEW d PROVE Quiet(CF!When(p, CF!Frame(x, d)))
BY QuietFrame, QuietNothing DEF CF!When

LEMMA BanterQuiet == ASSUME NEW t PROVE Quiet(CF!Banter(t).frames) /\ IsList(CF!Banter(t).frames)
<1>1. CF!Banter(t).frames = <<CF!Frame("chat_message", CF!Stamp)>>
  BY DEF CF!Banter, CF!Told
<1> QED BY <1>1, QuietFrame

LEMMA QuietIsTold ==
    ASSUME NEW o, NEW t, NEW x, x # "phase_change", NEW d, o = CF!Told(t, <<CF!Frame(x, d)>>)
    PROVE  Quiet(o.frames)
<1>1. o.frames = <<CF!Frame(x, d)>>
  BY DEF CF!Told
<1> QED BY <1>1, QuietFrame

LEMMA SilenceIsTold ==
    ASSUME NEW o, NEW t, o = CF!Told(t, << >>) PROVE Quiet(o.frames)
<1>1. o.frames = << >>
  BY DEF CF!Told
<1> QED BY <1>1, QuietNothing

LEMMA NewsQuiet == ASSUME about \in NewsKinds, FeedBounds, NEW o \in CF!NewsOf(about) PROVE Quiet(o.frames)
<1>1. CASE about = "telemetry"
  <2>1. o \in CF!TelemetryNews
    BY <1>1 DEF CF!NewsOf
  <2> QED BY <2>1, QuietIsTold DEF CF!TelemetryNews
<1>2. CASE about = "hardware"
  <2>1. o \in CF!HardwareNews
    BY <1>2 DEF CF!NewsOf
  <2> QED BY <2>1, QuietIsTold DEF CF!HardwareNews
<1>3. CASE about = "tasks"
  <2>1. o \in CF!TaskNews
    BY <1>3 DEF CF!NewsOf
  <2> QED BY <2>1, QuietIsTold DEF CF!TaskNews
<1>4. CASE about = "chairs"
  <2>1. o \in CF!ChairNews
    BY <1>4 DEF CF!NewsOf
  <2> QED BY <2>1, QuietIsTold DEF CF!ChairNews
<1>5. CASE about = "phases"
  BY <1>5 DEF Quiet
<1>6. CASE about = "claims"
  <2>1. o \in CF!ClaimNews
    BY <1>6 DEF CF!NewsOf
  <2>2. CASE \E x \in Things : o = CF!Told([truth EXCEPT !.claims[x] = "none"], << >>)
    BY <2>2, SilenceIsTold
  <2>4. \/ \E x \in Things : o = CF!Told([truth EXCEPT !.claims[x] = "none"], << >>)
        \/ \E x \in Things : \E next :
                o = CF!Told([truth EXCEPT !.claims[x] = next],
                            <<CF!Frame("claim_event", [previous |-> truth.claims[x], state |-> next])>>)
    BY <2>1, Zenon DEF CF!ClaimNews
  <2>5. CASE \E x \in Things : \E next :
                o = CF!Told([truth EXCEPT !.claims[x] = next],
                            <<CF!Frame("claim_event", [previous |-> truth.claims[x], state |-> next])>>)
    BY <2>5, QuietIsTold
  <2> QED BY <2>2, <2>4, <2>5
<1>7. CASE about = "retries"
  <2>1. o \in CF!RetryNews
    BY <1>7 DEF CF!NewsOf
  <2>2. \/ \E t : o = CF!Told(t, << >>)
        \/ \E t, d : o = CF!Told(t, <<CF!Frame("retry_event", d)>>)
    BY <2>1 DEF CF!RetryNews
  <2> QED BY <2>2, SilenceIsTold, QuietIsTold
<1>8. CASE about = "receipts"
  <2>1. o \in CF!ReceiptNews
    BY <1>8 DEF CF!NewsOf
  <2> QED BY <2>1, QuietIsTold DEF CF!ReceiptNews
<1>9. CASE about = "log"
  <2>1. o \in CF!LogNews
    BY <1>9 DEF CF!NewsOf
  <2> QED BY <2>1, QuietIsTold DEF CF!LogNews
<1>10. CASE about = "latest"
  <2>1. o \in CF!LatestNews
    BY <1>10 DEF CF!NewsOf
  <2> QED BY <2>1, QuietIsTold DEF CF!LatestNews
<1>11. CASE about = "chat"
  <2>1. o \in CF!ChatNews
    BY <1>11 DEF CF!NewsOf
  <2> QED BY <2>1, BanterQuiet DEF CF!ChatNews
<1>12. CASE about = "debate"
  <2>1. o \in CF!DebateNews
    BY <1>12 DEF CF!NewsOf
  <2>2. \/ \E t, d : o = CF!Told(t, <<CF!Frame("topic_opened", d)>>)
        \/ \E t, d : o = CF!Told(t, <<CF!Frame("stopped", d)>>)
        \/ \E t, d : o = CF!Told(t, <<CF!Frame("topic_closed", d)>>)
        \/ \E t, d : o = CF!Told(t, <<CF!Frame("message_delta", d)>>)
    BY <2>1 DEF CF!DebateNews
  <2> QED BY <2>2, QuietIsTold
<1> QED BY <1>1, <1>2, <1>3, <1>4, <1>5, <1>6, <1>7, <1>8, <1>9, <1>10, <1>11, <1>12 DEF FeedBounds
-----------------------------------------------------------------------------
\* The steps of the host.

\* What the host tells reaches every socket that is up, or is dropped for it.
LEMMA BroadcastTells ==
    ASSUME FeedBounds, FeedInv, FeedTells, NEW fs, FramesSound(fs), Quiet(fs), CF!Broadcast(lines, fs),
           UNCHANGED CF!page, about' = about,
           NEW t, truth' = t, TruthTells(t), Tells(fs, truth, t), fs = << >> => Keeps(truth, t)
    PROVE  FeedTells'
<1> DEFINE v == Seen(feedShown, buffer)
<1>1. /\ redial' = redial /\ feedShown' = feedShown /\ buffer' = buffer
      /\ lines' = [i \in DOMAIN lines |-> CF!Sent(lines[i], fs)]
      /\ missed' = (missed \/ (fs # << >> /\ ~\E i \in DOMAIN lines' :
                       lines'[i].state = "up" /\ lines'[i].mine /\ lines'[i].whole))
  BY DEF CF!page, CF!Broadcast
<1>2. DOMAIN lines' = DOMAIN lines
  BY <1>1
<1>3. LinesSound /\ OpenLines' = OpenLines /\ missed \in BOOLEAN /\ missed' \in BOOLEAN
  BY BroadcastKeeps DEF FeedInv
<1>4. ASSUME NEW i \in DOMAIN lines', IsOpen(lines'[i]), fs # << >>, ~missed'
      PROVE  lines'[i].state = "up" /\ lines'[i].whole
  <2>1. PICK j \in DOMAIN lines' : lines'[j].state = "up" /\ lines'[j].mine /\ lines'[j].whole
    BY <1>1, <1>4
  <2>2. i \in OpenLines' /\ j \in OpenLines'
    BY <1>4, <2>1 DEF OpenLines, IsOpen
  <2>3. i = j
    BY <1>3, <2>2 DEF FeedInv, OneOpen
  <2> QED BY <2>1, <2>3
<1>5. ASSUME NEW i \in DOMAIN lines', IsOpen(lines'[i])
      PROVE  Quiet(lines'[i].frames) /\ LineTells(lines'[i], v, t, missed')
  <2> DEFINE l == lines[i]
  <2>1. LineSound(l) /\ lines'[i] = CF!Sent(l, fs) /\ IsOpen(l)
    BY <1>1, <1>2, <1>3, <1>5, SentSound DEF LinesSound
  <2>2. Quiet(l.frames) /\ LineTells(l, v, truth, missed)
    BY <1>2, <2>1 DEF FeedTells, Tidings
  <2> HIDE DEF l, v
  <2>3. CASE fs = << >>
    <3>1. CF!Sent(l, fs) = l /\ missed' = missed
      BY <1>1, <1>3, <2>3 DEF CF!Sent
    <3>2. LineTells(l, v, t, missed)
      BY <2>2, <2>3, Zenon DEF LineTells, Keeps
    <3> QED BY <2>1, <2>2, <3>1, <3>2
  <2>4. CASE l.state # "up" /\ fs # << >>
    <3>1. CF!Sent(l, fs) = l
      BY <2>4 DEF CF!Sent
    <3>2. missed'
      BY <1>4, <1>5, <2>1, <2>4, <3>1
    <3> QED BY <2>1, <2>2, <2>4, <3>1, <3>2 DEF LineTells
  <2>5. CASE l.state = "up" /\ fs # << >>
    <3> DEFINE room == MaxBehind + 1 - Len(l.frames)
    <3>1. FramesSound(l.frames) /\ Len(l.frames) \in Nat /\ Len(fs) \in Nat /\ room \in Int
      BY <2>1, <2>5, FramesHaveLength DEF LineSound, FeedBounds
    <3>2. IsList(l.frames) /\ IsList(fs) /\ "frames" \in DOMAIN l /\ "whole" \in DOMAIN l
      BY <2>1, <3>1, SoundIsList DEF LineSound
    <3> HIDE DEF room
    <3>3. CASE Len(fs) <= room
      <4> DEFINE n == [l EXCEPT !.frames = l.frames \o fs]
      <4>1. CF!Sent(l, fs) = n
        BY <2>5, <3>2, <3>3 DEF CF!Sent, room
      <4>2. n.frames = l.frames \o fs /\ n.state = l.state /\ n.whole = l.whole
        BY <3>2
      <4>3. Quiet(n.frames)
        BY <2>2, <3>2, <4>2, QuietJoin
      <4> HIDE DEF n
      <4>4. CASE l.whole
        <5>1. PICK e : /\ Leads(v, l.frames, e) /\ StoreSound(e) /\ RepairedBy(e, truth)
                       /\ ~missed => FollowedBy(e, truth)
          BY <2>2, <2>5, <4>4 DEF LineTells
        <5>2. PICK w : /\ Leads(e, fs, w) /\ StoreSound(w) /\ RepairedBy(w, t)
                       /\ FollowedBy(e, truth) => FollowedBy(w, t)
          BY <5>1 DEF Tells
        <5>3. Leads(v, l.frames \o fs, w)
          BY <3>2, <5>1, <5>2, LeadsOn
        <5>4. ~missed' => ~missed
          BY <1>1
        <5>5. LineTells(n, v, t, missed')
          BY <4>2, <5>1, <5>2, <5>3, <5>4 DEF LineTells
        <5> QED BY <2>1, <4>1, <4>3, <5>5
      <4>5. CASE ~l.whole
        <5>1. missed'
          BY <1>4, <1>5, <2>1, <2>5, <4>1, <4>2, <4>5
        <5>2. LineTells(n, v, t, missed')
          BY <4>2, <4>5, <5>1 DEF LineTells
        <5> QED BY <2>1, <4>1, <4>3, <5>2
      <4> QED BY <4>4, <4>5
    <3>4. CASE ~(Len(fs) <= room)
      <4> DEFINE n == [l EXCEPT !.frames = l.frames \o SubSeq(fs, 1, room), !.whole = FALSE]
      <4>1. CF!Sent(l, fs) = n
        BY <2>5, <3>2, <3>4 DEF CF!Sent, room
      <4>2. n.frames = l.frames \o SubSeq(fs, 1, room) /\ n.whole = FALSE
        BY <3>2
      <4>3. Quiet(SubSeq(fs, 1, room)) /\ IsList(SubSeq(fs, 1, room))
        <5>1. CASE room \in 0..Len(fs)
          BY <3>2, <5>1, QuietFirst
        <5>2. CASE room < 0
          <6>1. SubSeq(fs, 1, room) = << >>
            BY <3>1, <3>2, <5>2 DEF IsList
          <6> QED BY <6>1, QuietNothing
        <5> QED BY <3>1, <3>4, <5>1, <5>2
      <4>4. Quiet(n.frames)
        BY <2>2, <3>2, <4>2, <4>3, QuietJoin
      <4> HIDE DEF n
      <4>5. missed'
        BY <1>4, <1>5, <2>1, <2>5, <4>1, <4>2
      <4>6. LineTells(n, v, t, missed')
        BY <4>2, <4>5 DEF LineTells
      <4> QED BY <2>1, <4>1, <4>4, <4>6
    <3> QED BY <3>3, <3>4
  <2> QED BY <2>3, <2>4, <2>5
<1>6. redial /\ ~missed' => FollowedBy(v, t)
  <2> HAVE redial /\ ~missed'
  <2>1. fs = << >> /\ ~missed
    <3>1. OpenLines' = {}
      BY <1>3 DEF FeedInv, OneOpen
    <3>2. \A j \in DOMAIN lines' : ~(lines'[j].state = "up" /\ lines'[j].mine)
      BY <3>1 DEF OpenLines, IsOpen
    <3> QED BY <1>1, <3>2
  <2>2. FollowedBy(v, truth) /\ StoreSound(v)
    BY <2>1, SeenSound DEF FeedTells, Tidings
  <2> QED BY <2>1, <2>2 DEF Keeps
<1>7. PageSound(feedShown, buffer)
  BY DEF FeedTells, Tidings
<1> HIDE DEF v
<1>8. Tidings(t, lines', redial, feedShown, buffer, missed')
  BY <1>5, <1>6, <1>7 DEF Tidings, v
<1> QED BY <1>1, <1>8, TidingsNext

LEMMA EventTells == ASSUME FeedBounds, FeedInv, FeedTells, CF!Event PROVE FeedTells'
<1>1. FeedHostSound /\ TruthTells(truth) /\ about \in NewsKinds
  BY DEF FeedInv, FeedHostSound, FeedTells, Tidings
<1>2. PICK o \in CF!NewsOf(about) : truth' = o.truth /\ CF!Broadcast(lines, o.frames)
  BY DEF CF!Event
<1>3. FramesSound(o.frames) /\ Quiet(o.frames) /\ Carried(o)
  BY <1>1, <1>2, NewsSound, NewsQuiet, NewsCarried DEF ToldSound
<1>4. about' = about /\ UNCHANGED CF!page
  BY DEF CF!Event
<1>5. TruthTells(o.truth) /\ Tells(o.frames, truth, o.truth) /\ (o.frames = << >> => Keeps(truth, o.truth))
  <2>1. CASE o.frames = << >> /\ Keeps(truth, o.truth)
    BY <1>3, <2>1, TellsNothing DEF Carried
  <2>2. CASE \E f : o.frames = <<f>> /\ Carries(f, truth, o.truth)
    <3>1. PICK f : o.frames = <<f>> /\ Carries(f, truth, o.truth)
      BY <2>2
    <3>2. <<f>> # << >> /\ Tells(<<f>>, truth, o.truth)
      BY <3>1, TellsOne
    <3> QED BY <1>3, <3>1, <3>2 DEF Carried
  <2> QED BY <1>3, <2>1, <2>2 DEF Carried
<1> QED BY <1>2, <1>3, <1>4, <1>5, BroadcastTells

\* A line of the dialogue, or none.
Said(p, t) == IF p THEN CF!Banter(t) ELSE CF!Told(t, << >>)

LEMMA SaidTells ==
    ASSUME NEW p \in BOOLEAN, NEW t, TruthSound(t), TruthTells(t)
    PROVE  /\ TruthSound(Said(p, t).truth) /\ TruthTells(Said(p, t).truth)
           /\ FramesSound(Said(p, t).frames) /\ Quiet(Said(p, t).frames) /\ IsList(Said(p, t).frames)
           /\ Tells(Said(p, t).frames, t, Said(p, t).truth)
           /\ Said(p, t).frames = << >> => Keeps(t, Said(p, t).truth)
<1>1. CASE p
  <2>1. Said(p, t) = CF!Banter(t)
    BY <1>1 DEF Said
  <2>2. PICK f : CF!Banter(t).frames = <<f>> /\ Carries(f, t, CF!Banter(t).truth)
    BY BanterCarried
  <2>3. <<f>> # << >> /\ Tells(<<f>>, t, CF!Banter(t).truth)
    BY <2>2, TellsOne
  <2>4. TruthSound(CF!Banter(t).truth) /\ FramesSound(CF!Banter(t).frames)
    BY BanterSound, LikeIsSound
  <2> QED BY <2>1, <2>2, <2>3, <2>4, BanterCarried, BanterQuiet
<1>2. CASE ~p
  <2>1. Said(p, t).truth = t /\ Said(p, t).frames = << >>
    BY <1>2 DEF Said, CF!Told
  <2>2. Keeps(t, t)
    BY KeepsItself
  <2>3. Tells(<< >>, t, t)
    BY <2>2, TellsNothing
  <2> QED BY <2>1, <2>2, <2>3, NoFrames, QuietNothing
<1> QED BY <1>1, <1>2

\* The switch of the chat after a line of the dialogue: the line says nothing of
\* the switch, and the switch nothing of the line.
LEMMA SwitchSaid ==
    ASSUME NEW p \in BOOLEAN, NEW t, TruthSound(t), NEW c
    PROVE  [Said(p, t).truth EXCEPT !.chat = c] = Said(p, [t EXCEPT !.chat = c]).truth
<1> DEFINE u == [t EXCEPT !.chat = c]
           k == CF!LastOf(Append(t.log, CF!Stamp), LogCap)
<1>1. DOMAIN t = {"telemetry", "merged", "hardware", "tasks", "chairs", "cycles", "claims", "retries",
                  "receipts", "log", "latest", "chat", "topics", "messages"}
  BY DEF TruthSound
<1>2. u.log = t.log
  BY <1>1
<1>3. CASE p
  <2>1. Said(p, t).truth = [t EXCEPT !.log = k]
    BY <1>3 DEF Said, CF!Banter, CF!Told
  <2>2. Said(p, u).truth = [u EXCEPT !.log = CF!LastOf(Append(u.log, CF!Stamp), LogCap)]
    BY <1>3 DEF Said, CF!Banter, CF!Told
  <2>3. Said(p, u).truth = [u EXCEPT !.log = k]
    BY <1>2, <2>2
  <2> HIDE DEF k
  <2>4. [[t EXCEPT !.log = k] EXCEPT !.chat = c] = [u EXCEPT !.log = k]
    BY <1>1
  <2> HIDE DEF u
  <2>5. [Said(p, t).truth EXCEPT !.chat = c] = Said(p, u).truth
    BY <2>1, <2>3, <2>4
  <2> QED BY <2>5 DEF u
<1>4. CASE ~p
  BY <1>4 DEF Said, CF!Told
<1> QED BY <1>3, <1>4

LEMMA ToggleTells == ASSUME FeedBounds, FeedInv, FeedTells, NEW on \in BOOLEAN, CF!ToggleChat(on) PROVE FeedTells'
<1>1. TruthSound(truth) /\ TruthTells(truth) /\ loop \in BOOLEAN
  BY DEF FeedInv, FeedHostSound, FeedTells, Tidings
<1> DEFINE c == [truth.chat EXCEPT !.enabled = on]
           t == [truth EXCEPT !.chat.enabled = on]
           p == on /\ ~loop
           s == Said(p, truth)
           f == CF!Frame("chat_state", c)
           u == [s.truth EXCEPT !.chat = c]
<1>2. t = [truth EXCEPT !.chat = c] /\ t.chat = c
  BY <1>1 DEF TruthSound
<1>3. /\ truth' = Said(p, t).truth
      /\ CF!Broadcast(lines, Said(p, t).frames \o <<CF!Frame("chat_state", t.chat)>>)
      /\ about' = about /\ UNCHANGED CF!page
  BY DEF CF!ToggleChat, Said
<1>4. s.frames = Said(p, t).frames
  BY DEF Said, CF!Banter, CF!Told
<1> HIDE DEF c, t, p
<1>5. p \in BOOLEAN
  BY <1>1 DEF p
<1>6. /\ TruthSound(s.truth) /\ TruthTells(s.truth)
      /\ FramesSound(s.frames) /\ Quiet(s.frames) /\ IsList(s.frames)
      /\ Tells(s.frames, truth, s.truth)
  BY <1>1, <1>5, SaidTells
<1>7. u = Said(p, t).truth
  BY <1>1, <1>2, <1>5, SwitchSaid
<1> HIDE DEF s
<1>8. Carries(f, s.truth, u) /\ TruthTells(u)
  BY <1>6, ChatCarried
<1>9. FramesSound(<<f>>) /\ Quiet(<<f>>) /\ IsList(<<f>>) /\ Tells(<<f>>, s.truth, u)
  <2>1. FramesSound(<<f>>)
    BY PlainFrame
  <2>2. Quiet(<<f>>) /\ IsList(<<f>>)
    BY QuietFrame
  <2>3. Tells(<<f>>, s.truth, u)
    BY <1>8, TellsOne
  <2> QED BY <2>1, <2>2, <2>3
<1> HIDE DEF u, f
<1> DEFINE fs == s.frames \o <<f>>
<1>10. FramesSound(fs) /\ Quiet(fs) /\ Tells(fs, truth, u)
  BY <1>6, <1>9, MoreFrames, QuietJoin, TellsOn
<1>11. fs # << >>
  <2>1. Len(fs) = Len(s.frames) + Len(<<f>>) /\ Len(s.frames) \in Nat
    BY <1>6, <1>9, ListsJoin
  <2> QED BY <2>1
<1>12. CF!Broadcast(lines, fs) /\ truth' = u
  BY <1>2, <1>3, <1>4, <1>7 DEF f
<1> HIDE DEF fs
<1> QED BY <1>3, <1>8, <1>10, <1>11, <1>12, BroadcastTells

LEMMA ChatModeTells == ASSUME FeedBounds, FeedInv, FeedTells, NEW m, CF!SetChatMode(m) PROVE FeedTells'
<1>1. TruthSound(truth) /\ TruthTells(truth) /\ truth.chat.enabled \in BOOLEAN
  BY DEF FeedInv, FeedHostSound, FeedTells, Tidings, TruthSound
<1> DEFINE c == [truth.chat EXCEPT !.mode = m]
           t == [truth EXCEPT !.chat.mode = m]
           p == t.chat.enabled
           s == Said(p, t)
           f == CF!Frame("chat_state", c)
<1>2. t = [truth EXCEPT !.chat = c] /\ t.chat = c
  BY <1>1 DEF TruthSound
<1>3. DOMAIN c = {"enabled", "mode"} /\ c.enabled = truth.chat.enabled
  BY <1>1 DEF TruthSound
<1>4. /\ truth' = s.truth
      /\ CF!Broadcast(lines, <<CF!Frame("chat_state", t.chat)>> \o s.frames)
      /\ about' = about /\ UNCHANGED CF!page
  BY DEF CF!SetChatMode, Said
<1> HIDE DEF c, t
<1>5. TruthSound(t)
  BY <1>1, <1>2, <1>3, ChatIsSet
<1>6. Carries(f, truth, t) /\ TruthTells(t) /\ p \in BOOLEAN
  BY <1>1, <1>2, <1>3, ChatCarried
<1> HIDE DEF p
<1>7. /\ TruthTells(s.truth)
      /\ FramesSound(s.frames) /\ Quiet(s.frames) /\ IsList(s.frames)
      /\ Tells(s.frames, t, s.truth)
  BY <1>5, <1>6, SaidTells
<1> HIDE DEF s
<1>8. FramesSound(<<f>>) /\ Quiet(<<f>>) /\ IsList(<<f>>) /\ Tells(<<f>>, truth, t)
  <2>1. FramesSound(<<f>>)
    BY PlainFrame
  <2>2. Quiet(<<f>>) /\ IsList(<<f>>)
    BY QuietFrame
  <2>3. Tells(<<f>>, truth, t)
    BY <1>6, TellsOne
  <2> QED BY <2>1, <2>2, <2>3
<1> HIDE DEF f
<1> DEFINE fs == <<f>> \o s.frames
<1>9. FramesSound(fs) /\ Quiet(fs) /\ Tells(fs, truth, s.truth)
  BY <1>7, <1>8, MoreFrames, QuietJoin, TellsOn
<1>10. fs # << >>
  <2>1. Len(fs) = Len(<<f>>) + Len(s.frames) /\ Len(s.frames) \in Nat
    BY <1>7, <1>8, ListsJoin
  <2> QED BY <2>1
<1>11. CF!Broadcast(lines, fs)
  BY <1>2, <1>4 DEF f
<1> HIDE DEF fs
<1> QED BY <1>4, <1>7, <1>9, <1>10, <1>11, BroadcastTells

LEMMA WokenSaid ==
    ASSUME TruthSound(truth)
    PROVE  CF!Woken = Said(feedMode = "idle" /\ truth.chat.enabled, truth)
BY DEF CF!Woken, Said

LEMMA ActivityTells == ASSUME FeedBounds, FeedInv, FeedTells, CF!NoteActivity PROVE FeedTells'
<1>1. TruthSound(truth) /\ TruthTells(truth) /\ truth.chat.enabled \in BOOLEAN
  BY DEF FeedInv, FeedHostSound, FeedTells, Tidings, TruthSound
<1> DEFINE p == feedMode = "idle" /\ truth.chat.enabled
           s == Said(p, truth)
<1>2. truth' = s.truth /\ CF!Broadcast(lines, s.frames) /\ about' = about /\ UNCHANGED CF!page
  BY <1>1, WokenSaid DEF CF!NoteActivity
<1>3. p \in BOOLEAN
  BY <1>1
<1> HIDE DEF p
<1>4. /\ TruthTells(s.truth)
      /\ FramesSound(s.frames) /\ Quiet(s.frames)
      /\ Tells(s.frames, truth, s.truth)
      /\ s.frames = << >> => Keeps(truth, s.truth)
  BY <1>1, <1>3, SaidTells
<1> HIDE DEF s
<1> QED BY <1>2, <1>4, BroadcastTells

\* What the idle mode drops from the caches is not taken from what is shown.
LEMMA IdleTells == ASSUME FeedBounds, FeedInv, FeedTells, CF!EnterIdle PROVE FeedTells'
<1> DEFINE k == CF!LastOf(truth.tasks, IdleTasks)
           t == [truth EXCEPT !.telemetry = << >>, !.tasks = k, !.hardware = 0]
           v == Seen(feedShown, buffer)
<1>1. TruthSound(truth) /\ TruthTells(truth)
  BY DEF FeedInv, FeedHostSound, FeedTells, Tidings
<1>2. /\ truth' = t /\ about' = about
      /\ redial' = redial /\ feedShown' = feedShown /\ buffer' = buffer /\ lines' = lines /\ missed' = missed
      /\ \A i \in DOMAIN lines : lines[i].state # "up"
  BY DEF CF!EnterIdle, CF!page
<1> HIDE DEF k
<1>3. /\ t.telemetry = << >> /\ t.merged = truth.merged /\ t.cycles = truth.cycles /\ t.chairs = truth.chairs
      /\ t.claims = truth.claims /\ t.receipts = truth.receipts /\ t.log = truth.log /\ t.latest = truth.latest
      /\ t.messages = truth.messages /\ t.topics = truth.topics
  BY <1>1 DEF TruthSound
<1> HIDE DEF t, v
<1>4. TruthTells(t)
  <2>1. IsRecord(truth.merged)
    BY <1>1 DEF TruthTells
  <2>2. CF!Merge(t.merged, t.telemetry) = t.merged
    BY <1>3, <2>1, MergeNothing
  <2> QED BY <1>1, <1>3, <2>2 DEF TruthTells
<1>5. \A e : FollowedBy(e, truth) => FollowedBy(e, t)
  BY <1>3 DEF FollowedBy
<1>6. ASSUME NEW i \in DOMAIN lines, IsOpen(lines[i])
      PROVE  Quiet(lines[i].frames) /\ LineTells(lines[i], v, t, missed)
  <2>1. Quiet(lines[i].frames) /\ LineTells(lines[i], v, truth, missed) /\ lines[i].state # "up"
    BY <1>2, <1>6 DEF FeedTells, Tidings, v
  <2> QED BY <1>5, <2>1 DEF LineTells
<1>7. PageSound(feedShown, buffer) /\ (redial /\ ~missed => FollowedBy(v, t))
  BY <1>5 DEF FeedTells, Tidings, v
<1>8. Tidings(t, lines, redial, feedShown, buffer, missed)
  BY <1>4, <1>6, <1>7 DEF Tidings, v
<1> QED BY <1>2, <1>8, TidingsNext
-----------------------------------------------------------------------------
\* The steps of the sockets and of the page.

LEMMA BanterFollowed ==
    ASSUME NEW p \in BOOLEAN, NEW t, TruthSound(t), NEW v, StoreSound(v), Calm(v)
    PROVE  \E w : /\ Leads(v, Said(p, t).frames, w) /\ StoreSound(w) /\ Calm(w)
                  /\ FollowedBy(v, t) => FollowedBy(w, Said(p, t).truth)
<1>1. CASE p
  <2> DEFINE k == CF!LastOf(Append(t.log, CF!Stamp), LogCap)
             n == CF!LastOf(Append(v.log, CF!Stamp), LogCap)
             u == [t EXCEPT !.log = k]
             f == CF!Frame("chat_message", CF!Stamp)
             w == Shows(v, f)
  <2>1. Said(p, t).truth = u /\ Said(p, t).frames = <<f>>
    BY <1>1 DEF Said, CF!Banter, CF!Told
  <2>2. IsStore(v)
    BY DEF StoreSound
  <2>3. w = [v EXCEPT !.log = n]
    BY <2>2, ShowsStored DEF CF!Stored, CF!Frame, CF!AddInterAgentMessage
  <2>4. StoreSound(w)
    <3>1. FrameSound(f)
      BY PlainFrame
    <3> HIDE DEF f
    <3> QED BY <3>1, ShowsSound
  <2>5. Leads(v, <<f>>, w)
    BY LeadsOne
  <2>6. v.log = t.log => n = k
    OBVIOUS
  <2> HIDE DEF f, w, k, n
  <2>7. FollowedBy(v, t) => FollowedBy(w, u)
    BY <2>2, <2>3, <2>6, StoreFields DEF FollowedBy, TruthSound
  <2>8. Calm(w)
    BY <2>2, <2>3, StoreFields DEF Calm
  <2> QED BY <2>1, <2>4, <2>5, <2>7, <2>8
<1>2. CASE ~p
  <2>1. Said(p, t).truth = t /\ Said(p, t).frames = << >>
    BY <1>2 DEF Said, CF!Told
  <2> QED BY <2>1, LeadsNowhere
<1> QED BY <1>1, <1>2

LEMMA ReplayQuiet ==
    ASSUME FeedBounds, NEW t, TruthSound(t) PROVE Quiet(CF!Replay(t)) /\ IsList(CF!Replay(t))
<1> DEFINE a == IF about \in {"chairs", "phases"} THEN CF!Cards ELSE << >>
           b == CF!When(t.telemetry # << >>, CF!Frame("telemetry", t.telemetry))
           c == [i \in DOMAIN t.tasks |-> CF!Frame("new_task", t.tasks[i])]
           d == CF!When(t.hardware # 0, CF!Frame("hardware_telemetry", t.hardware))
           e == CF!When(about = "chat", CF!Frame("chat_state", t.chat))
           f == CF!When(\E s \in Speakers : t.chairs[s] # "absent", CF!Frame("chair_roster", t.chairs))
<1>1. CF!Replay(t) = ((((a \o b) \o c) \o d) \o e) \o f
  BY DEF CF!Replay
<1>2. Quiet(a) /\ IsList(a)
  <2>1. PICK n \in Nat : \E q \in [1..n -> Speakers] :
              /\ Len(CF!Cards) = n /\ IsList(CF!Cards)
              /\ \A k \in 1..n : CF!Cards[k] = CF!Frame("agent_card", q[k])
    BY CardsAre
  <2>2. \A k \in 1..Len(CF!Cards) : CF!Cards[k].type # "phase_change"
    BY <2>1 DEF CF!Frame
  <2> QED BY <2>1, <2>2, QuietNothing DEF Quiet
<1>3. Quiet(b) /\ Quiet(d) /\ Quiet(e) /\ Quiet(f)
  BY QuietWhen
<1>4. IsList(b) /\ IsList(d) /\ IsList(e) /\ IsList(f)
  BY WhenIsList
<1>5. Quiet(c) /\ IsList(c)
  <2>1. t.tasks \in Seq(Nat)
    BY DEF TruthSound
  <2>2. c \in Seq({CF!Frame("new_task", t.tasks[i]) : i \in DOMAIN t.tasks}) /\ Len(c) = Len(t.tasks)
    BY <2>1
  <2>3. \A k \in 1..Len(c) : c[k] = CF!Frame("new_task", t.tasks[k])
    BY <2>1, <2>2
  <2>4. \A k \in 1..Len(c) : c[k].type # "phase_change"
    BY <2>3 DEF CF!Frame
  <2> HIDE DEF c
  <2> QED BY <2>2, <2>4 DEF Quiet, IsList
<1> HIDE DEF a, b, c, d, e, f
<1>6. Quiet(a \o b) /\ IsList(a \o b)
  BY <1>2, <1>3, <1>4, QuietJoin, ListsJoin
<1>7. Quiet((a \o b) \o c) /\ IsList((a \o b) \o c)
  BY <1>5, <1>6, QuietJoin, ListsJoin
<1>8. Quiet(((a \o b) \o c) \o d) /\ IsList(((a \o b) \o c) \o d)
  BY <1>3, <1>4, <1>7, QuietJoin, ListsJoin
<1>9. Quiet((((a \o b) \o c) \o d) \o e) /\ IsList((((a \o b) \o c) \o d) \o e)
  BY <1>3, <1>4, <1>8, QuietJoin, ListsJoin
<1>10. Quiet(((((a \o b) \o c) \o d) \o e) \o f) /\ IsList(((((a \o b) \o c) \o d) \o e) \o f)
  BY <1>3, <1>4, <1>9, QuietJoin, ListsJoin
<1> QED BY <1>1, <1>10

LEMMA ShowsNothing ==
    ASSUME NEW v, IsStore(v) PROVE Shows(v, CF!Open) = v /\ Shows(v, CF!Close) = v
<1>1. CF!Open.type = "open" /\ CF!Close.type = "close"
  BY DEF CF!Open, CF!Close, CF!Frame
<1>2. CF!Apply(v, CF!Open) = v /\ CF!Apply(v, CF!Close) = v
  BY <1>1, NotForTheStore
<1> QED BY <1>1, <1>2 DEF Shows

\* A new client is sent all that the caches hold.
LEMMA AcceptTells ==
    ASSUME FeedBounds, FeedInv, FeedTells, NEW i \in DOMAIN lines, CF!Accept(i) PROVE FeedTells'
<1> DEFINE v == Seen(feedShown, buffer)
           p == feedMode = "idle" /\ truth.chat.enabled
           s == Said(p, truth)
           fs == (<<CF!Open>> \o s.frames) \o CF!Replay(s.truth)
           n == [lines[i] EXCEPT !.state = "up", !.frames = fs]
<1>1. TruthSound(truth) /\ TruthTells(truth) /\ truth.chat.enabled \in BOOLEAN /\ LineSound(lines[i])
  BY DEF FeedInv, FeedHostSound, FeedTells, Tidings, TruthSound, LinesSound
<1>2. /\ truth' = s.truth /\ lines[i].state = "dialing"
      /\ lines' = [lines EXCEPT ![i] = n]
      /\ about' = about /\ redial' = redial /\ feedShown' = feedShown /\ buffer' = buffer /\ missed' = missed
  BY <1>1, WokenSaid DEF CF!Accept, CF!page
<1>3. lines[i].frames = << >> /\ lines[i].mine /\ IsOpen(lines[i])
  BY <1>1, <1>2 DEF LineSound, IsOpen
<1>4. OpenLines = {i} /\ ~redial
  BY <1>3 DEF FeedInv, OneOpen, OpenLines
<1>5. p \in BOOLEAN
  BY <1>1
<1> HIDE DEF p
<1>6. TruthSound(s.truth) /\ TruthTells(s.truth) /\ Quiet(s.frames) /\ IsList(s.frames)
  BY <1>1, <1>5, SaidTells
<1>7. PageSound(feedShown, buffer) /\ StoreSound(v) /\ Calm(v) /\ (~missed => FollowedBy(v, truth))
  <2>1. PageSound(feedShown, buffer) /\ LineTells(lines[i], v, truth, missed)
    BY <1>3 DEF FeedTells, Tidings
  <2>2. ~missed => \E e : Leads(v, << >>, e) /\ FollowedBy(e, truth)
    BY <1>3, <2>1 DEF LineTells
  <2>3. ~missed => FollowedBy(v, truth)
    BY <2>2, LeadsNowhere
  <2> QED BY <2>1, <2>3, SeenSound
<1> HIDE DEF v
<1>8. Leads(v, <<CF!Open>>, v) /\ Quiet(<<CF!Open>>) /\ IsList(<<CF!Open>>)
  <2>1. Leads(v, <<CF!Open>>, v)
    BY <1>7, ShowsNothing, LeadsOne DEF StoreSound
  <2>2. Quiet(<<CF!Open>>) /\ IsList(<<CF!Open>>)
    BY QuietFrame DEF CF!Open
  <2> QED BY <2>1, <2>2
<1>9. PICK w : /\ Leads(v, s.frames, w) /\ StoreSound(w) /\ Calm(w)
               /\ FollowedBy(v, truth) => FollowedBy(w, s.truth)
  BY <1>1, <1>5, <1>7, BanterFollowed
<1> HIDE DEF s
<1>10. PICK e : /\ Leads(w, CF!Replay(s.truth), e) /\ StoreSound(e) /\ RepairedBy(e, s.truth)
                /\ FollowedBy(w, s.truth) => FollowedBy(e, s.truth)
  BY <1>6, <1>9, ReplayTells
<1>11. Quiet(CF!Replay(s.truth)) /\ IsList(CF!Replay(s.truth))
  BY <1>6, ReplayQuiet
<1>12. Leads(v, <<CF!Open>> \o s.frames, w) /\ IsList(<<CF!Open>> \o s.frames) /\ Quiet(<<CF!Open>> \o s.frames)
  BY <1>6, <1>8, <1>9, LeadsOn, ListsJoin, QuietJoin
<1>13. Leads(v, fs, e) /\ Quiet(fs)
  BY <1>10, <1>11, <1>12, LeadsOn, QuietJoin
<1> HIDE DEF fs
<1>14. n.frames = fs
  BY <1>1 DEF LineSound
<1>15. LineTells(n, v, s.truth, missed)
  BY <1>7, <1>9, <1>10, <1>13, <1>14 DEF LineTells
<1> HIDE DEF n
<1>16. ASSUME NEW j \in DOMAIN lines', IsOpen(lines'[j])
       PROVE  Quiet(lines'[j].frames) /\ LineTells(lines'[j], v, s.truth, missed)
  <2>1. CASE j = i
    <3>1. lines'[j] = n
      BY <1>2, <2>1
    <3> QED BY <1>13, <1>14, <1>15, <3>1
  <2>2. CASE j # i
    <3>1. lines'[j] = lines[j] /\ j \in DOMAIN lines
      BY <1>2, <2>2
    <3> QED BY <1>4, <1>16, <2>2, <3>1 DEF OpenLines
  <2> QED BY <2>1, <2>2
<1>17. Tidings(s.truth, lines', redial, feedShown, buffer, missed)
  BY <1>4, <1>6, <1>7, <1>16 DEF Tidings, v
<1> QED BY <1>2, <1>17, TidingsNext

\* A socket that ends with what was sent to it leads where it led.
LEMMA LineEnds ==
    ASSUME NEW l, NEW v, NEW t, LineTells(l, v, t, FALSE), IsList(l.frames), Quiet(l.frames), IsStore(v),
           NEW n, n.frames = l.frames \o <<CF!Close>>, n.state = "down"
    PROVE  LineTells(n, v, t, FALSE)
<1>1. PICK e : Leads(v, l.frames, e) /\ StoreSound(e) /\ FollowedBy(e, t)
  BY DEF LineTells
<1>2. Leads(e, <<CF!Close>>, e)
  BY <1>1, ShowsNothing, LeadsOne DEF StoreSound
<1>3. IsList(<<CF!Close>>)
  BY QuietFrame DEF CF!Close
<1>4. Leads(v, l.frames \o <<CF!Close>>, e)
  BY <1>1, <1>2, <1>3, LeadsOn
<1> QED BY <1>1, <1>4 DEF LineTells

\* One socket changes, and neither the host nor the page does.
LEMMA LineChanges ==
    ASSUME FeedTells, NEW i \in DOMAIN lines, NEW n, lines' = [lines EXCEPT ![i] = n],
           UNCHANGED <<about, CF!server, CF!page>>, missed => missed', missed \in BOOLEAN, missed' \in BOOLEAN,
           IsOpen(n) => Quiet(n.frames) /\ LineTells(n, Seen(feedShown, buffer), truth, missed'),
           \A j \in DOMAIN lines \ {i} : ~IsOpen(lines[j])
    PROVE  FeedTells'
<1>1. /\ about' = about /\ truth' = truth /\ redial' = redial /\ feedShown' = feedShown /\ buffer' = buffer
  BY DEF CF!server, CF!page
<1>2. /\ TruthTells(truth) /\ PageSound(feedShown, buffer)
      /\ redial /\ ~missed => FollowedBy(Seen(feedShown, buffer), truth)
  BY DEF FeedTells, Tidings
<1>3. ASSUME NEW j \in DOMAIN lines', IsOpen(lines'[j])
      PROVE  Quiet(lines'[j].frames) /\ LineTells(lines'[j], Seen(feedShown, buffer), truth, missed')
  <2>1. j = i
    BY <1>3
  <2>2. lines'[j] = n
    BY <2>1
  <2> QED BY <1>3, <2>2
<1>4. Tidings(truth, lines', redial, feedShown, buffer, missed')
  BY <1>2, <1>3 DEF Tidings
<1> QED BY <1>1, <1>4, TidingsNext

LEMMA RefuseTells ==
    ASSUME FeedInv, FeedTells, NEW i \in DOMAIN lines, CF!Refuse(i) PROVE FeedTells'
<1> DEFINE v == Seen(feedShown, buffer)
<1>1. LineSound(lines[i]) /\ lines[i].state = "dialing" /\ missed \in BOOLEAN
      /\ UNCHANGED <<about, CF!server, CF!page, missed>>
  BY DEF FeedInv, LinesSound, CF!Refuse
<1>2. lines[i].frames = << >> /\ IsOpen(lines[i])
  BY <1>1 DEF LineSound, IsOpen
<1>3. OpenLines = {i}
  BY <1>2 DEF FeedInv, OneOpen, OpenLines
<1>4. \A j \in DOMAIN lines \ {i} : ~IsOpen(lines[j])
  BY <1>3 DEF OpenLines
<1>5. StoreSound(v) /\ LineTells(lines[i], v, truth, missed)
  BY <1>2, SeenSound DEF FeedTells, Tidings
<1>6. PICK fs \in {<<CF!Open, CF!Close>>, <<CF!Close>>} :
        lines' = [lines EXCEPT ![i].state = "down", ![i].frames = fs]
  BY DEF CF!Refuse
<1> DEFINE l == [[lines[i] EXCEPT !.state = "down"] EXCEPT !.frames = fs]
<1>7. lines' = [lines EXCEPT ![i] = l]
  BY <1>1, <1>6 DEF LineSound
<1>8. l.frames = fs /\ l.state = "down"
  BY <1>1 DEF LineSound
<1> HIDE DEF v, l
<1>9. Quiet(fs) /\ Leads(v, fs, v)
  <2>1. Leads(v, <<CF!Open>>, v) /\ Leads(v, <<CF!Close>>, v)
    BY <1>5, ShowsNothing, LeadsOne DEF StoreSound
  <2>2. Quiet(<<CF!Open>>) /\ IsList(<<CF!Open>>) /\ Quiet(<<CF!Close>>) /\ IsList(<<CF!Close>>)
    BY QuietFrame DEF CF!Open, CF!Close
  <2>3. Leads(v, <<CF!Open>> \o <<CF!Close>>, v) /\ Quiet(<<CF!Open>> \o <<CF!Close>>)
    BY <2>1, <2>2, LeadsOn, QuietJoin
  <2> QED BY <2>1, <2>2, <2>3, TwoFrames
<1>10. ~missed => FollowedBy(v, truth)
  BY <1>2, <1>5, LeadsNowhere DEF LineTells
<1>11. LineTells(l, v, truth, missed)
  BY <1>5, <1>8, <1>9, <1>10 DEF LineTells
<1>12. Quiet(l.frames) /\ LineTells(l, v, truth, missed')
  BY <1>1, <1>8, <1>9, <1>11
<1> QED BY <1>1, <1>4, <1>7, <1>12, LineChanges DEF v

LEMMA LoseTells ==
    ASSUME FeedInv, FeedTells, NEW i \in DOMAIN lines, CF!Lose(i) PROVE FeedTells'
<1> DEFINE v == Seen(feedShown, buffer)
           q == lines[i].frames
<1>1. LineSound(lines[i]) /\ lines[i].state = "up" /\ missed \in BOOLEAN /\ UNCHANGED <<about, CF!server, CF!page>>
  BY DEF FeedInv, LinesSound, CF!Lose
<1>2. IsOpen(lines[i]) /\ FramesSound(q)
  BY <1>1 DEF LineSound, IsOpen
<1>3. OpenLines = {i}
  BY <1>2 DEF FeedInv, OneOpen, OpenLines
<1>4. \A j \in DOMAIN lines \ {i} : ~IsOpen(lines[j])
  BY <1>3 DEF OpenLines
<1>5. StoreSound(v) /\ LineTells(lines[i], v, truth, missed) /\ Quiet(q) /\ IsList(q)
  BY <1>2, SeenSound, SoundIsList DEF FeedTells, Tidings
<1>6. PICK n \in 0..Len(q) :
        /\ lines' = [lines EXCEPT ![i].state = "down", ![i].frames = SubSeq(@, 1, n) \o <<CF!Close>>]
        /\ missed' = (missed \/ n < Len(q))
  BY DEF CF!Lose
<1> DEFINE s == SubSeq(q, 1, n)
           fs == s \o <<CF!Close>>
           l == [[lines[i] EXCEPT !.state = "down"] EXCEPT !.frames = fs]
<1>7. lines' = [lines EXCEPT ![i] = l]
  BY <1>1, <1>6 DEF LineSound
<1>8. l.frames = fs /\ l.state = "down"
  BY <1>1 DEF LineSound
<1>9. Quiet(s) /\ IsList(s) /\ Quiet(<<CF!Close>>) /\ IsList(<<CF!Close>>)
  BY <1>5, QuietFirst, QuietFrame DEF CF!Close
<1>10. ~(n < Len(q)) => s = q
  <2>1. PICK S : q \in Seq(S)
    BY <1>5 DEF IsList
  <2> QED BY <2>1
<1> HIDE DEF v, l, s
<1>11. Quiet(fs)
  BY <1>9, QuietJoin
<1> HIDE DEF q
<1>12. LineTells(l, v, truth, missed')
  <2>1. CASE missed'
    BY <1>8, <2>1 DEF LineTells
  <2>2. CASE ~missed'
    <3>1. s = q /\ missed = FALSE /\ missed' = FALSE
      BY <1>1, <1>6, <1>10, <2>2
    <3>2. IsStore(v) /\ LineTells(lines[i], v, truth, FALSE)
      BY <1>5, <3>1 DEF StoreSound
    <3>3. l.frames = q \o <<CF!Close>> /\ l.state = "down"
      BY <1>8, <3>1
    <3>4. LineTells(l, v, truth, FALSE)
      BY <1>5, <3>2, <3>3, LineEnds DEF q
    <3> QED BY <3>1, <3>4
  <2> QED BY <2>1, <2>2
<1>13. (missed => missed') /\ missed' \in BOOLEAN
  BY <1>1, <1>6
<1>14. Quiet(l.frames)
  BY <1>8, <1>11
<1> QED BY <1>1, <1>4, <1>7, <1>12, <1>13, <1>14, LineChanges DEF v

\* A socket is dialled when there is none: what is seen is what it begins with.
LEMMA DialTells ==
    ASSUME FeedTells, NEW ls, \E S : ls \in Seq(S), \A i \in DOMAIN ls : ~IsOpen(ls[i]),
           lines' = Append(ls, CF!Dialled), redial' = FALSE,
           UNCHANGED <<about, CF!server, feedShown, buffer>>, missed' \in BOOLEAN,
           ~missed' => FollowedBy(Seen(feedShown, buffer), truth)
    PROVE  FeedTells'
<1> DEFINE v == Seen(feedShown, buffer)
           d == CF!Dialled
<1>1. about' = about /\ truth' = truth /\ feedShown' = feedShown /\ buffer' = buffer
  BY DEF CF!server
<1>2. TruthTells(truth) /\ PageSound(feedShown, buffer) /\ StoreSound(v)
  BY SeenSound DEF FeedTells, Tidings
<1>3. d.frames = << >> /\ d.state = "dialing"
  BY DEF CF!Dialled
<1> HIDE DEF v, d
<1>4. Quiet(d.frames) /\ LineTells(d, v, truth, missed')
  BY <1>2, <1>3, QuietNothing, LeadsNowhere DEF LineTells, v
<1>5. ASSUME NEW j \in DOMAIN lines', IsOpen(lines'[j])
      PROVE  Quiet(lines'[j].frames) /\ LineTells(lines'[j], v, truth, missed')
  <2>1. lines' = Append(ls, d)
    BY DEF d
  <2>2. PICK S : ls \in Seq(S)
    OBVIOUS
  <2>3. j \in 1..Len(ls) + 1 /\ Len(ls) \in Nat /\ DOMAIN ls = 1..Len(ls)
    BY <2>1, <2>2
  <2>4. CASE j \in 1..Len(ls)
    <3>1. lines'[j] = ls[j]
      BY <2>1, <2>2, <2>4
    <3> QED BY <1>5, <2>3, <2>4, <3>1
  <2>5. CASE j = Len(ls) + 1
    <3>1. lines'[j] = d
      BY <2>1, <2>2, <2>5
    <3> QED BY <1>4, <3>1
  <2> QED BY <2>3, <2>4, <2>5
<1>6. Tidings(truth, lines', FALSE, feedShown, buffer, missed')
  BY <1>2, <1>5 DEF Tidings, v
<1> QED BY <1>1, <1>6, TidingsNext

LEMMA RedialTells == ASSUME FeedInv, FeedTells, CF!Redial PROVE FeedTells'
<1>1. /\ redial /\ redial' = FALSE /\ lines' = Append(lines, CF!Dialled)
      /\ UNCHANGED <<about, CF!server, feedShown, buffer>> /\ missed' = missed
  BY DEF CF!Redial
<1>2. (\E S : lines \in Seq(S)) /\ missed \in BOOLEAN /\ OpenLines = {}
  BY <1>1 DEF FeedInv, LinesSound, OneOpen
<1>3. \A i \in DOMAIN lines : ~IsOpen(lines[i])
  BY <1>2 DEF OpenLines
<1>4. ~missed => FollowedBy(Seen(feedShown, buffer), truth)
  BY <1>1 DEF FeedTells, Tidings
<1>5. missed' \in BOOLEAN /\ (~missed' => FollowedBy(Seen(feedShown, buffer), truth))
  BY <1>1, <1>2, <1>4
<1> QED BY <1>1, <1>2, <1>3, <1>5, DialTells

LEMMA RemountTells == ASSUME FeedInv, FeedTells, CF!Remount PROVE FeedTells'
<1> DEFINE ls == [i \in DOMAIN lines |->
                    IF lines[i].state = "down" /\ lines[i].frames = << >> THEN [lines[i] EXCEPT !.mine = FALSE]
                    ELSE [lines[i] EXCEPT !.state = "down", !.mine = FALSE, !.frames = <<CF!Close>>]]
           v == Seen(feedShown, buffer)
<1>1. /\ lines' = Append(ls, CF!Dialled) /\ redial' = FALSE
      /\ UNCHANGED <<about, CF!server, feedShown, buffer>>
      /\ missed' = (missed \/ \E i \in DOMAIN lines : lines[i].frames # << >>)
  BY DEF CF!Remount, CF!ClearTimeout
<1>2. ASSUME NEW i \in DOMAIN lines PROVE ~IsOpen(ls[i])
  <2>1. LineSound(lines[i])
    BY DEF FeedInv, LinesSound
  <2>2. CASE lines[i].state = "down" /\ lines[i].frames = << >>
    <3>1. ls[i] = [lines[i] EXCEPT !.mine = FALSE]
      BY <2>2
    <3> QED BY <2>1, <3>1 DEF LineSound, IsOpen
  <2>3. CASE ~(lines[i].state = "down" /\ lines[i].frames = << >>)
    <3>1. ls[i] = [lines[i] EXCEPT !.state = "down", !.mine = FALSE, !.frames = <<CF!Close>>]
      BY <2>3
    <3> QED BY <2>1, <3>1 DEF LineSound, IsOpen
  <2> QED BY <2>2, <2>3
<1>3. \E S : ls \in Seq(S)
  <2>1. DOMAIN lines = 1..Len(lines) /\ Len(lines) \in Nat
    BY DEF FeedInv, LinesSound
  <2> DEFINE S == {ls[i] : i \in DOMAIN lines}
  <2>2. ls \in [1..Len(lines) -> S]
    BY <2>1
  <2> HIDE DEF S, ls
  <2>3. ls \in Seq(S)
    BY <2>1, <2>2, SeqDef
  <2> QED BY <2>3
<1>4. DOMAIN ls = DOMAIN lines
  OBVIOUS
<1>5. missed \in BOOLEAN /\ redial \in BOOLEAN /\ OneOpen
  BY DEF FeedInv
<1> HIDE DEF ls
<1>6. missed' \in BOOLEAN
  BY <1>1, <1>5
<1>7. ~missed' => FollowedBy(v, truth)
  <2> HAVE ~missed'
  <2>1. ~missed /\ \A i \in DOMAIN lines : lines[i].frames = << >>
    BY <1>1
  <2>2. CASE redial
    BY <2>1, <2>2 DEF FeedTells, Tidings
  <2>3. CASE ~redial
    <3>1. PICK i \in DOMAIN lines : IsOpen(lines[i])
      BY <1>5, <2>3 DEF OneOpen, OpenLines
    <3>2. LineTells(lines[i], v, truth, missed) /\ lines[i].frames = << >>
      BY <2>1, <3>1 DEF FeedTells, Tidings
    <3>3. \E e : Leads(v, << >>, e) /\ FollowedBy(e, truth)
      BY <2>1, <3>2 DEF LineTells
    <3> QED BY <3>3, LeadsNowhere
  <2> QED BY <1>5, <2>2, <2>3
<1> QED BY <1>1, <1>2, <1>3, <1>4, <1>6, <1>7, DialTells

LEMMA FlushTells == ASSUME FeedInv, FeedTells, CF!Flush PROVE FeedTells'
<1> DEFINE s == CF!Flushed(feedShown, buffer)
           b == CF!NothingBuffered
<1>1. /\ feedShown' = s /\ buffer' = b
      /\ about' = about /\ truth' = truth /\ lines' = lines /\ redial' = redial /\ missed' = missed
  BY DEF CF!Flush, CF!server
<1>2. IsStore(feedShown) /\ PageSound(feedShown, buffer) /\ ShownSound(feedShown)
  BY DEF FeedTells, Tidings, PageSound
<1>3. Seen(s, b) = Seen(feedShown, buffer)
  BY <1>2, SeenOnFlush
<1>4. PageSound(s, b)
  <2> DEFINE m == CF!Merge(feedShown.telemetry, buffer.telemetry)
             h == IF buffer.hardware = 0 THEN feedShown.hardware ELSE buffer.hardware
  <2>1. s = [[feedShown EXCEPT !.telemetry = m] EXCEPT !.hardware = h]
    BY <1>2, StoreFields DEF CF!Flushed
  <2>2. IsRecord(m)
    BY MergeIs
  <2>3. ShownSound(s)
    BY <1>2, FlushedSound
  <2>4. IsBuffer(b)
    BY DEF IsBuffer, CF!NothingBuffered
  <2> HIDE DEF m, h, s, b
  <2>5. IsStore(s) /\ s.telemetry = m /\ s.tasks = feedShown.tasks /\ s.status = feedShown.status
    BY <1>2, <2>1 DEF IsStore, Parts, Told
  <2> QED BY <1>2, <2>2, <2>3, <2>4, <2>5 DEF PageSound, Calm
<1> HIDE DEF s, b
<1>5. Tidings(truth, lines, redial, s, b, missed)
  BY <1>3, <1>4 DEF FeedTells, Tidings
<1> QED BY <1>1, <1>5, TidingsNext

LEMMA FeedTellsStutters == ASSUME FeedTells, UNCHANGED CF!vars PROVE FeedTells'
<1>1. /\ about' = about /\ truth' = truth /\ lines' = lines /\ redial' = redial
      /\ feedShown' = feedShown /\ buffer' = buffer /\ missed' = missed
  BY DEF CF!vars, CF!server, CF!page
<1>2. Tidings(truth, lines, redial, feedShown, buffer, missed)
  BY DEF FeedTells
<1> QED BY <1>1, <1>2, TidingsNext

LEMMA ShowsCalm ==
    ASSUME NEW v, StoreSound(v), Calm(v), NEW f, FrameSound(f) \/ f = CF!Close,
           about # "phases" => f.type # "phase_change"
    PROVE  Calm(Shows(v, f))
<1> SUFFICES ASSUME about # "phases", NEW a \in Speakers PROVE Shows(v, f).status[a] = "online"
  BY DEF Calm
<1>1. IsStore(v) /\ ShownSound(v) /\ v.status[a] = "online" /\ f.type # "phase_change"
  BY DEF StoreSound, Calm
<1>2. CASE f.type = "telemetry" \/ f.type = "hardware_telemetry"
  <2>1. Shows(v, f).status = v.status
    BY <1>1, <1>2, StoreFields DEF Shows
  <2> QED BY <1>1, <2>1
<1>3. CASE f.type # "telemetry" /\ f.type # "hardware_telemetry"
  <2>1. Shows(v, f) = CF!Apply(v, f)
    BY <1>3 DEF Shows
  <2>2. CF!Apply(v, f).status = CF!Stored(v, f).status
    <3>1. IsStore(CF!Stored(v, f))
      BY <1>1, FramesAlike DEF StoredAlike, Leaves, Alike
    <3> QED BY <3>1, StoreFields DEF CF!Apply
  <2>3. CF!Stored(v, f).status[a] = "online"
    <3>1. CASE f.type = "agent_card"
      <4>1. CF!Stored(v, f) = CF!UpsertAgentNode(v, f.data)
        BY <3>1 DEF CF!Stored
      <4>2. CF!UpsertAgentNode(v, f.data).status = [v.status EXCEPT ![f.data] = "online"]
        BY <1>1, StoreFields DEF CF!UpsertAgentNode
      <4> QED BY <1>1, <4>1, <4>2 DEF ShownSound
    <3>2. CASE f.type = "chair_event"
      <4>1. CF!Stored(v, f) = CF!RecordChairEvent(v, f.data)
        BY <3>2 DEF CF!Stored
      <4>2. CF!RecordChairEvent(v, f.data).status = v.status
        BY <1>1, StoreFields DEF CF!RecordChairEvent
      <4> QED BY <1>1, <4>1, <4>2
    <3>3. CASE f.type = "chair_roster"
      <4>1. CF!Stored(v, f) = CF!ApplyChairRoster(v, f.data)
        BY <3>3 DEF CF!Stored
      <4>2. CF!ApplyChairRoster(v, f.data).status = v.status
        BY <1>1, StoreFields DEF CF!ApplyChairRoster
      <4> QED BY <1>1, <4>1, <4>2
    <3>4. CASE f.type = "claim_event"
      <4>1. CF!Stored(v, f) = CF!RecordClaimEvent(v, f.data)
        BY <3>4 DEF CF!Stored
      <4>2. CF!RecordClaimEvent(v, f.data).status = v.status
        BY <1>1, StoreFields DEF CF!RecordClaimEvent
      <4> QED BY <1>1, <4>1, <4>2
    <3>5. CASE f.type \in {"retry_event", "new_task", "receipt", "log", "latest", "chat_state", "chat_message",
                           "topic_opened", "topic_closed", "message_delta"}
      BY <1>1, <3>5, StoreTouches DEF Same
    <3>6. CASE f.type \notin {"agent_card", "chair_event", "chair_roster", "claim_event",
                              "retry_event", "new_task", "receipt", "log", "latest", "chat_state", "chat_message",
                              "topic_opened", "topic_closed", "message_delta"}
      <4>1. CF!Stored(v, f) = v
        BY <1>1, <3>6 DEF CF!Stored
      <4> QED BY <1>1, <4>1
    <3> QED BY <3>1, <3>2, <3>3, <3>4, <3>5, <3>6
  <2> QED BY <2>1, <2>2, <2>3
<1> QED BY <1>2, <1>3

\* What the page receives leaves it sound.
LEMMA PageReceives ==
    ASSUME NEW s, NEW b, PageSound(s, b), NEW f, FrameSound(f) \/ f = CF!Close,
           about # "phases" => f.type # "phase_change",
           NEW c, c = IF f.type = "telemetry" THEN CF!EnqueueTelemetry(b, f.data)
                      ELSE IF f.type = "hardware_telemetry" THEN CF!EnqueueHardware(b, f.data) ELSE b,
           NEW r, r = IF f.type = "close" THEN [s EXCEPT !.connected = FALSE]
                      ELSE IF f.type = "open" THEN [s EXCEPT !.connected = TRUE] ELSE CF!Apply(s, f)
    PROVE  Seen(r, c) = Shows(Seen(s, b), f) /\ PageSound(r, c)
<1> DEFINE v == Seen(s, b)
           w == Seen(r, c)
<1>1. /\ IsStore(s) /\ ShownSound(s) /\ IsRecord(s.telemetry) /\ IsBuffer(b)
      /\ f.type = "hardware_telemetry" => f.data # 0
  BY DEF PageSound, FrameSound, CF!Close, CF!Frame
<1>2. w = Shows(v, f) /\ IsBuffer(c)
  BY <1>1, SeenReceives
<1>3. StoreSound(v) /\ Calm(v)
  BY SeenSound
<1>4. IsStore(r) /\ r.telemetry = s.telemetry /\ r.connected \in BOOLEAN
  <2>1. CASE f.type = "open" \/ f.type = "close"
    <3>1. \E x \in BOOLEAN : r = [s EXCEPT !.connected = x]
      BY <2>1
    <3>2. DOMAIN s = Parts /\ {"connected", "telemetry", "hardware"} \subseteq Parts
      BY <1>1, PartsAre DEF IsStore
    <3> QED BY <1>1, <3>1, <3>2 DEF IsStore
  <2>2. CASE f.type # "open" /\ f.type # "close"
    <3>1. r = CF!Apply(s, f)
      BY <2>2
    <3>2. Alike(s, s)
      BY <1>1 DEF Alike
    <3>3. Leaves(CF!Apply(s, f), s)
      BY <3>2, AppliesAlike
    <3> QED BY <1>1, <3>1, <3>3 DEF Leaves, ShownSound
  <2> QED BY <2>1, <2>2
<1> HIDE DEF v
<1>5. StoreSound(w) /\ Calm(w)
  <2>1. StoreSound(Shows(v, f))
    BY <1>3, ShowsSound, ShowsNothing DEF StoreSound
  <2>2. Calm(Shows(v, f))
    BY <1>3, ShowsCalm
  <2> QED BY <1>2, <2>1, <2>2
<1>6. \A p \in Told : w[p] = r[p]
  <2>1. IsStore(r)
    BY <1>4
  <2>2. /\ IsStore(Seen(r, c)) /\ Seen(r, c).connected = FALSE
        /\ Seen(r, c).telemetry = CF!Merge(r.telemetry, c.telemetry)
        /\ Seen(r, c).hardware = IF c.hardware = 0 THEN r.hardware ELSE c.hardware
        /\ \A p \in Told : Seen(r, c)[p] = r[p]
    BY ONLY <2>1, SeenParts
  <2> QED BY <2>2
<1> HIDE DEF w
<1>7. w.tasks = r.tasks /\ w.claims = r.claims /\ w.chairs = r.chairs /\ w.status = r.status
  BY <1>6 DEF Told
<1>8. {"connected", "claims", "chairs", "status"} \subseteq DOMAIN r
  BY <1>4, StoreFields, Zenon
<1>9. ShownSound(r)
  BY <1>4, <1>5, <1>7, <1>8 DEF ShownSound, StoreSound
<1>10. IsList(r.tasks) /\ Calm(r)
  BY <1>5, <1>7 DEF StoreSound, Calm
<1>11. IsRecord(r.telemetry)
  BY <1>1, <1>4
<1>12. PageSound(r, c)
  BY <1>2, <1>4, <1>9, <1>10, <1>11 DEF PageSound
<1> QED BY <1>2, <1>12 DEF v, w

\* The frames of a socket that is not closed are sound, and so is the rest.
LEMMA NextOfLine ==
    ASSUME NEW l, LineSound(l), l.frames # << >>
    PROVE  /\ l.state # "dialing" /\ IsList(l.frames)
           /\ \/ Head(l.frames) = CF!Close /\ Tail(l.frames) = << >> /\ l.state = "down"
              \/ FrameSound(Head(l.frames)) /\ (l.state = "down" => Tail(l.frames) # << >>)
<1>1. CASE l.state = "up"
  <2>1. FramesSound(l.frames)
    BY <1>1 DEF LineSound
  <2>2. FrameSound(Head(l.frames))
    BY <2>1, NextFrame
  <2> QED BY <1>1, <2>1, <2>2, SoundIsList
<1>2. CASE l.state = "down"
  <2>1. PICK s : FramesSound(s) /\ l.frames = s \o <<CF!Close>>
    BY <1>2 DEF LineSound, Closing
  <2>2. IsList(s) /\ IsList(<<CF!Close>>)
    BY <2>1, SoundIsList, QuietFrame DEF CF!Close
  <2>3. IsList(s \o <<CF!Close>>)
    BY <2>2, ListsJoin
  <2>4. Closing(l.frames)
    BY <1>2 DEF LineSound
  <2> QED BY <1>2, <2>1, <2>3, <2>4, NextOfClosing
<1>3. l.state \in {"up", "down"}
  BY DEF LineSound
<1> QED BY <1>1, <1>2, <1>3

LEMMA ReceiveTells == ASSUME FeedInv, FeedTells, NEW i \in DOMAIN lines, CF!Receive(i) PROVE FeedTells'
<1> DEFINE q == lines[i].frames
           f == Head(q)
           mine == lines[i].mine
           l == [lines[i] EXCEPT !.frames = Tail(q)]
           v == Seen(feedShown, buffer)
           w == Seen(feedShown', buffer')
<1>1. LineSound(lines[i]) /\ OneOpen /\ missed \in BOOLEAN
  BY DEF FeedInv, LinesSound
<1>2. /\ q # << >> /\ lines' = [lines EXCEPT ![i] = l]
      /\ redial' = (redial \/ (f.type = "close" /\ mine))
      /\ buffer' = IF ~mine THEN buffer
                   ELSE IF f.type = "telemetry" THEN CF!EnqueueTelemetry(buffer, f.data)
                   ELSE IF f.type = "hardware_telemetry" THEN CF!EnqueueHardware(buffer, f.data) ELSE buffer
      /\ feedShown' = IF f.type = "close" THEN [feedShown EXCEPT !.connected = FALSE]
                      ELSE IF ~mine THEN feedShown
                      ELSE IF f.type = "open" THEN [feedShown EXCEPT !.connected = TRUE]
                      ELSE CF!Apply(feedShown, f)
      /\ about' = about /\ truth' = truth /\ missed' = missed
  BY DEF CF!Receive, CF!server
<1>3. /\ lines[i].state # "dialing" /\ IsList(q)
      /\ \/ f = CF!Close /\ Tail(q) = << >> /\ lines[i].state = "down"
         \/ FrameSound(f) /\ (lines[i].state = "down" => Tail(q) # << >>)
  BY <1>1, <1>2, NextOfLine
<1>4. /\ TruthTells(truth) /\ PageSound(feedShown, buffer)
      /\ \A j \in DOMAIN lines : IsOpen(lines[j]) => Quiet(lines[j].frames) /\ LineTells(lines[j], v, truth, missed)
      /\ redial /\ ~missed => FollowedBy(v, truth)
  BY DEF FeedTells, Tidings
<1>5. l.frames = Tail(q) /\ l.state = lines[i].state /\ l.mine = mine /\ l.whole = lines[i].whole
  BY <1>1 DEF LineSound
<1>6. mine \in BOOLEAN /\ (IsOpen(lines[i]) <=> mine)
  BY <1>1, <1>2 DEF LineSound, IsOpen
<1>7. DOMAIN lines' = DOMAIN lines /\ lines'[i] = l /\ \A j \in DOMAIN lines \ {i} : lines'[j] = lines[j]
  BY <1>2
<1> HIDE DEF l
<1>8. CASE ~mine
  <2>1. /\ buffer' = buffer /\ redial' = redial
        /\ (feedShown' = feedShown \/ feedShown' = [feedShown EXCEPT !.connected = FALSE])
    BY <1>1, <1>2, <1>8 DEF FeedInv
  <2>2. w = v /\ PageSound(feedShown', buffer)
    <3>1. CASE feedShown' = feedShown
      BY <1>4, <2>1, <3>1
    <3>2. CASE feedShown' = [feedShown EXCEPT !.connected = FALSE]
      <4>1. IsStore(feedShown) /\ ShownSound(feedShown)
        BY <1>4 DEF PageSound
      <4>2. w = v
        BY <2>1, <3>2, <4>1, SeenOnConnect
      <4>3. IsStore([feedShown EXCEPT !.connected = FALSE]) /\ ShownSound([feedShown EXCEPT !.connected = FALSE])
        BY <4>1 DEF IsStore, ShownSound
      <4>4. feedShown'.tasks = feedShown.tasks /\ feedShown'.telemetry = feedShown.telemetry
            /\ feedShown'.status = feedShown.status
        BY <3>2, <4>1, StoreFields
      <4> QED BY <1>4, <3>2, <4>2, <4>3, <4>4 DEF PageSound, Calm
    <3> QED BY <2>1, <3>1, <3>2
  <2>3. \A j \in DOMAIN lines' : IsOpen(lines'[j]) => j # i /\ lines'[j] = lines[j]
    BY <1>5, <1>7, <1>8 DEF IsOpen
  <2>4. Seen(feedShown', buffer) = v
    BY <2>1, <2>2
  <2> HIDE DEF v, w
  <2>5. \A j \in DOMAIN lines' : IsOpen(lines'[j]) => Quiet(lines'[j].frames) /\ LineTells(lines'[j], v, truth, missed)
    BY <1>4, <1>7, <2>3
  <2>6. Tidings(truth, lines', redial, feedShown', buffer, missed)
    BY <1>4, <2>2, <2>4, <2>5 DEF Tidings
  <2> QED BY <1>2, <2>1, <2>6, TidingsNext
<1>9. CASE mine
  <2>1. i \in OpenLines /\ Quiet(q) /\ LineTells(lines[i], v, truth, missed)
    BY <1>4, <1>6, <1>9 DEF OpenLines
  <2>2. ~redial /\ OpenLines = {i}
    BY <1>1, <2>1 DEF OneOpen
  <2>3. Quiet(Tail(q)) /\ (about # "phases" => f.type # "phase_change")
    BY <1>2, <1>3, <2>1, QuietNext
  <2>4. w = Shows(v, f) /\ PageSound(feedShown', buffer')
    <3>1. FrameSound(f) \/ f = CF!Close
      BY <1>3
    <3>2. buffer' = IF f.type = "telemetry" THEN CF!EnqueueTelemetry(buffer, f.data)
                    ELSE IF f.type = "hardware_telemetry" THEN CF!EnqueueHardware(buffer, f.data) ELSE buffer
      BY <1>2, <1>9
    <3>3. feedShown' = IF f.type = "close" THEN [feedShown EXCEPT !.connected = FALSE]
                       ELSE IF f.type = "open" THEN [feedShown EXCEPT !.connected = TRUE]
                       ELSE CF!Apply(feedShown, f)
      BY <1>2, <1>9
    <3> HIDE DEF f
    <3> QED BY <1>4, <2>3, <3>1, <3>2, <3>3, PageReceives
  <2> HIDE DEF f, v, w
  <2>5. LineTells(l, w, truth, missed)
    <3> SUFFICES ASSUME ~missed \/ (l.state = "up" /\ l.whole)
                 PROVE  \E e : /\ Leads(w, l.frames, e) /\ StoreSound(e)
                               /\ ~missed => FollowedBy(e, truth)
                               /\ l.state = "up" /\ l.whole => RepairedBy(e, truth)
      BY DEF LineTells
    <3>1. PICK e : /\ Leads(v, q, e) /\ StoreSound(e)
                   /\ ~missed => FollowedBy(e, truth)
                   /\ l.state = "up" /\ l.whole => RepairedBy(e, truth)
      BY <1>5, <2>1 DEF LineTells
    <3>2. Leads(Shows(v, f), Tail(q), e)
      BY <1>2, <1>3, <3>1, LeadsNext DEF f
    <3> QED BY <1>5, <2>4, <3>1, <3>2
  <2>6. \A j \in DOMAIN lines' : IsOpen(lines'[j]) => j = i
    BY <1>7, <2>2 DEF OpenLines
  <2>7. redial' /\ ~missed => FollowedBy(w, truth)
    <3> SUFFICES ASSUME redial', ~missed PROVE FollowedBy(w, truth)
      OBVIOUS
    <3>1. f.type = "close"
      BY <1>2, <2>2
    <3>2. Tail(q) = << >>
      BY <1>3, <3>1 DEF FrameSound
    <3>3. PICK e : Leads(w, l.frames, e) /\ FollowedBy(e, truth)
      BY <2>5 DEF LineTells
    <3>4. Leads(w, << >>, e)
      BY <1>5, <3>2, <3>3
    <3>5. e = w
      BY <3>4, LeadsNowhere
    <3> QED BY <3>3, <3>5
  <2>8. Tidings(truth, lines', redial', feedShown', buffer', missed)
    <3>1. \A j \in DOMAIN lines' : IsOpen(lines'[j]) => Quiet(lines'[j].frames) /\ LineTells(lines'[j], w, truth, missed)
      BY <1>5, <1>7, <2>3, <2>5, <2>6
    <3> QED BY <1>4, <2>4, <2>7, <3>1 DEF Tidings, w
  <2> QED BY <1>2, <2>8, TidingsNext
<1> QED BY <1>6, <1>8, <1>9

\* A page that is loaded shows nothing, and that is true.
LEMMA FeedTellsInit == FeedBounds /\ CF!Init => FeedTells
<1> SUFFICES ASSUME FeedBounds, CF!Init PROVE FeedTells
  OBVIOUS
<1> DEFINE s == feedShown
           b == buffer
           v == Seen(s, b)
           none == << >>
<1>1. /\ truth = [telemetry |-> none, merged |-> none, hardware |-> 0, tasks |-> <<>>,
                  chairs |-> [a \in Speakers |-> "absent"], cycles |-> [t \in Things |-> NoAgent],
                  claims |-> [t \in Things |-> "none"], retries |-> {}, receipts |-> 0, log |-> <<>>,
                  latest |-> 0, chat |-> [enabled |-> FALSE, mode |-> "interests"],
                  topics |-> none, messages |-> <<>>]
      /\ s = [connected |-> FALSE, telemetry |-> none, hardware |-> 0, tasks |-> <<>>, cards |-> {},
              chairs |-> [a \in Speakers |-> "absent"], status |-> [a \in Speakers |-> "online"],
              claims |-> [c \in CF!Buckets |-> 0], retries |-> 0, receipts |-> 0, log |-> <<>>,
              latest |-> 0, chat |-> [enabled |-> FALSE, mode |-> "interests"],
              topics |-> none, messages |-> <<>>, runs |-> none]
      /\ lines = <<CF!Dialled>> /\ redial = FALSE /\ b = CF!NothingBuffered /\ missed = FALSE
  BY DEF CF!Init, CF!Empty
<1>2. b.telemetry = none /\ b.hardware = 0 /\ IsBuffer(b)
  BY <1>1 DEF CF!NothingBuffered, IsBuffer
<1>3. DOMAIN none = {} /\ IsRecord(none)
  BY DEF IsRecord
<1>4. CF!Merge(none, none) = none
  BY <1>3, MergeNothing
<1> HIDE DEF none
<1>5. TruthTells(truth)
  <2>1. /\ truth.merged = none /\ truth.telemetry = none /\ truth.cycles = [t \in Things |-> NoAgent]
        /\ truth.chairs = [a \in Speakers |-> "absent"]
    BY <1>1
  <2> QED BY <1>3, <1>4, <2>1 DEF TruthTells
<1>6. /\ truth.merged = none /\ truth.topics = none /\ truth.claims = [t \in Things |-> "none"]
      /\ truth.chairs = [a \in Speakers |-> "absent"]
      /\ truth.receipts = 0 /\ truth.log = << >> /\ truth.latest = 0 /\ truth.messages = << >>
  BY <1>1
<1>7. /\ s.telemetry = none /\ s.topics = none /\ s.runs = none /\ s.claims = [c \in CF!Buckets |-> 0]
      /\ s.chairs = [a \in Speakers |-> "absent"] /\ s.status = [a \in Speakers |-> "online"]
      /\ s.receipts = 0 /\ s.log = << >> /\ s.latest = 0 /\ s.messages = << >> /\ s.tasks = << >>
  BY <1>1
<1>8. IsStore(s)
  BY <1>1 DEF IsStore, Parts, Told
<1>9. ShownSound(s)
  BY FeedInit DEF FeedInv
<1>10. PageSound(s, b)
  <2>1. IsList(s.tasks)
    BY <1>7, QuietNothing
  <2>2. Calm(s)
    BY <1>7 DEF Calm
  <2> QED BY <1>2, <1>3, <1>7, <1>8, <1>9, <2>1, <2>2 DEF PageSound
<1> HIDE DEF s, b
<1>11. StoreSound(v)
  BY <1>10, SeenSound
<1>12. v.telemetry = CF!Merge(s.telemetry, b.telemetry) /\ \A p \in Told : v[p] = s[p]
  BY <1>8, SeenParts
<1> HIDE DEF v
<1>13. /\ v.telemetry = none /\ v.topics = none /\ v.runs = none /\ v.claims = [c \in CF!Buckets |-> 0]
       /\ v.chairs = [a \in Speakers |-> "absent"]
       /\ v.receipts = 0 /\ v.log = << >> /\ v.latest = 0 /\ v.messages = << >>
  BY <1>2, <1>4, <1>7, <1>12 DEF Told
<1>14. ASSUME NEW c \in CF!Buckets PROVE Cardinality({x \in Things : truth.claims[x] = c}) = 0
  <2>1. "none" \notin CF!Buckets
    BY DEF CF!Buckets
  <2>2. {x \in Things : truth.claims[x] = c} = {}
    BY <1>6, <2>1
  <2> QED BY <2>2, FS_EmptySet
<1>15. FollowedBy(v, truth)
  BY <1>3, <1>6, <1>13, <1>14 DEF FollowedBy
<1>16. DOMAIN lines = {1} /\ lines[1] = CF!Dialled
  BY <1>1
<1>17. CF!Dialled.frames = << >> /\ CF!Dialled.state = "dialing"
  BY DEF CF!Dialled
<1>18. Quiet(<< >>) /\ LineTells(CF!Dialled, v, truth, missed)
  BY <1>11, <1>15, <1>17, LeadsNowhere, QuietNothing DEF LineTells
<1>19. \A i \in DOMAIN lines : Quiet(lines[i].frames) /\ LineTells(lines[i], v, truth, missed)
  BY <1>16, <1>17, <1>18
<1>20. Tidings(truth, lines, redial, s, b, missed)
  BY <1>5, <1>10, <1>15, <1>19 DEF Tidings, v
<1> QED BY <1>20 DEF FeedTells, s, b

LEMMA FeedTellsStep == FeedBounds /\ FeedInv /\ FeedTells /\ [CF!Next]_CF!vars => FeedTells'
<1> SUFFICES ASSUME FeedBounds, FeedInv, FeedTells, [CF!Next]_CF!vars PROVE FeedTells'
  OBVIOUS
<1>1. CASE CF!Event
  BY <1>1, EventTells
<1>2. CASE \E on \in BOOLEAN : CF!ToggleChat(on)
  BY <1>2, ToggleTells
<1>3. CASE \E m \in {"technical", "interests"} : CF!SetChatMode(m)
  BY <1>3, ChatModeTells
<1>4. CASE CF!NoteActivity
  BY <1>4, ActivityTells
<1>5. CASE CF!EnterIdle
  BY <1>5, IdleTells
<1>6. CASE CF!Redial
  BY <1>6, RedialTells
<1>7. CASE CF!Flush
  BY <1>7, FlushTells
<1>8. CASE CF!Remount
  BY <1>8, RemountTells
<1>9. CASE \E i \in DOMAIN lines : CF!Accept(i) \/ CF!Refuse(i) \/ CF!Lose(i) \/ CF!Receive(i)
  <2>1. PICK i \in DOMAIN lines : CF!Accept(i) \/ CF!Refuse(i) \/ CF!Lose(i) \/ CF!Receive(i)
    BY <1>9
  <2>2. CASE CF!Accept(i)
    BY <2>2, AcceptTells
  <2>3. CASE CF!Refuse(i)
    BY <2>3, RefuseTells
  <2>4. CASE CF!Lose(i)
    BY <2>4, LoseTells
  <2>5. CASE CF!Receive(i)
    BY <2>5, ReceiveTells
  <2> QED BY <2>1, <2>2, <2>3, <2>4, <2>5
<1>10. CASE UNCHANGED CF!vars
  BY <1>10, FeedTellsStutters
<1> QED BY <1>1, <1>2, <1>3, <1>4, <1>5, <1>6, <1>7, <1>8, <1>9, <1>10 DEF CF!Next

\* A page that has caught up shows the truth.
LEMMA FeedShowsTruth == FeedInv /\ FeedTells => CF!ShownIsTrue
<1> SUFFICES ASSUME FeedInv, FeedTells, CF!CaughtUp PROVE CF!Repaired /\ (~missed => CF!Followed)
  BY DEF CF!ShownIsTrue
<1> DEFINE s == feedShown
           v == Seen(s, buffer)
<1>1. PICK i \in DOMAIN lines : lines[i] = [state |-> "up", frames |-> << >>, mine |-> TRUE, whole |-> TRUE]
  BY DEF CF!CaughtUp
<1>2. lines[i].state = "up" /\ lines[i].frames = << >> /\ lines[i].mine /\ lines[i].whole
  BY <1>1
<1>3. PageSound(s, buffer) /\ LineTells(lines[i], v, truth, missed)
  BY <1>2 DEF FeedTells, Tidings, IsOpen
<1>4. buffer = CF!NothingBuffered /\ buffer.telemetry = << >> /\ buffer.hardware = 0
  BY DEF CF!CaughtUp, CF!NothingBuffered
<1>5. IsStore(s) /\ IsRecord(s.telemetry)
  BY <1>3 DEF PageSound
<1> HIDE DEF s
<1>6. /\ v.telemetry = CF!Merge(s.telemetry, buffer.telemetry)
      /\ v.hardware = IF buffer.hardware = 0 THEN s.hardware ELSE buffer.hardware
      /\ \A p \in Told : v[p] = s[p]
  BY <1>5, SeenParts
<1> HIDE DEF v
<1>7. /\ v.telemetry = s.telemetry /\ v.hardware = s.hardware
      /\ v.tasks = s.tasks /\ v.cards = s.cards /\ v.chairs = s.chairs /\ v.status = s.status
      /\ v.claims = s.claims /\ v.receipts = s.receipts /\ v.log = s.log /\ v.latest = s.latest
      /\ v.chat = s.chat /\ v.topics = s.topics /\ v.messages = s.messages /\ v.runs = s.runs
  <2>1. v.telemetry = s.telemetry /\ v.hardware = s.hardware
    BY <1>4, <1>5, <1>6, MergeNothing
  <2> QED BY <1>6, <2>1 DEF Told
<1>8. RepairedBy(v, truth) /\ (~missed => FollowedBy(v, truth))
  <2>1. PICK e : Leads(v, << >>, e) /\ RepairedBy(e, truth) /\ (~missed => FollowedBy(e, truth))
    BY <1>2, <1>3 DEF LineTells
  <2>2. e = v
    BY <2>1, LeadsNowhere
  <2> QED BY <2>1, <2>2
<1>9. CF!Repaired
  BY <1>7, <1>8 DEF RepairedBy, CF!Repaired, s
<1>10. ASSUME ~missed PROVE CF!Followed
  <2>1. FollowedBy(v, truth)
    BY <1>8, <1>10
  <2> QED BY <1>7, <2>1, FeedCardinality DEF FollowedBy, CF!Followed, s
<1> QED BY <1>9, <1>10
===============================================================================
