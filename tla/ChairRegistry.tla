--------------------------- MODULE ChairRegistry ----------------------------
(***************************************************************************)
(* ChairRegistry: which agent session holds which chair.  The registry     *)
(* keeps the claims in memory and mirrors each of them in a row of the     *)
(* SQLite table chair_claims; the process may die at any moment and start  *)
(* again, when the table is read back (hydrate).                           *)
(*                                                                         *)
(* Agents call claim, heartbeat and release over HTTP.  A call may be      *)
(* delayed, so any session that was ever granted may still be named in     *)
(* one.  The age of a claim is now - lastBeaconAt, saturated at MaxAge.    *)
(*                                                                         *)
(* Specification and type invariant carry the registry's name, so that     *)
(* ChairProofs can extend this module beside ChairDispatch.                *)
(***************************************************************************)
EXTENDS Integers

CONSTANTS
    Seats,          \* agent ids: one chair each
    Sessions,       \* session ids: claim draws one never granted before
    NoSession,      \* the session of a chair nobody holds
    HealthyMs,      \* cfg.healthyMs
    OfflineMs,      \* cfg.offlineMs
    MaxAge          \* ages saturate here (a bound of the model)

ASSUME NoSessionAssumption == NoSession \notin Sessions

ASSUME PeriodsAssumption ==
    /\ HealthyMs \in Nat /\ OfflineMs \in Nat /\ MaxAge \in Nat
    /\ HealthyMs < OfflineMs /\ OfflineMs < MaxAge

-----------------------------------------------------------------------------

Ages == 0..MaxAge

Claims == [session : Sessions, status : {"online", "stale"}, age : Ages]

Vacant == [session |-> NoSession, status |-> "offline", age |-> 0]

VARIABLES
    running,   \* the process runs
    chairs,    \* ChairRegistry.chairs, Vacant where the map has no entry
    rows,      \* the table chair_claims, Vacant where there is no row
    retired,   \* sessions that lost their chair: superseded, released, expired
    proven     \* agents that claimed or beaconed since the process started

registryVars == <<running, chairs, rows, retired, proven>>

\* A session nobody was ever granted: claim draws a random UUID.
Fresh == Sessions \ (retired \cup {rows[a].session : a \in Seats})

\* persist writes the row, erase deletes it, in the handler that changes the map.
Persist(a, claim) ==
    /\ chairs' = [chairs EXCEPT ![a] = claim]
    /\ rows' = [rows EXCEPT ![a] = claim]

\* Fault: the row survives its claim.
EraseMemoryOnly(a) ==
    /\ chairs' = [chairs EXCEPT ![a] = Vacant]
    /\ retired' = retired \cup {chairs[a].session}
    /\ UNCHANGED rows

\* The claim and its row are dropped together.
Erase(a) ==
    /\ chairs' = [chairs EXCEPT ![a] = Vacant]
    /\ rows' = [rows EXCEPT ![a] = Vacant]
    /\ retired' = retired \cup {chairs[a].session}

\* claim: last writer wins, the previous session is superseded.
Claim(a) ==
    /\ running
    /\ \E s \in Fresh : Persist(a, [session |-> s, status |-> "online", age |-> 0])
    /\ retired' = retired \cup ({chairs[a].session} \ {NoSession})
    /\ proven' = proven \cup {a}
    /\ UNCHANGED running

\* Fault: the refreshed claim is not written to its row.
HeartbeatInMemory(a, s) ==
    /\ running /\ chairs[a].session = s
    /\ chairs' = [chairs EXCEPT ![a].status = "online", ![a].age = 0]
    /\ proven' = proven \cup {a}
    /\ UNCHANGED <<running, retired, rows>>

\* heartbeat: only the session that holds the chair refreshes its beacon; a
\* stale chair is online again.  A heartbeat of any other session is answered
\* 409 and changes nothing.
Heartbeat(a, s) ==
    /\ running /\ chairs[a].session = s
    /\ Persist(a, [session |-> s, status |-> "online", age |-> 0])
    /\ proven' = proven \cup {a}
    /\ UNCHANGED <<running, retired>>

\* release: only the session that holds the chair gives it up.
Release(a, s) ==
    /\ running /\ chairs[a].session = s
    /\ Erase(a)
    /\ UNCHANGED <<running, proven>>

Expired(a) == chairs[a] # Vacant /\ chairs[a].age >= OfflineMs

\* Stale this long but not yet expired, and not yet marked.
Lapsed(a) ==
    /\ chairs[a] # Vacant /\ ~Expired(a)
    /\ chairs[a].age >= HealthyMs /\ chairs[a].status # "stale"

\* Fault: chairs already marked stale are skipped by the sweep.
SweptSkipsStale(a, claim) ==
    CASE Expired(a) /\ chairs[a].status = "online" -> Vacant
      [] Lapsed(a) -> [claim EXCEPT !.status = "stale"]
      [] OTHER     -> claim

\* What one sweep makes of a claim, in the map and in its row.
Swept(a, claim) ==
    CASE Expired(a) -> Vacant
      [] Lapsed(a)  -> [chairs[a] EXCEPT !.status = "stale"]
      [] OTHER      -> claim

\* The interval timer's sweep over all chairs.
Sweep ==
    /\ running
    /\ chairs' = [a \in Seats |-> Swept(a, chairs[a])]
    /\ rows' = [a \in Seats |-> Swept(a, rows[a])]
    /\ retired' = retired \cup {chairs[a].session : a \in {b \in Seats : Expired(b)}}
    /\ UNCHANGED <<running, proven>>

\* The process dies (or is closed): memory is lost, the table stays.
Stop ==
    /\ running
    /\ running' = FALSE
    /\ chairs' = [a \in Seats |-> Vacant]
    /\ proven' = {}
    /\ UNCHANGED <<rows, retired>>

TooOld(a) == rows[a] # Vacant /\ rows[a].age > OfflineMs

\* Fault: the status is taken from the row.
HydratedAsStored(a) == IF TooOld(a) THEN Vacant ELSE rows[a]

\* A row read back: too old ones are deleted, the others are held as stale
\* until their session beacons again.
Hydrated(a) ==
    IF rows[a] = Vacant \/ TooOld(a) THEN Vacant ELSE [rows[a] EXCEPT !.status = "stale"]

\* hydrate, in the constructor of the next process.
Hydrate ==
    /\ ~running
    /\ running' = TRUE
    /\ chairs' = [a \in Seats |-> Hydrated(a)]
    /\ rows' = [a \in Seats |-> Hydrated(a)]
    /\ retired' = retired \cup {rows[a].session : a \in {b \in Seats : TooOld(b)}}
    /\ UNCHANGED proven

Aged(claim) ==
    IF claim = Vacant \/ claim.age = MaxAge THEN claim
    ELSE [claim EXCEPT !.age = claim.age + 1]

\* A unit of time passes, for the map and for the table.
Tick ==
    /\ chairs' = [a \in Seats |-> Aged(chairs[a])]
    /\ rows' = [a \in Seats |-> Aged(rows[a])]
    /\ UNCHANGED <<running, retired, proven>>

-----------------------------------------------------------------------------

RegistryInit ==
    /\ running = TRUE
    /\ chairs = [a \in Seats |-> Vacant]
    /\ rows = [a \in Seats |-> Vacant]
    /\ retired = {}
    /\ proven = {}

RegistryNext ==
    \/ \E a \in Seats : Claim(a)
    \/ \E a \in Seats, s \in Sessions : Heartbeat(a, s) \/ Release(a, s)
    \/ Sweep
    \/ Stop
    \/ Hydrate
    \/ Tick

RegistrySpec == RegistryInit /\ [][RegistryNext]_registryVars

\* Time passes, the sweep timer keeps firing while the process runs, and a
\* dead process is started again in the end.  Agents owe nothing.
RegistryFairSpec ==
    /\ RegistrySpec
    /\ WF_registryVars(Tick) /\ WF_registryVars(Sweep) /\ WF_registryVars(Hydrate)

-----------------------------------------------------------------------------
(* Properties                                                              *)

RegistryTypeOK ==
    /\ running \in BOOLEAN
    /\ chairs \in [Seats -> Claims \cup {Vacant}]
    /\ rows \in [Seats -> Claims \cup {Vacant}]
    /\ retired \subseteq Sessions
    /\ proven \subseteq Seats

\* Between two handlers the table mirrors the map, so that a crash at any
\* moment loses no claim and revives none (persist and erase are called by
\* every handler that changes a claim).
TableMirrorsMap == running => rows = chairs

\* A session that lost its chair, by a newer claim, a release or silence, never
\* holds one again: not through a delayed heartbeat ("a crashed agent cannot
\* resurrect itself") and not through the table after a restart.
RetiredStaysRetired == \A a \in Seats : chairs[a].session \notin retired

\* A chair is online only on the word of its session in this process's life:
\* what hydrate read back is stale "until proven live".
OnlineIsProven == \A a \in Seats : chairs[a].status = "online" => a \in proven

\* A chair whose session falls silent is freed, in the table and so for every
\* later process, whatever restarts come in between: a claim that has begun to
\* age is dropped, superseded or refreshed by its session.
SilentChairIsFreed ==
    \A a \in Seats, s \in Sessions :
       (rows[a].session = s /\ rows[a].age > 0)
          ~> (rows[a].session # s \/ rows[a].age = 0)
=============================================================================
