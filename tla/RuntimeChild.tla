---------------------------- MODULE RuntimeChild ----------------------------
(***************************************************************************)
(* How the inbox adapter has a dispatch answered: runRuntime picks the     *)
(* runtime, spawnCapture runs its command line tool as a child process     *)
(* with a deadline, and runCodex, runClaudeShaev and runCommand make an    *)
(* answer of what the child left.  The child is no part of the repository: *)
(* it writes, hangs and exits as it likes.                                 *)
(*                                                                         *)
(* Of the output only its length is kept, in units of which maxOutputBytes *)
(* is OutputLimit; codex also leaves its last message in a file.  The      *)
(* runtime codex-openclaw is codex with another argument.                  *)
(***************************************************************************)
EXTENDS Integers

CONSTANTS
    Runs,         \* dispatches that are being answered
    Runtimes,     \* values of --runtime
    OutputLimit,  \* maxOutputBytes
    MaxOutput     \* what a child writes at most, a bound of the model

Tools == {"codex", "claude-shaev", "command"}
Messages == {"none", "blank", "text"}

VARIABLES
    runtime,  \* run |-> the runtime of its adapter
    allowed,  \* the command is listed in KOVAEL_COMMAND_ADAPTER_ALLOW
    child,    \* run |-> none, alive, doomed (SIGKILL is sent), or gone
    wrote,    \* run |-> units on stdout
    last,     \* run |-> what the --output-last-message file holds
    code,     \* run |-> exit code: 0, 1, or -1 when killed or not spawned
    timer,    \* run |-> the deadline is set
    awaits,   \* run |-> what spawnCapture's promise is: new, pending, closed, threw
    outcome   \* run |-> what the dispatch gets: none, text, failed

vars == <<runtime, allowed, child, wrote, last, code, timer, awaits, outcome>>

Init ==
    /\ runtime \in [Runs -> Runtimes] /\ allowed \in BOOLEAN
    /\ child = [r \in Runs |-> "none"] /\ wrote = [r \in Runs |-> 0]
    /\ last = [r \in Runs |-> "none"] /\ code = [r \in Runs |-> -1]
    /\ timer = [r \in Runs |-> FALSE]
    /\ awaits = [r \in Runs |-> "new"] /\ outcome = [r \in Runs |-> "none"]

\* The promise of runRuntime is settled, once.
Settle(r, how) == outcome' = [outcome EXCEPT ![r] = how]

\* runRuntime, for a runtime that needs no child: the fake one answers, one
\* that is not known and a command that is not allowed fail.
AnswerAtOnce(r) ==
    /\ awaits[r] = "new"
    /\ runtime[r] \notin Tools \/ (runtime[r] = "command" /\ ~allowed)
    /\ awaits' = [awaits EXCEPT ![r] = "closed"]
    /\ Settle(r, IF runtime[r] = "fake-deterministic" THEN "text" ELSE "failed")
    /\ UNCHANGED <<runtime, allowed, child, wrote, last, code, timer>>

\* spawnCapture: the child is spawned and the deadline set.
Spawn(r) ==
    /\ awaits[r] = "new" /\ runtime[r] \in Tools
    /\ runtime[r] = "command" => allowed
    /\ child' = [child EXCEPT ![r] = "alive"]
    /\ timer' = [timer EXCEPT ![r] = TRUE]
    /\ awaits' = [awaits EXCEPT ![r] = "pending"]
    /\ UNCHANGED <<runtime, allowed, wrote, last, code, outcome>>

\* The tool could not be started: the error event.
SpawnFails(r) ==
    /\ awaits[r] = "pending" /\ child[r] = "alive" /\ wrote[r] = 0 /\ last[r] = "none"
    /\ child' = [child EXCEPT ![r] = "gone"]
    /\ timer' = [timer EXCEPT ![r] = FALSE]
    /\ awaits' = [awaits EXCEPT ![r] = "threw"]
    /\ Settle(r, "failed")
    /\ UNCHANGED <<runtime, allowed, wrote, last, code>>

ChildWrites(r) ==
    /\ child[r] = "alive" /\ wrote[r] < MaxOutput
    /\ wrote' = [wrote EXCEPT ![r] = @ + 1]
    /\ UNCHANGED <<runtime, allowed, child, last, code, timer, awaits, outcome>>

ChildLeavesMessage(r) ==
    /\ child[r] = "alive" /\ runtime[r] = "codex" /\ last[r] = "none"
    /\ \E m \in {"blank", "text"} : last' = [last EXCEPT ![r] = m]
    /\ UNCHANGED <<runtime, allowed, child, wrote, code, timer, awaits, outcome>>

\* Fault: the dispatch is failed at its deadline, and the child left to run.
TimesOutSpares(r) ==
    /\ timer[r]
    /\ timer' = [timer EXCEPT ![r] = FALSE]
    /\ IF awaits[r] = "pending"
       THEN awaits' = [awaits EXCEPT ![r] = "threw"] /\ Settle(r, "failed")
       ELSE UNCHANGED <<awaits, outcome>>
    /\ UNCHANGED <<runtime, allowed, child, wrote, last, code>>

\* The deadline: SIGKILL, and the dispatch has failed, whatever the child does.
TimesOut(r) ==
    /\ timer[r]
    /\ timer' = [timer EXCEPT ![r] = FALSE]
    /\ child' = [child EXCEPT ![r] = IF @ = "alive" THEN "doomed" ELSE @]
    /\ IF awaits[r] = "pending"
       THEN awaits' = [awaits EXCEPT ![r] = "threw"] /\ Settle(r, "failed")
       ELSE UNCHANGED <<awaits, outcome>>
    /\ UNCHANGED <<runtime, allowed, wrote, last, code>>

\* stdout, cut to its last maxOutputBytes.
Kept(r) == IF wrote[r] > OutputLimit THEN OutputLimit ELSE wrote[r]

\* Fault: an answer is taken whatever the tool's exit code.
AnswerOfAny(r, c) ==
    IF runtime[r] = "codex" THEN IF last[r] = "none" THEN Kept(r) > 0 ELSE last[r] = "text"
    ELSE Kept(r) > 0

\* Whether the child that exited with c may have left an answer.  codex: its
\* file, or stdout when there is none.  claude: stdout must be whole to be
\* JSON, which it is not when its head was cut off.  All: of a clean exit.
Answers(r, c) ==
    /\ c = 0
    /\ CASE runtime[r] = "codex"        -> IF last[r] = "none" THEN Kept(r) > 0 ELSE last[r] = "text"
         [] runtime[r] = "claude-shaev" -> Kept(r) > 0 /\ Kept(r) = wrote[r]
         [] OTHER                       -> Kept(r) > 0

\* What is written may be blank, and for claude not JSON or an error.
Outcomes(r, c) ==
    IF ~Answers(r, c) THEN {"failed"}
    ELSE IF last[r] = "text" THEN {"text"} ELSE {"text", "failed"}

\* The child exits and its pipes close.  Whoever settled the promise first
\* keeps it: a child that is gone after its deadline changes nothing.
ChildCloses(r, c) ==
    /\ child[r] \in {"alive", "doomed"}
    /\ child[r] = "doomed" <=> c = -1
    /\ child' = [child EXCEPT ![r] = "gone"]
    /\ code' = [code EXCEPT ![r] = c]
    /\ timer' = [timer EXCEPT ![r] = FALSE]
    /\ IF awaits[r] = "pending"
       THEN /\ awaits' = [awaits EXCEPT ![r] = "closed"]
            /\ last' = [last EXCEPT ![r] = "none"]
            /\ \E how \in Outcomes(r, c) : Settle(r, how)
       ELSE UNCHANGED <<awaits, last, outcome>>
    /\ UNCHANGED <<runtime, allowed, wrote>>

Next == \E r \in Runs :
    \/ AnswerAtOnce(r) \/ Spawn(r) \/ SpawnFails(r)
    \/ ChildWrites(r) \/ ChildLeavesMessage(r) \/ TimesOut(r)
    \/ \E c \in -1..1 : ChildCloses(r, c)

\* The event loop of the adapter starts what is due and runs its timers, and a
\* killed process goes; a child that is alive owes nothing.
Fairness == \A r \in Runs :
    /\ WF_vars(AnswerAtOnce(r) \/ Spawn(r))
    /\ WF_vars(TimesOut(r))
    /\ WF_vars(ChildCloses(r, -1))

Spec == Init /\ [][Next]_vars /\ Fairness

-----------------------------------------------------------------------------
TypeOK ==
    /\ runtime \in [Runs -> Runtimes] /\ allowed \in BOOLEAN
    /\ child \in [Runs -> {"none", "alive", "doomed", "gone"}]
    /\ wrote \in [Runs -> 0..MaxOutput] /\ last \in [Runs -> Messages]
    /\ code \in [Runs -> -1..1] /\ timer \in [Runs -> BOOLEAN]
    /\ awaits \in [Runs -> {"new", "pending", "closed", "threw"}]
    /\ outcome \in [Runs -> {"none", "text", "failed"}]

\* A reply that goes out as a success is one a tool left that ended well and
\* in time, never what a killed or failing tool had written so far.
AnswerIsClean == \A r \in Runs :
    outcome[r] = "text" /\ runtime[r] \in Tools => child[r] = "gone" /\ code[r] = 0

\* No child is forgotten: one that is alive has a deadline before it.
AliveHasDeadline == \A r \in Runs : child[r] = "alive" => timer[r]

\* Every dispatch gets its outcome and no child outlives it for good, though
\* a tool may hang for ever.
IsOver(r) == outcome[r] # "none" /\ child[r] \in {"none", "gone"}

EveryRunEnds == \A r \in Runs : <>IsOver(r)
=============================================================================
