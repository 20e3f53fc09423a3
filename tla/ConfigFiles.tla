----------------------------- MODULE ConfigFiles -----------------------------
(***************************************************************************)
(* The files that are reloaded while the orchestrator runs: the personas,  *)
(* which PersonaLoader keeps by agent, and WORKFLOW.md, whose settings     *)
(* WorkflowLoader hands to the bridge and to the retry queue.  An editor   *)
(* writes a file in one or in two steps, and renames and deletes it; a     *)
(* change is followed by a reload after the debounce, and a file that does *)
(* not parse leaves what was loaded from it before.                        *)
(*                                                                         *)
(* A persona is known by the agent its front matter names, the workflow by *)
(* the settings it has a value for.  Each write has a stamp of its own.    *)
(***************************************************************************)
EXTENDS Integers, Sequences, FiniteSets, Functions

CONSTANTS
    Files,      \* persona files
    Agents,
    Settings,   \* vramFloor, primaryArchitect, fallbackAgent, keepRecentTurns, retry
    MaxEdits    \* writes per behaviour (a bound of the model)

Absent == [says |-> "absent", stamp |-> 0]
Broken == "broken"                      \* no front matter, or one that is refused
NoDoc == [file |-> "none", stamp |-> 0]

VARIABLES
    edits,      \* writes so far
    disk,       \* file |-> what it says, and when it was written
    pending,    \* reloadDebounce: persona files whose reload is due
    cache,      \* agent |-> the persona document that is loaded
    flow,       \* WORKFLOW.md: the settings it has, or broken, or absent
    seen,       \* the stamp fs.watchFile saw last, and whether a reload is due
    current,    \* WorkflowLoader.current: the settings of the last good one
    lastError,  \* whether the last reload failed
    applied,    \* setting |-> stamp of the document its value is from (0: the default)
    watching    \* the loaders are started

personas == <<disk, pending, cache>>
workflow == <<flow, seen, current, lastError, applied>>
vars == <<edits, personas, workflow, watching>>

-----------------------------------------------------------------------------
(* PersonaLoader                                                           *)

\* loadFile: a document that is refused changes nothing.
Loaded(c, f) ==
    IF disk[f].says \in Agents THEN [c EXCEPT ![disk[f].says] = [file |-> f, stamp |-> disk[f].stamp]] ELSE c

\* The debounce of f is over.  The agents of a file that is gone go with it.
Reload(f) ==
    /\ f \in pending
    /\ pending' = pending \ {f}
    /\ cache' = IF disk[f] # Absent THEN Loaded(cache, f)
                ELSE [a \in Agents |-> IF cache[a].file = f THEN NoDoc ELSE cache[a]]
    /\ UNCHANGED <<edits, disk, workflow, watching>>

\* Someone writes f, or deletes it; the watcher restarts the debounce.
Edit(f) ==
    /\ edits < MaxEdits
    /\ edits' = edits + 1
    /\ \E says \in Agents \cup {Broken, "absent"} :
        disk' = [disk EXCEPT ![f] = IF says = "absent" THEN Absent ELSE [says |-> says, stamp |-> edits']]
    /\ pending' = IF watching THEN pending \cup {f} ELSE pending
    /\ UNCHANGED <<cache, workflow, watching>>

-----------------------------------------------------------------------------
(* WorkflowLoader                                                          *)

\* wireWorkflowLoader: only the settings the document has are applied.
Applied(doc) == [s \in Settings |-> IF s \in doc.has THEN doc.stamp ELSE applied[s]]

\* reload: the settings of a good document are applied, another only reported.
Read == IF flow.has = {Broken} THEN current' = current /\ lastError' = TRUE /\ applied' = applied
        ELSE current' = flow /\ lastError' = FALSE /\ applied' = Applied(flow)

\* Fault: a document that is refused is kept all the same.
ReloadWorkflowKeepsBad ==
    /\ seen.due
    /\ seen' = [seen EXCEPT !.due = FALSE]
    /\ current' = flow /\ lastError' = (flow.has = {Broken})
    /\ applied' = IF flow.has = {Broken} THEN applied ELSE Applied(flow)
    /\ UNCHANGED <<edits, personas, flow, watching>>

ReloadWorkflow ==
    /\ seen.due
    /\ seen' = [seen EXCEPT !.due = FALSE]
    /\ Read
    /\ UNCHANGED <<edits, personas, flow, watching>>

\* fs.watchFile looks at the file once a second.
Look ==
    /\ watching /\ seen.stamp # flow.stamp
    /\ seen' = [stamp |-> flow.stamp, due |-> TRUE]
    /\ UNCHANGED <<edits, personas, flow, current, lastError, applied, watching>>

\* Someone writes WORKFLOW.md; deleted or half written it is broken as well.
EditWorkflow ==
    /\ edits < MaxEdits
    /\ edits' = edits + 1
    /\ \E has \in (SUBSET Settings) \cup {{Broken}} : flow' = [has |-> has, stamp |-> edits']
    /\ UNCHANGED <<personas, seen, current, lastError, applied, watching>>

-----------------------------------------------------------------------------
\* stop of both loaders, when the orchestrator closes.
Stop ==
    /\ watching
    /\ watching' = FALSE
    /\ pending' = {}
    /\ seen' = [seen EXCEPT !.due = FALSE]
    /\ UNCHANGED <<edits, disk, cache, flow, current, lastError, applied>>

\* start of both: the files are read once, in the order of the directory.
Init ==
    /\ edits = 0 /\ watching = TRUE /\ pending = {}
    /\ \E says \in [Files -> Agents \cup {Broken, "absent"}] :
        disk = [f \in Files |-> [says |-> says[f], stamp |-> 0]]
    /\ \E last \in [Agents -> Files \cup {"none"}] :
        /\ \A a \in Agents : IF last[a] = "none" THEN \A f \in Files : disk[f].says # a ELSE disk[last[a]].says = a
        /\ cache = [a \in Agents |-> [file |-> last[a], stamp |-> 0]]
    /\ \E has \in {{Broken}, {}, Settings} :
        /\ flow = [has |-> has, stamp |-> 0]
        /\ current = IF has = {Broken} THEN [has |-> {}, stamp |-> -1] ELSE flow
        /\ lastError = (has = {Broken})
    /\ seen = [stamp |-> 0, due |-> FALSE]
    /\ applied = [s \in Settings |-> 0]

Next ==
    \/ \E f \in Files : Edit(f) \/ Reload(f)
    \/ EditWorkflow
    \/ Look
    \/ ReloadWorkflow
    \/ Stop

\* The timers fire, and the file is looked at.
Fairness == (\A f \in Files : WF_vars(Reload(f))) /\ WF_vars(Look) /\ WF_vars(ReloadWorkflow)

Spec == Init /\ [][Next]_vars /\ Fairness

-----------------------------------------------------------------------------
(* Properties                                                              *)

\* No persona outlives its file, but for the time its reload is due.
CachedHasFile ==
    watching => \A a \in Agents : cache[a] # NoDoc =>
        cache[a].file \in pending \/ disk[cache[a].file] # Absent

\* A file that says who it is about is what its agent is loaded from, unless
\* another file took the agent over, or its reload is due.
QuietIsLoaded ==
    watching => \A f \in Files : disk[f].says \in Agents /\ f \notin pending =>
        \/ cache[disk[f].says] = [file |-> f, stamp |-> disk[f].stamp]
        \/ \E g \in Files \ {f} : cache[disk[f].says].file = g
        \/ cache[disk[f].says] = NoDoc

\* What is current was good, and its settings are the ones that are applied.
LastGoodIsApplied ==
    /\ Broken \notin current.has
    /\ \A s \in current.has : applied[s] = current.stamp

\* While the loader runs, a file that is left alone comes to be the one in use,
\* or the one that is complained about.
InUse == watching => IF flow.has = {Broken} THEN lastError ELSE current = flow /\ ~lastError

EditIsSeen == <>[]InUse
=============================================================================
