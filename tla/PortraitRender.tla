---------------------------- MODULE PortraitRender ----------------------------
(***************************************************************************)
(* POST /api/v1/comfy: handleComfyRequest answers a portrait with what     *)
(* ComfyUI queued or, whatever ComfyUI does, with a picture drawn here     *)
(* (ComfyUiBridge.renderPortrait).  ComfyUI is no part of the repository:  *)
(* it takes a prompt, answers, hangs or breaks the line as it likes.  The  *)
(* prompt, the palette and the recipes of the mixer are left out.          *)
(***************************************************************************)
CONSTANT Portraits  \* requests of the cockpit

VARIABLES
    enabled,  \* KOVAEL_COMFYUI_BRIDGE
    asked,    \* portrait |-> what was asked for; none so far
    awaits,   \* portrait |-> what the bridge waits for: none, head or body
    timer,    \* portrait |-> the 15 s until the fetch is aborted are running
    queued,   \* portrait |-> ComfyUI has taken the prompt
    reply     \* portrait |-> what was answered; none so far

vars == <<enabled, asked, awaits, timer, queued, reply>>

Asks == {"get", "unreadable", "unknown", "blank", "blank-stream", "bad-mixer", "stream-url", "render"}

\* What is answered: an error, a picture of ours, or ComfyUI's word with or
\* without the stream of a prompt.
Replies == {"405", "400", "404", "500", "stream", "fallback", "comfyui", "comfyui-stream"}

Init ==
    /\ enabled \in BOOLEAN
    /\ asked = [p \in Portraits |-> "none"] /\ awaits = [p \in Portraits |-> "none"]
    /\ timer = [p \in Portraits |-> FALSE] /\ queued = [p \in Portraits |-> FALSE]
    /\ reply = [p \in Portraits |-> "none"]

\* handleComfyRequest writes its answer; the finally of renderPortrait has
\* cleared the timer by then.
Answer(p, what) ==
    /\ reply' = [reply EXCEPT ![p] = what]
    /\ awaits' = [awaits EXCEPT ![p] = "none"]
    /\ timer' = [timer EXCEPT ![p] = FALSE]

\* The method, the body, the action and the required fields are checked in
\* this order.  readJsonBody has answered by itself when it returns null, and
\* sanitizeMixer throws at an item that is null.
Refusal(what) ==
    CASE what = "get" -> "405"
      [] what \in {"unreadable", "blank", "blank-stream"} -> "400"
      [] what = "unknown" -> "404"
      [] what = "bad-mixer" -> "500"

Refuse(p) ==
    /\ asked[p] = "none"
    /\ \E what \in Asks \ {"stream-url", "render"} :
       asked' = [asked EXCEPT ![p] = what] /\ Answer(p, Refusal(what))
    /\ UNCHANGED <<enabled, queued>>

\* streamDescriptor makes the address of any prompt it is asked about.
StreamUrl(p) ==
    /\ asked[p] = "none"
    /\ asked' = [asked EXCEPT ![p] = "stream-url"] /\ Answer(p, "stream")
    /\ UNCHANGED <<enabled, queued>>

Render(p) ==
    /\ asked[p] = "none"
    /\ asked' = [asked EXCEPT ![p] = "render"]
    /\ IF enabled
       THEN /\ awaits' = [awaits EXCEPT ![p] = "head"]
            /\ timer' = [timer EXCEPT ![p] = TRUE]
            /\ UNCHANGED reply
       ELSE Answer(p, "fallback")
    /\ UNCHANGED <<enabled, queued>>

\* ComfyUI, which may take the prompt of a render that has been given up.
ComfyQueues(p) ==
    /\ asked[p] = "render" /\ enabled /\ ~queued[p]
    /\ queued' = [queued EXCEPT ![p] = TRUE]
    /\ UNCHANGED <<enabled, asked, awaits, timer, reply>>

\* The head of the answer, of which a status that is not ok and a declared
\* length above 4 MiB are enough to fall back.
HeadArrives(p, ok) ==
    /\ awaits[p] = "head"
    /\ ok => queued[p]
    /\ IF ok THEN awaits' = [awaits EXCEPT ![p] = "body"] /\ UNCHANGED <<timer, reply>>
             ELSE Answer(p, "fallback")
    /\ UNCHANGED <<enabled, asked, queued>>

\* Its body, with a prompt_id, without one, or no JSON at all.
BodyArrives(p) ==
    /\ awaits[p] = "body"
    /\ \E what \in {"comfyui-stream", "comfyui", "fallback"} : Answer(p, what)
    /\ UNCHANGED <<enabled, asked, queued>>

\* fetch or response.json throws: the line broke, or ctrl.abort was called.
Throws(p) ==
    /\ awaits[p] # "none"
    /\ Answer(p, "fallback")
    /\ UNCHANGED <<enabled, asked, queued>>

TimesOut(p) == timer[p] /\ Throws(p)

Next == \E p \in Portraits :
    \/ Refuse(p) \/ StreamUrl(p) \/ Render(p)
    \/ ComfyQueues(p) \/ BodyArrives(p) \/ Throws(p)
    \/ \E ok \in BOOLEAN : HeadArrives(p, ok)

\* The timer of a render runs out; ComfyUI owes nothing.
Fairness == \A p \in Portraits : WF_vars(TimesOut(p))

Spec == Init /\ [][Next]_vars /\ Fairness

-----------------------------------------------------------------------------
TypeOK ==
    /\ enabled \in BOOLEAN
    /\ asked \in [Portraits -> Asks \cup {"none"}]
    /\ awaits \in [Portraits -> {"none", "head", "body"}]
    /\ timer \in [Portraits -> BOOLEAN] /\ queued \in [Portraits -> BOOLEAN]
    /\ reply \in [Portraits -> Replies \cup {"none"}]

\* A portrait is said to be ComfyUI's only when ComfyUI has taken its prompt,
\* with the bridge on; whatever else happens the cockpit is given a picture.
SourceIsTrue == \A p \in Portraits : asked[p] = "render" =>
    \/ reply[p] \in {"none", "fallback"}
    \/ reply[p] \in {"comfyui", "comfyui-stream"} /\ queued[p] /\ enabled

\* The deadline stands before every wait, its body included, and no timer is
\* left to abort what has been answered.
DeadlineStands == \A p \in Portraits : timer[p] <=> awaits[p] # "none"

\* No request hangs on a ComfyUI that does.
IsAnswered(p) == asked[p] # "none" => reply[p] # "none"
=============================================================================
