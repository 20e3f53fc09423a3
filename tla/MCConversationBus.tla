------------------------ MODULE MCConversationBus ---------------------------
(***************************************************************************)
(* ConversationBus in two sizes, one of which is chosen at the start:      *)
(* alone, with one convene of all the agents and of up to MaxTurns turns;  *)
(* or shared, with all the convenes, which may overlap on a topic, of two  *)
(* agents and up to three turns.                                           *)
(***************************************************************************)
EXTENDS ConversationBus

VARIABLE shared

mcvars == <<vars, shared>>

\* The one convene of the first size; which makes no difference.
Sole == CHOOSE c \in Convenes : TRUE

Alone ==
    \/ Convened(Sole) \/ Turned(Sole) \/ Paused(Sole)
    \/ \E t \in Topics : Managed(t)
    \/ Restart

Two == CHOOSE S \in SUBSET Agents : Cardinality(S) = 2

Shared == INSTANCE ConversationBus WITH Agents <- Two, MaxTurns <- 3, Gains <- {80}

MCInit == Init /\ shared \in BOOLEAN

MCNext ==
    /\ \/ ~shared /\ Alone
       \/ shared /\ Shared!Next
    /\ UNCHANGED shared

MCTurned(c) ==
    /\ \/ ~shared /\ Turned(c)
       \/ shared /\ Shared!Turned(c)
    /\ UNCHANGED shared

MCPaused(c) ==
    /\ \/ ~shared /\ Paused(c)
       \/ shared /\ Shared!Paused(c)
    /\ UNCHANGED shared

MCSpec ==
    /\ MCInit /\ [][MCNext]_mcvars
    /\ \A c \in Convenes : WF_mcvars(MCTurned(c)) /\ WF_mcvars(MCPaused(c))
=============================================================================
