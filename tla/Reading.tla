------------------------------ MODULE Reading -------------------------------
(***************************************************************************)
(* What a reader of the system is served: the events of a job, and out of  *)
(* the knowledge base the timeline, topic recall and the evolution graph.  *)
(* They share no state, so a behaviour follows one of them.                *)
(***************************************************************************)
EXTENDS EventStream

CONSTANTS Events, Starts, Unknown, Limit, MaxClock,   \* Timeline
          Documents, batch_size, MaxShifts,           \* Recall
          Nodes, Proposals                            \* Evolution

VARIABLES part,
          clock, events, walk,
          ordered, cursor, delivered, again, exhausted, jumped, shifts,
          drafts, checked, edges, state, stack, waiting, verdict, cycle

walking == <<clock, events, walk>>
recalling == <<ordered, cursor, delivered, again, exhausted, jumped, shifts>>
proposing == <<drafts, checked, edges, state, stack, waiting, verdict, cycle>>

Dates == INSTANCE Timeline
Topic == INSTANCE Recall WITH ended <- exhausted
Graph == INSTANCE Evolution

ASSUME ReadingAssumption ==
    Dates!TimelineAssumption /\ Topic!RecallAssumption /\ Graph!EvolutionAssumption

ReadingInit ==
    /\ part \in {"stream", "timeline", "recall", "graph"}
    /\ Init /\ Dates!Init
    /\ Topic!Init /\ (part = "recall" \/ DOMAIN ordered = {})
    /\ Graph!Init /\ (part = "graph" \/ drafts = << >>)

StreamStep == Next /\ UNCHANGED <<walking, recalling, proposing>>
TimelineStep == Dates!Next /\ UNCHANGED <<vars, recalling, proposing>>
RecallStep == Topic!Next /\ UNCHANGED <<vars, walking, proposing>>
GraphStep == Graph!Next /\ UNCHANGED <<vars, walking, recalling>>

ReadingNext ==
    /\ UNCHANGED part
    /\ \/ part = "stream" /\ StreamStep
       \/ part = "timeline" /\ TimelineStep
       \/ part = "recall" /\ RecallStep
       \/ part = "graph" /\ GraphStep

readingVars == <<part, vars, walking, recalling, proposing>>

ReadingSpec == ReadingInit /\ [][ReadingNext]_readingVars

\* The stream's generator and its connection make progress; nothing is assumed of
\* who turns pages.
FairReadingSpec == ReadingSpec /\ Fairness

----------------------------------------------------------------------------
\* Timeline: pages repeat nothing, and pass over nothing that was there.
WalkIsComplete == Dates!WalkIsComplete

\* Recall: a document is delivered once, and passed over only by a shift.
PassedOverOnlyByJump == Topic!PassedOverOnlyByJump

\* Evolution: what is accepted has no cycle, and a cycle reported is one.
VerdictIsTrue == Graph!VerdictIsTrue
=============================================================================
