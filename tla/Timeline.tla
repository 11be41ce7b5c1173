------------------------------ MODULE Timeline ------------------------------
(***************************************************************************)
(* Reading the timeline page by page while events are being recorded:      *)
(* list_event_cards of repositories/knowledge.py, with the cursor of       *)
(* services/timeline.py.                                                   *)
(*                                                                         *)
(* Every page is a query of its own; only the cursor, the sort key and id  *)
(* of the last card, joins them.  An event's revision carries the instant  *)
(* its transaction began (recorded_at, now()) and the instant it was       *)
(* written (first_discovered_at); it is visible from the commit on.        *)
(***************************************************************************)
EXTENDS Integers, FiniteSets

CONSTANTS Events,    \* event ids, numbers: they break ties in the order
          Starts,    \* occurred_start of an event whose date is known
          Unknown,   \* occurred_time with precision unknown
          Limit,     \* cards of a page
          MaxClock   \* bound: instants

\* Of the constants (assumed where the module is instantiated).
TimelineAssumption ==
    /\ Events \subseteq Nat /\ IsFiniteSet(Events)
    /\ Starts \subseteq Int
    /\ Unknown \notin Starts
    /\ Limit \in Nat \ {0}
    /\ MaxClock \in Nat

VARIABLES
    clock,
    events,   \* the rows: how far each is, its dates
    walk      \* the reader: what was asked, the cursor, the cards so far and again

vars == <<clock, events, walk>>

NoEvent == [state |-> "none", start |-> Unknown, recorded |-> 0, discovered |-> 0]
NoWalk == [pc |-> "idle", sort |-> "occurred", asOf |-> 0, unknown |-> FALSE,
           cursor |-> <<>>, cards |-> {}, again |-> {}, first |-> {}, late |-> {}]

Init ==
    /\ clock = 1
    /\ events = [e \in Events |-> NoEvent]
    /\ walk = NoWalk

----------------------------------------------------------------------------
(* Recording an event: insert_event_with_revision.                          *)

BeginEvent(e, start) ==
    /\ events[e].state = "none"
    /\ events' = [events EXCEPT ![e] = [state |-> "begun", start |-> start,
                                        recorded |-> clock, discovered |-> 0]]
    /\ UNCHANGED <<clock, walk>>

CommitEvent(e) ==
    /\ events[e].state = "begun"
    /\ events' = [events EXCEPT ![e] =
                    [state |-> "committed", start |-> events[e].start,
                     recorded |-> events[e].recorded, discovered |-> clock]]
    /\ UNCHANGED <<clock, walk>>

Tick ==
    /\ clock < MaxClock
    /\ clock' = clock + 1
    /\ UNCHANGED <<events, walk>>

----------------------------------------------------------------------------
(* Reading.                                                                 *)

\* The query's WHERE but for the cursor; asOf 0: none was given.
Visible(e, w) ==
    /\ events[e].state = "committed"
    /\ w.asOf # 0 => events[e].recorded <= w.asOf /\ events[e].discovered <= w.asOf
    /\ w.sort = "occurred" => w.unknown \/ events[e].start # Unknown

\* effective_sort_key: unknown dates are a group of their own, after the others.
SortKey(e, w) ==
    IF w.sort = "discovered" THEN <<0, events[e].discovered, e>>
    ELSE IF events[e].start = Unknown THEN <<1, 0, e>>
    ELSE <<0, events[e].start, e>>

Before(a, b) ==
    \/ a[1] < b[1]
    \/ a[1] = b[1] /\ a[2] < b[2]
    \/ a[1] = b[1] /\ a[2] = b[2] /\ a[3] < b[3]

\* Mutant: the keyset compares the dates only.
AfterByDate(key, cursor) ==
    cursor = <<>> \/ (key[1] = cursor[1] /\ (key[1] = 1 \/ cursor[2] < key[2]))

\* The query resumes strictly after the cursor, inside the cursor's own group.
After(key, cursor) ==
    cursor = <<>> \/ (key[1] = cursor[1] /\ Before(cursor, key))

\* The rows behind the cursor, by their keys ...
Rest(w) ==
    {k \in {SortKey(e, w) : e \in {x \in Events : Visible(x, w)}} : After(k, w.cursor)}

\* ... of which the first ones make the page; limit + 1 are asked for, to know
\* whether there are more.
Page(w) == {k \in Rest(w) : Cardinality({j \in Rest(w) : Before(j, k)}) < Limit}
HasMore(w) == Cardinality(Rest(w)) > Limit

Newest(page) == CHOOSE k \in page : \A j \in page : j = k \/ Before(j, k)

Ask(sort, asOf, unknown) ==
    /\ walk.pc = "idle"
    /\ asOf <= clock
    /\ LET w == [pc |-> "reading", sort |-> sort, asOf |-> asOf, unknown |-> unknown]
       IN  walk' = [pc |-> "reading", sort |-> sort, asOf |-> asOf, unknown |-> unknown,
                    cursor |-> <<>>, cards |-> {}, again |-> {},
                    first |-> {e \in Events : Visible(e, w)},
                    late |-> {e \in Events : events[e].state # "committed"}]
    /\ UNCHANGED <<clock, events>>

ReadPage ==
    /\ walk.pc = "reading"
    /\ LET page == {k[3] : k \in Page(walk)}
       IN  walk' = [pc |-> IF HasMore(walk) THEN "reading" ELSE "read",
                    sort |-> walk.sort, asOf |-> walk.asOf, unknown |-> walk.unknown,
                    cursor |-> IF HasMore(walk) THEN Newest(Page(walk)) ELSE walk.cursor,
                    cards |-> walk.cards \cup page,
                    again |-> walk.again \cup (walk.cards \cap page),
                    first |-> walk.first, late |-> walk.late]
    /\ UNCHANGED <<clock, events>>

Next ==
    \/ \E e \in Events, start \in Starts \cup {Unknown} : BeginEvent(e, start)
    \/ \E e \in Events : CommitEvent(e)
    \/ Tick
    \/ \E sort \in {"occurred", "discovered"}, asOf \in 0..MaxClock, unknown \in BOOLEAN :
         Ask(sort, asOf, unknown)
    \/ ReadPage

Spec == Init /\ [][Next]_vars

----------------------------------------------------------------------------
(* Properties.                                                              *)

\* A walk over any number of pages, with events committed between them, repeats
\* nothing and passes over no event that it could see from the start and that has
\* a date in its order; and a view as of the past shows nothing that was not
\* there then, but for transactions that were open at that instant.
WalkIsComplete ==
    /\ walk.again = {}
    /\ walk.pc = "read" =>
         {e \in walk.first : walk.sort = "discovered" \/ events[e].start # Unknown}
           \subseteq walk.cards
    /\ walk.asOf # 0 => \A e \in walk.cards \ walk.first : /\ e \in walk.late
                                                       /\ events[e].recorded <= walk.asOf

=============================================================================
