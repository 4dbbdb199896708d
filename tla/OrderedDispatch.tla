-------------------------- MODULE OrderedDispatch --------------------------
(***************************************************************************)
(* What kiwibnc's ParallelQueue promises to the code that takes items from *)
(* it, without its blocks and lists.  Items arrive one after the other,    *)
(* each with a route: a type ("connection" or "bnc") and a key (the        *)
(* connection's id, or the one internal key).  Two items conflict when     *)
(* their types differ, an internal event must run alone, or when their     *)
(* keys are the same, one connection's messages are handled serially.  An  *)
(* item may be started when no earlier unfinished item conflicts with it.  *)
(***************************************************************************)
EXTENDS Naturals, Sequences, FiniteSets

CONSTANTS Types,    \* the types of an item
          Keys      \* the keys of an item

VARIABLES arrivals, \* the routes of the items in arrival order: item i is the i-th
          open,     \* the items that arrived and are not finished
          running   \* the open items that have been handed out

vars == <<arrivals, open, running>>

Routes == [type: Types, key: Keys]

Items == 1..Len(arrivals)

TypeOK ==
    /\ arrivals \in Seq(Routes)
    /\ open \subseteq Items
    /\ running \subseteq open

Conflict(i, j) ==
    \/ arrivals[i].type # arrivals[j].type
    \/ arrivals[i].key = arrivals[j].key

Init ==
    /\ arrivals = <<>>
    /\ open = {}
    /\ running = {}

Arrive(r) ==
    /\ arrivals' = Append(arrivals, r)
    /\ open' = open \union {Len(arrivals) + 1}
    /\ UNCHANGED running

Start(i) ==
    /\ i \in open \ running
    /\ \A j \in open : j < i => ~Conflict(i, j)
    /\ running' = running \union {i}
    /\ UNCHANGED <<arrivals, open>>

Finish(i) ==
    /\ i \in running
    /\ open' = open \ {i}
    /\ running' = running \ {i}
    /\ UNCHANGED arrivals

Next ==
    \/ \E r \in Routes : Arrive(r)
    \/ \E i \in Items : Start(i)
    \/ \E i \in Items : Finish(i)

Spec == Init /\ [][Next]_vars

\* Two items that are handled at the same time never conflict: one connection's
\* messages are handled one at a time, and an internal event is handled alone.
Exclusive == \A i, j \in running : i # j => ~Conflict(i, j)

\* The part of the order that makes Exclusive inductive: nothing overtakes an
\* earlier unfinished item it conflicts with.
NoOvertaking == \A i \in open : \A j \in running : i < j => ~Conflict(i, j)

=============================================================================
