-------------------------- MODULE BudgetedAdmission --------------------------
(***************************************************************************)
(* What an admission decision promises, whatever the order in which it     *)
(* looks at the tasks: out of an offer of eligible tasks it chooses a set  *)
(* that fits the room there is, and it ends only when no task left in the  *)
(* offer could still be added.                                             *)
(***************************************************************************)
EXTENDS Integers, FiniteSets, FiniteSetsExt

VARIABLES
    offer,   \* the set of eligible tasks, with distinct IDs
    room,    \* [slots, gpus, limited, available]
    chosen,  \* the tasks chosen so far
    closed   \* the decision is final

vars == <<offer, room, chosen, closed>>

\* What the tasks need of one resource.
Demand(kind, tasks) == MapThenSumSet(LAMBDA t : t.resources[kind], tasks)

FitsRoom(tasks) ==
    /\ Cardinality(tasks) <= room.slots
    /\ Cardinality({t \in tasks : t.gpu}) <= room.gpus
    /\ room.limited =>
           \A kind \in {"cpu", "memory", "gpus"} : Demand(kind, tasks) <= room.available[kind]

Init == chosen = {} /\ closed = FALSE

Choose(t) ==
    /\ ~closed
    /\ chosen' = chosen \cup {t}
    /\ FitsRoom(chosen')
    /\ UNCHANGED <<offer, room, closed>>

Close ==
    /\ ~closed
    /\ \A t \in offer \ chosen : ~FitsRoom(chosen \cup {t})
    /\ closed' = TRUE
    /\ UNCHANGED <<offer, room, chosen>>

Next == Close \/ \E t \in offer \ chosen : Choose(t)

Spec == Init /\ [][Next]_vars

=============================================================================
