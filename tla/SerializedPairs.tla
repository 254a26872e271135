--------------------------- MODULE SerializedPairs ---------------------------
(***************************************************************************)
(* What the coordinator of a camera pair promises its users: sessions are  *)
(* exclusive, each call has at most one, and in its session it hands the   *)
(* analyzer at most one pair, a sound one.                                 *)
(***************************************************************************)
CONSTANTS
    Calls,       \* the invocations
    SoundPairs,  \* the pairs the analyzer may see
    Nil

VARIABLES
    owner,     \* the call in session, or Nil
    entered,   \* the calls that had their session
    delivered  \* the pair each call gave to the analyzer, or Nil

vars == <<owner, entered, delivered>>

Init ==
    /\ owner = Nil
    /\ entered = {}
    /\ delivered = [c \in Calls |-> Nil]

Enter(c) ==
    /\ owner = Nil /\ c \notin entered
    /\ owner' = c
    /\ entered' = entered \cup {c}
    /\ UNCHANGED delivered

Deliver(c, pair) ==
    /\ owner = c /\ delivered[c] = Nil
    /\ delivered' = [delivered EXCEPT ![c] = pair]
    /\ UNCHANGED <<owner, entered>>

Leave(c) ==
    /\ owner = c
    /\ owner' = Nil
    /\ UNCHANGED <<entered, delivered>>

Next ==
    \E c \in Calls :
        \/ Enter(c) \/ Leave(c)
        \/ \E pair \in SoundPairs : Deliver(c, pair)

Spec == Init /\ [][Next]_vars

=============================================================================
