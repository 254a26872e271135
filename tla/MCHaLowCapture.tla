-------------------------- MODULE MCHaLowCapture --------------------------
(***************************************************************************)
(* A model-checking instance of HaLowCapture.                              *)
(***************************************************************************)
EXTENDS HaLowCapture, TLC

Symmetry == Permutations(Calls) \cup Permutations(RequestIDs)

\* A good frame and one that does not validate.
MCFrames == {[wellFormed |-> TRUE, synced |-> TRUE, pose |-> "valid"],
             [wellFormed |-> FALSE, synced |-> TRUE, pose |-> "valid"]}

\* The additional camera alone behind the link, as in the tests, and both.
MCWirings == {{"additional"}, Roles}

MCImages ==
    {Stamped(shot, id, role, time) :
        shot \in MCFrames, id \in RequestIDs, role \in Roles, time \in 1..MaxTime}

=============================================================================
