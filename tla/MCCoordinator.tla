--------------------------- MODULE MCCoordinator ---------------------------
(***************************************************************************)
(* Model-checking instances of Coordinator.                                *)
(***************************************************************************)
EXTENDS Coordinator, TLC

CONSTANT q1

CallSymmetry == Permutations(Calls)

Good(camera, id) == [request |-> id, camera |-> camera, wellFormed |-> TRUE,
                     at |-> 1, synced |-> TRUE, pose |-> "valid"]

\* For each check of the coordinator an image that fails it: an image of another
\* request, one taken too late, with an unsynchronized clock, with a pose that is
\* wrong or missing, and one dated so much later that the skew check loses it.
MCImages ==
    {Good(camera, q1) : camera \in Roles}
    \cup {Good("primary", OtherID),
          [Good("primary", q1) EXCEPT !.pose = "invalid"],
          [Good("additional", q1) EXCEPT !.pose = "absent"],
          [Good("additional", q1) EXCEPT !.synced = FALSE],
          [Good("additional", q1) EXCEPT !.at = 9],
          [Good("additional", q1) EXCEPT !.at = 17]}

\* Two good images of the one request, for the runs about scheduling alone.
GoodImages == {Good(camera, q1) : camera \in Roles}

=============================================================================
