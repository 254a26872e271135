--------------------------- MODULE MCHaLowTransfer ---------------------------
(***************************************************************************)
(* Model-checking instances of HaLowTransfer.                              *)
(***************************************************************************)
EXTENDS HaLowTransfer

CONSTANTS q1, q2, cam

Shot(request, at, data) ==
    [request |-> request, camera |-> cam, data |-> data,
     meta |-> [at |-> at, sound |-> TRUE, pose |-> "valid"]]

\* Chunks of two bytes, at most two of them: two images of one request, the
\* second of which fills its only chunk; one without a request ID; one that fills
\* both chunks and is too big for the receiver; one without a pose.
MCImages ==
    {Shot(q1, 1, <<1, 2, 3>>), Shot(q1, 2, <<4, 5>>),
     Shot(BlankID, 1, <<1>>), Shot(q2, 2, <<5, 6, 7, 8>>),
     [Shot(q2, 1, <<1>>) EXCEPT !.meta.pose = "absent"]}

\* One request answered twice with the same bytes, at different times.
Retaken == {Shot(q1, 1, <<1>>), Shot(q1, 2, <<1>>)}

=============================================================================
