---------------------------- MODULE HaLowCapture ----------------------------
(***************************************************************************)
(* The coordinator with the image sources of halow.go plugged in: a camera *)
(* connected directly is read through CameraSource, one behind the Wi-Fi   *)
(* HaLow link through RemoteHaLowSource, whose request reaches the         *)
(* HaLowEndpoint of that camera and whose answer comes back over the link. *)
(*                                                                         *)
(* The transport below HaLowProtocol is not in the repository.  Nothing is *)
(* expected of it: everything ever sent stays on the link, a request may   *)
(* be handled never, late or repeatedly, and any answer may be handed to   *)
(* any waiting source.  All messages carry the one protocol version.       *)
(***************************************************************************)
EXTENDS Coordinator

CONSTANTS
    Frames,   \* what a camera driver may return
    Wirings,  \* the sets of roles that may be behind the link
    MaxTime   \* bound on the clock

\* wellFormed: capture time, media type, size and framing pass validateImage.
Frame == [wellFormed : BOOLEAN, synced : BOOLEAN, pose : {"absent", "valid", "invalid"}]

\* CameraSource puts the request and its camera on a shot; the camera dates it,
\* synchronized or not, with the time it was taken.
Stamped(shot, id, role, time) ==
    [request |-> id, camera |-> role, wellFormed |-> shot.wellFormed, at |-> time,
     synced |-> shot.synced, pose |-> shot.pose]

ASSUME FramesAssumption == Frames \subseteq Frame
ASSUME WiringsAssumption == Wirings \subseteq SUBSET Roles
ASSUME TimeAssumption == MaxTime \in Nat \ {0} /\ Nil \notin Nat
ASSUME StampAssumption ==
    \A shot \in Frames, id \in RequestIDs, role \in Roles, time \in 1..MaxTime :
        Stamped(shot, id, role, time) \in Images

VARIABLES
    remote,    \* the roles behind the link, fixed when the sources are built
    clock,     \* the time, on THOR and on the cameras
    asked      \* RequestedAt of the call's capture request

linkVars   == <<remote, clock, asked>>
systemVars == <<vars, linkVars>>

SystemInit ==
    /\ Init
    /\ remote \in Wirings
    /\ clock = 1
    /\ asked = [c \in Calls |-> Nil]

-----------------------------------------------------------------------------

\* Mutant of FreshID: the generator may repeat itself.
AnyID(id) == TRUE

\* The default generator never repeats: it counts in a process-wide sequence.
FreshID(id) == \A c \in Calls : request[c] # id

\* The coordinator makes its request and starts both captures.
Begin(c, id) ==
    /\ FreshID(id)
    /\ StartCaptures(c, id)
    /\ asked' = [asked EXCEPT ![c] = clock]
    /\ UNCHANGED <<remote, clock>>

\* CameraSource.Capture: a frame that does not validate is an error.
FromCamera(role, id, shot, time) ==
    LET image == Stamped(shot, id, role, time)
    IN  IF ValidImage(image, id) THEN image ELSE Failure

\* A camera connected directly returns a frame taken since the capture started, or
\* fails.
CaptureLocally(c, role) ==
    /\ role \notin remote /\ capture[c][role] = "running"
    /\ \/ Captured(c, role, Failure)
       \/ \E shot \in Frames, time \in asked[c]..clock :
              Captured(c, role, FromCamera(role, request[c], shot, time))
    /\ UNCHANGED linkVars

\* The HaLowCaptureRequests that RemoteHaLowSource.Capture has sent so far.  Each
\* is on the link from the moment its capture starts: sending it later is the
\* same as handling it later.
Requests ==
    {[id |-> request[c], target |-> role, at |-> asked[c]] :
        c \in {d \in Calls : asked[d] # Nil}, role \in remote}

\* Mutant of Answer: the endpoint answers with whatever the camera returned.
AnswerUnchecked(camera, message, shot, time) ==
    IF message.target # camera THEN Failure
    ELSE [id |-> message.id, image |-> Stamped(shot, message.id, camera, time)]

\* Mutant of Answer: an endpoint answers for whatever camera is the target.
AnswerForAny(camera, message, shot, time) ==
    LET image == FromCamera(camera, message.id, shot, time)
    IN  IF image = Failure THEN Failure ELSE [id |-> message.id, image |-> image]

\* What HandleCapture of a camera's endpoint replies at the given time: a request for
\* another camera, like a capture that fails, gets an error.
Answer(camera, message, shot, time) ==
    LET image == FromCamera(camera, message.id, shot, time)
    IN  IF message.target # camera \/ image = Failure THEN Failure
        ELSE [id |-> message.id, image |-> image]

\* HandleCapture keeps no state, so what was handled need not be recorded: a request
\* has perhaps been handled at any time since it was sent, and by the endpoint of any
\* camera: the transport may hand it to the wrong one.  An error carries no image.
AnswersTo(message) ==
    {Answer(camera, message, shot, time) :
        camera \in remote, shot \in Frames, time \in message.at..clock} \ {Failure}

\* Every answer that may be on the link by now.
Answers == UNION {AnswersTo(message) : message \in Requests}

\* Mutant of Accepted: the camera that answered is not compared with the target.
AcceptedFromAnyCamera(role, id, answer) ==
    IF answer.id = id /\ answer.image.request = id THEN answer.image ELSE Failure

\* Mutant of Accepted: the image is taken to answer the request it is wanted for.
AcceptedAsOwn(role, id, answer) ==
    IF answer.image.camera = role THEN [answer.image EXCEPT !.request = id] ELSE Failure

\* The checks of RemoteHaLowSource.Capture on an answer.
Accepted(role, id, answer) ==
    IF answer.id = id /\ answer.image.request = id /\ answer.image.camera = role
    THEN answer.image ELSE Failure

\* The transport gives the waiting source any answer on the link, or an error.
CaptureRemotely(c, role) ==
    /\ role \in remote
    /\ \/ Captured(c, role, Failure)
       \/ \E answer \in Answers : Captured(c, role, Accepted(role, request[c], answer))
    /\ UNCHANGED linkVars

Tick ==
    /\ clock < MaxTime
    /\ clock' = clock + 1
    /\ UNCHANGED <<vars, remote, asked>>

\* The steps of Coordinator that involve no source.
Unlinked ==
    /\ \/ Finished
       \/ \E c \in Calls : \/ Call(c) \/ Cancel(c) \/ Advance(c)
                           \/ \E role \in Roles : Send(c, role)
    /\ UNCHANGED linkVars

SystemNext ==
    \/ Unlinked
    \/ \E c \in Calls, id \in RequestIDs : Begin(c, id)
    \/ \E c \in Calls, role \in Roles :
           CaptureLocally(c, role) \/ CaptureRemotely(c, role)
    \/ Tick

SystemSpec == SystemInit /\ [][SystemNext]_systemVars

-----------------------------------------------------------------------------
(* What the sources promise.                                                 *)

\* Every variable keeps its type, and every answer to a request on the link is a whole
\* image for that request, taken by the camera it was meant for.
LinkTypeOK ==
    /\ remote \in Wirings
    /\ clock \in 1..MaxTime
    /\ asked \in [Calls -> 1..MaxTime \cup {Nil}]
    /\ \A message \in Requests : \A answer \in AnswersTo(message) :
           /\ answer.id = message.id
           /\ answer.image \in Images /\ ValidImage(answer.image, message.id)
           /\ answer.image.camera = message.target

\* No image the analyzer is given is older than the request of its call: a late,
\* repeated or crossed answer to an earlier session never passes for a new one
\* ("receive time is not used", the skew check compares the images alone and no
\* check compares them with the request).
DeliveredAfterRequest ==
    \A c \in Calls : delivered[c] # Nil =>
        \A role \in Roles : delivered[c][role].at >= asked[c]

\* The sources keep what Coordinator expects of them: it is still the coordinator
\* of its own specification, where a capture returns an image of the camera of
\* its role or fails.
ImplementsCoordinator == Spec

=============================================================================
