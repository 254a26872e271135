----------------------------- MODULE Coordinator -----------------------------
(***************************************************************************)
(* Coordinator.CaptureAndAnalyze of pkg/orchestration: calls from several  *)
(* goroutines serialize on a one-token channel; the holder of the token    *)
(* starts one goroutine per camera, collects their two results under a     *)
(* timeout, checks them, and hands the pair to the analyzer.               *)
(*                                                                         *)
(* A member of Calls is one invocation.  An image is abstracted to what    *)
(* the checks tell apart.  Cameras and analyzer are implementations of     *)
(* interfaces: a capture may return any image or fail, at any time or      *)
(* never, whatever happens to its context.                                 *)
(***************************************************************************)
EXTENDS Integers, Sequences

CONSTANTS
    Calls,        \* the invocations of CaptureAndAnalyze
    RequestIDs,   \* the request IDs the generator may return, repeats allowed
    OtherID,      \* a request ID that is none of these
    Images,       \* the images the cameras may return
    MaxDuration,  \* the longest time.Duration (2^63 - 1 ns in Go)
    MaxSkew,      \* Config.MaxCaptureSkew
    RequireSync,  \* Config.RequireSynchronizedTimestamps
    RequirePose,  \* Config.RequireCameraPose
    Failure,      \* a capture that returns an error
    Nil

Roles == {"primary", "additional"}
Other(role) == IF role = "primary" THEN "additional" ELSE "primary"

\* camera: the camera that took it; wellFormed: camera ID, time, media type,
\* size and JPEG framing are all right; pose: what validateCameraPose finds.
Image == [request : RequestIDs \cup {OtherID}, camera : Roles, wellFormed : BOOLEAN,
          at : Int, synced : BOOLEAN, pose : {"absent", "valid", "invalid"}]

ASSUME ImagesAssumption == Images \subseteq Image
ASSUME NullAssumption   == /\ Nil \notin RequestIDs /\ OtherID \notin RequestIDs
                           /\ Failure \notin Image /\ Nil \notin Image \cup {Failure}
                           /\ Nil \notin [Roles -> Image]
ASSUME SkewAssumption   == MaxDuration \in Nat /\ MaxSkew \in 1..MaxDuration
ASSUME FlagsAssumption  == RequireSync \in BOOLEAN /\ RequirePose \in BOOLEAN

VARIABLES
    session,    \* the token is in the session channel
    pc,         \* where each call is
    cancelled,  \* the caller's context is done
    expired,    \* the capture context is done, by its timeout or by cancel()
    request,    \* the ID of the call's capture request
    capture,    \* state of the capture goroutine of each role
    frame,      \* what that goroutine has to send
    results,    \* the call's results channel
    got,        \* the images collected so far, by role
    delivered,  \* the pair given to the analyzer
    result      \* what the call returned

vars == <<session, pc, cancelled, expired, request, capture, frame, results, got,
          delivered, result>>

NoImages == [role \in Roles |-> Nil]

Init ==
    /\ session = TRUE
    /\ pc        = [c \in Calls |-> "idle"]
    /\ cancelled = [c \in Calls |-> FALSE]
    /\ expired   = [c \in Calls |-> FALSE]
    /\ request   = [c \in Calls |-> Nil]
    /\ capture   = [c \in Calls |-> [role \in Roles |-> "none"]]
    /\ frame     = [c \in Calls |-> NoImages]
    /\ results   = [c \in Calls |-> <<>>]
    /\ got       = [c \in Calls |-> NoImages]
    /\ delivered = [c \in Calls |-> Nil]
    /\ result    = [c \in Calls |-> "none"]

-----------------------------------------------------------------------------
(* The checks.                                                               *)

\* The pose may be missing only if it is not required; one that is there is checked.
PoseAccepted(image) ==
    /\ image.pose = "absent" => ~RequirePose
    /\ image.pose # "invalid"

\* validateImage: the image answers this request and is whole.
ValidImage(image, id) == image.request = id /\ image.wellFormed

\* Mutant of Acceptable: an image left over from another request is accepted.
AcceptableFromAnyRequest(image, id) == image.wellFormed /\ PoseAccepted(image)

\* What is checked of the image received for a request.
Acceptable(image, id) == ValidImage(image, id) /\ PoseAccepted(image)

\* time.Time.Sub: the difference, or the nearest Duration if none can hold it.
Sub(later, earlier) ==
    IF later - earlier > MaxDuration THEN MaxDuration
    ELSE IF later - earlier < -(MaxDuration + 1) THEN -(MaxDuration + 1)
    ELSE later - earlier

\* The negation of the least Duration wraps to itself.
AbsoluteDuration(value) ==
    IF value = -(MaxDuration + 1) THEN value ELSE IF value < 0 THEN -value ELSE value

\* Mutant of InSync: the skew is compared without taking its absolute value.
InSyncOneSided(pair) ==
    LET synced == pair["primary"].synced /\ pair["additional"].synced
        skew   == Sub(pair["primary"].at, pair["additional"].at)
    IN  /\ RequireSync => synced
        /\ synced => skew <= MaxSkew

\* The synchronized-timestamp and skew checks on the collected pair.
InSync(pair) ==
    LET synced == pair["primary"].synced /\ pair["additional"].synced
        skew   == AbsoluteDuration(Sub(pair["primary"].at, pair["additional"].at))
    IN  /\ RequireSync => synced
        /\ synced => skew <= MaxSkew

\* Mutant of Buffer: room for the first result only.
BufferOfOne == 1

\* The capacity of the results channel.
Buffer == 2

-----------------------------------------------------------------------------
(* A call.                                                                   *)

\* Mutant of Return: an error return that leaves out the release of the session.
ReturnKeepingSession(c, value) ==
    /\ pc'      = [pc EXCEPT ![c] = "returned"]
    /\ result'  = [result EXCEPT ![c] = value]
    /\ expired' = [expired EXCEPT ![c] = TRUE]
    /\ session' = (value = "ok")
    /\ got'     = [got EXCEPT ![c] = NoImages]

\* A return after the session was acquired: cancel() and the deferred release.
Return(c, value) ==
    /\ pc'      = [pc EXCEPT ![c] = "returned"]
    /\ result'  = [result EXCEPT ![c] = value]
    /\ expired' = [expired EXCEPT ![c] = TRUE]
    /\ session' = TRUE
    /\ got'     = [got EXCEPT ![c] = NoImages]

Call(c) ==
    /\ pc[c] = "idle"
    /\ pc' = [pc EXCEPT ![c] = "waiting"]
    /\ UNCHANGED <<session, cancelled, expired, request, capture, frame, results, got,
                   delivered, result>>

\* The caller's context is cancelled, or its own deadline passes.
Cancel(c) ==
    /\ ~cancelled[c] /\ pc[c] # "returned"
    /\ cancelled' = [cancelled EXCEPT ![c] = TRUE]
    /\ UNCHANGED <<session, pc, expired, request, capture, frame, results, got, delivered,
                   result>>

\* Mutant of GiveUp: the release is deferred before the session is acquired.
GiveUpReleasing(c) ==
    /\ pc[c] = "waiting" /\ cancelled[c]
    /\ pc' = [pc EXCEPT ![c] = "returned"]
    /\ result' = [result EXCEPT ![c] = "error"]
    /\ session' = TRUE
    /\ UNCHANGED <<cancelled, expired, request, capture, frame, results, got, delivered>>

\* select: the context is done while the session is awaited ...
GiveUp(c) ==
    /\ pc[c] = "waiting" /\ cancelled[c]
    /\ pc' = [pc EXCEPT ![c] = "returned"]
    /\ result' = [result EXCEPT ![c] = "error"]
    /\ UNCHANGED <<session, cancelled, expired, request, capture, frame, results, got,
                   delivered>>

\* ... or the session is free; with both ready select picks either.
Acquire(c) ==
    /\ pc[c] = "waiting" /\ session
    /\ session' = FALSE
    /\ pc' = [pc EXCEPT ![c] = "acquired"]
    /\ UNCHANGED <<cancelled, expired, request, capture, frame, results, got, delivered,
                   result>>

\* A zero clock or a blank request ID ends the call.
RefuseRequest(c) ==
    /\ pc[c] = "acquired"
    /\ Return(c, "error")
    /\ UNCHANGED <<cancelled, request, capture, frame, results, delivered>>

StartCaptures(c, id) ==
    /\ pc[c] = "acquired"
    /\ pc' = [pc EXCEPT ![c] = "collecting"]
    /\ request' = [request EXCEPT ![c] = id]
    /\ capture' = [capture EXCEPT ![c] = [role \in Roles |-> "running"]]
    /\ UNCHANGED <<session, cancelled, expired, frame, results, got, delivered, result>>

\* The capture timeout fires.
Expire(c) ==
    /\ pc[c] = "collecting" /\ ~expired[c]
    /\ expired' = [expired EXCEPT ![c] = TRUE]
    /\ UNCHANGED <<session, pc, cancelled, request, capture, frame, results, got, delivered,
                   result>>

\* captureContext.Done() is ready: it follows the caller's context.
GiveUpCapture(c) ==
    /\ pc[c] = "collecting" /\ (expired[c] \/ cancelled[c])
    /\ Return(c, "error")
    /\ UNCHANGED <<cancelled, request, capture, frame, results, delivered>>

RejectResult(c) ==
    /\ pc[c] = "collecting" /\ results[c] # <<>>
    /\ LET image == Head(results[c]).image
       IN  image # Failure => ~Acceptable(image, request[c])
    /\ results' = [results EXCEPT ![c] = Tail(@)]
    /\ Return(c, "error")
    /\ UNCHANGED <<cancelled, request, capture, frame, delivered>>

AcceptResult(c) ==
    /\ pc[c] = "collecting" /\ results[c] # <<>>
    /\ LET role  == Head(results[c]).role
           image == Head(results[c]).image
       IN  /\ image # Failure /\ Acceptable(image, request[c])
           /\ got' = [got EXCEPT ![c][role] = image]
           /\ pc'  = [pc EXCEPT ![c] = IF got[c][Other(role)] = Nil THEN @ ELSE "paired"]
    /\ results' = [results EXCEPT ![c] = Tail(@)]
    /\ UNCHANGED <<session, cancelled, expired, request, capture, frame, delivered, result>>

RejectPair(c) ==
    /\ pc[c] = "paired" /\ ~InSync(got[c])
    /\ Return(c, "error")
    /\ UNCHANGED <<cancelled, request, capture, frame, results, delivered>>

\* Mutant of Deliver: the analyzer is called before the pair is put together.
DeliverEmpty(c) ==
    /\ pc[c] = "paired" /\ InSync(got[c])
    /\ pc' = [pc EXCEPT ![c] = "analyzing"]
    /\ expired' = [expired EXCEPT ![c] = TRUE]
    /\ delivered' = [delivered EXCEPT ![c] = NoImages]
    /\ UNCHANGED <<session, cancelled, request, capture, frame, results, got, result>>

\* AnalyzePair is called, under the caller's context, not the capture one.
Deliver(c) ==
    /\ pc[c] = "paired" /\ InSync(got[c])
    /\ pc' = [pc EXCEPT ![c] = "analyzing"]
    /\ expired' = [expired EXCEPT ![c] = TRUE]
    /\ delivered' = [delivered EXCEPT ![c] = got[c]]
    /\ UNCHANGED <<session, cancelled, request, capture, frame, results, got, result>>

AnalyzerReturns(c) ==
    /\ pc[c] = "analyzing"
    /\ \E value \in {"ok", "error"} : Return(c, value)
    /\ UNCHANGED <<cancelled, request, capture, frame, results, delivered>>

-----------------------------------------------------------------------------
(* The capture goroutines: they outlive a call that returned early.          *)

\* source.Capture returns.
Captured(c, role, image) ==
    /\ capture[c][role] = "running"
    /\ capture' = [capture EXCEPT ![c][role] = "sending"]
    /\ frame' = [frame EXCEPT ![c][role] = image]
    /\ UNCHANGED <<session, pc, cancelled, expired, request, results, got, delivered, result>>

\* results <- captureResult{...} blocks while the channel is full.
Send(c, role) ==
    /\ capture[c][role] = "sending"
    /\ Len(results[c]) < Buffer
    /\ results' = [results EXCEPT ![c] = Append(@, [role |-> role, image |-> frame[c][role]])]
    /\ capture' = [capture EXCEPT ![c][role] = "ended"]
    /\ frame' = [frame EXCEPT ![c][role] = Nil]
    /\ UNCHANGED <<session, pc, cancelled, expired, request, got, delivered, result>>

-----------------------------------------------------------------------------

\* A step of the call itself, or of its timer or analyzer, that starts no capture.
Advance(c) ==
    \/ GiveUp(c) \/ Acquire(c) \/ RefuseRequest(c)
    \/ Expire(c) \/ GiveUpCapture(c) \/ RejectResult(c) \/ AcceptResult(c)
    \/ RejectPair(c) \/ Deliver(c) \/ AnalyzerReturns(c)

\* What the runtime, the timer and the analyzer are relied upon to do.
Progress(c) == Advance(c) \/ \E id \in RequestIDs : StartCaptures(c, id)

Capturing(c, role) ==
    \E image \in {i \in Images : i.camera = role} \cup {Failure} : Captured(c, role, image)

\* Every call has returned and every goroutine has ended.
Finished ==
    /\ \A c \in Calls : /\ pc[c] = "returned"
                        /\ \A role \in Roles : capture[c][role] \in {"none", "ended"}
    /\ UNCHANGED vars

Next ==
    \/ Finished
    \/ \E c \in Calls :
        \/ Call(c) \/ Cancel(c) \/ Progress(c)
        \/ \E role \in Roles : Capturing(c, role) \/ Send(c, role)

Spec == Init /\ [][Next]_vars

\* Nothing is assumed of the callers and the cameras.
Fairness ==
    \A c \in Calls : /\ WF_vars(Progress(c))
                     /\ \A role \in Roles : WF_vars(Send(c, role))

FairSpec == Spec /\ Fairness

-----------------------------------------------------------------------------
(* What the coordinator promises.                                            *)

Holds(c) == pc[c] \in {"acquired", "collecting", "paired", "analyzing"}

\* Every variable keeps its type, and a results channel never holds more than
\* its capacity.
TypeOK ==
    /\ session \in BOOLEAN
    /\ pc \in [Calls -> {"idle", "waiting", "acquired", "collecting", "paired", "analyzing",
                         "returned"}]
    /\ cancelled \in [Calls -> BOOLEAN]
    /\ expired \in [Calls -> BOOLEAN]
    /\ request \in [Calls -> RequestIDs \cup {Nil}]
    /\ capture \in [Calls -> [Roles -> {"none", "running", "sending", "ended"}]]
    /\ frame \in [Calls -> [Roles -> Images \cup {Failure, Nil}]]
    /\ results \in [Calls -> Seq([role : Roles, image : Images \cup {Failure}])]
    /\ \A c \in Calls : Len(results[c]) <= Buffer
    /\ got \in [Calls -> [Roles -> Images \cup {Nil}]]
    /\ delivered \in [Calls -> [Roles -> Images] \cup {Nil}]
    /\ result \in [Calls -> {"none", "ok", "error"}]

\* Sessions are serialized and the token is neither lost nor duplicated, on
\* every path out of CaptureAndAnalyze: it is in the channel exactly when no
\* call holds it, and no two calls do.
OneSession ==
    /\ session <=> \A c \in Calls : ~Holds(c)
    /\ \A c, d \in Calls : Holds(c) /\ Holds(d) => c = d

\* The differences of capture times that slip through the skew check: those that
\* saturate, at the Duration that has no absolute value if the additional image
\* is the later one, or under a limit that is itself the longest Duration.
SkewLost(pair) ==
    LET skew == pair["primary"].at - pair["additional"].at
    IN  skew < -MaxDuration \/ (skew > MaxDuration /\ MaxSkew = MaxDuration)

\* What the analyzer relies on when it is given a pair for a request.
Sound(pair, id) ==
    /\ \A role \in Roles :
        /\ pair[role].camera = role /\ pair[role].request = id /\ pair[role].wellFormed
        /\ pair[role].pose = "valid" \/ (pair[role].pose = "absent" /\ ~RequirePose)
        /\ RequireSync => pair[role].synced
    /\ (\A role \in Roles : pair[role].synced) /\ ~SkewLost(pair) =>
        \A role \in Roles : pair[role].at - pair[Other(role)].at <= MaxSkew

\* A pair the analyzer sees is complete, each role's image was taken by the
\* camera of that role for this very call's request, and all checks hold for
\* it: a partial, invalid or uncorrelated pair is never delivered, nor a skewed one
\* unless the check loses its skew, which the code lets pass (SkewLost).
AnalyzerSeesOnlySoundPairs ==
    \A c \in Calls : delivered[c] # Nil => Sound(delivered[c], request[c])

\* Two calls never have a capture running on the same physical camera: the
\* comment on Coordinator says sessions are serialized "so a second inference
\* cannot interleave captures on the same physical devices".
CamerasNotShared ==
    \A c, d \in Calls : \A role \in Roles :
        capture[c][role] = "running" /\ capture[d][role] = "running" => c = d

\* Every call returns, whatever the cameras do: a waiting call gets the session
\* or gives up, and the holder is bounded by the capture timeout.
EveryCallReturns == \A c \in Calls : pc[c] = "waiting" ~> pc[c] = "returned"

\* No capture goroutine is left blocked on its result, though its call may have
\* returned long before: the channel has room for both.
NoGoroutineLeak ==
    \A c \in Calls : \A role \in Roles :
        capture[c][role] = "sending" ~> capture[c][role] = "ended"

-----------------------------------------------------------------------------
(* The coordinator implements SerializedPairs.                               *)

Owner == IF \E c \in Calls : Holds(c) THEN CHOOSE c \in Calls : Holds(c) ELSE Nil

\* A call that gave up while waiting has returned with its context unused.
Entered == {c \in Calls : Holds(c) \/ (pc[c] = "returned" /\ expired[c])}

SoundPairs ==
    {pair \in [Roles -> Images] : \E id \in RequestIDs : Sound(pair, id)}

Promise == INSTANCE SerializedPairs
               WITH owner <- Owner, entered <- Entered

\* Seen from outside, CaptureAndAnalyze gives each call at most one exclusive
\* session in which the analyzer gets at most one pair, a sound one.
ImplementsSerializedPairs == Promise!Spec

=============================================================================
