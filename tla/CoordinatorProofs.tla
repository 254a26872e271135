-------------------------- MODULE CoordinatorProofs --------------------------
(***************************************************************************)
(* What holds of Coordinator for any number of calls, any request IDs, any *)
(* images and any configuration.                                           *)
(***************************************************************************)
EXTENDS Coordinator, SequenceTheorems, TLAPS

\* What a capture goroutine sends.
Message == [role : Roles, image : Images \cup {Failure}]

-----------------------------------------------------------------------------
(* Types.                                                                    *)

\* A return from any point of the session keeps every type.
LEMMA ReturnTypes ==
    ASSUME TypeOK, NEW c \in Calls, NEW value \in {"ok", "error"}, Return(c, value),
           UNCHANGED <<cancelled, request, capture, frame, delivered>>,
           results' \in [Calls -> Seq(Message)],
           \A d \in Calls : Len(results'[d]) <= Buffer
    PROVE  TypeOK'
<1>1. NoImages \in [Roles -> Images \cup {Nil}]
  BY DEF NoImages
<1>2. got' \in [Calls -> [Roles -> Images \cup {Nil}]]
  BY <1>1 DEF TypeOK, Return
<1>3. /\ session' \in BOOLEAN
      /\ pc' \in [Calls -> {"idle", "waiting", "acquired", "collecting", "paired",
                            "analyzing", "returned"}]
      /\ result' \in [Calls -> {"none", "ok", "error"}]
      /\ expired' \in [Calls -> BOOLEAN]
  BY DEF TypeOK, Return
<1> QED
  BY <1>2, <1>3 DEF TypeOK, Message, Buffer

\* Receiving from a results channel shortens it.
LEMMA ReceiveTypes ==
    ASSUME TypeOK, NEW c \in Calls, results[c] # <<>>,
           results' = [results EXCEPT ![c] = Tail(@)]
    PROVE  /\ Head(results[c]) \in Message
           /\ results' \in [Calls -> Seq(Message)]
           /\ \A d \in Calls : Len(results'[d]) <= Buffer
<1>1. results[c] \in Seq(Message) /\ Len(results[c]) <= Buffer
  BY DEF TypeOK, Message
<1>2. /\ Head(results[c]) \in Message
      /\ Tail(results[c]) \in Seq(Message)
      /\ Len(Tail(results[c])) = Len(results[c]) - 1
  BY <1>1, HeadTailProperties
<1>3. Len(Tail(results[c])) <= Buffer
  BY <1>1, <1>2, LenProperties DEF Buffer
<1> QED
  BY <1>2, <1>3 DEF TypeOK, Message

\* A pair is complete when its collection ends, and a goroutine that sends has
\* something to send.
CompletePairs == \A c \in Calls : pc[c] = "paired" => \A role \in Roles : got[c][role] # Nil
FramesReady   == \A c \in Calls : \A role \in Roles :
                    capture[c][role] = "sending" => frame[c][role] # Nil

TypeInv == TypeOK /\ CompletePairs /\ FramesReady

\* A step that leaves got and the paired calls alone, or reduces them.
LEMMA ReturnCompletePairs ==
    ASSUME TypeOK, CompletePairs, NEW c \in Calls, NEW value, Return(c, value)
    PROVE  CompletePairs'
  BY DEF TypeOK, CompletePairs, Return

LEMMA TypeInductive == TypeInv /\ [Next]_vars => TypeInv'
<1> SUFFICES ASSUME TypeInv, [Next]_vars PROVE TypeInv'
  OBVIOUS
<1> USE DEF TypeInv
<1>1. ASSUME NEW c \in Calls, Call(c) \/ Cancel(c) \/ GiveUp(c) \/ Acquire(c) \/ Expire(c)
      PROVE  TypeInv'
  <2>1. TypeOK'
    BY <1>1 DEF Call, Cancel, GiveUp, Acquire, Expire, TypeOK
  <2>2. CompletePairs' /\ FramesReady'
    BY <1>1, ZenonT(30) DEF Call, Cancel, GiveUp, Acquire, Expire, TypeOK, CompletePairs, FramesReady
  <2> QED
    BY <2>1, <2>2
<1>2. ASSUME NEW c \in Calls, RefuseRequest(c) \/ GiveUpCapture(c) \/ RejectPair(c)
      PROVE  TypeInv'
  <2>1. Return(c, "error") /\ UNCHANGED <<cancelled, request, capture, frame, results, delivered>>
    BY <1>2 DEF RefuseRequest, GiveUpCapture, RejectPair
  <2>2. TypeOK'
    BY <2>1, ReturnTypes DEF TypeOK, Message
  <2>3. FramesReady'
    BY <2>1 DEF FramesReady
  <2> QED
    BY <2>1, <2>2, <2>3, ReturnCompletePairs
<1>3. ASSUME NEW c \in Calls, AnalyzerReturns(c)
      PROVE  TypeInv'
  <2>1. PICK value \in {"ok", "error"} : Return(c, value)
    BY <1>3 DEF AnalyzerReturns
  <2>2. UNCHANGED <<cancelled, request, capture, frame, results, delivered>>
    BY <1>3 DEF AnalyzerReturns
  <2>3. TypeOK'
    BY <2>1, <2>2, ReturnTypes DEF TypeOK, Message
  <2>4. FramesReady'
    BY <2>2 DEF FramesReady
  <2> QED
    BY <2>1, <2>3, <2>4, ReturnCompletePairs
<1>4. ASSUME NEW c \in Calls, NEW id \in RequestIDs, StartCaptures(c, id)
      PROVE  TypeInv'
  <2>1. capture' \in [Calls -> [Roles -> {"none", "running", "sending", "ended"}]]
    BY <1>4 DEF StartCaptures, TypeOK
  <2>2. TypeOK'
    BY <1>4, <2>1 DEF StartCaptures, TypeOK
  <2>3. CompletePairs' /\ FramesReady'
    BY <1>4 DEF StartCaptures, TypeOK, CompletePairs, FramesReady
  <2> QED
    BY <2>2, <2>3
<1>5. ASSUME NEW c \in Calls, RejectResult(c)
      PROVE  TypeInv'
  <2>1. Return(c, "error") /\ UNCHANGED <<cancelled, request, capture, frame, delivered>>
    BY <1>5 DEF RejectResult
  <2>2. TypeOK'
    BY <1>5, ReceiveTypes, ReturnTypes DEF RejectResult
  <2>3. FramesReady'
    BY <2>1 DEF FramesReady
  <2> QED
    BY <2>1, <2>2, <2>3, ReturnCompletePairs
<1>6. ASSUME NEW c \in Calls, AcceptResult(c)
      PROVE  TypeInv'
  <2>1. /\ Head(results[c]) \in Message
        /\ results' \in [Calls -> Seq(Message)]
        /\ \A d \in Calls : Len(results'[d]) <= Buffer
    BY <1>6, ReceiveTypes DEF AcceptResult
  <2> DEFINE role  == Head(results[c]).role
             image == Head(results[c]).image
  <2>2. role \in Roles /\ image \in Images
    BY <1>6, <2>1 DEF AcceptResult, Message
  <2>3. /\ got' = [got EXCEPT ![c][role] = image]
        /\ pc' = [pc EXCEPT ![c] = IF got[c][Other(role)] = Nil THEN @ ELSE "paired"]
        /\ pc[c] = "collecting"
        /\ UNCHANGED <<session, cancelled, expired, request, capture, frame, delivered, result>>
    BY <1>6 DEF AcceptResult
  <2> HIDE DEF role, image
  <2>4. got' \in [Calls -> [Roles -> Images \cup {Nil}]]
    BY <2>2, <2>3 DEF TypeOK
  <2>5. pc' \in [Calls -> {"idle", "waiting", "acquired", "collecting", "paired",
                           "analyzing", "returned"}]
    BY <2>3 DEF TypeOK
  <2>6. TypeOK'
    BY <2>1, <2>3, <2>4, <2>5 DEF TypeOK, Message, Buffer
  <2>7. CompletePairs'
    <3>1. image # Nil
      BY <2>2, ImagesAssumption, NullAssumption
    <3>2. \A r \in Roles : r = role \/ r = Other(role)
      BY <2>2 DEF Roles, Other
    <3> QED
      BY <2>2, <2>3, <3>1, <3>2 DEF TypeOK, CompletePairs
  <2>8. FramesReady'
    BY <2>3 DEF FramesReady
  <2> QED
    BY <2>6, <2>7, <2>8
<1>7. ASSUME NEW c \in Calls, Deliver(c)
      PROVE  TypeInv'
  <2>1. got[c] \in [Roles -> Images]
    BY <1>7 DEF Deliver, TypeOK, CompletePairs
  <2>2. TypeOK'
    BY <1>7, <2>1 DEF Deliver, TypeOK
  <2>3. CompletePairs' /\ FramesReady'
    BY <1>7 DEF Deliver, TypeOK, CompletePairs, FramesReady
  <2> QED
    BY <2>2, <2>3
<1>8. ASSUME NEW c \in Calls, NEW role \in Roles, Capturing(c, role)
      PROVE  TypeInv'
  <2>1. PICK image \in Images \cup {Failure} : Captured(c, role, image)
    BY <1>8 DEF Capturing
  <2>2. /\ frame' \in [Calls -> [Roles -> Images \cup {Failure, Nil}]]
        /\ capture' \in [Calls -> [Roles -> {"none", "running", "sending", "ended"}]]
    BY <2>1 DEF Captured, TypeOK
  <2>3. TypeOK'
    BY <2>1, <2>2 DEF Captured, TypeOK
  <2>4. CompletePairs'
    BY <2>1 DEF Captured, CompletePairs
  <2>5. image # Nil
    BY ImagesAssumption, NullAssumption
  <2>6. FramesReady'
    BY <2>1, <2>5 DEF Captured, TypeOK, FramesReady
  <2> QED
    BY <2>3, <2>4, <2>6
<1>9. ASSUME NEW c \in Calls, NEW role \in Roles, Send(c, role)
      PROVE  TypeInv'
  <2> DEFINE message == [role |-> role, image |-> frame[c][role]]
  <2>1. message \in Message
    BY <1>9 DEF Send, TypeOK, FramesReady, Message
  <2>2. /\ results' = [results EXCEPT ![c] = Append(@, message)]
        /\ Len(results[c]) < Buffer
    BY <1>9 DEF Send
  <2>3. results[c] \in Seq(Message)
    BY DEF TypeOK, Message
  <2> HIDE DEF message
  <2>4. /\ Append(results[c], message) \in Seq(Message)
        /\ Len(Append(results[c], message)) = Len(results[c]) + 1
    BY <2>1, <2>3, AppendProperties
  <2>5. Len(Append(results[c], message)) <= Buffer
    BY <2>2, <2>3, <2>4, LenProperties DEF Buffer
  <2>6. /\ results' \in [Calls -> Seq(Message)]
        /\ \A d \in Calls : Len(results'[d]) <= Buffer
    BY <2>2, <2>4, <2>5 DEF TypeOK, Message
  <2>7. /\ frame' \in [Calls -> [Roles -> Images \cup {Failure, Nil}]]
        /\ capture' \in [Calls -> [Roles -> {"none", "running", "sending", "ended"}]]
    BY <1>9 DEF Send, TypeOK
  <2>8. TypeOK'
    BY <1>9, <2>6, <2>7 DEF Send, TypeOK, Message, Buffer
  <2>9. CompletePairs' /\ FramesReady'
    BY <1>9 DEF Send, TypeOK, CompletePairs, FramesReady
  <2> QED
    BY <2>8, <2>9
<1>10. CASE UNCHANGED vars
  BY <1>10 DEF vars, TypeOK, CompletePairs, FramesReady
<1> QED
  BY <1>1, <1>2, <1>3, <1>4, <1>5, <1>6, <1>7, <1>8, <1>9, <1>10
     DEF Next, Progress, Advance, Finished

LEMMA TypeInvariant == Spec => []TypeInv
<1>1. Init => TypeInv
  BY DEF Init, TypeInv, TypeOK, CompletePairs, FramesReady, NoImages, Roles, Buffer
<1> QED
  BY <1>1, TypeInductive, PTL DEF Spec

\* Every variable keeps its type, a delivered pair is a complete one and no
\* results channel exceeds its capacity, whatever way CaptureAndAnalyze returns.
THEOREM TypeCorrect == Spec => []TypeOK
  BY TypeInvariant, PTL DEF TypeInv

-----------------------------------------------------------------------------
(* Sessions.                                                                 *)

LEMMA SessionInductive == TypeOK /\ OneSession /\ [Next]_vars => OneSession'
<1> SUFFICES ASSUME TypeOK, OneSession, [Next]_vars PROVE OneSession'
  OBVIOUS
<1> USE DEF TypeOK, OneSession, Holds
<1>1. ASSUME NEW c \in Calls, Call(c) \/ Cancel(c) \/ GiveUp(c) \/ Acquire(c) \/ Expire(c)
      PROVE  OneSession'
  BY <1>1 DEF Call, Cancel, GiveUp, Acquire, Expire
<1>2. ASSUME NEW c \in Calls, NEW value, Holds(c), Return(c, value)
      PROVE  OneSession'
  BY <1>2 DEF Return
<1>3. ASSUME NEW c \in Calls,
             RefuseRequest(c) \/ GiveUpCapture(c) \/ RejectResult(c) \/ RejectPair(c)
             \/ AnalyzerReturns(c)
      PROVE  OneSession'
  BY <1>2, <1>3 DEF RefuseRequest, GiveUpCapture, RejectResult, RejectPair, AnalyzerReturns
<1>4. ASSUME NEW c \in Calls, NEW id \in RequestIDs, StartCaptures(c, id)
      PROVE  OneSession'
  BY <1>4 DEF StartCaptures
<1>5. ASSUME NEW c \in Calls, AcceptResult(c)
      PROVE  OneSession'
  <2>1. /\ pc[c] = "collecting" /\ UNCHANGED session
        /\ \/ UNCHANGED pc
           \/ pc' = [pc EXCEPT ![c] = "paired"]
    BY <1>5 DEF AcceptResult
  <2> QED
    BY <2>1
<1>6. ASSUME NEW c \in Calls, Deliver(c)
      PROVE  OneSession'
  BY <1>6 DEF Deliver
<1>7. ASSUME NEW c \in Calls, NEW role \in Roles, Capturing(c, role) \/ Send(c, role)
      PROVE  OneSession'
  BY <1>7 DEF Capturing, Captured, Send
<1>8. CASE UNCHANGED vars
  BY <1>8 DEF vars
<1> QED
  BY <1>1, <1>3, <1>4, <1>5, <1>6, <1>7, <1>8 DEF Next, Progress, Advance, Finished

\* However many calls compete, and whichever way each of them leaves, at most
\* one is in session and the token is in the channel exactly when none is.
THEOREM SessionsExclusive == Spec => []OneSession
<1>1. Init => OneSession
  BY DEF Init, OneSession, Holds
<1>2. Spec => []TypeOK
  BY TypeCorrect
<1> QED
  BY <1>1, <1>2, SessionInductive, PTL DEF Spec

-----------------------------------------------------------------------------
(* What the analyzer sees.                                                   *)

\* A goroutine sends what the camera of its role took.
OwnFrames ==
    \A c \in Calls : \A role \in Roles :
        capture[c][role] = "sending" /\ frame[c][role] # Failure =>
            frame[c][role].camera = role

OwnResults ==
    \A c \in Calls : \A i \in 1..Len(results[c]) :
        results[c][i].image # Failure => results[c][i].image.camera = results[c][i].role

\* The images of an unfinished collection, and those of the pair it ends with.
Collecting == {"collecting", "paired", "analyzing"}

CheckedImages ==
    \A c \in Calls : \A role \in Roles :
        got[c][role] # Nil => /\ pc[c] \in Collecting
                              /\ got[c][role].camera = role
                              /\ Acceptable(got[c][role], request[c])

\* A call makes its request before it collects, and delivers once.
Requested   == \A c \in Calls : pc[c] \in Collecting => request[c] \in RequestIDs
Undelivered == \A c \in Calls :
                  pc[c] \notin {"analyzing", "returned"} => delivered[c] = Nil

PairInv ==
    /\ OwnFrames /\ OwnResults /\ CheckedImages /\ Requested /\ Undelivered
    /\ AnalyzerSeesOnlySoundPairs

\* The checks of the coordinator, passed by both images and by the pair, are
\* all that the analyzer relies on.
LEMMA ChecksSuffice ==
    ASSUME NEW pair \in [Roles -> Images], NEW id,
           \A role \in Roles : pair[role].camera = role /\ Acceptable(pair[role], id),
           InSync(pair)
    PROVE  Sound(pair, id)
<1>1. \A role \in Roles : pair[role] \in Image
  BY ImagesAssumption
<1>2. \A role \in Roles : pair[role].pose = "valid" \/ (pair[role].pose = "absent" /\ ~RequirePose)
  BY <1>1 DEF Acceptable, ValidImage, PoseAccepted, Image
<1>3. /\ pair["primary"].at \in Int /\ pair["additional"].at \in Int
      /\ pair["primary"].synced \in BOOLEAN /\ pair["additional"].synced \in BOOLEAN
  BY <1>1 DEF Roles, Image
<1>4. RequireSync => \A role \in Roles : pair[role].synced
  BY <1>3 DEF InSync, Roles
<1>5. ASSUME \A role \in Roles : pair[role].synced, ~SkewLost(pair)
      PROVE  \A role \in Roles : pair[role].at - pair[Other(role)].at <= MaxSkew
  <2> DEFINE skew == pair["primary"].at - pair["additional"].at
  <2>1. /\ skew \in Int /\ skew >= -MaxDuration
        /\ skew > MaxDuration => MaxSkew < MaxDuration
    BY <1>3, <1>5, SkewAssumption DEF SkewLost
  <2>2. AbsoluteDuration(Sub(pair["primary"].at, pair["additional"].at)) <= MaxSkew
    BY <1>5 DEF InSync, Roles
  <2>3. Sub(pair["primary"].at, pair["additional"].at) =
            IF skew > MaxDuration THEN MaxDuration ELSE skew
    BY <1>3, <2>1, SkewAssumption DEF Sub
  <2>4. -MaxSkew <= skew /\ skew <= MaxSkew
    <3> HIDE DEF skew
    <3> QED
      BY <2>1, <2>2, <2>3, SkewAssumption DEF AbsoluteDuration
  <2> QED
    BY <1>3, <2>4, SkewAssumption DEF Roles, Other
<1> QED
  BY <1>2, <1>4, <1>5 DEF Sound, Acceptable, ValidImage, PoseAccepted

\* A return leaves nothing collected and changes nothing that was delivered.
LEMMA ReturnKeepsPairs ==
    ASSUME TypeInv, PairInv, NEW c \in Calls, NEW value, Return(c, value),
           UNCHANGED <<request, capture, frame, delivered>>, OwnResults'
    PROVE  PairInv'
<1>1. OwnFrames' /\ AnalyzerSeesOnlySoundPairs'
  BY DEF PairInv, OwnFrames, AnalyzerSeesOnlySoundPairs
<1>2. CheckedImages'
  BY DEF TypeInv, TypeOK, PairInv, CheckedImages, Return, NoImages, Collecting
<1>3. Requested' /\ Undelivered'
  BY DEF TypeInv, TypeOK, PairInv, Requested, Undelivered, Return, Collecting
<1> QED
  BY <1>1, <1>2, <1>3 DEF PairInv

\* Receiving the head of a channel leaves results that are still their senders' own.
LEMMA ReceiveOwnResults ==
    ASSUME TypeInv, OwnResults, NEW c \in Calls, results[c] # <<>>,
           results' = [results EXCEPT ![c] = Tail(@)]
    PROVE  OwnResults'
<1>1. results[c] \in Seq(Message)
  BY DEF TypeInv, TypeOK, Message
<1>2. /\ Len(Tail(results[c])) = Len(results[c]) - 1
      /\ \A i \in 1..Len(Tail(results[c])) : Tail(results[c])[i] = results[c][i + 1]
  BY <1>1, HeadTailProperties
<1>3. Len(results[c]) \in Nat
  BY <1>1, LenProperties
<1>4. \A i \in 1..Len(Tail(results[c])) : i + 1 \in 1..Len(results[c])
  BY <1>2, <1>3
<1> QED
  BY <1>2, <1>4 DEF TypeInv, TypeOK, OwnResults

LEMMA PairInductive == TypeInv /\ PairInv /\ [Next]_vars => PairInv'
<1> SUFFICES ASSUME TypeInv, PairInv, [Next]_vars PROVE PairInv'
  OBVIOUS
<1>1. ASSUME NEW c \in Calls, Call(c) \/ Cancel(c) \/ GiveUp(c) \/ Acquire(c) \/ Expire(c)
      PROVE  PairInv'
  <2>1. UNCHANGED <<request, capture, frame, results, got, delivered>>
    BY <1>1 DEF Call, Cancel, GiveUp, Acquire, Expire
  <2>2. OwnFrames' /\ OwnResults' /\ AnalyzerSeesOnlySoundPairs'
    BY <2>1 DEF PairInv, OwnFrames, OwnResults, AnalyzerSeesOnlySoundPairs
  <2>3. \A d \in Calls : /\ pc'[d] \in Collecting <=> pc[d] \in Collecting
                         /\ pc[d] \in {"analyzing", "returned"} =>
                                pc'[d] \in {"analyzing", "returned"}
    BY <1>1 DEF Call, Cancel, GiveUp, Acquire, Expire, Collecting, TypeInv, TypeOK
  <2>4. CheckedImages' /\ Requested'
    BY <2>1, <2>3 DEF PairInv, CheckedImages, Requested
  <2>5. Undelivered'
    BY <2>1, <2>3 DEF PairInv, Undelivered
  <2> QED
    BY <2>2, <2>4, <2>5 DEF PairInv
<1>2. ASSUME NEW c \in Calls, RefuseRequest(c) \/ GiveUpCapture(c) \/ RejectPair(c)
      PROVE  PairInv'
  <2>1. Return(c, "error") /\ UNCHANGED <<request, capture, frame, results, delivered>>
    BY <1>2 DEF RefuseRequest, GiveUpCapture, RejectPair
  <2>2. OwnResults'
    BY <2>1 DEF PairInv, OwnResults
  <2> QED
    BY <2>1, <2>2, ReturnKeepsPairs
<1>3. ASSUME NEW c \in Calls, AnalyzerReturns(c)
      PROVE  PairInv'
  <2>1. PICK value \in {"ok", "error"} : Return(c, value)
    BY <1>3 DEF AnalyzerReturns
  <2>2. UNCHANGED <<request, capture, frame, results, delivered>>
    BY <1>3 DEF AnalyzerReturns
  <2>3. OwnResults'
    BY <2>2 DEF PairInv, OwnResults
  <2> QED
    BY <2>1, <2>2, <2>3, ReturnKeepsPairs
<1>4. ASSUME NEW c \in Calls, NEW id \in RequestIDs, StartCaptures(c, id)
      PROVE  PairInv'
  <2>1. got[c] \in [Roles -> Images \cup {Nil}] /\ delivered[c] = Nil
    BY <1>4 DEF StartCaptures, TypeInv, TypeOK, PairInv, Undelivered
  <2>2. \A role \in Roles : got[c][role] = Nil
    BY <1>4 DEF StartCaptures, PairInv, CheckedImages, Collecting
  <2>3. OwnFrames' /\ OwnResults'
    BY <1>4 DEF StartCaptures, TypeInv, TypeOK, PairInv, OwnFrames, OwnResults
  <2>4. CheckedImages' /\ Requested' /\ Undelivered'
    BY <1>4, <2>2 DEF StartCaptures, TypeInv, TypeOK, PairInv, CheckedImages, Requested,
                      Undelivered, Collecting
  <2>5. AnalyzerSeesOnlySoundPairs'
    BY <1>4, <2>1 DEF StartCaptures, TypeInv, TypeOK, PairInv, AnalyzerSeesOnlySoundPairs
  <2> QED
    BY <2>3, <2>4, <2>5 DEF PairInv
<1>5. ASSUME NEW c \in Calls, RejectResult(c)
      PROVE  PairInv'
  <2>1. Return(c, "error") /\ UNCHANGED <<request, capture, frame, delivered>>
    BY <1>5 DEF RejectResult
  <2>2. OwnResults'
    BY <1>5, ReceiveOwnResults DEF RejectResult, PairInv
  <2> QED
    BY <2>1, <2>2, ReturnKeepsPairs
<1>6. ASSUME NEW c \in Calls, AcceptResult(c)
      PROVE  PairInv'
  <2> DEFINE role  == Head(results[c]).role
             image == Head(results[c]).image
  <2>1. /\ got' = [got EXCEPT ![c][role] = image]
        /\ pc' = [pc EXCEPT ![c] = IF got[c][Other(role)] = Nil THEN @ ELSE "paired"]
        /\ pc[c] = "collecting"
        /\ image # Failure /\ Acceptable(image, request[c])
        /\ results[c] # <<>> /\ results' = [results EXCEPT ![c] = Tail(@)]
        /\ UNCHANGED <<request, capture, frame, delivered>>
    BY <1>6 DEF AcceptResult
  <2>2. role \in Roles /\ image.camera = role
    <3>1. results[c] \in Seq(Message)
      BY DEF TypeInv, TypeOK, Message
    <3>2. 1 \in 1..Len(results[c])
      BY <2>1, <3>1, EmptySeq
    <3>3. results[c][1] \in Message /\ Head(results[c]) = results[c][1]
      BY <2>1, <3>1, <3>2, ElementOfSeq
    <3> QED
      BY <2>1, <3>1, <3>2, <3>3 DEF PairInv, OwnResults, Message
  <2>3. OwnResults'
    BY <2>1, ReceiveOwnResults DEF PairInv
  <2> HIDE DEF role, image
  <2>4. OwnFrames' /\ AnalyzerSeesOnlySoundPairs'
    BY <2>1 DEF PairInv, OwnFrames, AnalyzerSeesOnlySoundPairs
  <2>5. CheckedImages'
    BY <2>1, <2>2 DEF TypeInv, TypeOK, PairInv, CheckedImages, Collecting
  <2>6. Requested' /\ Undelivered'
    BY <2>1 DEF TypeInv, TypeOK, PairInv, Requested, Undelivered, Collecting
  <2> QED
    BY <2>3, <2>4, <2>5, <2>6 DEF PairInv
<1>7. ASSUME NEW c \in Calls, Deliver(c)
      PROVE  PairInv'
  <2>1. Sound(got[c], request[c])
    <3>1. got[c] \in [Roles -> Images] /\ InSync(got[c])
      BY <1>7 DEF Deliver, TypeInv, TypeOK, CompletePairs
    <3>2. \A role \in Roles : got[c][role].camera = role /\ Acceptable(got[c][role], request[c])
      BY <1>7 DEF Deliver, TypeInv, CompletePairs, PairInv, CheckedImages
    <3> QED
      BY <3>1, <3>2, ChecksSuffice
  <2>2. AnalyzerSeesOnlySoundPairs'
    BY <1>7, <2>1 DEF Deliver, TypeInv, TypeOK, PairInv, AnalyzerSeesOnlySoundPairs
  <2>3. OwnFrames' /\ OwnResults'
    BY <1>7 DEF Deliver, PairInv, OwnFrames, OwnResults
  <2>4. CheckedImages' /\ Requested' /\ Undelivered'
    BY <1>7 DEF Deliver, TypeInv, TypeOK, PairInv, CheckedImages, Requested, Undelivered, Collecting
  <2> QED
    BY <2>2, <2>3, <2>4 DEF PairInv
<1>8. ASSUME NEW c \in Calls, NEW role \in Roles, Capturing(c, role)
      PROVE  PairInv'
  <2>1. PICK image \in {i \in Images : i.camera = role} \cup {Failure} : Captured(c, role, image)
    BY <1>8 DEF Capturing
  <2>2. OwnFrames'
    BY <2>1 DEF Captured, TypeInv, TypeOK, PairInv, OwnFrames
  <2>3. UNCHANGED <<pc, request, results, got, delivered>>
    BY <2>1 DEF Captured
  <2> QED
    BY <2>2, <2>3 DEF PairInv, OwnResults, CheckedImages, Requested, Undelivered,
                      AnalyzerSeesOnlySoundPairs
<1>9. ASSUME NEW c \in Calls, NEW role \in Roles, Send(c, role)
      PROVE  PairInv'
  <2> DEFINE message == [role |-> role, image |-> frame[c][role]]
  <2>1. message.image # Failure => message.image.camera = message.role
    BY <1>9 DEF Send, PairInv, OwnFrames
  <2>2. message \in Message
    BY <1>9 DEF Send, TypeInv, TypeOK, FramesReady, Message
  <2>3. results' = [results EXCEPT ![c] = Append(@, message)]
    BY <1>9 DEF Send
  <2>4. results[c] \in Seq(Message)
    BY DEF TypeInv, TypeOK, Message
  <2> HIDE DEF message
  <2>5. /\ Len(Append(results[c], message)) = Len(results[c]) + 1
        /\ \A i \in 1..Len(results[c]) : Append(results[c], message)[i] = results[c][i]
        /\ Append(results[c], message)[Len(results[c]) + 1] = message
    BY <2>2, <2>4, AppendProperties
  <2>6. \A i \in 1..Len(results[c]) + 1 : i \in 1..Len(results[c]) \/ i = Len(results[c]) + 1
    BY <2>4, LenProperties
  <2>7. OwnResults'
    BY <2>1, <2>3, <2>5, <2>6 DEF TypeInv, TypeOK, PairInv, OwnResults
  <2>8. OwnFrames'
    BY <1>9 DEF Send, TypeInv, TypeOK, PairInv, OwnFrames
  <2>9. UNCHANGED <<pc, request, got, delivered>>
    BY <1>9 DEF Send
  <2> QED
    BY <2>7, <2>8, <2>9 DEF PairInv, CheckedImages, Requested, Undelivered,
                            AnalyzerSeesOnlySoundPairs
<1>10. CASE UNCHANGED vars
  BY <1>10 DEF vars, PairInv, OwnFrames, OwnResults, CheckedImages, Requested, Undelivered,
               AnalyzerSeesOnlySoundPairs
<1> QED
  BY <1>1, <1>2, <1>3, <1>4, <1>5, <1>6, <1>7, <1>8, <1>9, <1>10
     DEF Next, Progress, Advance, Finished

LEMMA PairInvariant == Spec => []PairInv
<1>1. Init => PairInv
  BY DEF Init, PairInv, OwnFrames, OwnResults, CheckedImages, Requested, Undelivered,
         AnalyzerSeesOnlySoundPairs, NoImages, Collecting
<1> QED
  BY <1>1, TypeInvariant, PairInductive, PTL DEF Spec

\* No pair reaches the analyzer that is partial, was taken for another request or
\* by the wrong camera, fails a check, or lies apart by more than the skew.
THEOREM AnalyzedPairsSound == Spec => []AnalyzerSeesOnlySoundPairs
  BY PairInvariant, PTL DEF PairInv

-----------------------------------------------------------------------------
(* The coordinator implements SerializedPairs.                               *)

\* A call that has not had the session has not used its capture context.
Unused == \A c \in Calls : pc[c] \in {"idle", "waiting"} => ~expired[c]

LEMMA UnusedInductive == TypeOK /\ Unused /\ [Next]_vars => Unused'
<1> SUFFICES ASSUME TypeOK, Unused, [Next]_vars PROVE Unused'
  OBVIOUS
<1> USE DEF TypeOK, Unused
<1>1. ASSUME NEW c \in Calls, Call(c) \/ Cancel(c) \/ GiveUp(c) \/ Acquire(c) \/ Expire(c)
      PROVE  Unused'
  BY <1>1 DEF Call, Cancel, GiveUp, Acquire, Expire
<1>2. ASSUME NEW c \in Calls,
             RefuseRequest(c) \/ GiveUpCapture(c) \/ RejectResult(c) \/ RejectPair(c)
             \/ AnalyzerReturns(c)
      PROVE  Unused'
  BY <1>2 DEF RefuseRequest, GiveUpCapture, RejectResult, RejectPair, AnalyzerReturns, Return
<1>3. ASSUME NEW c \in Calls, NEW id \in RequestIDs, StartCaptures(c, id)
      PROVE  Unused'
  BY <1>3 DEF StartCaptures
<1>4. ASSUME NEW c \in Calls, AcceptResult(c)
      PROVE  Unused'
  <2>1. /\ UNCHANGED expired
        /\ pc' = pc \/ pc' = [pc EXCEPT ![c] = "paired"]
    BY <1>4 DEF AcceptResult
  <2> QED
    BY <2>1
<1>5. ASSUME NEW c \in Calls, Deliver(c)
      PROVE  Unused'
  BY <1>5 DEF Deliver
<1>6. ASSUME NEW c \in Calls, NEW role \in Roles, Capturing(c, role) \/ Send(c, role)
      PROVE  Unused'
  BY <1>6 DEF Capturing, Captured, Send
<1>7. CASE UNCHANGED vars
  BY <1>7 DEF vars
<1> QED
  BY <1>1, <1>2, <1>3, <1>4, <1>5, <1>6, <1>7 DEF Next, Progress, Advance, Finished

LEMMA OwnerHolds == ASSUME OneSession, NEW c \in Calls, Holds(c)
                    PROVE  Owner = c
<1>1. \A d \in Calls : Holds(d) => d = c
  BY DEF OneSession
<1> QED
  BY <1>1 DEF Owner

LEMMA NoOwner == ASSUME \A c \in Calls : ~Holds(c)
                 PROVE  Owner = Nil
  BY DEF Owner

\* Calls that hold the session, and that had it, before and after.
LEMMA SameSessions ==
    ASSUME \A c \in Calls : Holds(c)' <=> Holds(c),
           \A c \in Calls : (pc[c] = "returned" /\ expired[c])' <=> (pc[c] = "returned" /\ expired[c]),
           OneSession, OneSession'
    PROVE  UNCHANGED <<Owner, Entered>>
<1>1. Entered' = Entered
  BY DEF Entered
<1>2. CASE \E c \in Calls : Holds(c)
  <2>1. PICK c \in Calls : Holds(c)
    BY <1>2
  <2>2. Owner = c
    BY <2>1, OwnerHolds
  <2>3. Owner' = c
    <3>1. \A d \in Calls : Holds(d)' => d = c
      BY <2>1 DEF OneSession
    <3> QED
      BY <2>1, <3>1 DEF Owner
  <2> QED
    BY <1>1, <2>2, <2>3
<1>3. CASE \A c \in Calls : ~Holds(c)
  BY <1>1, <1>3 DEF Owner
<1> QED
  BY <1>2, <1>3

LEMMA StutterStep ==
    ASSUME OneSession, OneSession', NEW c \in Calls,
           Call(c) \/ Cancel(c) \/ GiveUp(c) \/ Expire(c) \/ AcceptResult(c),
           TypeOK, Unused
    PROVE  UNCHANGED <<Owner, Entered, delivered>>
<1>1. UNCHANGED delivered
  BY DEF Call, Cancel, GiveUp, Expire, AcceptResult
<1>2. \A d \in Calls : /\ Holds(d)' <=> Holds(d)
                       /\ (pc[d] = "returned" /\ expired[d])' <=> (pc[d] = "returned" /\ expired[d])
  <2>1. CASE Call(c) \/ Cancel(c) \/ GiveUp(c) \/ Expire(c)
    BY <2>1 DEF Call, Cancel, GiveUp, Expire, Holds, TypeOK, Unused
  <2>2. CASE AcceptResult(c)
    <3>1. /\ UNCHANGED expired /\ pc[c] = "collecting"
          /\ pc' = pc \/ pc' = [pc EXCEPT ![c] = "paired"]
      BY <2>2 DEF AcceptResult, TypeOK
    <3> QED
      BY <3>1 DEF Holds, TypeOK
  <2> QED
    BY <2>1, <2>2
<1> QED
  BY <1>1, <1>2, SameSessions

\* Whatever ends a session ends the abstract one.
LEMMA ReturnLeaves ==
    ASSUME OneSession, OneSession', TypeOK, NEW c \in Calls, Holds(c),
           NEW value, Return(c, value), UNCHANGED delivered
    PROVE  Promise!Leave(c)
<1>1. Owner = c
  BY OwnerHolds
<1>2. \A d \in Calls : Holds(d) => d = c
  BY DEF OneSession
<1>3. \A d \in Calls : ~Holds(d)'
  BY DEF OneSession, Return
<1>4. Owner' = Nil
  BY <1>3 DEF Owner
<1>5. \A d \in Calls : d # c => pc'[d] = pc[d] /\ expired'[d] = expired[d]
  BY DEF Return, TypeOK
<1>6. pc'[c] = "returned" /\ expired'[c]
  BY DEF Return, TypeOK
<1>7. Entered' = Entered
  BY <1>2, <1>3, <1>5, <1>6 DEF Entered
<1> QED
  BY <1>1, <1>4, <1>7 DEF Promise!Leave

LEMMA StepImplements ==
    ASSUME TypeInv, OneSession, OneSession', PairInv, Unused, [Next]_vars
    PROVE  [Promise!Next]_(Promise!vars)
<1> USE DEF TypeInv
<1>1. ASSUME NEW c \in Calls,
             Call(c) \/ Cancel(c) \/ GiveUp(c) \/ Expire(c) \/ AcceptResult(c)
      PROVE  UNCHANGED Promise!vars
  BY <1>1, StutterStep DEF Promise!vars
<1>2. ASSUME NEW c \in Calls, Acquire(c)
      PROVE  Promise!Enter(c)
  <2>1. Owner = Nil /\ c \notin Entered
    BY <1>2, NoOwner DEF Acquire, OneSession, Entered, Holds
  <2>2. Holds(c)' /\ \A d \in Calls : Holds(d)' => d = c
    BY <1>2 DEF Acquire, Holds, OneSession, TypeOK
  <2>3. Owner' = c
    BY <2>2 DEF Owner
  <2>4. Entered' = Entered \cup {c}
    BY <1>2 DEF Acquire, Entered, Holds, TypeOK
  <2> QED
    BY <1>2, <2>1, <2>3, <2>4 DEF Acquire, Promise!Enter
<1>3. ASSUME NEW c \in Calls,
             RefuseRequest(c) \/ GiveUpCapture(c) \/ RejectResult(c) \/ RejectPair(c)
             \/ AnalyzerReturns(c)
      PROVE  Promise!Leave(c)
  <2>1. Holds(c) /\ (\E value \in {"ok", "error"} : Return(c, value)) /\ UNCHANGED delivered
    BY <1>3 DEF RefuseRequest, GiveUpCapture, RejectResult, RejectPair, AnalyzerReturns, Holds
  <2> QED
    BY <2>1, ReturnLeaves
<1>4. ASSUME NEW c \in Calls, NEW id \in RequestIDs, StartCaptures(c, id)
      PROVE  UNCHANGED Promise!vars
  <2>1. UNCHANGED delivered
    BY <1>4 DEF StartCaptures
  <2>2. \A d \in Calls : /\ Holds(d)' <=> Holds(d)
                         /\ (pc[d] = "returned" /\ expired[d])' <=> (pc[d] = "returned" /\ expired[d])
    BY <1>4 DEF StartCaptures, Holds, TypeOK
  <2> QED
    BY <2>1, <2>2, SameSessions DEF Promise!vars
<1>5. ASSUME NEW c \in Calls, Deliver(c)
      PROVE  \E pair \in SoundPairs : Promise!Deliver(c, pair)
  <2>1. Owner = c /\ delivered[c] = Nil
    BY <1>5, OwnerHolds DEF Deliver, Holds, PairInv, Undelivered
  <2>2. \A d \in Calls : /\ Holds(d)' <=> Holds(d)
                         /\ (pc[d] = "returned" /\ expired[d])' <=> (pc[d] = "returned" /\ expired[d])
    BY <1>5 DEF Deliver, Holds, TypeOK
  <2>3. UNCHANGED <<Owner, Entered>>
    BY <2>2, SameSessions
  <2>4. got[c] \in SoundPairs
    <3>1. got[c] \in [Roles -> Images] /\ InSync(got[c]) /\ request[c] \in RequestIDs
      BY <1>5 DEF Deliver, TypeOK, CompletePairs, PairInv, Requested, Collecting
    <3>2. \A role \in Roles : got[c][role].camera = role /\ Acceptable(got[c][role], request[c])
      BY <1>5 DEF Deliver, CompletePairs, PairInv, CheckedImages
    <3>3. Sound(got[c], request[c])
      BY <3>1, <3>2, ChecksSuffice
    <3> QED
      BY <3>1, <3>3 DEF SoundPairs
  <2>5. delivered' = [delivered EXCEPT ![c] = got[c]]
    BY <1>5 DEF Deliver
  <2> QED
    BY <2>1, <2>3, <2>4, <2>5 DEF Promise!Deliver
<1>6. ASSUME NEW c \in Calls, NEW role \in Roles, Capturing(c, role) \/ Send(c, role)
      PROVE  UNCHANGED Promise!vars
  <2>1. UNCHANGED <<pc, expired, delivered>>
    BY <1>6 DEF Capturing, Captured, Send
  <2> QED
    BY <2>1, SameSessions DEF Promise!vars, Holds
<1>7. CASE UNCHANGED vars
  <2>1. UNCHANGED <<pc, expired, delivered>>
    BY <1>7 DEF vars
  <2> QED
    BY <2>1, SameSessions DEF Promise!vars, Holds
<1> QED
  BY <1>1, <1>2, <1>3, <1>4, <1>5, <1>6, <1>7
     DEF Next, Progress, Advance, Finished, Promise!Next

\* For its users CaptureAndAnalyze is the abstract service: exclusive sessions,
\* one per call, each handing the analyzer at most one pair, a sound one.
THEOREM ImplementsPromise == Spec => ImplementsSerializedPairs
<1>1. Init => Promise!Init
  BY DEF Init, Promise!Init, Owner, Entered, Holds
<1>2. Init => Unused
  BY DEF Init, Unused
<1>3. Spec => []Unused
  BY <1>2, TypeCorrect, UnusedInductive, PTL DEF Spec
<1>4. TypeInv /\ OneSession /\ OneSession' /\ PairInv /\ Unused /\ [Next]_vars
        => [Promise!Next]_(Promise!vars)
  BY StepImplements
<1> QED
  BY <1>1, <1>3, <1>4, TypeInvariant, SessionsExclusive, PairInvariant, PTL
     DEF Spec, ImplementsSerializedPairs, Promise!Spec

=============================================================================
