------------------------- MODULE HaLowCaptureProofs -------------------------
(***************************************************************************)
(* What holds of HaLowCapture for any number of calls, any request IDs,    *)
(* any frames and cameras, and whatever the link does with the messages.   *)
(***************************************************************************)
EXTENDS HaLowCapture, CoordinatorProofs

-----------------------------------------------------------------------------
(* Requests.                                                                 *)

LinkTypes == /\ remote \in Wirings
             /\ clock \in 1..MaxTime
             /\ asked \in [Calls -> 1..clock \cup {Nil}]

\* A call has asked exactly when it has an ID, and its captures run only then.
Asked   == \A c \in Calls : asked[c] = Nil <=> request[c] = Nil
Unasked == \A c \in Calls : pc[c] \in {"idle", "waiting", "acquired"} => request[c] = Nil
Running == \A c \in Calls : \A role \in Roles : capture[c][role] = "running" => request[c] # Nil

\* No two calls share a request ID.
DistinctIDs == \A c, d \in Calls : request[c] # Nil /\ request[c] = request[d] => c = d

LinkInv == LinkTypes /\ Asked /\ Unasked /\ Running /\ DistinctIDs

\* What a local source returns: a stamped frame, or an error.
LEMMA LocalImages ==
    ASSUME LinkTypes, NEW id \in RequestIDs, NEW role \in Roles, NEW shot \in Frames,
           NEW time \in 1..MaxTime, FromCamera(role, id, shot, time) # Failure
    PROVE  /\ FromCamera(role, id, shot, time) \in Images
           /\ FromCamera(role, id, shot, time).camera = role
           /\ FromCamera(role, id, shot, time).request = id
           /\ FromCamera(role, id, shot, time).at = time
           /\ ValidImage(FromCamera(role, id, shot, time), id)
<1>1. FromCamera(role, id, shot, time) = Stamped(shot, id, role, time)
  BY DEF FromCamera
<1>2. ValidImage(Stamped(shot, id, role, time), id)
  BY DEF FromCamera
<1>3. Stamped(shot, id, role, time) \in Images
  BY StampAssumption
<1> QED
  BY <1>1, <1>2, <1>3 DEF Stamped

\* What answers a request is an image for it, of the camera it was meant for and
\* taken after it was made.
LEMMA AnswerOfTarget ==
    ASSUME TypeOK, LinkTypes, Asked, NEW message \in Requests, NEW answer \in AnswersTo(message)
    PROVE  /\ answer.id = message.id
           /\ answer.image \in Images
           /\ answer.image.request = message.id
           /\ answer.image.camera = message.target
           /\ answer.image.at >= message.at
           /\ ValidImage(answer.image, message.id)
           /\ \E d \in Calls : request[d] # Nil /\ message.id = request[d] /\ message.at = asked[d]
<1>1. PICK camera \in remote, shot \in Frames, time \in message.at..clock :
          answer = Answer(camera, message, shot, time) /\ answer # Failure
  BY DEF AnswersTo
<1>2. PICK d \in Calls, role \in remote :
          asked[d] # Nil /\ message = [id |-> request[d], target |-> role, at |-> asked[d]]
  BY DEF Requests
<1>3. /\ request[d] \in RequestIDs /\ request[d] # Nil
      /\ asked[d] \in 1..clock /\ clock \in 1..MaxTime /\ camera \in Roles
  BY <1>1, <1>2, WiringsAssumption DEF Asked, LinkTypes, TypeOK
<1>4. message.id = request[d] /\ message.at = asked[d]
  BY <1>2
<1>5. time \in 1..MaxTime /\ time >= asked[d]
  BY <1>1, <1>3, <1>4, TimeAssumption
<1> DEFINE taken == FromCamera(camera, request[d], shot, time)
<1>6. /\ taken # Failure /\ message.target = camera
      /\ answer = [id |-> request[d], image |-> taken]
  BY <1>1, <1>4 DEF Answer
<1>7. /\ taken \in Images /\ taken.request = request[d] /\ taken.at = time
      /\ taken.camera = camera /\ ValidImage(taken, request[d])
  BY <1>3, <1>5, <1>6, LocalImages
<1> QED
  BY <1>3, <1>4, <1>5, <1>6, <1>7

\* An answer on the link carries an image taken for a request of some call, after
\* that request was made.
LEMMA AnswersTimely ==
    ASSUME TypeOK, LinkTypes, Asked, NEW answer \in Answers
    PROVE  /\ answer.image \in Images
           /\ ValidImage(answer.image, answer.id)
           /\ \E d \in Calls : /\ request[d] # Nil
                               /\ answer.image.request = request[d]
                               /\ answer.image.at >= asked[d]
<1>1. PICK message \in Requests : answer \in AnswersTo(message)
  BY DEF Answers
<1> QED
  BY <1>1, AnswerOfTarget

\* An answer a remote source accepts is an image of its camera for its request.
LEMMA AcceptedAnswers ==
    ASSUME TypeOK, LinkTypes, Asked, NEW answer \in Answers, NEW role \in Roles,
           NEW id \in RequestIDs, Accepted(role, id, answer) # Failure
    PROVE  /\ Accepted(role, id, answer) = answer.image
           /\ answer.image \in Images
           /\ answer.image.camera = role
  BY AnswersTimely DEF Accepted

-----------------------------------------------------------------------------
(* The system is a coordinator.                                              *)

LEMMA LocalCapture ==
    ASSUME TypeOK, LinkInv, NEW c \in Calls, NEW role \in Roles, CaptureLocally(c, role)
    PROVE  Capturing(c, role)
<1>1. CASE Captured(c, role, Failure)
  BY <1>1 DEF Capturing
<1>2. ASSUME NEW shot \in Frames, NEW time \in asked[c]..clock,
             Captured(c, role, FromCamera(role, request[c], shot, time))
      PROVE  Capturing(c, role)
  <2>1. request[c] \in RequestIDs /\ asked[c] \in 1..clock /\ clock \in 1..MaxTime
    BY DEF CaptureLocally, LinkInv, LinkTypes, Asked, Running, TypeOK
  <2>2. time \in 1..MaxTime
    BY <2>1, TimeAssumption
  <2>3. FromCamera(role, request[c], shot, time) # Failure =>
            /\ FromCamera(role, request[c], shot, time) \in Images
            /\ FromCamera(role, request[c], shot, time).camera = role
    BY <2>1, <2>2, LocalImages DEF LinkInv
  <2> QED
    BY <1>2, <2>3 DEF Capturing
<1> QED
  BY <1>1, <1>2 DEF CaptureLocally

LEMMA RemoteCapture ==
    ASSUME TypeOK, LinkInv, NEW c \in Calls, NEW role \in Roles, CaptureRemotely(c, role)
    PROVE  Capturing(c, role)
<1>1. CASE Captured(c, role, Failure)
  BY <1>1 DEF Capturing
<1>2. ASSUME NEW answer \in Answers, Captured(c, role, Accepted(role, request[c], answer))
      PROVE  Capturing(c, role)
  <2>1. request[c] \in RequestIDs
    BY <1>2 DEF Captured, LinkInv, Running, TypeOK
  <2>2. Accepted(role, request[c], answer) # Failure =>
            /\ Accepted(role, request[c], answer) \in Images
            /\ Accepted(role, request[c], answer).camera = role
    BY <2>1, AcceptedAnswers DEF LinkInv
  <2> QED
    BY <1>2, <2>2 DEF Capturing
<1> QED
  BY <1>1, <1>2 DEF CaptureRemotely

\* Every step of the system is a step of the coordinator, or leaves it alone.
LEMMA StepOfCoordinator ==
    ASSUME TypeOK, LinkInv, [SystemNext]_systemVars
    PROVE  [Next]_vars
<1>1. CASE Unlinked
  BY <1>1 DEF Unlinked, Next, Progress
<1>2. ASSUME NEW c \in Calls, NEW id \in RequestIDs, Begin(c, id)
      PROVE  Next
  BY <1>2 DEF Begin, Next, Progress
<1>3. ASSUME NEW c \in Calls, NEW role \in Roles,
             CaptureLocally(c, role) \/ CaptureRemotely(c, role)
      PROVE  Next
  BY <1>3, LocalCapture, RemoteCapture DEF Next
<1>4. CASE Tick
  BY <1>4 DEF Tick
<1>5. CASE UNCHANGED systemVars
  BY <1>5 DEF systemVars
<1> QED
  BY <1>1, <1>2, <1>3, <1>4, <1>5 DEF SystemNext

\* What the coordinator does without a source leaves its requests alone, takes no
\* call back to before its request, and starts no capture.
LEMMA UnlinkedStep ==
    ASSUME TypeOK, Unlinked \/ UNCHANGED systemVars
    PROVE  /\ UNCHANGED <<request, remote, clock, asked>>
           /\ \A c \in Calls : pc'[c] \in {"idle", "waiting", "acquired"} =>
                                 pc[c] \in {"idle", "waiting", "acquired"}
           /\ \A c \in Calls : \A role \in Roles :
                  capture'[c][role] = "running" => capture[c][role] = "running"
<1> USE DEF TypeOK, linkVars
<1>1. ASSUME NEW c \in Calls, Call(c) \/ Cancel(c) \/ GiveUp(c) \/ Acquire(c) \/ Expire(c)
      PROVE  /\ UNCHANGED <<request, capture>>
             /\ \A d \in Calls : pc'[d] \in {"idle", "waiting", "acquired"} =>
                                   pc[d] \in {"idle", "waiting", "acquired"}
  BY <1>1 DEF Call, Cancel, GiveUp, Acquire, Expire
<1>2. ASSUME NEW c \in Calls, RefuseRequest(c) \/ GiveUpCapture(c) \/ RejectResult(c)
                              \/ RejectPair(c) \/ AnalyzerReturns(c) \/ Deliver(c)
      PROVE  /\ UNCHANGED <<request, capture>>
             /\ \A d \in Calls : pc'[d] \in {"idle", "waiting", "acquired"} =>
                                   pc[d] \in {"idle", "waiting", "acquired"}
  BY <1>2 DEF RefuseRequest, GiveUpCapture, RejectResult, RejectPair, AnalyzerReturns, Return,
              Deliver
<1>3. ASSUME NEW c \in Calls, AcceptResult(c)
      PROVE  /\ UNCHANGED <<request, capture>>
             /\ \A d \in Calls : pc'[d] \in {"idle", "waiting", "acquired"} =>
                                   pc[d] \in {"idle", "waiting", "acquired"}
  <2>1. UNCHANGED <<request, capture>> /\ (UNCHANGED pc \/ pc' = [pc EXCEPT ![c] = "paired"])
    BY <1>3 DEF AcceptResult
  <2> QED
    BY <2>1
<1>4. ASSUME NEW c \in Calls, NEW role \in Roles, Send(c, role)
      PROVE  /\ UNCHANGED <<request, pc>>
             /\ \A d \in Calls : \A r \in Roles :
                    capture'[d][r] = "running" => capture[d][r] = "running"
  BY <1>4 DEF Send
<1>5. CASE UNCHANGED systemVars
  BY <1>5 DEF systemVars, vars
<1>6. CASE Finished /\ UNCHANGED linkVars
  BY <1>6 DEF Finished, vars
<1> QED
  BY <1>1, <1>2, <1>3, <1>4, <1>5, <1>6 DEF Unlinked, Advance

LEMMA CaptureStep ==
    ASSUME TypeOK, NEW c \in Calls, NEW role \in Roles,
           CaptureLocally(c, role) \/ CaptureRemotely(c, role)
    PROVE  /\ UNCHANGED <<session, pc, cancelled, expired, request, results, got, delivered,
                          result, remote, clock, asked>>
           /\ \A d \in Calls : \A r \in Roles :
                  capture'[d][r] = "running" => capture[d][r] = "running"
<1>1. PICK image : Captured(c, role, image)
  BY DEF CaptureLocally, CaptureRemotely
<1>2. UNCHANGED <<remote, clock, asked>>
  BY DEF CaptureLocally, CaptureRemotely, linkVars
<1> QED
  BY <1>1, <1>2 DEF Captured, TypeOK

LEMMA LinkInductive == TypeOK /\ LinkInv /\ [SystemNext]_systemVars => LinkInv'
<1> SUFFICES ASSUME TypeOK, LinkInv, [SystemNext]_systemVars PROVE LinkInv'
  OBVIOUS
<1> USE DEF LinkInv
<1>1. CASE Unlinked \/ UNCHANGED systemVars
  BY <1>1, UnlinkedStep DEF LinkTypes, Asked, Unasked, Running, DistinctIDs
<1>2. ASSUME NEW c \in Calls, NEW id \in RequestIDs, Begin(c, id)
      PROVE  LinkInv'
  <2>1. /\ request' = [request EXCEPT ![c] = id] /\ asked' = [asked EXCEPT ![c] = clock]
        /\ pc[c] = "acquired" /\ pc' = [pc EXCEPT ![c] = "collecting"]
        /\ UNCHANGED <<remote, clock>>
        /\ capture' = [capture EXCEPT ![c] = [role \in Roles |-> "running"]]
    BY <1>2 DEF Begin, StartCaptures
  <2>2. id # Nil /\ clock # Nil /\ clock \in 1..clock
    BY NullAssumption, TimeAssumption DEF LinkTypes
  <2>3. LinkTypes'
    BY <2>1, <2>2 DEF LinkTypes
  <2>4. Asked' /\ Unasked' /\ Running'
    BY <2>1, <2>2 DEF Asked, Unasked, Running, TypeOK, LinkTypes
  <2>5. DistinctIDs'
    BY <1>2, <2>1, <2>2 DEF DistinctIDs, Begin, FreshID, TypeOK
  <2> QED
    BY <2>3, <2>4, <2>5
<1>3. ASSUME NEW c \in Calls, NEW role \in Roles,
             CaptureLocally(c, role) \/ CaptureRemotely(c, role)
      PROVE  LinkInv'
  BY <1>3, CaptureStep DEF LinkTypes, Asked, Unasked, Running, DistinctIDs
<1>4. CASE Tick
  <2>1. LinkTypes'
    BY <1>4, TimeAssumption DEF Tick, LinkTypes
  <2> QED
    BY <1>4, <2>1 DEF Tick, vars, Asked, Unasked, Running, DistinctIDs
<1> QED
  BY <1>1, <1>2, <1>3, <1>4 DEF SystemNext

LEMMA SystemInvariant == SystemSpec => [](TypeInv /\ LinkInv) /\ Spec
<1>1. SystemInit => Init /\ TypeInv /\ LinkInv
  <2>1. Init => TypeInv
    BY DEF Init, TypeInv, TypeOK, CompletePairs, FramesReady, NoImages, Roles, Buffer
  <2>2. SystemInit => LinkInv
    BY TimeAssumption DEF SystemInit, Init, LinkInv, LinkTypes, Asked, Unasked, Running, DistinctIDs
  <2> QED
    BY <2>1, <2>2 DEF SystemInit
<1>2. TypeInv /\ LinkInv /\ [SystemNext]_systemVars => (TypeInv /\ LinkInv)' /\ [Next]_vars
  BY StepOfCoordinator, TypeInductive, LinkInductive DEF TypeInv
<1> QED
  BY <1>1, <1>2, PTL DEF SystemSpec, Spec

\* Through whichever sources its images come, local or over the link, and whatever
\* the link does, the coordinator behaves as its own specification says.
THEOREM SystemIsCoordinator == SystemSpec => ImplementsCoordinator
  BY SystemInvariant DEF ImplementsCoordinator

\* Every variable keeps its type, and what HandleCapture puts on the link is a
\* whole image for the request it answers, of the camera that was asked for it.
THEOREM LinkTypeCorrect == SystemSpec => []LinkTypeOK
<1>1. TypeInv /\ LinkInv => LinkTypeOK
  <2> SUFFICES ASSUME TypeInv, LinkInv PROVE LinkTypeOK
    OBVIOUS
  <2>1. \A message \in Requests : \A answer \in AnswersTo(message) :
            /\ answer.id = message.id
            /\ answer.image \in Images /\ ValidImage(answer.image, message.id)
            /\ answer.image.camera = message.target
    BY AnswerOfTarget DEF LinkInv, TypeInv
  <2>2. asked \in [Calls -> 1..MaxTime \cup {Nil}]
    <3>1. 1..clock \subseteq 1..MaxTime
      BY TimeAssumption DEF LinkInv, LinkTypes
    <3> QED
      BY <3>1 DEF LinkInv, LinkTypes
  <2> QED
    BY <2>1, <2>2 DEF LinkTypeOK, LinkInv, LinkTypes
<1> QED
  BY <1>1, SystemInvariant, PTL

-----------------------------------------------------------------------------
(* The images a session sees are its own.                                    *)

\* The image was taken for the request of some call, after that call asked.
Timely(image) ==
    \E d \in Calls : /\ request[d] # Nil /\ image.request = request[d]
                     /\ image.at >= asked[d]

TimelyFrames ==
    \A c \in Calls : \A role \in Roles :
        frame[c][role] \in Images => Timely(frame[c][role])

TimelyResults ==
    \A c \in Calls : \A i \in 1..Len(results[c]) :
        results[c][i].image \in Images => Timely(results[c][i].image)

TimelyGot ==
    \A c \in Calls : \A role \in Roles : got[c][role] \in Images => Timely(got[c][role])

TimelyDelivered ==
    \A c \in Calls : delivered[c] # Nil => \A role \in Roles : Timely(delivered[c][role])

TimelyInv == TimelyFrames /\ TimelyResults /\ TimelyGot /\ TimelyDelivered

\* Making a new request leaves the earlier ones as they are.
LEMMA TimelyKept ==
    ASSUME TypeOK, LinkInv, NEW image, Timely(image),
           \/ UNCHANGED <<request, asked>>
           \/ \E c \in Calls, id \in RequestIDs : Begin(c, id)
    PROVE  Timely(image)'
<1>1. CASE UNCHANGED <<request, asked>>
  BY <1>1 DEF Timely
<1>2. ASSUME NEW c \in Calls, NEW id \in RequestIDs, Begin(c, id)
      PROVE  Timely(image)'
  <2>1. request[c] = Nil
    BY <1>2 DEF Begin, StartCaptures, LinkInv, Unasked
  <2>2. \A d \in Calls : d # c => request'[d] = request[d] /\ asked'[d] = asked[d]
    BY <1>2 DEF Begin, StartCaptures, TypeOK, LinkInv, LinkTypes
  <2> QED
    BY <2>1, <2>2 DEF Timely
<1> QED
  BY <1>1, <1>2

\* What a capture returns is an error or an image taken for its call or for another.
LEMMA CapturedTimely ==
    ASSUME TypeOK, LinkInv, NEW c \in Calls, NEW role \in Roles,
           CaptureLocally(c, role) \/ CaptureRemotely(c, role)
    PROVE  \E image : Captured(c, role, image) /\ (image \in Images => Timely(image))
<1>1. Failure \notin Images
  BY ImagesAssumption, NullAssumption
<1>2. ASSUME Captured(c, role, Failure)
      PROVE  \E image : Captured(c, role, image) /\ (image \in Images => Timely(image))
  BY <1>1, <1>2
<1>3. ASSUME NEW shot \in Frames, NEW time \in asked[c]..clock, CaptureLocally(c, role),
             Captured(c, role, FromCamera(role, request[c], shot, time))
      PROVE  \E image : Captured(c, role, image) /\ (image \in Images => Timely(image))
  <2>1. /\ request[c] \in RequestIDs /\ request[c] # Nil
        /\ asked[c] \in 1..clock /\ clock \in 1..MaxTime
    BY <1>3 DEF CaptureLocally, LinkInv, LinkTypes, Asked, Running, TypeOK
  <2>2. time \in 1..MaxTime /\ time >= asked[c]
    BY <2>1, TimeAssumption
  <2>3. FromCamera(role, request[c], shot, time) # Failure =>
            Timely(FromCamera(role, request[c], shot, time))
    BY <2>1, <2>2, LocalImages DEF LinkInv, Timely
  <2> QED
    BY <1>1, <1>3, <2>3
<1>4. ASSUME NEW answer \in Answers, Captured(c, role, Accepted(role, request[c], answer))
      PROVE  \E image : Captured(c, role, image) /\ (image \in Images => Timely(image))
  <2>1. Timely(answer.image)
    BY AnswersTimely DEF LinkInv, Timely
  <2>2. Accepted(role, request[c], answer) \in {answer.image, Failure}
    BY DEF Accepted
  <2> QED
    BY <1>1, <1>4, <2>1, <2>2
<1> QED
  BY <1>2, <1>3, <1>4 DEF CaptureLocally, CaptureRemotely

\* The images that stay where they are stay timely.
LEMMA TimelyUnmoved ==
    ASSUME TypeOK, LinkInv, TimelyInv,
           \/ UNCHANGED <<request, asked>>
           \/ \E c \in Calls, id \in RequestIDs : Begin(c, id)
    PROVE  /\ UNCHANGED frame => TimelyFrames'
           /\ UNCHANGED results => TimelyResults'
           /\ UNCHANGED got => TimelyGot'
           /\ UNCHANGED delivered => TimelyDelivered'
<1>1. \A image : Timely(image) => Timely(image)'
  BY TimelyKept
<1>2. UNCHANGED frame => TimelyFrames'
  BY <1>1 DEF TimelyInv, TimelyFrames
<1>3. UNCHANGED results => TimelyResults'
  BY <1>1 DEF TimelyInv, TimelyResults
<1>4. UNCHANGED got => TimelyGot'
  BY <1>1 DEF TimelyInv, TimelyGot
<1>5. UNCHANGED delivered => TimelyDelivered'
  BY <1>1 DEF TimelyInv, TimelyDelivered
<1> QED
  BY <1>2, <1>3, <1>4, <1>5

\* The images still to be received are among those that were.
LEMMA TimelyReceived ==
    ASSUME TypeOK, LinkInv, TimelyInv, UNCHANGED <<request, asked>>,
           NEW c \in Calls, results[c] # <<>>, results' = [results EXCEPT ![c] = Tail(@)]
    PROVE  TimelyResults'
<1>1. results[c] \in Seq(Message)
  BY DEF TypeOK, Message
<1>2. /\ Len(Tail(results[c])) = Len(results[c]) - 1
      /\ \A i \in 1..Len(Tail(results[c])) : Tail(results[c])[i] = results[c][i + 1]
  BY <1>1, HeadTailProperties
<1>3. Len(results[c]) \in Nat
  BY <1>1, LenProperties
<1>4. \A i \in 1..Len(results'[c]) : i + 1 \in 1..Len(results[c])
                                   /\ results'[c][i] = results[c][i + 1]
  BY <1>2, <1>3 DEF TypeOK
<1>5. \A i \in 1..Len(results'[c]) :
          results'[c][i].image \in Images => Timely(results'[c][i].image)
  BY <1>4 DEF TimelyInv, TimelyResults
<1>6. \A d \in Calls : d # c => results'[d] = results[d]
  BY DEF TypeOK
<1>7. \A d \in Calls : \A i \in 1..Len(results'[d]) :
          results'[d][i].image \in Images => Timely(results'[d][i].image)
  BY <1>5, <1>6 DEF TimelyInv, TimelyResults
<1> QED
  BY <1>7, TimelyKept DEF TimelyResults

LEMMA TimelyInductive ==
    TypeInv /\ LinkInv /\ TimelyInv /\ [SystemNext]_systemVars => TimelyInv'
<1> SUFFICES ASSUME TypeInv, LinkInv, TimelyInv, [SystemNext]_systemVars PROVE TimelyInv'
  OBVIOUS
<1> USE DEF TypeInv, linkVars
<1>1. ASSUME NEW c \in Calls, UNCHANGED linkVars,
             Call(c) \/ Cancel(c) \/ GiveUp(c) \/ Acquire(c) \/ Expire(c)
      PROVE  TimelyInv'
  <2>1. UNCHANGED <<request, frame, results, got, delivered>>
    BY <1>1 DEF Call, Cancel, GiveUp, Acquire, Expire
  <2> QED
    BY <1>1, <2>1, TimelyUnmoved DEF TimelyInv
<1>2. ASSUME NEW c \in Calls, NEW value, Return(c, value), UNCHANGED linkVars,
             UNCHANGED <<request, frame, delivered>>, TimelyResults'
      PROVE  TimelyInv'
  <2>1. TimelyGot'
    <3>1. Nil \notin Images
      BY ImagesAssumption, NullAssumption
    <3>2. \A d \in Calls : \A role \in Roles : got'[d][role] \in {got[d][role], Nil}
      BY <1>2 DEF Return, TypeOK, NoImages
    <3>3. \A d \in Calls : \A role \in Roles :
              got'[d][role] \in Images => Timely(got'[d][role])
      BY <3>1, <3>2 DEF TimelyInv, TimelyGot
    <3> QED
      BY <1>2, <3>3, TimelyKept DEF TimelyGot
  <2> QED
    BY <1>2, <2>1, TimelyUnmoved DEF TimelyInv
<1>3. ASSUME NEW c \in Calls, UNCHANGED linkVars,
             RefuseRequest(c) \/ GiveUpCapture(c) \/ RejectPair(c) \/ AnalyzerReturns(c)
      PROVE  TimelyInv'
  <2>1. /\ \E value : Return(c, value)
        /\ UNCHANGED <<request, frame, results, delivered>>
    BY <1>3 DEF RefuseRequest, GiveUpCapture, RejectPair, AnalyzerReturns
  <2>2. TimelyResults'
    BY <1>3, <2>1, TimelyUnmoved
  <2> QED
    BY <1>2, <1>3, <2>1, <2>2
<1>4. ASSUME NEW c \in Calls, RejectResult(c), UNCHANGED linkVars
      PROVE  TimelyInv'
  <2>1. /\ Return(c, "error") /\ UNCHANGED <<request, frame, delivered>>
        /\ results[c] # <<>> /\ results' = [results EXCEPT ![c] = Tail(@)]
    BY <1>4 DEF RejectResult
  <2>2. TimelyResults'
    BY <1>4, <2>1, TimelyReceived
  <2> QED
    BY <1>2, <1>4, <2>1, <2>2
<1>5. ASSUME NEW c \in Calls, AcceptResult(c), UNCHANGED linkVars
      PROVE  TimelyInv'
  <2> DEFINE message == Head(results[c])
  <2>1. /\ results[c] # <<>> /\ results' = [results EXCEPT ![c] = Tail(@)]
        /\ got' = [got EXCEPT ![c][message.role] = message.image]
        /\ message.image # Failure
        /\ UNCHANGED <<request, frame, delivered>>
    BY <1>5 DEF AcceptResult
  <2>2. message = results[c][1] /\ 1 \in 1..Len(results[c]) /\ message \in Message
    <3>1. results[c] \in Seq(Message)
      BY DEF TypeOK, Message
    <3> QED
      BY <2>1, <3>1, HeadTailProperties, EmptySeq, LenProperties
  <2>3. message.role \in Roles /\ message.image \in Images /\ Timely(message.image)
    BY <2>1, <2>2 DEF TimelyInv, TimelyResults, Message
  <2> HIDE DEF message
  <2>4. \A d \in Calls : \A role \in Roles : got'[d][role] \in {got[d][role], message.image}
    BY <2>1, <2>3 DEF TypeOK
  <2>5. \A d \in Calls : \A role \in Roles : got'[d][role] \in Images => Timely(got'[d][role])
    BY <2>3, <2>4 DEF TimelyInv, TimelyGot
  <2>6. TimelyGot'
    BY <1>5, <2>1, <2>5, TimelyKept DEF TimelyGot
  <2>7. TimelyResults'
    BY <1>5, <2>1, TimelyReceived
  <2> QED
    BY <1>5, <2>1, <2>6, <2>7, TimelyUnmoved DEF TimelyInv
<1>6. ASSUME NEW c \in Calls, Deliver(c), UNCHANGED linkVars
      PROVE  TimelyInv'
  <2>1. /\ pc[c] = "paired" /\ delivered' = [delivered EXCEPT ![c] = got[c]]
        /\ UNCHANGED <<request, frame, results, got>>
    BY <1>6 DEF Deliver
  <2>2. \A role \in Roles : Timely(got[c][role])
    BY <2>1 DEF CompletePairs, TypeOK, TimelyInv, TimelyGot
  <2>3. \A d \in Calls : delivered'[d] # Nil => \A role \in Roles : Timely(delivered'[d][role])
    BY <2>1, <2>2 DEF TimelyInv, TimelyDelivered, TypeOK
  <2>4. TimelyDelivered'
    BY <1>6, <2>1, <2>3, TimelyKept DEF TimelyDelivered
  <2> QED
    BY <1>6, <2>1, <2>4, TimelyUnmoved DEF TimelyInv
<1>7. ASSUME NEW c \in Calls, NEW role \in Roles, Send(c, role), UNCHANGED linkVars
      PROVE  TimelyInv'
  <2> DEFINE message == [role |-> role, image |-> frame[c][role]]
  <2>1. /\ capture[c][role] = "sending" /\ UNCHANGED <<request, got, delivered>>
        /\ results' = [results EXCEPT ![c] = Append(@, message)]
        /\ frame' = [frame EXCEPT ![c][role] = Nil]
    BY <1>7 DEF Send
  <2>2. message \in Message /\ (message.image \in Images => Timely(message.image))
    BY <2>1 DEF TimelyInv, TimelyFrames, FramesReady, TypeOK, Message
  <2> HIDE DEF message
  <2>3. results[c] \in Seq(Message)
    BY DEF TypeOK, Message
  <2>4. /\ Len(Append(results[c], message)) = Len(results[c]) + 1
        /\ \A i \in 1..Len(results[c]) : Append(results[c], message)[i] = results[c][i]
        /\ Append(results[c], message)[Len(results[c]) + 1] = message
        /\ Len(results[c]) \in Nat
    BY <2>2, <2>3, AppendProperties, LenProperties
  <2>5. \A d \in Calls : \A i \in 1..Len(results'[d]) :
            results'[d][i] = message \/ (i \in 1..Len(results[d]) /\ results'[d][i] = results[d][i])
    BY <2>1, <2>4 DEF TypeOK
  <2>6. \A d \in Calls : \A i \in 1..Len(results'[d]) :
            results'[d][i].image \in Images => Timely(results'[d][i].image)
    BY <2>2, <2>5 DEF TimelyInv, TimelyResults
  <2>7. TimelyResults'
    BY <1>7, <2>1, <2>6, TimelyKept DEF TimelyResults
  <2>8. Nil \notin Images
    BY ImagesAssumption, NullAssumption
  <2>9. \A d \in Calls : \A r \in Roles :
            frame'[d][r] \in Images => Timely(frame'[d][r])
    BY <2>1, <2>8 DEF TimelyInv, TimelyFrames, TypeOK
  <2>10. TimelyFrames'
    BY <1>7, <2>1, <2>9, TimelyKept DEF TimelyFrames
  <2> QED
    BY <1>7, <2>1, <2>7, <2>10, TimelyUnmoved DEF TimelyInv
<1>8. ASSUME NEW c \in Calls, NEW role \in Roles,
             CaptureLocally(c, role) \/ CaptureRemotely(c, role)
      PROVE  TimelyInv'
  <2>1. PICK image : Captured(c, role, image) /\ (image \in Images => Timely(image))
    BY <1>8, CapturedTimely
  <2>2. /\ UNCHANGED <<request, results, got, delivered>>
        /\ frame' = [frame EXCEPT ![c][role] = image]
    BY <2>1 DEF Captured
  <2>3. UNCHANGED asked
    BY <1>8, CaptureStep
  <2>4. \A d \in Calls : \A r \in Roles :
            frame'[d][r] \in Images => Timely(frame'[d][r])
    BY <2>1, <2>2 DEF TimelyInv, TimelyFrames, TypeOK
  <2>5. TimelyFrames'
    BY <2>2, <2>3, <2>4, TimelyKept DEF TimelyFrames
  <2> QED
    BY <2>2, <2>3, <2>5, TimelyUnmoved DEF TimelyInv
<1>9. ASSUME NEW c \in Calls, NEW id \in RequestIDs, Begin(c, id)
      PROVE  TimelyInv'
  <2>1. UNCHANGED <<frame, results, got, delivered>>
    BY <1>9 DEF Begin, StartCaptures
  <2> QED
    BY <1>9, <2>1, TimelyUnmoved DEF TimelyInv
<1>10. CASE Tick \/ (Finished /\ UNCHANGED linkVars) \/ UNCHANGED systemVars
  <2>1. UNCHANGED <<request, asked, frame, results, got, delivered>>
    BY <1>10 DEF Tick, Finished, systemVars, vars
  <2> QED
    BY <2>1, TimelyUnmoved DEF TimelyInv
<1> QED
  BY <1>1, <1>3, <1>4, <1>5, <1>6, <1>7, <1>8, <1>9, <1>10 DEF SystemNext, Unlinked, Advance

\* Of the images any request may be answered with, late, repeatedly or crossed, a
\* session only ever passes on those taken after its own request was made.
THEOREM NoStaleImage == SystemSpec => []DeliveredAfterRequest
<1>1. SystemInit => TimelyInv
  <2> SUFFICES ASSUME SystemInit PROVE TimelyInv
    OBVIOUS
  <2>1. Nil \notin Images
    BY ImagesAssumption, NullAssumption
  <2> QED
    BY <2>1 DEF SystemInit, Init, NoImages, TimelyInv, TimelyFrames, TimelyResults, TimelyGot,
                TimelyDelivered
<1>2. TypeInv /\ LinkInv /\ TimelyInv /\ PairInv => DeliveredAfterRequest
  <2> SUFFICES ASSUME TypeInv, LinkInv, TimelyInv, PairInv,
                      NEW c \in Calls, delivered[c] # Nil, NEW role \in Roles
               PROVE  delivered[c][role].at >= asked[c]
    BY DEF DeliveredAfterRequest
  <2>1. delivered[c][role].request = request[c]
    BY DEF PairInv, AnalyzerSeesOnlySoundPairs, Sound
  <2>2. PICK d \in Calls : /\ request[d] # Nil /\ delivered[c][role].request = request[d]
                           /\ delivered[c][role].at >= asked[d]
    BY DEF TimelyInv, TimelyDelivered, Timely
  <2>3. d = c
    BY <2>1, <2>2 DEF LinkInv, DistinctIDs
  <2> QED
    BY <2>2, <2>3
<1>3. SystemSpec => []PairInv
  BY SystemInvariant, PairInvariant, PTL
<1> QED
  BY <1>1, <1>2, <1>3, SystemInvariant, TimelyInductive, PTL DEF SystemSpec

=============================================================================
