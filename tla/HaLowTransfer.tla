---------------------------- MODULE HaLowTransfer ----------------------------
(***************************************************************************)
(* The transfer contract of pkg/orchestration/halow_transfer.go between a  *)
(* store-and-forward camera and a receiver with a durable store.  The code *)
(* gives both sides their functions: SplitHaLowImage, AssembleHaLowImage,  *)
(* NewHaLowImageAck and ValidateHaLowImageAck.  The adapters that call     *)
(* them are outside the repository; they are modelled by what              *)
(* docs/halow-orchestration.md asks of them: the cached copy survives a    *)
(* restart and is deleted only on a valid acknowledgement, which is        *)
(* published only after the image was persisted; a missing one is followed *)
(* by a retry.  The link may lose, repeat, delay, reorder, mix up and      *)
(* corrupt: link is the set of what was ever sent, a message may be        *)
(* received any number of times or never, and chunks may arrive garbled.   *)
(***************************************************************************)
EXTENDS Integers, Sequences, FiniteSets, SequencesExt

CONSTANTS
    Images,         \* the images the cameras take
    RequestIDs,     \* the request IDs that are not blank
    BlankID,        \* the empty request ID
    CameraIDs,
    ChunkBytes,     \* the chunk size of the sender
    MaxHaLowChunks,
    MaxImageBytes,  \* the limit of the receiver
    MaxCollected,   \* bound on the chunks a receiver hands to AssembleHaLowImage
    Refused,        \* an error instead of an image
    Nil

\* What the manifest carries beside the payload.  sound: capture time, media type
\* and JPEG framing are right; pose: what validateCameraPose finds.
Meta == [at : Nat, sound : BOOLEAN, pose : {"absent", "valid", "invalid"}]

Image == [request : RequestIDs \cup {BlankID}, camera : CameraIDs, meta : Meta,
          data : Seq(Nat \ {0})]

ASSUME ImagesAssumption == Images \subseteq Image
ASSUME LimitsAssumption == {ChunkBytes, MaxHaLowChunks, MaxImageBytes, MaxCollected} \subseteq Nat \ {0}
ASSUME NullAssumption   == BlankID \notin RequestIDs /\ Refused \notin Image

VARIABLES
    cache,     \* the images the cameras still hold
    captured,  \* all images taken so far
    link,      \* all messages sent so far
    store,     \* the images the receiver has persisted
    owed       \* the acknowledgement a running receiver is about to send, or Nil

vars == <<cache, captured, link, store, owed>>

Init == cache = {} /\ captured = {} /\ link = {} /\ store = {} /\ owed = Nil

-----------------------------------------------------------------------------
(* The sender: SplitHaLowImage.                                              *)

\* SHA-256, taken to be free of collisions.
Digest(data) == [sha256 |-> data]

\* Mutant of ChunkCount: one chunk too many when the last one is full.
ChunkCountRoundedUp(image) == 1 + Len(image.data) \div ChunkBytes

ChunkCount(image) == 1 + (Len(image.data) - 1) \div ChunkBytes

Manifest(image) ==
    [kind       |-> "manifest",
     request    |-> image.request,
     camera     |-> image.camera,
     meta       |-> image.meta,
     totalBytes |-> Len(image.data),
     chunkCount |-> ChunkCount(image),
     sha256     |-> Digest(image.data)]

\* One chunk for every offset the loop stops at.
Chunks(image) ==
    LET offsets == {o \in 0..(Len(image.data) - 1) : o % ChunkBytes = 0}
    IN  {[kind    |-> "chunk",
          request |-> image.request,
          camera  |-> image.camera,
          index   |-> o \div ChunkBytes,
          data    |-> SubSeq(image.data, o + 1,
                             IF o + ChunkBytes > Len(image.data) THEN Len(image.data)
                             ELSE o + ChunkBytes)] : o \in offsets}

\* The image passes validateImage for its own request ID, whatever that is, and
\* is not too long for the number of chunks.
Splits(image) ==
    /\ image.meta.sound /\ image.data # <<>>
    /\ image.meta.pose = "valid"
    /\ ChunkCount(image) <= MaxHaLowChunks

-----------------------------------------------------------------------------
(* The receiver: AssembleHaLowImage, NewHaLowImageAck.                       *)

ValidManifest(manifest, maxBytes) ==
    /\ manifest.request # BlankID
    /\ manifest.meta.pose = "valid"
    /\ manifest.totalBytes \in 1..maxBytes
    /\ manifest.chunkCount \in 1..MaxHaLowChunks

\* Every chunk belongs to the transfer and each index is there exactly once.
CompleteSet(manifest, chunks) ==
    /\ Len(chunks) = manifest.chunkCount
    /\ \A i \in DOMAIN chunks :
           /\ chunks[i].request = manifest.request /\ chunks[i].camera = manifest.camera
           /\ chunks[i].index \in 0..(manifest.chunkCount - 1)
           /\ chunks[i].data # <<>>
    /\ \A i, j \in DOMAIN chunks : i # j => chunks[i].index # chunks[j].index

\* The payload, the chunks put in the order of their indices.
Joined(chunks) ==
    FlattenSeq([k \in DOMAIN chunks |->
                   chunks[CHOOSE i \in DOMAIN chunks : chunks[i].index = k - 1].data])

\* Mutant of Assemble: the digest is not compared.
AssembleBySize(manifest, chunks) ==
    IF /\ ValidManifest(manifest, MaxImageBytes)
       /\ CompleteSet(manifest, chunks)
       /\ Len(Joined(chunks)) = manifest.totalBytes
       /\ manifest.meta.sound
    THEN [request |-> manifest.request, camera |-> manifest.camera,
          meta |-> manifest.meta, data |-> Joined(chunks)]
    ELSE Refused

Assemble(manifest, chunks) ==
    IF /\ ValidManifest(manifest, MaxImageBytes)
       /\ CompleteSet(manifest, chunks)
       /\ Len(Joined(chunks)) = manifest.totalBytes
       /\ Digest(Joined(chunks)) = manifest.sha256
       /\ manifest.meta.sound
    THEN [request |-> manifest.request, camera |-> manifest.camera,
          meta |-> manifest.meta, data |-> Joined(chunks)]
    ELSE Refused

Ack(manifest, persisted) ==
    [kind      |-> "ack",
     request   |-> manifest.request,
     camera    |-> manifest.camera,
     sha256    |-> manifest.sha256,
     persisted |-> persisted]

\* Mutant of Acknowledges: an acknowledgement without the check of its manifest.
AcknowledgesAnything(manifest) == TRUE

\* NewHaLowImageAck makes one; otherwise it fails and nothing is sent.
Acknowledges(manifest) == ValidManifest(manifest, manifest.totalBytes)

\* Mutant of Confirms: any persisted image of the request will do.
ConfirmsRequest(manifest, ack) ==
    /\ ValidManifest(manifest, manifest.totalBytes)
    /\ ack.request = manifest.request /\ ack.camera = manifest.camera
    /\ ack.persisted

\* ValidateHaLowImageAck returns nil.
Confirms(manifest, ack) ==
    /\ ValidManifest(manifest, manifest.totalBytes)
    /\ ack.request = manifest.request /\ ack.camera = manifest.camera
    /\ ack.sha256 = manifest.sha256
    /\ ack.persisted

-----------------------------------------------------------------------------
(* The adapters and the link.                                                *)

Sent(kind) == {message \in link : message.kind = kind}

Garbled(chunk) == [chunk EXCEPT !.data = [i \in DOMAIN @ |-> @[i] + 1]]

\* The chunks as they may arrive.
Arriving == Sent("chunk") \cup {Garbled(chunk) : chunk \in Sent("chunk")}

\* A camera takes an image and caches it.
Capture(image) ==
    /\ image \notin captured
    /\ captured' = captured \cup {image}
    /\ cache' = cache \cup {image}
    /\ UNCHANGED <<link, store, owed>>

\* The camera sends a part of an image it holds, again if need be.
Transmit(image) ==
    /\ image \in cache /\ Splits(image)
    /\ \E message \in {Manifest(image)} \cup Chunks(image) : link' = link \cup {message}
    /\ UNCHANGED <<cache, captured, store, owed>>

\* The receiver hands AssembleHaLowImage some manifest and some of what arrived,
\* persists the image it gets, and goes on to acknowledge or reject it.
Receive(manifest, chunks) ==
    /\ owed = Nil
    /\ LET image == Assemble(manifest, chunks)
       IN  /\ store' = IF image = Refused THEN store ELSE store \cup {image}
           /\ owed' = [manifest |-> manifest, persisted |-> image # Refused]
    /\ UNCHANGED <<cache, captured, link>>

Acknowledge ==
    /\ owed # Nil
    /\ link' = IF Acknowledges(owed.manifest)
               THEN link \cup {Ack(owed.manifest, owed.persisted)} ELSE link
    /\ owed' = Nil
    /\ UNCHANGED <<cache, captured, store>>

\* The receiver stops after it persisted, before it acknowledged.
ReceiverRestarts ==
    /\ owed # Nil
    /\ owed' = Nil
    /\ UNCHANGED <<cache, captured, link, store>>

\* The camera deletes its copy.
Confirm(image, ack) ==
    /\ image \in cache /\ Splits(image)
    /\ Confirms(Manifest(image), ack)
    /\ cache' = cache \ {image}
    /\ UNCHANGED <<captured, link, store, owed>>

Next ==
    \/ \E image \in Images : Capture(image) \/ Transmit(image)
    \/ \E manifest \in Sent("manifest") : \E chunks \in BoundedSeq(Arriving, MaxCollected) :
           Receive(manifest, chunks)
    \/ Acknowledge \/ ReceiverRestarts
    \/ \E image \in Images : \E ack \in Sent("ack") : Confirm(image, ack)

Spec == Init /\ [][Next]_vars

-----------------------------------------------------------------------------
(* What the contract promises.                                               *)

ManifestType == [kind : {"manifest"}, request : RequestIDs \cup {BlankID}, camera : CameraIDs,
                 meta : Meta, totalBytes : Nat, chunkCount : Int,
                 sha256 : {Digest(image.data) : image \in Images}]

ChunkType == [kind : {"chunk"}, request : RequestIDs \cup {BlankID}, camera : CameraIDs,
              index : Nat, data : Seq(Nat \ {0})]

\* An acknowledgement names a request.
AckType == [kind : {"ack"}, request : RequestIDs, camera : CameraIDs,
            sha256 : {Digest(image.data) : image \in Images}, persisted : BOOLEAN]

\* Every message has its type; in particular no acknowledgement is sent, not
\* even a rejecting one, that leaves open which request it is for.
TypeOK ==
    /\ cache \subseteq captured /\ captured \subseteq Images
    /\ link \subseteq ManifestType \cup ChunkType \cup AckType
    /\ store \subseteq Image
    /\ owed # Nil => owed.manifest \in ManifestType /\ owed.persisted \in BOOLEAN

SamePayload(image, other) ==
    image.request = other.request /\ image.camera = other.camera /\ image.data = other.data

\* Whatever the link drops, repeats, mixes up or garbles, the receiver persists
\* only images that were taken, whole and with their own metadata.
StoredAsCaptured == store \subseteq captured

\* A captured payload is never lost: the camera holds it until it is persisted,
\* whatever acknowledgements of other images, rejections or crashes come between.
NothingLost ==
    \A image \in captured :
        image \in cache \/ \E kept \in store : SamePayload(image, kept)

\* A camera deletes its copy only when the receiver has persisted that very image:
\* the comment on ValidateHaLowImageAck says that it "returns nil only when the
\* receiver confirms that the exact manifest was durably persisted".
ExactManifestPersisted == captured \subseteq cache \cup store

\* What SplitHaLowImage produces AssembleHaLowImage accepts, in whatever order the
\* chunks come, and it gives back the image; only an image without a request ID
\* (TestSplitAndAssembleHaLowImage has one) or too big for the receiver is refused.
SplitsAssemble ==
    \A image \in captured :
        Splits(image) =>
            \A chunks \in SetToSeqs(Chunks(image)) :
                Assemble(Manifest(image), chunks) =
                    IF image.request # BlankID /\ Len(image.data) <= MaxImageBytes
                    THEN image ELSE Refused

=============================================================================
