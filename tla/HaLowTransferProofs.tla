------------------------- MODULE HaLowTransferProofs -------------------------
(***************************************************************************)
(* What holds of HaLowTransfer for any images, any chunk size, any limits  *)
(* and any number of chunks handed to the receiver.                        *)
(***************************************************************************)
EXTENDS HaLowTransfer, FiniteSetTheorems, SequenceTheorems, TLAPS

\* The receiver holds the payload that m describes.
Holds(kept, m) ==
    kept.request = m.request /\ kept.camera = m.camera /\ Digest(kept.data) = m.sha256

\* A manifest on the link is that of an image which was taken.
ManifestsTrue == \A m \in Sent("manifest") : \E i \in captured : Splits(i) /\ m = Manifest(i)

\* What is about to be acknowledged as persisted is.
OwedTrue ==
    owed # Nil => /\ owed.manifest \in Sent("manifest")
                  /\ owed.persisted \in BOOLEAN
                  /\ owed.persisted => \E kept \in store : Holds(kept, owed.manifest)

\* What was acknowledged as persisted is, for good.
AcksTrue == \A a \in Sent("ack") : a.persisted => \E kept \in store : Holds(kept, a)

Known == cache \subseteq captured /\ captured \subseteq Images

TransferInv == Known /\ ManifestsTrue /\ OwedTrue /\ AcksTrue /\ StoredAsCaptured /\ NothingLost

\* The image that AssembleHaLowImage makes of an image's manifest is that image,
\* whatever chunks it was given: the digest leaves no other payload.
LEMMA AssembledIsOriginal ==
    ASSUME NEW i \in Images, NEW parts, Assemble(Manifest(i), parts) # Refused
    PROVE  Assemble(Manifest(i), parts) = i
<1>1. i \in Image
  BY ImagesAssumption
<1>2. i = [request |-> i.request, camera |-> i.camera, meta |-> i.meta, data |-> i.data]
  BY <1>1 DEF Image
<1>3. /\ Digest(Joined(parts)) = Digest(i.data)
      /\ Assemble(Manifest(i), parts) =
             [request |-> i.request, camera |-> i.camera, meta |-> i.meta,
              data |-> Joined(parts)]
  BY DEF Assemble, Manifest
<1>4. Joined(parts) = i.data
  BY <1>3 DEF Digest
<1> QED
  BY <1>2, <1>3, <1>4

-----------------------------------------------------------------------------
(* The link and the two sides.                                               *)

LEMMA InitiallyTrue == Init => TransferInv
  BY DEF Init, TransferInv, Known, ManifestsTrue, OwedTrue, AcksTrue, StoredAsCaptured,
         NothingLost, Sent

LEMMA TransferInductive == TransferInv /\ [Next]_vars => TransferInv'
<1> SUFFICES ASSUME TransferInv, [Next]_vars PROVE TransferInv'
  OBVIOUS
<1> USE DEF TransferInv
<1>1. ASSUME NEW i \in Images, Capture(i)
      PROVE  TransferInv'
  <2>1. /\ captured' = captured \cup {i} /\ cache' = cache \cup {i}
        /\ link' = link /\ store' = store /\ owed' = owed
    BY <1>1 DEF Capture
  <2>2. Known' /\ NothingLost' /\ StoredAsCaptured'
    BY <2>1 DEF Known, NothingLost, StoredAsCaptured
  <2>3. ManifestsTrue' /\ OwedTrue' /\ AcksTrue'
    BY <2>1 DEF ManifestsTrue, OwedTrue, AcksTrue, Sent
  <2> QED
    BY <2>2, <2>3
<1>2. ASSUME NEW i \in Images, Transmit(i)
      PROVE  TransferInv'
  <2>1. PICK m \in {Manifest(i)} \cup Chunks(i) : link' = link \cup {m}
    BY <1>2 DEF Transmit
  <2>2. /\ i \in captured /\ Splits(i)
        /\ captured' = captured /\ cache' = cache /\ store' = store /\ owed' = owed
    BY <1>2 DEF Transmit, Known
  <2>3. m.kind \in {"manifest", "chunk"} /\ (m.kind = "manifest" => m = Manifest(i))
    BY DEF Manifest, Chunks
  <2>4. /\ Sent("ack")' = Sent("ack")
        /\ Sent("manifest") \subseteq Sent("manifest")'
        /\ Sent("manifest")' \subseteq Sent("manifest") \cup {Manifest(i)}
    BY <2>1, <2>3 DEF Sent
  <2>5. ManifestsTrue' /\ OwedTrue' /\ AcksTrue'
    BY <2>2, <2>4 DEF ManifestsTrue, OwedTrue, AcksTrue
  <2>6. Known' /\ NothingLost' /\ StoredAsCaptured'
    BY <2>2 DEF Known, NothingLost, StoredAsCaptured
  <2> QED
    BY <2>5, <2>6
<1>3. ASSUME NEW m \in Sent("manifest"), NEW parts, Receive(m, parts)
      PROVE  TransferInv'
  <2>1. PICK i \in captured : Splits(i) /\ m = Manifest(i)
    BY <1>3 DEF ManifestsTrue
  <2>2. /\ captured' = captured /\ cache' = cache /\ link' = link
        /\ owed' = [manifest |-> m, persisted |-> Assemble(m, parts) # Refused]
    BY <1>3 DEF Receive
  <2>3. store' = IF Assemble(m, parts) = Refused THEN store ELSE store \cup {i}
    BY <1>3, <2>1, AssembledIsOriginal DEF Receive, Known
  <2>4. Holds(i, m)
    BY <2>1 DEF Holds, Manifest
  <2>5. store \subseteq store' /\ store' \subseteq store \cup {i}
    BY <2>3
  <2>6. Known' /\ StoredAsCaptured' /\ NothingLost'
    BY <2>1, <2>2, <2>5 DEF Known, StoredAsCaptured, NothingLost
  <2>7. ManifestsTrue' /\ AcksTrue'
    BY <2>2, <2>5 DEF ManifestsTrue, AcksTrue, Sent
  <2>8. OwedTrue'
    BY <2>2, <2>3, <2>4 DEF OwedTrue, Sent
  <2> QED
    BY <2>6, <2>7, <2>8
<1>4. ASSUME Acknowledge
      PROVE  TransferInv'
  <2>1. /\ owed # Nil /\ owed' = Nil
        /\ captured' = captured /\ cache' = cache /\ store' = store
    BY <1>4 DEF Acknowledge
  <2>2. link' = link \/ link' = link \cup {Ack(owed.manifest, owed.persisted)}
    BY <1>4 DEF Acknowledge
  <2>3. /\ Sent("manifest")' = Sent("manifest")
        /\ Sent("ack")' \subseteq Sent("ack") \cup {Ack(owed.manifest, owed.persisted)}
    BY <2>2 DEF Sent, Ack
  <2>4. ASSUME owed.persisted
        PROVE  \E kept \in store : Holds(kept, Ack(owed.manifest, owed.persisted))
    BY <2>1, <2>4 DEF OwedTrue, Holds, Ack
  <2>5. Ack(owed.manifest, owed.persisted).persisted = owed.persisted
    BY DEF Ack
  <2>6. AcksTrue'
    BY <2>1, <2>3, <2>4, <2>5 DEF AcksTrue
  <2>7. ManifestsTrue' /\ OwedTrue'
    BY <2>1, <2>3 DEF ManifestsTrue, OwedTrue
  <2>8. Known' /\ NothingLost' /\ StoredAsCaptured'
    BY <2>1 DEF Known, NothingLost, StoredAsCaptured
  <2> QED
    BY <2>6, <2>7, <2>8
<1>5. ASSUME ReceiverRestarts
      PROVE  TransferInv'
  BY <1>5 DEF ReceiverRestarts, Known, ManifestsTrue, OwedTrue, AcksTrue,
              StoredAsCaptured, NothingLost, Sent
<1>6. ASSUME NEW i \in Images, NEW a \in Sent("ack"), Confirm(i, a)
      PROVE  TransferInv'
  <2>1. /\ captured' = captured /\ link' = link /\ store' = store /\ owed' = owed
        /\ cache' = cache \ {i} /\ i \in cache
    BY <1>6 DEF Confirm
  <2>2. PICK kept \in store : Holds(kept, a)
    BY <1>6 DEF Confirm, Confirms, AcksTrue
  <2>3. a.request = i.request /\ a.camera = i.camera /\ a.sha256 = Digest(i.data)
    BY <1>6 DEF Confirm, Confirms, Manifest
  <2>4. SamePayload(i, kept)
    BY <2>2, <2>3 DEF SamePayload, Holds, Digest
  <2>5. NothingLost'
    BY <2>1, <2>4 DEF NothingLost
  <2>6. Known' /\ ManifestsTrue' /\ OwedTrue' /\ AcksTrue' /\ StoredAsCaptured'
    BY <2>1 DEF Known, ManifestsTrue, OwedTrue, AcksTrue, StoredAsCaptured, Sent
  <2> QED
    BY <2>5, <2>6
<1>7. ASSUME UNCHANGED vars
      PROVE  TransferInv'
  BY <1>7 DEF vars, Known, ManifestsTrue, OwedTrue, AcksTrue, StoredAsCaptured,
              NothingLost, Sent
<1> QED
  BY <1>1, <1>2, <1>3, <1>4, <1>5, <1>6, <1>7 DEF Next

LEMMA TransferInvariant == Spec => []TransferInv
  BY InitiallyTrue, TransferInductive, PTL DEF Spec

\* Whatever the link does with what is sent, AssembleHaLowImage yields only images
\* that were captured, whole and with their own metadata.
THEOREM OnlyCapturedStored == Spec => []StoredAsCaptured
<1>1. TransferInv => StoredAsCaptured
  BY DEF TransferInv
<1> QED
  BY <1>1, TransferInvariant, PTL

\* A camera that deletes its copy only when ValidateHaLowImageAck returns nil
\* never deletes a payload that the receiver has not persisted.
THEOREM PayloadKept == Spec => []NothingLost
<1>1. TransferInv => NothingLost
  BY DEF TransferInv
<1> QED
  BY <1>1, TransferInvariant, PTL

-----------------------------------------------------------------------------
(* Types.                                                                    *)

LEMMA ManifestTyped ==
    ASSUME NEW i \in Images
    PROVE  Manifest(i) \in ManifestType
<1>1. i \in Image
  BY ImagesAssumption
<1>2. Len(i.data) \in Nat /\ i.request \in RequestIDs \cup {BlankID} /\ i.camera \in CameraIDs
      /\ i.meta \in Meta
  BY <1>1 DEF Image
<1>3. ChunkCount(i) \in Int
  BY <1>2, LimitsAssumption DEF ChunkCount
<1> QED
  BY <1>2, <1>3 DEF Manifest, ManifestType

LEMMA ChunksTyped ==
    ASSUME NEW i \in Images, NEW chunk \in Chunks(i)
    PROVE  chunk \in ChunkType
<1>1. i \in Image
  BY ImagesAssumption
<1>2. i.data \in Seq(Nat \ {0}) /\ Len(i.data) \in Nat
      /\ i.request \in RequestIDs \cup {BlankID} /\ i.camera \in CameraIDs
  BY <1>1 DEF Image
<1> DEFINE End(o) == IF o + ChunkBytes > Len(i.data) THEN Len(i.data) ELSE o + ChunkBytes
<1>3. PICK o \in 0..(Len(i.data) - 1) :
          chunk = [kind |-> "chunk", request |-> i.request, camera |-> i.camera,
                   index |-> o \div ChunkBytes, data |-> SubSeq(i.data, o + 1, End(o))]
  BY DEF Chunks
<1>4. o \div ChunkBytes \in Nat
  BY LimitsAssumption
<1>5. o + 1 \in 1..(Len(i.data) + 1) /\ End(o) \in o..Len(i.data)
  BY <1>2, LimitsAssumption, SMTT(30)
<1>6. SubSeq(i.data, o + 1, End(o)) \in Seq(Nat \ {0})
  <2> HIDE DEF End
  <2> QED
    BY <1>2, <1>5, SubSeqProperties
<1> QED
  BY <1>2, <1>3, <1>4, <1>6 DEF ChunkType

LinkTyped == link \subseteq ManifestType \cup ChunkType \cup AckType

LEMMA LinkInductive == TransferInv /\ LinkTyped /\ [Next]_vars => LinkTyped'
<1> SUFFICES ASSUME TransferInv, LinkTyped, [Next]_vars PROVE LinkTyped'
  OBVIOUS
<1>1. ASSUME NEW i \in Images, Transmit(i)
      PROVE  LinkTyped'
  BY <1>1, ManifestTyped, ChunksTyped DEF Transmit, LinkTyped
<1>2. ASSUME Acknowledge
      PROVE  LinkTyped'
  <2>1. PICK i \in Images : owed.manifest = Manifest(i)
    BY <1>2 DEF Acknowledge, TransferInv, OwedTrue, ManifestsTrue, Known
  <2>2. owed.persisted \in BOOLEAN
    BY <1>2 DEF Acknowledge, TransferInv, OwedTrue
  <2>3. ASSUME Acknowledges(owed.manifest)
        PROVE  Ack(owed.manifest, owed.persisted) \in AckType
    <3>1. i \in Image
      BY ImagesAssumption
    <3>2. i.request \in RequestIDs /\ i.camera \in CameraIDs
      BY <2>1, <2>3, <3>1 DEF Acknowledges, ValidManifest, Manifest, Image
    <3> QED
      BY <2>1, <2>2, <3>2 DEF Ack, AckType, Manifest
  <2> QED
    BY <1>2, <2>3 DEF Acknowledge, LinkTyped
<1>3. CASE UNCHANGED link
  BY <1>3 DEF LinkTyped
<1> QED
  BY <1>1, <1>2, <1>3 DEF Next, Capture, Receive, ReceiverRestarts, Confirm, vars

\* Every message has its type, and no acknowledgement leaves open which request
\* it is for: NewHaLowImageAck makes none from a manifest without a request ID.
THEOREM TypeCorrect == Spec => []TypeOK
<1>1. Init => LinkTyped
  BY DEF Init, LinkTyped
<1>2. ASSUME TransferInv, LinkTyped
      PROVE  TypeOK
  <2>1. cache \subseteq captured /\ captured \subseteq Images
    BY <1>2 DEF TransferInv, Known
  <2>2. store \subseteq Image
    BY <1>2, <2>1, ImagesAssumption DEF TransferInv, StoredAsCaptured
  <2>3. ASSUME owed # Nil
        PROVE  owed.manifest \in ManifestType /\ owed.persisted \in BOOLEAN
    BY <1>2, <2>1, <2>3, ManifestTyped DEF TransferInv, OwedTrue, ManifestsTrue
  <2> QED
    BY <1>2, <2>1, <2>2, <2>3 DEF TypeOK, LinkTyped
<1> QED
  BY <1>1, <1>2, TransferInvariant, LinkInductive, PTL DEF Spec

-----------------------------------------------------------------------------
(* What is split is assembled again.                                         *)

LEMMA Division ==
    ASSUME NEW a \in Nat, NEW c \in Nat \ {0}
    PROVE  a \div c \in Nat /\ a % c \in 0..(c - 1) /\ a = c * (a \div c) + (a % c)
  OBVIOUS

LEMMA Multiples ==
    ASSUME NEW c \in Nat \ {0}, NEW a \in Nat, NEW b \in Nat
    PROVE  /\ (c * a) \div c = a /\ (c * a) % c = 0
           /\ a <= b <=> c * a <= c * b
           /\ c * a \in Nat /\ c * (a + 1) = c * a + c
  OBVIOUS

\* Where the first k chunks of a payload of size bytes end.
End(k, size) == IF ChunkBytes * k > size THEN size ELSE ChunkBytes * k

\* The chunk with index k.
ChunkAt(image, k) ==
    [kind    |-> "chunk",
     request |-> image.request,
     camera  |-> image.camera,
     index   |-> k,
     data    |-> SubSeq(image.data, ChunkBytes * k + 1, End(k + 1, Len(image.data)))]

Sized(image) == image \in Image /\ image.data # <<>>

LEMMA SizesOf ==
    ASSUME NEW image, Sized(image)
    PROVE  /\ image.data \in Seq(Nat \ {0}) /\ Len(image.data) \in Nat \ {0}
           /\ ChunkBytes \in Nat \ {0} /\ ChunkCount(image) \in Nat \ {0}
           /\ ChunkBytes * (ChunkCount(image) - 1) < Len(image.data)
           /\ Len(image.data) <= ChunkBytes * ChunkCount(image)
<1> DEFINE size == Len(image.data)
           n    == ChunkCount(image)
<1>1. image.data \in Seq(Nat \ {0}) /\ size \in Nat \ {0} /\ ChunkBytes \in Nat \ {0}
  BY LimitsAssumption, EmptySeq, LenProperties DEF Sized, Image
<1> DEFINE q == (size - 1) \div ChunkBytes
           r == (size - 1) % ChunkBytes
<1>2. size - 1 \in Nat
  BY <1>1
<1>3. n = 1 + q
  BY DEF ChunkCount
<1> HIDE DEF size, n
<1>4. q \in Nat /\ r \in 0..(ChunkBytes - 1) /\ size - 1 = ChunkBytes * q + r
  BY <1>1, <1>2, Division
<1> HIDE DEF q, r
<1>5. ChunkBytes * q \in Nat /\ ChunkBytes * (q + 1) = ChunkBytes * q + ChunkBytes
  BY <1>1, <1>4, Multiples
<1>6. n \in Nat \ {0} /\ n - 1 = q /\ n = q + 1
  BY <1>3, <1>4
<1>7. ChunkBytes * (n - 1) < size /\ size <= ChunkBytes * n
  BY <1>1, <1>4, <1>5, <1>6
<1> QED
  BY <1>1, <1>6, <1>7 DEF size, n

\* The offsets at which the loop stops are those of the chunks.
LEMMA ChunksAre ==
    ASSUME NEW image, Sized(image)
    PROVE  Chunks(image) = {ChunkAt(image, k) : k \in 0..(ChunkCount(image) - 1)}
<1> DEFINE c == ChunkBytes
           size == Len(image.data)
           n == ChunkCount(image)
           offsets == {o \in 0..(size - 1) : o % c = 0}
           chunk(o) == [kind    |-> "chunk",
                        request |-> image.request,
                        camera  |-> image.camera,
                        index   |-> o \div c,
                        data    |-> SubSeq(image.data, o + 1,
                                           IF o + c > size THEN size ELSE o + c)]
<1>1. c \in Nat \ {0} /\ size \in Nat \ {0} /\ n \in Nat \ {0} /\ c * (n - 1) < size /\ size <= c * n
  BY SizesOf
<1>2. Chunks(image) = {chunk(o) : o \in offsets}
  BY DEF Chunks
<1>3. ASSUME NEW k \in 0..(n - 1) PROVE c * k \in offsets /\ chunk(c * k) = ChunkAt(image, k)
  <2>1. k \in Nat /\ n - 1 \in Nat /\ k <= n - 1
    BY <1>1
  <2>2. /\ (c * k) \div c = k /\ (c * k) % c = 0 /\ c * k <= c * (n - 1)
        /\ c * k \in Nat /\ c * (k + 1) = c * k + c /\ c * (n - 1) \in Nat
    BY <1>1, <2>1, Multiples
  <2> HIDE DEF c, size, n
  <2>3. c * k \in 0..(size - 1)
    BY <1>1, <2>2
  <2>4. chunk(c * k) = ChunkAt(image, k)
    BY <2>2 DEF ChunkAt, End, c, size
  <2> QED
    BY <2>2, <2>3, <2>4
<1>4. ASSUME NEW o \in offsets PROVE \E k \in 0..(n - 1) : o = c * k
  <2> DEFINE k == o \div c
  <2>1. o \in Nat /\ o % c = 0 /\ o < size
    BY <1>1
  <2>2. k \in Nat /\ o = c * k + (o % c)
    BY <1>1, <2>1, Division
  <2> HIDE DEF k, c, size, n
  <2>3. o = c * k
    <3>1. c * k \in Nat
      BY <1>1, <2>2, Multiples
    <3> QED
      BY <2>1, <2>2, <3>1
  <2>4. c * n \in Nat /\ (n <= k => c * n <= c * k)
    BY <1>1, <2>2, Multiples
  <2>5. k < n
    BY <1>1, <2>1, <2>2, <2>3, <2>4
  <2> QED
    BY <1>1, <2>2, <2>3, <2>5
<1> HIDE DEF c, size, n, offsets, chunk
<1>5. {chunk(o) : o \in offsets} = {ChunkAt(image, k) : k \in 0..(n - 1)}
  BY <1>3, <1>4
<1> QED
  BY <1>2, <1>5 DEF n

\* There are as many as the manifest says.
LEMMA ChunksCounted ==
    ASSUME NEW image, Sized(image)
    PROVE  IsFiniteSet(Chunks(image)) /\ Cardinality(Chunks(image)) = ChunkCount(image)
<1> DEFINE n == ChunkCount(image)
           f == [k \in 1..n |-> ChunkAt(image, k - 1)]
<1>1. n \in Nat \ {0}
  BY SizesOf
<1>2. Chunks(image) = {ChunkAt(image, k) : k \in 0..(n - 1)}
  BY ChunksAre
<1> HIDE DEF n
<1>3. \A k \in 1..n : f[k] = ChunkAt(image, k - 1) /\ k - 1 \in 0..(n - 1) /\ f[k].index = k - 1
  BY <1>1 DEF ChunkAt
<1>4. f \in [1..n -> Chunks(image)]
  BY <1>2, <1>3
<1>5. f \in Surjection(1..n, Chunks(image))
  <2>1. ASSUME NEW t \in Chunks(image) PROVE \E s \in 1..n : f[s] = t
    <3>1. PICK k \in 0..(n - 1) : t = ChunkAt(image, k)
      BY <1>2
    <3>2. k + 1 \in 1..n /\ (k + 1) - 1 = k
      BY <1>1
    <3>3. f[k + 1] = t
      BY <1>3, <3>1, <3>2
    <3> QED
      BY <3>2, <3>3
  <2> HIDE DEF f
  <2> QED
    BY <1>4, <2>1 DEF Surjection
<1> HIDE DEF f
<1>6. f \in Injection(1..n, Chunks(image))
  <2>1. \A k, l \in 1..n : f[k] = f[l] => k = l
    BY <1>1, <1>3
  <2> QED
    BY <1>4, <2>1 DEF Injection, IsInjective
<1>7. IsFiniteSet(1..n) /\ Cardinality(1..n) = n
  BY <1>1, FS_Interval
<1> QED
  BY <1>5, <1>6, <1>7, FS_Surjection DEF n

\* A set of naturals that is not empty has a least element.
LEMMA LeastNatural ==
    ASSUME NEW S \in SUBSET Nat, S # {}
    PROVE  \E least \in S : \A m \in S : least <= m
<1>1. PICK least \in S : \A m \in S : ~(<<m, least>> \in OpToRel(<, Nat))
  BY NatLessThanWellFounded, WFMin
<1>2. \A m \in S : ~(m < least)
  BY <1>1 DEF OpToRel
<1> QED
  BY <1>2

\* Joining what the payload was cut into gives the payload.
LEMMA CutsJoined ==
    ASSUME NEW image, Sized(image), NEW cuts,
           cuts = [k \in 1..ChunkCount(image) |-> ChunkAt(image, k - 1).data]
    PROVE  FlattenSeq(cuts) = image.data
<1> DEFINE c    == ChunkBytes
           data == image.data
           size == Len(data)
           n    == ChunkCount(image)
           upTo(k) == SubSeq(data, 1, End(k, size))
           Follows(g) == g = [k \in 1..Len(cuts) |->
                                 IF k = 1 THEN cuts[k] ELSE g[k - 1] \o cuts[k]]
           flat == CHOOSE g : Follows(g)
           w == [k \in 1..n |-> upTo(k)]
<1>1. /\ data \in Seq(Nat \ {0}) /\ size \in Nat \ {0} /\ c \in Nat \ {0} /\ n \in Nat \ {0}
      /\ c * (n - 1) < size /\ size <= c * n
  BY SizesOf
<1>2. Len(cuts) = n /\ DOMAIN cuts = 1..n
  BY <1>1
<1>3. FlattenSeq(cuts) = flat[n]
  BY <1>1, <1>2 DEF FlattenSeq
<1> HIDE DEF n, c, size, data
<1>4. \A k \in 1..n : cuts[k] = SubSeq(data, c * (k - 1) + 1, End(k, size))
  <2> SUFFICES ASSUME NEW k \in 1..n
               PROVE  cuts[k] = SubSeq(data, c * (k - 1) + 1, End(k, size))
    OBVIOUS
  <2>1. cuts[k] = ChunkAt(image, k - 1).data /\ (k - 1) + 1 = k
    BY <1>1 DEF n
  <2> QED
    BY <2>1 DEF ChunkAt, c, size, data
<1>5. \A k \in 1..n : k # 1 => upTo(k - 1) \o cuts[k] = upTo(k)
  <2> SUFFICES ASSUME NEW k \in 1..n, k # 1 PROVE upTo(k - 1) \o cuts[k] = upTo(k)
    OBVIOUS
  <2>1. k - 1 \in Nat /\ n - 1 \in Nat /\ k - 1 <= n - 1 /\ (k - 1) + 1 = k
    BY <1>1
  <2>2. /\ c * (k - 1) \in Nat /\ c * k = c * (k - 1) + c /\ c * (n - 1) \in Nat
        /\ c * (k - 1) <= c * (n - 1)
    BY <1>1, <2>1, Multiples
  <2>3. End(k - 1, size) = c * (k - 1)
    BY <1>1, <2>2 DEF End, c
  <2>4. End(k, size) \in (c * (k - 1))..size
    BY <1>1, <2>2 DEF End, c
  <2> DEFINE a == c * (k - 1)
             e == End(k, size)
  <2>5. 1 \in 1..(size + 1) /\ a \in (1 - 1)..size /\ e \in a..size
    BY <1>1, <2>2, <2>4
  <2> HIDE DEF a, e
  <2>6. SubSeq(data, 1, a) \o SubSeq(data, a + 1, e) = SubSeq(data, 1, e)
    BY <1>1, <2>5, ConcatAdjacentSubSeq DEF size
  <2> QED
    BY <1>4, <2>3, <2>6 DEF a, e
<1>6. cuts[1] = upTo(1)
  <2>1. 1 \in 1..n /\ c * (1 - 1) + 1 = 1
    BY <1>1
  <2> QED
    BY <1>4, <2>1
<1>7. Follows(w)
  <2>1. \A k \in 1..n : w[k] = IF k = 1 THEN cuts[k] ELSE w[k - 1] \o cuts[k]
    <3> SUFFICES ASSUME NEW k \in 1..n
                 PROVE  w[k] = IF k = 1 THEN cuts[k] ELSE w[k - 1] \o cuts[k]
      OBVIOUS
    <3> HIDE DEF upTo
    <3>1. CASE k = 1
      BY <1>6, <3>1
    <3>2. CASE k # 1
      <4>1. k - 1 \in 1..n
        BY <1>1, <3>2
      <4> QED
        BY <1>5, <3>2, <4>1
    <3> QED
      BY <3>1, <3>2
  <2> QED
    BY <1>2, <2>1
<1>8. Follows(flat)
  <2> HIDE DEF Follows
  <2> QED
    BY <1>7
<1> HIDE DEF flat
<1>9. \A k \in 1..n : flat[k] = IF k = 1 THEN cuts[k] ELSE flat[k - 1] \o cuts[k]
  BY <1>2, <1>8
<1> HIDE DEF w, Follows, upTo
<1>10. \A k \in 1..n : flat[k] = upTo(k)
  <2> DEFINE wrong == {k \in 1..n : flat[k] # upTo(k)}
  <2> SUFFICES ASSUME wrong # {} PROVE FALSE
    OBVIOUS
  <2>1. PICK least \in wrong : \A m \in wrong : least <= m
    <3>1. wrong \in SUBSET Nat
      BY <1>1
    <3> HIDE DEF wrong
    <3> QED
      BY <3>1, LeastNatural
  <2>2. CASE least = 1
    BY <1>6, <1>9, <2>2
  <2>3. CASE least # 1
    <3>1. least - 1 \in 1..n /\ ~(least <= least - 1)
      BY <1>1, <2>3
    <3>2. flat[least - 1] = upTo(least - 1)
      BY <2>1, <3>1
    <3> QED
      BY <1>5, <1>9, <2>3, <3>2, ZenonT(30)
  <2> QED
    BY <2>2, <2>3
<1>11. n \in 1..n /\ End(n, size) = size
  BY <1>1, Multiples DEF End, c
<1>12. upTo(n) = data
  BY <1>1, <1>11, SubSeqFull DEF upTo, size
<1> QED
  BY <1>3, <1>10, <1>11, <1>12 DEF data

\* Whatever the order in which the chunks come, they are a complete set.
LEMMA ChunksComplete ==
    ASSUME NEW image, Sized(image), NEW chunks \in SetToSeqs(Chunks(image))
    PROVE  CompleteSet(Manifest(image), chunks) /\ Joined(chunks) = image.data
<1> DEFINE n == ChunkCount(image)
           all == Chunks(image)
           at(k) == CHOOSE i \in DOMAIN chunks : chunks[i].index = k - 1
           cuts == [k \in 1..n |-> ChunkAt(image, k - 1).data]
<1>1. /\ n \in Nat \ {0} /\ IsFiniteSet(all) /\ Cardinality(all) = n
      /\ all = {ChunkAt(image, k) : k \in 0..(n - 1)}
  BY SizesOf, ChunksAre, ChunksCounted
<1>2. chunks \in [1..n -> all] /\ \A i, j \in 1..n : i # j => chunks[i] # chunks[j]
  BY <1>1 DEF SetToSeqs
<1> HIDE DEF n, all
<1>3. \A i \in 1..n : \E k \in 0..(n - 1) : chunks[i] = ChunkAt(image, k)
  BY <1>1, <1>2
<1>4. \A k : /\ ChunkAt(image, k).index = k /\ ChunkAt(image, k).request = image.request
             /\ ChunkAt(image, k).camera = image.camera
  BY DEF ChunkAt
<1>5. \A i, j \in 1..n : i # j => chunks[i].index # chunks[j].index
  BY <1>2, <1>3, <1>4
<1>6. \A k \in 1..n : \E i \in 1..n : chunks[i] = ChunkAt(image, k - 1)
  <2>1. chunks \in Injection(1..n, all)
    BY <1>2 DEF Injection, IsInjective
  <2>2. chunks \in Surjection(1..n, all)
    BY <1>1, <2>1, FS_Interval, FS_Injection
  <2>3. \A k \in 1..n : ChunkAt(image, k - 1) \in all
    <3>1. \A k \in 1..n : k - 1 \in 0..(n - 1)
      BY <1>1
    <3> QED
      BY <1>1, <3>1
  <2> QED
    BY <2>2, <2>3 DEF Surjection
<1>7. DOMAIN chunks = 1..n /\ Len(chunks) = n
  BY <1>1, <1>2
<1>8. \A k \in 1..n : chunks[at(k)] = ChunkAt(image, k - 1)
  <2> SUFFICES ASSUME NEW k \in 1..n PROVE chunks[at(k)] = ChunkAt(image, k - 1)
    OBVIOUS
  <2>1. PICK i \in 1..n : chunks[i] = ChunkAt(image, k - 1)
    BY <1>6
  <2>2. chunks[i].index = k - 1
    BY <1>4, <2>1
  <2>3. at(k) \in 1..n /\ chunks[at(k)].index = k - 1
    BY <1>7, <2>2
  <2> HIDE DEF at
  <2>4. PICK l \in 0..(n - 1) : chunks[at(k)] = ChunkAt(image, l)
    BY <1>3, <2>3
  <2> QED
    BY <1>4, <2>3, <2>4
<1>9. Joined(chunks) = FlattenSeq(cuts)
  <2>1. [k \in DOMAIN chunks |-> chunks[at(k)].data] = cuts
    BY <1>7, <1>8
  <2> QED
    BY <2>1 DEF Joined
<1>10. FlattenSeq(cuts) = image.data
  <2> HIDE DEF cuts
  <2>1. cuts = [k \in 1..ChunkCount(image) |-> ChunkAt(image, k - 1).data]
    BY DEF cuts, n
  <2> QED
    BY <2>1, CutsJoined
<1>11. \A k \in 0..(n - 1) : ChunkAt(image, k).data # <<>>
  <2> SUFFICES ASSUME NEW k \in 0..(n - 1) PROVE ChunkAt(image, k).data # <<>>
    OBVIOUS
  <2> DEFINE data == image.data
             size == Len(data)
             a == ChunkBytes * k + 1
             e == End(k + 1, size)
  <2>1. /\ data \in Seq(Nat \ {0}) /\ size \in Nat \ {0} /\ ChunkBytes \in Nat \ {0}
        /\ ChunkBytes * (n - 1) < size
    BY SizesOf DEF n
  <2>2. /\ ChunkBytes * k \in Nat /\ ChunkBytes * (k + 1) = ChunkBytes * k + ChunkBytes
        /\ ChunkBytes * k <= ChunkBytes * (n - 1) /\ ChunkBytes * (n - 1) \in Nat
    <3>1. k \in Nat /\ n - 1 \in Nat /\ k <= n - 1
      BY <1>1
    <3> QED
      BY <2>1, <3>1, Multiples
  <2>3. a \in 1..size /\ e \in a..size
    BY <2>1, <2>2 DEF End
  <2> HIDE DEF size, a, e
  <2>4. \A i \in a..e : data[i] \in Nat \ {0}
    <3>1. \A i \in a..e : i \in 1..size
      BY <2>1, <2>3
    <3> QED
      BY <2>1, <3>1, ElementOfSeq DEF size
  <2>5. Len(SubSeq(data, a, e)) = e - a + 1
    <3>1. a \in Int /\ e \in Int /\ a <= e
      BY <2>1, <2>3
    <3> QED
      BY <2>4, <3>1, SubSeqProperties
  <2>6. SubSeq(data, a, e) # <<>>
    <3>1. e - a + 1 # 0 /\ Len(<<>>) = 0
      BY <2>1, <2>3
    <3> QED
      BY <2>5, <3>1
  <2> QED
    BY <2>6 DEF ChunkAt, a, e, size
<1>12. CompleteSet(Manifest(image), chunks)
  <2> DEFINE m == Manifest(image)
  <2>1. m.chunkCount = n /\ m.request = image.request /\ m.camera = image.camera
    BY DEF Manifest, n
  <2>2. ASSUME NEW i \in 1..n
        PROVE  /\ chunks[i].request = m.request /\ chunks[i].camera = m.camera
               /\ chunks[i].index \in 0..(n - 1) /\ chunks[i].data # <<>>
    <3>1. PICK k \in 0..(n - 1) : chunks[i] = ChunkAt(image, k)
      BY <1>3
    <3> QED
      BY <1>4, <1>11, <2>1, <3>1
  <2> HIDE DEF m
  <2>3. CompleteSet(m, chunks)
    BY <1>5, <1>7, <2>1, <2>2 DEF CompleteSet
  <2> QED
    BY <2>3 DEF m
<1> QED
  BY <1>9, <1>10, <1>12

\* What SplitHaLowImage makes of any image AssembleHaLowImage puts together again,
\* whatever the chunk size and the order of the chunks; it refuses only what has no
\* request ID or is too big.
LEMMA SplitAssembled ==
    ASSUME NEW image \in Images, Splits(image), NEW chunks \in SetToSeqs(Chunks(image))
    PROVE  Assemble(Manifest(image), chunks) =
               IF image.request # BlankID /\ Len(image.data) <= MaxImageBytes
               THEN image ELSE Refused
<1> DEFINE m == Manifest(image)
<1>1. image \in Image /\ Sized(image)
  BY ImagesAssumption DEF Splits, Sized
<1>2. CompleteSet(m, chunks) /\ Joined(chunks) = image.data
  BY <1>1, ChunksComplete
<1>3. /\ m.request = image.request /\ m.camera = image.camera /\ m.meta = image.meta
      /\ m.totalBytes = Len(image.data) /\ m.chunkCount = ChunkCount(image)
      /\ m.sha256 = Digest(image.data)
  BY DEF Manifest
<1>4. /\ Len(image.data) \in Nat \ {0} /\ ChunkCount(image) \in Nat \ {0}
      /\ ChunkCount(image) <= MaxHaLowChunks /\ image.meta.pose = "valid" /\ image.meta.sound
      /\ MaxImageBytes \in Nat \ {0} /\ MaxHaLowChunks \in Nat \ {0}
  BY <1>1, SizesOf, LimitsAssumption DEF Splits
<1> HIDE DEF m
<1>5. ValidManifest(m, MaxImageBytes) <=>
          image.request # BlankID /\ Len(image.data) <= MaxImageBytes
  BY <1>3, <1>4 DEF ValidManifest
<1>6. image = [request |-> image.request, camera |-> image.camera, meta |-> image.meta,
               data |-> image.data]
  BY <1>1 DEF Image
<1>7. CASE image.request # BlankID /\ Len(image.data) <= MaxImageBytes
  <2>1. ValidManifest(m, MaxImageBytes)
    BY <1>5, <1>7
  <2> QED
    BY <1>2, <1>3, <1>4, <1>6, <1>7, <2>1 DEF Assemble, m
<1>8. CASE ~(image.request # BlankID /\ Len(image.data) <= MaxImageBytes)
  <2>1. ~ValidManifest(m, MaxImageBytes)
    BY <1>5, <1>8
  <2> QED
    BY <1>8, <2>1 DEF Assemble, m
<1> QED
  BY <1>7, <1>8

\* What SplitHaLowImage produces, AssembleHaLowImage accepts and restores, for any
\* image, any chunk size and any order of the chunks.
THEOREM SplitsRejoin == Spec => []SplitsAssemble
<1>1. TransferInv => SplitsAssemble
  BY SplitAssembled DEF TransferInv, Known, SplitsAssemble
<1> QED
  BY <1>1, TransferInvariant, PTL
=============================================================================
