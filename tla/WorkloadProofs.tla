---------------------------- MODULE WorkloadProofs ----------------------------
(***************************************************************************)
(* Proofs about the work of a scenario, for every set of candidates, every *)
(* topology, rate and frame size, and every number of inputs: what is      *)
(* planned (Workload, WorkloadAgreement), what is sent (MediaSchedule) and *)
(* what is compared (Comparison).                                          *)
(***************************************************************************)
EXTENDS MediaSchedule, Comparison, SumTheorems

\* source_id is injective: a room takes the numbers of its peers and no other.
THEOREM SourceIdsAreDistinct ==
    ASSUME NEW peers \in Nat, NEW a \in Nat, NEW b \in Nat,
           NEW i \in 0 .. peers - 1, NEW j \in 0 .. peers - 1,
           SourceId(peers, a, i) = SourceId(peers, b, j)
    PROVE  a = b /\ i = j
<1>1. a * peers + i = b * peers + j
  BY DEF SourceId
<1>2. CASE a < b
  <2>1. b >= a + 1
    BY <1>2
  <2>2. b * peers >= (a + 1) * peers
    BY <2>1
  <2>3. (a + 1) * peers = a * peers + peers
    OBVIOUS
  <2>4. a * peers \in Nat /\ b * peers \in Nat
    OBVIOUS
  <2> QED BY <1>1, <2>2, <2>3, <2>4
<1>3. CASE b < a
  <2>1. a >= b + 1
    BY <1>3
  <2>2. a * peers >= (b + 1) * peers
    BY <2>1
  <2>3. (b + 1) * peers = b * peers + peers
    OBVIOUS
  <2>4. a * peers \in Nat /\ b * peers \in Nat
    OBVIOUS
  <2> QED BY <1>1, <2>2, <2>3, <2>4
<1>4. CASE a = b
  <2>1. a * peers \in Nat
    OBVIOUS
  <2> QED BY <1>1, <1>4, <2>1
<1> QED BY <1>2, <1>3, <1>4

\* source_id fits the u16 of the payload for at most 64 rooms of 100 peers.
LEMMA SourceIdsFit ==
    ASSUME NEW rooms \in 1 .. 64, NEW peers \in 1 .. 100,
           NEW r \in 0 .. rooms - 1, NEW i \in 0 .. peers - 1
    PROVE  SourceId(peers, r, i) \in Nat /\ WithinU16(SourceId(peers, r, i))
<1>1. r \in Nat /\ r <= 63 /\ peers <= 100 /\ i <= 99 /\ i \in Nat
  OBVIOUS
<1>2. r * peers <= 63 * peers
  BY <1>1
<1>3. r * peers \in Nat
  BY <1>1
<1> QED BY <1>1, <1>2, <1>3 DEF SourceId, WithinU16

\* featured_source names another peer's camera, and none only when there is none.
THEOREM FeaturedIsRemote ==
    ASSUME NEW peer \in Nat, NEW publishers \in Nat
    PROVE  \/ Featured(peer, publishers) \in (0 .. publishers - 1) \ {peer}
           \/ /\ Featured(peer, publishers) = NoFeatured
              /\ (0 .. publishers - 1) \ {peer} = {}
<1>1. CASE publishers = 0
  BY <1>1 DEF Featured
<1>2. CASE publishers # 0 /\ peer % publishers # peer
  <2>1. peer % publishers \in 0 .. publishers - 1
    BY <1>2
  <2> QED BY <1>2, <2>1 DEF Featured
<1>3. CASE publishers = 1 /\ peer % publishers = peer
  <2>1. peer = 0
    BY <1>3
  <2> QED BY <1>3, <2>1 DEF Featured
<1>4. CASE publishers > 1 /\ peer % publishers = peer
  <2>1. peer \in 0 .. publishers - 1
    BY <1>4
  <2>2. (peer + 1) % publishers \in 0 .. publishers - 1
    BY <1>4
  <2>3. (peer + 1) % publishers # peer
    <3>1. CASE peer + 1 = publishers
      BY <1>4, <3>1
    <3>2. CASE peer + 1 < publishers
      BY <1>4, <3>2
    <3> QED BY <2>1, <3>1, <3>2
  <2> QED BY <1>4, <2>2, <2>3 DEF Featured
<1>5. publishers = 0 \/ publishers = 1 \/ publishers > 1
  OBVIOUS
<1> QED BY <1>1, <1>2, <1>3, <1>4, <1>5, Zenon

-------------------------------------------------------------------------------
(* What the constructors let through. *)

Bounded(s) ==
    /\ s.rooms \in 1 .. 64 /\ s.peers \in 1 .. 100
    /\ s.audio \in 0 .. s.peers /\ s.video \in 0 .. s.peers

\* A scenario that is accepted has no more rooms, peers and publishers than the numbers of
\* sources allow for.
LEMMA AcceptedIsBounded ==
    ASSUME NEW s, Constructed(s), Accepted(s)
    PROVE  Bounded(s)
<1>1. InBounds(s)
  BY DEF Accepted
<1>2. /\ s.type \in {"smoke", "audio-mesh", "video-gallery", "mixed-conference"}
      /\ s.rooms \in Nat /\ s.peers \in Nat
      /\ s.audio \in Nat /\ s.video \in Nat
      /\ s.type = "smoke" => s.rooms = 1 /\ s.audio = 1 /\ s.video = 0
      /\ s.type = "audio-mesh" => s.audio = s.peers /\ s.video = 0
      /\ s.type = "video-gallery" => s.audio = 0
  BY DEF Constructed
<1>3. CASE s.type = "smoke"
  <2>1. s.peers \in 2 .. 100
    BY SMT, <1>1, <1>3 DEF InBounds
  <2>2. s.rooms = 1 /\ s.audio = 1 /\ s.video = 0
    BY <1>2, <1>3
  <2> QED BY <1>2, <2>1, <2>2 DEF Bounded
<1>4. CASE s.type = "audio-mesh"
  <2>1. s.rooms \in 1 .. 64 /\ s.peers <= 100 /\ s.peers >= 2
    BY SMT, <1>1, <1>4 DEF InBounds
  <2>2. s.audio = s.peers /\ s.video = 0
    BY <1>2, <1>4
  <2> QED BY <1>2, <2>1, <2>2 DEF Bounded
<1>5. CASE s.type = "video-gallery"
  <2>1. s.rooms \in 1 .. 64 /\ s.peers <= 100 /\ s.peers >= 3 /\ s.video <= s.peers
    BY SMT, <1>1, <1>5 DEF InBounds
  <2>2. s.audio = 0
    BY <1>2, <1>5
  <2> QED BY <1>2, <2>1, <2>2 DEF Bounded
<1>6. CASE s.type = "mixed-conference"
  <2>1. /\ s.rooms \in 1 .. 64 /\ s.peers <= 100 /\ s.peers >= 3
        /\ s.audio \in 1 .. s.peers /\ s.video <= s.audio
    BY SMT, <1>1, <1>6 DEF InBounds
  <2> QED BY <1>2, <2>1 DEF Bounded
<1> QED BY <1>2, <1>3, <1>4, <1>5, <1>6

-------------------------------------------------------------------------------
(* Quotients and keyframes. *)

\* The quotient is the one number whose multiple comes as near as it can.
LEMMA QuotientIsUnique ==
    ASSUME NEW n \in Nat, NEW k \in Nat \ {0}, NEW q \in Nat, NEW r \in 0 .. k - 1,
           n = k * q + r
    PROVE  n \div k = q /\ n % k = r
<1>1. n % k = n - k * (n \div k)
  BY Z3
<1>2. n \div k \in Nat /\ n % k \in 0 .. k - 1
  OBVIOUS
<1>3. n \div k = q
  OBVIOUS
<1> QED BY <1>1, <1>3

\* The keyframes among the first frames of a source.
Keys(frames) == (frames + KeyframeInterval - 1) \div KeyframeInterval

\* A frame is a keyframe exactly when it adds one.
LEMMA KeysGrow ==
    ASSUME NEW f \in Nat
    PROVE  /\ Keys(f) \in Nat
           /\ Keys(f + 1) = IF f % KeyframeInterval = 0 THEN Keys(f) + 1 ELSE Keys(f)
<1> DEFINE K == KeyframeInterval
           q == f \div K
           r == f % K
<1>0. K \in Nat \ {0}
  BY WorkloadAssumption
<1>1. /\ q \in Nat /\ r \in 0 .. K - 1
      /\ r = f - K * q
  BY <1>0, Z3
<1>2. K * (q + 1) = K * q + K
  BY <1>0, <1>1
<1>3. ASSUME NEW n \in Nat, NEW times \in Nat, NEW rest \in 0 .. K - 1, n = K * times + rest
      PROVE  n \div K = times
  BY <1>0, <1>3, QuotientIsUnique, Zenon
<1> HIDE DEF K, q, r
<1>4. Keys(f) \in Nat
  BY <1>0 DEF Keys, K
<1>5. CASE r = 0
  <2>1. f + K - 1 = K * q + (K - 1) /\ f + 1 + K - 1 = K * (q + 1) + 0
    BY <1>0, <1>1, <1>2, <1>5
  <2>2. /\ f + K - 1 \in Nat /\ f + 1 + K - 1 \in Nat
        /\ q + 1 \in Nat /\ K - 1 \in 0 .. K - 1 /\ 0 \in 0 .. K - 1
    BY <1>0, <1>1
  <2>3. (f + K - 1) \div K = q /\ (f + 1 + K - 1) \div K = q + 1
    BY <1>1, <1>3, <2>1, <2>2, Zenon
  <2> QED BY <1>4, <1>5, <2>3, Zenon DEF Keys, K, r
<1>6. CASE r # 0
  <2>1. f + K - 1 = K * (q + 1) + (r - 1) /\ f + 1 + K - 1 = K * (q + 1) + r
    BY <1>0, <1>1, <1>2, <1>6
  <2>2. /\ f + K - 1 \in Nat /\ f + 1 + K - 1 \in Nat
        /\ q + 1 \in Nat /\ r - 1 \in 0 .. K - 1
    BY <1>0, <1>1, <1>6
  <2>3. (f + K - 1) \div K = q + 1 /\ (f + 1 + K - 1) \div K = q + 1
    BY <1>1, <1>3, <2>1, <2>2, Zenon
  <2> QED BY <1>4, <1>6, <2>3, Zenon DEF Keys, K, r
<1> QED BY <1>5, <1>6

\* No frame, no keyframe.
LEMMA NoKeys == Keys(0) = 0
<1>1. KeyframeInterval \in Nat \ {0} /\ KeyframeInterval - 1 = KeyframeInterval * 0 + (KeyframeInterval - 1)
  BY WorkloadAssumption
<1> QED BY <1>1, QuotientIsUnique DEF Keys

\* An interval cut into slots is not longer than it was.
LEMMA SlotsFit ==
    ASSUME NEW n \in Nat, NEW count \in Nat \ {0}, NEW slot \in 0 .. count
    PROVE  (n \div count) * slot \in 0 .. n
<1>1. n \div count \in Nat
  OBVIOUS
<1>2. (n \div count) * count <= n
  OBVIOUS
<1>3. (n \div count) * slot <= (n \div count) * count
  BY <1>1
<1>4. (n \div count) * slot \in Nat
  BY <1>1
<1> QED BY <1>1, <1>2, <1>3, <1>4

-------------------------------------------------------------------------------
(* What all receivers expect, added up: the loops of scenario.rs. *)

\* What the sums need to know of a scenario.
Sized(s) ==
    /\ s.rooms \in Nat /\ s.peers \in Nat \ {0}
    /\ s.audio \in 0 .. s.peers /\ s.video \in 0 .. s.peers
    /\ AudioPackets(s) \in Nat /\ LayerPackets(s, "low") \in Int /\ LayerPackets(s, "high") \in Int

\* What the sums over a plan need to know of the sizes of a scenario.
LEMMA AcceptedIsSized ==
    ASSUME NEW s, Constructed(s), Accepted(s)
    PROVE  Sized(s)
<1>1. Bounded(s)
  BY AcceptedIsBounded
<1>2. s.work \in Nat
  BY DEF Constructed
<1>3. AudioPackets(s) \in Nat /\ Frames(s) \in Nat
  BY <1>2, WorkloadAssumption DEF AudioPackets, Frames
<1>4. Keyframes(s) \in Int
  BY <1>3, WorkloadAssumption DEF Keyframes
<1>5. ASSUME NEW layer \in Layers PROVE LayerPackets(s, layer) \in Int
  <2>1. Fragments[layer]["delta"] \in Int /\ Fragments[layer]["key"] \in Int
    BY WorkloadAssumption
  <2> QED
    BY <1>3, <1>4, <2>1 DEF LayerPackets
<1> QED
  BY <1>1, <1>3, <1>5 DEF Sized, Bounded, Layers

\* The places whose peers have an index below m.
First(s, m) == {p \in Places(s) : p[2] < m}

\* The peers of all rooms, and the first few of each room, are finitely many.
LEMMA PlacesAreFinite ==
    ASSUME NEW s, Sized(s), NEW m \in 0 .. s.peers
    PROVE  /\ IsFiniteSet(Places(s)) /\ Cardinality(Places(s)) = s.rooms * s.peers
           /\ First(s, m) \in SUBSET Places(s) /\ Cardinality(First(s, m)) = s.rooms * m
<1> DEFINE Rooms == 0 .. s.rooms - 1
<1>0. s.rooms \in Nat /\ s.peers \in Nat
  BY DEF Sized
<1>1. IsFiniteSet(Rooms) /\ Cardinality(Rooms) = s.rooms
  <2>1. /\ IsFiniteSet(Rooms)
        /\ Cardinality(Rooms) = IF 0 > s.rooms - 1 THEN 0 ELSE s.rooms - 1 - 0 + 1
    BY <1>0, 0 \in Int, s.rooms - 1 \in Int, FS_Interval
  <2> QED
    BY <1>0, <2>1
<1>2. ASSUME NEW n \in Nat
      PROVE  /\ IsFiniteSet(Rooms \X (0 .. n - 1))
             /\ Cardinality(Rooms \X (0 .. n - 1)) = s.rooms * n
  <2> DEFINE Line == 0 .. n - 1
  <2>1. IsFiniteSet(Line) /\ Cardinality(Line) = n
    BY FS_Interval
  <2> HIDE DEF Rooms, Line
  <2>2. /\ IsFiniteSet(Rooms \X Line)
        /\ Cardinality(Rooms \X Line) = Cardinality(Rooms) * Cardinality(Line)
    BY <1>1, <2>1, FS_Product, Zenon
  <2>3. IsFiniteSet(Rooms \X Line) /\ Cardinality(Rooms \X Line) = s.rooms * n
    BY <1>1, <2>1, <2>2
  <2> QED
    BY <2>3 DEF Line
<1>3. First(s, m) = Rooms \X (0 .. m - 1) /\ First(s, m) \in SUBSET Places(s)
  BY <1>0 DEF First, Places
<1>4. Places(s) = Rooms \X (0 .. s.peers - 1) /\ m \in Nat
  BY <1>0 DEF Places
<1> HIDE DEF Rooms
<1> QED
  BY <1>0, <1>2, <1>3, <1>4

\* Each of m publishers of a room reaches all peers of the room but itself.
LEMMA RoutesOverPlaces ==
    ASSUME NEW s, Sized(s), NEW m \in 0 .. s.peers, NEW f,
           \A p \in Places(s) : f[p] = IF p[2] < m THEN m - 1 ELSE m
    PROVE  SumFunctionOnSet(f, Places(s)) = s.rooms * m * (s.peers - 1)
<1> DEFINE R == s.rooms
           n == s.peers
<1>0. R \in Nat /\ n \in Nat /\ m \in Nat
  BY DEF Sized
<1>1. \A p \in First(s, m) : f[p] = m - 1
  BY DEF First
<1>2. \A p \in Places(s) \ First(s, m) : f[p] = m
  BY DEF First
<1>3. /\ IsFiniteSet(Places(s)) /\ Cardinality(Places(s)) = R * n
      /\ First(s, m) \in SUBSET Places(s) /\ Cardinality(First(s, m)) = R * m
  BY PlacesAreFinite
<1>5. m - 1 \in Int /\ m \in Int
  BY <1>0
<1> HIDE DEF R, n
<1>6. SumFunctionOnSet(f, Places(s)) =
          (m - 1) * Cardinality(First(s, m)) + m * (Cardinality(Places(s)) - Cardinality(First(s, m)))
  BY <1>1, <1>2, <1>3, <1>5, SumOfTwoValues, Zenon
<1>7. SumFunctionOnSet(f, Places(s)) = (m - 1) * (R * m) + m * (R * n - R * m)
  BY <1>3, <1>6
<1>4. (m - 1) * (R * m) + m * (R * n - R * m) = R * m * (n - 1)
  BY <1>0
<1> QED
  BY <1>7, <1>4 DEF R, n

\* All numbers below m but one.
LEMMA AllButOne ==
    ASSUME NEW m \in Nat, NEW j \in Nat
    PROVE  /\ IsFiniteSet((0 .. m - 1) \ {j})
           /\ Cardinality((0 .. m - 1) \ {j}) = IF j < m THEN m - 1 ELSE m
<1> DEFINE I == 0 .. m - 1
<1>1. IsFiniteSet(I) /\ Cardinality(I) = m /\ (j \in I <=> j < m)
  BY FS_Interval
<1> HIDE DEF I
<1>2. IsFiniteSet(I \ {j}) /\ Cardinality(I \ {j}) = IF j \in I THEN m - 1 ELSE m
  BY <1>1, FS_RemoveElement
<1> QED
  BY <1>1, <1>2 DEF I

\* A place, taken apart.
LEMMA PlaceFacts ==
    ASSUME NEW s, Sized(s), NEW p \in Places(s)
    PROVE  p[1] \in Nat /\ p[2] \in 0 .. s.peers - 1 /\ p[2] \in Nat /\ p[1] * s.peers \in Nat
<1>1. p[1] \in Nat /\ p[2] \in 0 .. s.peers - 1 /\ s.peers \in Nat
  BY DEF Places, Sized
<1> QED
  BY <1>1

\* What a peer expects of audio: a stream of every publisher but itself.
LEMMA AudioAtPlace ==
    ASSUME NEW s, Sized(s), NEW p \in Places(s)
    PROVE  LET streams == ExpectedAudio(s, p[1], p[2])
           IN  /\ IsFiniteSet(streams)
               /\ Cardinality(streams) = IF p[2] < s.audio THEN s.audio - 1 ELSE s.audio
               /\ \A e \in streams : e.kind = "audio" /\ e.packets = AudioPackets(s)
<1> DEFINE I == (0 .. s.audio - 1) \ {p[2]}
           f == [i \in I |-> AudioStream(s, p[1], i)]
<1>1. p[1] \in Nat /\ p[2] \in Nat /\ p[1] * s.peers \in Nat /\ s.audio \in Nat
  BY PlaceFacts DEF Sized
<1>2. IsFiniteSet(I) /\ Cardinality(I) = IF p[2] < s.audio THEN s.audio - 1 ELSE s.audio
  BY <1>1, AllButOne
<1>3. ASSUME NEW i \in I, NEW j \in I, f[i] = f[j] PROVE i = j
  <2>1. f[i].source = p[1] * s.peers + i /\ f[j].source = p[1] * s.peers + j
    BY DEF AudioStream, SourceId
  <2>2. i \in Nat /\ j \in Nat
    BY <1>1
  <2> HIDE DEF f, I
  <2> QED
    BY <1>1, <1>3, <2>1, <2>2
<1>4. {f[i] : i \in I} = ExpectedAudio(s, p[1], p[2])
  BY DEF ExpectedAudio
<1>5. f = [i \in I |-> f[i]]
  OBVIOUS
<1>6. \A e \in ExpectedAudio(s, p[1], p[2]) : e.kind = "audio" /\ e.packets = AudioPackets(s)
  BY DEF ExpectedAudio, AudioStream
<1> HIDE DEF f, I
<1> QED
  BY <1>2, <1>3, <1>4, <1>5, <1>6, ImageSize

\* What a peer expects of video: one layer of every publisher but itself.
LEMMA VideoAtPlace ==
    ASSUME NEW s, Sized(s), NEW p \in Places(s)
    PROVE  LET streams == ExpectedVideo(s, p[1], p[2])
           IN  /\ IsFiniteSet(streams)
               /\ Cardinality(streams) = IF p[2] < s.video THEN s.video - 1 ELSE s.video
               /\ \A e \in streams : e.kind \in Layers /\ e.packets = LayerPackets(s, e.kind)
<1> DEFINE I == (0 .. s.video - 1) \ {p[2]}
           f == [i \in I |-> VideoStream(s, p[1], p[2], i)]
<1>1. p[1] \in Nat /\ p[2] \in Nat /\ p[1] * s.peers \in Nat /\ s.video \in Nat
  BY PlaceFacts DEF Sized
<1>2. IsFiniteSet(I) /\ Cardinality(I) = IF p[2] < s.video THEN s.video - 1 ELSE s.video
  BY <1>1, AllButOne
<1>3. ASSUME NEW i \in I, NEW j \in I, f[i] = f[j] PROVE i = j
  <2>1. f[i].source = p[1] * s.peers + i /\ f[j].source = p[1] * s.peers + j
    BY DEF VideoStream, SourceId
  <2>2. i \in Nat /\ j \in Nat
    BY <1>1
  <2> HIDE DEF f, I
  <2> QED
    BY <1>1, <1>3, <2>1, <2>2
<1>4. {f[i] : i \in I} = ExpectedVideo(s, p[1], p[2])
  BY DEF ExpectedVideo
<1>5. f = [i \in I |-> f[i]]
  OBVIOUS
<1>6. \A e \in ExpectedVideo(s, p[1], p[2]) : e.kind \in Layers /\ e.packets = LayerPackets(s, e.kind)
  BY DEF ExpectedVideo, VideoStream, Layers
<1> HIDE DEF f, I
<1> QED
  BY <1>2, <1>3, <1>4, <1>5, <1>6, ImageSize

\* The streams of a kind are of one number of packets.
Packets(s, kind) == IF kind = "audio" THEN AudioPackets(s) ELSE LayerPackets(s, kind)

\* Who has a camera to feature: not the lone publisher, and nobody where none publishes.
LEMMA WhoFeatures ==
    ASSUME NEW peer \in Nat, NEW publishers \in Nat
    PROVE  IF publishers = 0 \/ (publishers = 1 /\ peer = 0)
           THEN Featured(peer, publishers) = NoFeatured
           ELSE Featured(peer, publishers) \in (0 .. publishers - 1) \ {peer}
<1>1. CASE publishers = 0 \/ (publishers = 1 /\ peer = 0)
  <2>1. (0 .. publishers - 1) \ {peer} = {}
    BY <1>1
  <2> QED
    BY <1>1, <2>1, FeaturedIsRemote
<1>2. CASE publishers = 1 /\ peer # 0
  <2>1. (0 .. publishers - 1) \ {peer} # {}
    BY <1>2, 0 \in (0 .. publishers - 1) \ {peer}
  <2>2. Featured(peer, publishers) \in (0 .. publishers - 1) \ {peer}
    BY <2>1, FeaturedIsRemote, Zenon
  <2> QED
    BY <1>2, <2>2
<1>3. CASE publishers > 1
  <2>1. 0 \in (0 .. publishers - 1) \ {peer} \/ 1 \in (0 .. publishers - 1) \ {peer}
    BY <1>3
  <2>2. (0 .. publishers - 1) \ {peer} # {}
    BY <2>1, Zenon
  <2>3. Featured(peer, publishers) \in (0 .. publishers - 1) \ {peer}
    BY <2>2, FeaturedIsRemote, Zenon
  <2> QED
    BY <1>3, <2>3
<1> QED
  BY <1>1, <1>2, <1>3

\* How many streams of a kind one receiver expects.
LEMMA ExpectedAtPlace ==
    ASSUME NEW s, Sized(s), NEW p \in Places(s)
    PROVE  /\ IsFiniteSet(Expected(s, p[1], p[2]))
           /\ Cardinality(Expected(s, p[1], p[2])) =
                  Cardinality(ExpectedAudio(s, p[1], p[2])) + Cardinality(ExpectedVideo(s, p[1], p[2]))
           /\ ExpectedAt(s, p, "audio") = ExpectedAudio(s, p[1], p[2])
           /\ Cardinality(ExpectedAt(s, p, "high")) =
                  IF s.video = 0 \/ (s.video = 1 /\ p[2] = 0) THEN 0 ELSE 1
           /\ Cardinality(ExpectedAt(s, p, "low")) + Cardinality(ExpectedAt(s, p, "high")) =
                  Cardinality(ExpectedVideo(s, p[1], p[2]))
<1> DEFINE A == ExpectedAudio(s, p[1], p[2])
           V == ExpectedVideo(s, p[1], p[2])
           H == ExpectedAt(s, p, "high")
           L == ExpectedAt(s, p, "low")
           best == Featured(p[2], s.video)
<1>0. p[2] \in Nat /\ s.video \in Nat
  BY PlaceFacts DEF Sized
<1>1. IsFiniteSet(A) /\ \A e \in A : e.kind = "audio"
  BY AudioAtPlace
<1>2. IsFiniteSet(V) /\ \A e \in V : e.kind \in Layers
  BY VideoAtPlace
<1>3. Expected(s, p[1], p[2]) = A \union V /\ A \intersect V = {}
  BY <1>1, <1>2 DEF Expected, Layers
<1>4. ExpectedAt(s, p, "audio") = A
  BY <1>1, <1>2, <1>3 DEF ExpectedAt, Layers
<1>5. H = {e \in V : e.kind = "high"} /\ L = {e \in V : e.kind = "low"}
  BY <1>1, <1>3 DEF ExpectedAt
<1>6. Cardinality(H) = IF s.video = 0 \/ (s.video = 1 /\ p[2] = 0) THEN 0 ELSE 1
  <2>1. H = {VideoStream(s, p[1], p[2], i) : i \in {j \in (0 .. s.video - 1) \ {p[2]} : best = j}}
    BY <1>5 DEF ExpectedVideo, VideoStream
  <2>2. CASE s.video = 0 \/ (s.video = 1 /\ p[2] = 0)
    <3>1. {j \in (0 .. s.video - 1) \ {p[2]} : best = j} = {}
      BY <1>0, <2>2
    <3>2. H = {}
      BY <2>1, <3>1
    <3> QED
      BY <2>2, <3>2, FS_EmptySet
  <2>3. CASE ~(s.video = 0 \/ (s.video = 1 /\ p[2] = 0))
    <3>1. best \in (0 .. s.video - 1) \ {p[2]}
      BY <1>0, <2>3, WhoFeatures
    <3>2. {j \in (0 .. s.video - 1) \ {p[2]} : best = j} = {best}
      BY <3>1
    <3>3. H = {VideoStream(s, p[1], p[2], best)}
      BY <2>1, <3>2
    <3> QED
      BY <2>3, <3>3, FS_Singleton
  <2> QED
    BY <2>2, <2>3
<1> HIDE DEF A, V, H, L
<1>7. IsFiniteSet(A \union V) /\ Cardinality(A \union V) = Cardinality(A) + Cardinality(V)
  <2>1. Cardinality(A \intersect V) = 0 /\ Cardinality(A) \in Nat /\ Cardinality(V) \in Nat
    BY <1>1, <1>2, <1>3, FS_EmptySet, FS_CardinalityType
  <2>2. /\ IsFiniteSet(A \union V)
        /\ Cardinality(A \union V) = Cardinality(A) + Cardinality(V) - Cardinality(A \intersect V)
    BY <1>1, <1>2, FS_Union, Zenon
  <2> QED
    BY <2>1, <2>2
<1>8. Cardinality(L) + Cardinality(H) = Cardinality(V)
  <2>1. IsFiniteSet(L) /\ IsFiniteSet(H) /\ L \intersect H = {} /\ L \union H = V
    BY <1>2, <1>5, FS_Subset DEF Layers
  <2>2. /\ Cardinality(L \intersect H) = 0
        /\ Cardinality(L) \in Nat /\ Cardinality(H) \in Nat /\ Cardinality(V) \in Nat
    BY <1>2, <2>1, FS_EmptySet, FS_CardinalityType
  <2>3. Cardinality(L \union H) = Cardinality(L) + Cardinality(H) - Cardinality(L \intersect H)
    BY <2>1, FS_Union, Zenon
  <2>4. Cardinality(V) = Cardinality(L) + Cardinality(H) - Cardinality(L \intersect H)
    BY <2>1, <2>3, Zenon
  <2> QED
    BY <2>2, <2>4
<1> QED
  BY <1>3, <1>4, <1>6, <1>7, <1>8 DEF A, V, H, L

\* The streams that one receiver expects of a kind, and their packets.
LEMMA PacketsAtPlace ==
    ASSUME NEW s, Sized(s), NEW p \in Places(s), NEW kind \in {"audio", "low", "high"}
    PROVE  /\ Cardinality(ExpectedAt(s, p, kind)) \in Nat
           /\ SumFunction([e \in ExpectedAt(s, p, kind) |-> e.packets]) =
                  Cardinality(ExpectedAt(s, p, kind)) * Packets(s, kind)
<1> DEFINE K == ExpectedAt(s, p, kind)
           f == [e \in K |-> e.packets]
           c == Packets(s, kind)
<1>1. IsFiniteSet(K)
  BY ExpectedAtPlace, FS_Subset DEF ExpectedAt
<1>2. c \in Int
  BY DEF Packets, Sized
<1>3. \A e \in K : f[e] = c
  <2> SUFFICES ASSUME NEW e \in K PROVE e.packets = c
    OBVIOUS
  <2>1. e.kind = kind /\ (e \in ExpectedAudio(s, p[1], p[2]) \/ e \in ExpectedVideo(s, p[1], p[2]))
    BY DEF ExpectedAt, Expected
  <2>2. CASE e \in ExpectedAudio(s, p[1], p[2])
    BY <2>1, <2>2, AudioAtPlace DEF Packets
  <2>3. CASE e \in ExpectedVideo(s, p[1], p[2])
    <3>1. e.kind \in Layers /\ e.packets = LayerPackets(s, e.kind)
      BY <2>3, VideoAtPlace
    <3> QED
      BY <2>1, <3>1 DEF Packets, Layers
  <2> QED
    BY <2>1, <2>2, <2>3
<1>4. SumFunction(f) = SumFunctionOnSet(f, K)
  BY DEF SumFunction
<1> HIDE DEF K, f, c
<1>5. SumFunctionOnSet(f, K) = c * Cardinality(K)
  BY <1>1, <1>2, <1>3, SumConstant
<1>6. Cardinality(K) \in Nat
  BY <1>1, FS_CardinalityType
<1>7. c * Cardinality(K) = Cardinality(K) * c
  BY <1>2, <1>6
<1>8. SumFunction(f) = Cardinality(K) * c
  BY <1>4, <1>5, <1>7
<1> QED
  BY <1>6, <1>8 DEF K, f, c

\* The streams of a kind that all receivers expect.
CountAt(s, kind) == [p \in Places(s) |-> Cardinality(ExpectedAt(s, p, kind))]
Count(s, kind) == SumFunctionOnSet(CountAt(s, kind), Places(s))

\* All streams of audio are the routes of the plan.
LEMMA AudioCount ==
    ASSUME NEW s, Sized(s)
    PROVE  Count(s, "audio") = AudioRoutes(s)
<1>1. ASSUME NEW p \in Places(s)
      PROVE  CountAt(s, "audio")[p] = IF p[2] < s.audio THEN s.audio - 1 ELSE s.audio
  BY ExpectedAtPlace, AudioAtPlace DEF CountAt
<1>2. s.audio \in 0 .. s.peers
  BY DEF Sized
<1>3. Count(s, "audio") = s.rooms * s.audio * (s.peers - 1)
  BY <1>1, <1>2, RoutesOverPlaces DEF Count
<1> QED
  BY <1>3 DEF AudioRoutes

\* The cameras that all peers but the lone publisher of a room feature.
LEMMA HighCount ==
    ASSUME NEW s, Sized(s)
    PROVE  Count(s, "high") = HighRoutes(s)
<1> DEFINE f == CountAt(s, "high")
           skipped == IF s.video = 0 THEN s.peers ELSE IF s.video = 1 THEN 1 ELSE 0
           R == s.rooms
           n == s.peers
<1>0. R \in Nat /\ n \in Nat \ {0} /\ s.video \in Nat
  BY DEF Sized
<1>1. skipped \in 0 .. n /\ skipped \in Nat
  BY <1>0
<1>2. ASSUME NEW p \in Places(s)
      PROVE  f[p] = IF p[2] < skipped THEN 0 ELSE 1
  <2>1. p[2] \in Nat /\ p[2] < n
    <3>1. p[2] \in 0 .. s.peers - 1
      BY PlaceFacts
    <3> QED
      BY <1>0, <3>1
  <2>2. f[p] = IF s.video = 0 \/ (s.video = 1 /\ p[2] = 0) THEN 0 ELSE 1
    BY ExpectedAtPlace DEF CountAt
  <2> QED
    BY <1>0, <2>1, <2>2
<1>3. /\ IsFiniteSet(Places(s)) /\ Cardinality(Places(s)) = R * n
      /\ First(s, skipped) \in SUBSET Places(s) /\ Cardinality(First(s, skipped)) = R * skipped
  BY <1>1, PlacesAreFinite
<1>4. \A p \in First(s, skipped) : f[p] = 0
  BY <1>2 DEF First
<1>5. \A p \in Places(s) \ First(s, skipped) : f[p] = 1
  BY <1>2 DEF First
<1>6. HighRoutes(s) = R * (n - skipped)
  <2>1. CASE s.video = 0
    <3>1. R * (n - n) = 0
      BY <1>0
    <3> QED
      BY <2>1, <3>1 DEF HighRoutes
  <2>2. CASE s.video = 1
    BY <2>2 DEF HighRoutes
  <2>3. CASE s.video \notin {0, 1}
    <3>1. n - 0 = n
      BY <1>0
    <3> QED
      BY <2>3, <3>1 DEF HighRoutes
  <2> QED
    BY <2>1, <2>2, <2>3
<1> HIDE DEF f, skipped, R, n
<1>7. SumFunctionOnSet(f, Places(s)) =
          0 * Cardinality(First(s, skipped))
              + 1 * (Cardinality(Places(s)) - Cardinality(First(s, skipped)))
  BY <1>3, <1>4, <1>5, 0 \in Int, 1 \in Int, SumOfTwoValues, Zenon
<1>8. R * n \in Nat /\ R * skipped \in Nat /\ R * (n - skipped) = R * n - R * skipped
  BY <1>0, <1>1
<1>9. SumFunctionOnSet(f, Places(s)) = R * n - R * skipped
  BY <1>3, <1>7, <1>8
<1> QED
  BY <1>6, <1>8, <1>9 DEF Count, f

\* All other routes of video are of the low layer.
LEMMA LowCount ==
    ASSUME NEW s, Sized(s)
    PROVE  Count(s, "low") \in Int /\ Count(s, "low") + Count(s, "high") = VideoRoutes(s)
<1> DEFINE f == CountAt(s, "low")
           g == CountAt(s, "high")
           h == [p \in Places(s) |-> Cardinality(ExpectedVideo(s, p[1], p[2]))]
<1>1. ASSUME NEW p \in Places(s)
      PROVE  f[p] \in Int /\ g[p] \in Int /\ h[p] = f[p] + g[p]
  <2>1. /\ Cardinality(ExpectedAt(s, p, "low")) \in Nat
        /\ Cardinality(ExpectedAt(s, p, "high")) \in Nat
    BY PacketsAtPlace
  <2>2. Cardinality(ExpectedAt(s, p, "low")) + Cardinality(ExpectedAt(s, p, "high")) =
            Cardinality(ExpectedVideo(s, p[1], p[2]))
    BY ExpectedAtPlace
  <2> QED
    BY <2>1, <2>2 DEF CountAt
<1>2. ASSUME NEW p \in Places(s)
      PROVE  h[p] = IF p[2] < s.video THEN s.video - 1 ELSE s.video
  BY VideoAtPlace
<1>3. IsFiniteSet(Places(s)) /\ s.video \in 0 .. s.peers
  BY PlacesAreFinite DEF Sized
<1> HIDE DEF f, g, h
<1>4. SumFunctionOnSet(h, Places(s)) = SumFunctionOnSet(f, Places(s)) + SumFunctionOnSet(g, Places(s))
  BY <1>1, <1>3, SumPlus
<1>5. SumFunctionOnSet(h, Places(s)) = s.rooms * s.video * (s.peers - 1)
  BY <1>2, <1>3, RoutesOverPlaces
<1>6. SumFunctionOnSet(f, Places(s)) \in Int
  BY <1>1, <1>3, SumInt
<1> QED
  BY <1>4, <1>5, <1>6 DEF Count, f, g, VideoRoutes

\* What all receivers expect of a kind is so many streams of so many packets.
LEMMA ExpectedIsCount ==
    ASSUME NEW s, Sized(s), NEW kind \in {"audio", "low", "high"}
    PROVE  ExpectedOf(s, kind) = Count(s, kind) * Packets(s, kind)
<1> DEFINE f == CountAt(s, kind)
           h == [p \in Places(s) |-> SumFunction([e \in ExpectedAt(s, p, kind) |-> e.packets])]
           c == Packets(s, kind)
<1>1. ASSUME NEW p \in Places(s)
      PROVE  f[p] \in Int /\ h[p] = f[p] * c
  <2>1. /\ Cardinality(ExpectedAt(s, p, kind)) \in Nat
        /\ SumFunction([e \in ExpectedAt(s, p, kind) |-> e.packets]) =
               Cardinality(ExpectedAt(s, p, kind)) * c
    BY PacketsAtPlace
  <2>2. f[p] = Cardinality(ExpectedAt(s, p, kind))
    BY DEF CountAt
  <2>3. h[p] = SumFunction([e \in ExpectedAt(s, p, kind) |-> e.packets])
    OBVIOUS
  <2> HIDE DEF f, h, c
  <2> QED
    BY <2>1, <2>2, <2>3
<1>2. c \in Int
  BY DEF Packets, Sized
<1>3. IsFiniteSet(Places(s)) /\ 0 \in 0 .. s.peers
  BY PlacesAreFinite DEF Sized
<1>4. ExpectedOf(s, kind) = SumFunctionOnSet(h, Places(s))
  BY DEF ExpectedOf, SumFunction
<1> HIDE DEF f, h, c
<1>5. SumFunctionOnSet(h, Places(s)) = SumFunctionOnSet(f, Places(s)) * c
  BY <1>1, <1>2, <1>3, SumTimes
<1> QED
  BY <1>4, <1>5 DEF Count, f, c

\* As many streams of all kinds as there are routes.
LEMMA ExpectedRoutesAreCounts ==
    ASSUME NEW s, Sized(s)
    PROVE  ExpectedRoutes(s) = AudioRoutes(s) + VideoRoutes(s)
<1> DEFINE f == [p \in Places(s) |-> Cardinality(ExpectedAudio(s, p[1], p[2]))]
           g == [p \in Places(s) |-> Cardinality(ExpectedVideo(s, p[1], p[2]))]
           h == [p \in Places(s) |-> Cardinality(Expected(s, p[1], p[2]))]
<1>1. ASSUME NEW p \in Places(s)
      PROVE  f[p] \in Int /\ g[p] \in Int /\ h[p] = f[p] + g[p]
  BY ExpectedAtPlace, AudioAtPlace, VideoAtPlace, FS_CardinalityType
<1>2. ASSUME NEW p \in Places(s)
      PROVE  /\ f[p] = IF p[2] < s.audio THEN s.audio - 1 ELSE s.audio
             /\ g[p] = IF p[2] < s.video THEN s.video - 1 ELSE s.video
  BY AudioAtPlace, VideoAtPlace
<1>3. IsFiniteSet(Places(s)) /\ s.audio \in 0 .. s.peers /\ s.video \in 0 .. s.peers
  BY PlacesAreFinite DEF Sized
<1>4. ExpectedRoutes(s) = SumFunctionOnSet(h, Places(s))
  BY DEF ExpectedRoutes, SumFunction
<1> HIDE DEF f, g, h
<1>5. SumFunctionOnSet(h, Places(s)) = SumFunctionOnSet(f, Places(s)) + SumFunctionOnSet(g, Places(s))
  BY <1>1, <1>3, SumPlus
<1>6. SumFunctionOnSet(f, Places(s)) = s.rooms * s.audio * (s.peers - 1)
  BY <1>2, <1>3, RoutesOverPlaces
<1>7. SumFunctionOnSet(g, Places(s)) = s.rooms * s.video * (s.peers - 1)
  BY <1>2, <1>3, RoutesOverPlaces
<1> QED
  BY <1>4, <1>5, <1>6, <1>7 DEF AudioRoutes, VideoRoutes

\* The closed formulas of model.rs are the sums of the loops of scenario.rs, for every number of
\* rooms, peers and publishers.
LEMMA SizedIsExpectation ==
    ASSUME NEW s, Sized(s)
    PROVE  /\ Routes(s) = ExpectedRoutes(s)
           /\ \A kind \in {"audio", "low", "high"} : Deliveries(s, kind) = ExpectedOf(s, kind)
<1>1. Routes(s) = ExpectedRoutes(s)
  BY ExpectedRoutesAreCounts DEF Routes
<1>2. Deliveries(s, "audio") = ExpectedOf(s, "audio")
  BY AudioCount, ExpectedIsCount DEF Deliveries, Packets
<1>3. Deliveries(s, "high") = ExpectedOf(s, "high")
  BY HighCount, ExpectedIsCount DEF Deliveries, Packets
<1>4. Deliveries(s, "low") = ExpectedOf(s, "low")
  <2>1. Count(s, "high") \in Int
    <3>1. s.rooms \in Nat /\ s.peers \in Nat
      BY DEF Sized
    <3> QED
      BY <3>1, HighCount DEF HighRoutes
  <2>2. Count(s, "low") = LowRoutes(s)
    BY <2>1, LowCount, HighCount DEF LowRoutes
  <2> QED
    BY <2>2, ExpectedIsCount DEF Deliveries, Packets
<1> QED
  BY <1>1, <1>2, <1>3, <1>4

-------------------------------------------------------------------------------
(* MediaSchedule. *)

-------------------------------------------------------------------------------
(* The invariant. *)

Media == {"audio", "video"}

\* The turns that a publisher has taken with a medium, and those that it is to take.
Taken(p, medium) == IF medium = "audio" THEN packet[p] ELSE frame[p]
Total(s, medium) == IF medium = "audio" THEN AudioPackets(s) ELSE Frames(s)

Pending(p, medium) == Publishes(spec, p, medium) /\ Taken(p, medium) < Total(spec, medium)

\* Before the measurement nothing is counted.
FreshInv ==
    \A p \in Publishers :
        phase[p] \in {"warmup", "warm"} => packet[p] = 0 /\ frame[p] = 0 /\ latest[p] = 0

\* A timeline of the measurement is as many intervals past its first emission as turns were
\* taken: the warm-up has left no trace.
TimelineInv ==
    \A p \in Publishers : \A medium \in Media :
        phase[p] \in {"measured", "done"} /\ Publishes(spec, p, medium) =>
            due[p][medium] = FirstEmission(spec, p, medium) + Taken(p, medium) * Interval(medium)

\* No turn that is left is due before the last one.
OrderInv ==
    \A p \in Publishers :
        /\ latest[p] <= TargetDuration(spec)
        /\ \A medium \in Media :
               phase[p] \in {"measured", "done"} /\ Pending(p, medium) => latest[p] <= due[p][medium]

\* The numbers of both layers are the fragments of the frames, keyframes and others.
NumberingInv ==
    \A p \in Publishers :
        /\ \A layer \in Layers :
               ordinal[p][layer] = (frame[p] - Keys(frame[p])) * Fragments[layer]["delta"]
                                       + Keys(frame[p]) * Fragments[layer]["key"]
        /\ phase[p] = "done" => \A medium \in Media : ~Pending(p, medium)

\* A publisher takes no turns with a medium that it does not publish.
IdleInv ==
    \A p \in Publishers : \A medium \in Media :
        ~Publishes(spec, p, medium) => Taken(p, medium) = 0

\* What is sent is what the publishers have numbered, all together.
Numbered(kind) == [p \in Publishers |-> IF kind = "audio" THEN packet[p] ELSE ordinal[p][kind]]
SentInv == \A kind \in Kinds : sent[kind] = SumFunctionOnSet(Numbered(kind), Publishers)

MediaInv == TypeOK /\ FreshInv /\ TimelineInv /\ OrderInv /\ NumberingInv /\ IdleInv /\ SentInv

-------------------------------------------------------------------------------
(* Legal and timelines. *)

\* What the rules for the constants say of a scenario.
LEMMA SpecFacts ==
    ASSUME NEW s \in Legal
    PROVE  /\ s.rooms \in Nat /\ s.peers \in Nat /\ s.audio \in Nat /\ s.video \in Nat
           /\ s.work \in Nat
           /\ s.audio <= s.peers /\ s.video <= s.peers
           /\ AudioPackets(s) \in Nat /\ Frames(s) \in Nat
<1>1. Constructed(s) /\ Accepted(s)
  BY CandidatesAssumption DEF Legal
<1>2. Bounded(s)
  BY <1>1, AcceptedIsBounded
<1>3. /\ s.rooms \in Nat /\ s.peers \in Nat /\ s.audio \in Nat /\ s.video \in Nat
      /\ s.work \in Nat
  BY <1>1 DEF Constructed
<1>4. AudioPackets(s) \in Nat /\ Frames(s) \in Nat
  BY <1>3, WorkloadAssumption DEF AudioPackets, Frames
<1> QED BY <1>2, <1>3, <1>4 DEF Bounded

\* A publisher is a place, and publishes what its index allows it to.
LEMMA PublisherFacts ==
    ASSUME NEW s \in Legal, NEW p \in PublishersOf(s)
    PROVE  /\ p \in Places(s) /\ p = <<p[1], p[2]>>
           /\ p[1] \in Nat /\ p[2] \in Nat /\ p[2] \in 0 .. s.peers - 1
BY SpecFacts DEF PublishersOf, Places

\* A first emission is not before the origin and not after one interval.
LEMMA FirstIsEarly ==
    ASSUME NEW s \in Legal, NEW p \in PublishersOf(s), NEW medium \in Media,
           Publishes(s, p, medium)
    PROVE  FirstEmission(s, p, medium) \in 0 .. Interval(medium)
<1> DEFINE count == IF medium = "audio" THEN s.audio ELSE s.video
<1>1. Interval(medium) \in Nat
  BY ScheduleAssumption DEF Interval
<1>2. count \in Nat \ {0} /\ p[2] \in Nat
  BY SpecFacts, PublisherFacts DEF Publishes
<1>3. Slot(p[2], count) \in 0 .. count
  BY <1>2 DEF Slot
<1>4. (Interval(medium) \div count) * Slot(p[2], count) \in 0 .. Interval(medium)
  <2> HIDE DEF count
  <2> QED BY <1>1, <1>2, <1>3, SlotsFit
<1> QED BY <1>1, <1>4 DEF FirstEmission

\* The timelines begin with natural numbers.
LEMMA FreshIsTyped ==
    ASSUME NEW s \in Legal, NEW p \in PublishersOf(s)
    PROVE  /\ Fresh(s, p) \in [Media -> Nat]
           /\ \A medium \in Media :
                  Publishes(s, p, medium) => Fresh(s, p)[medium] = FirstEmission(s, p, medium)
<1>1. ASSUME NEW medium \in Media, Publishes(s, p, medium)
      PROVE  FirstEmission(s, p, medium) \in Nat
  <2>1. Interval(medium) \in Nat
    BY ScheduleAssumption DEF Interval
  <2> QED BY <1>1, <2>1, FirstIsEarly
<1> QED BY <1>1 DEF Fresh, Media

\* A turn that is left is due within the target duration.
LEMMA WithinTarget ==
    ASSUME NEW s \in Legal, NEW p \in PublishersOf(s), NEW medium \in Media,
           Publishes(s, p, medium), NEW n \in Nat, n < Total(s, medium)
    PROVE  /\ FirstEmission(s, p, medium) + n * Interval(medium) \in Nat
           /\ FirstEmission(s, p, medium) + n * Interval(medium) <= TargetDuration(s)
<1> DEFINE I == Interval(medium)
           T == Total(s, medium)
<1>1. I \in Nat /\ T \in Nat /\ T * I \in Nat
  BY SpecFacts, ScheduleAssumption DEF Interval, Total
<1>2. FirstEmission(s, p, medium) \in 0 .. I
  BY FirstIsEarly
<1>3. I * T <= TargetDuration(s)
  <2>1. p[2] \in Nat /\ s.audio \in Nat /\ s.video \in Nat
    BY SpecFacts, PublisherFacts
  <2>2. /\ AudioInterval * AudioPackets(s) \in Nat
        /\ VideoInterval * Frames(s) \in Nat
    BY SpecFacts, ScheduleAssumption
  <2>3. CASE medium = "audio"
    <3>1. s.audio # 0
      BY <2>1, <2>3 DEF Publishes
    <3> QED BY <2>2, <2>3, <3>1 DEF TargetDuration, Interval, Total
  <2>4. CASE medium = "video"
    <3>1. s.video # 0
      BY <2>1, <2>4 DEF Publishes
    <3> QED BY <2>2, <2>4, <3>1 DEF TargetDuration, Interval, Total
  <2> QED BY <2>3, <2>4 DEF Media
<1>4. (n + 1) * I <= T * I /\ (n + 1) * I = n * I + I /\ n * I \in Nat /\ T * I = I * T
  BY <1>1
<1>5. TargetDuration(s) \in Nat
  BY SpecFacts, ScheduleAssumption DEF TargetDuration
<1> QED BY <1>1, <1>2, <1>3, <1>4, <1>5

\* The fragments of a frame.
LEMMA FrameSizes ==
    ASSUME NEW layer \in Layers, NEW f \in Nat
    PROVE  /\ FrameSize(layer, f) \in Nat
           /\ FrameSize(layer, f) = IF f % KeyframeInterval = 0
                                    THEN Fragments[layer]["key"] ELSE Fragments[layer]["delta"]
           /\ Fragments[layer]["key"] \in Nat /\ Fragments[layer]["delta"] \in Nat
BY WorkloadAssumption DEF FrameSize

\* Which turn is next: one that is left, and not due after the other medium's.
LEMMA NextTurn ==
    ASSUME NEW p
    PROVE  /\ AudioPending(p) <=> Pending(p, "audio")
           /\ VideoPending(p) <=> Pending(p, "video")
           /\ AudioTurnIsNext(p) \/ VideoTurnIsNext(p) <=> AudioPending(p) \/ VideoPending(p)
BY DEF AudioPending, VideoPending, AudioTurnIsNext, VideoTurnIsNext, Pending, Taken, Total

-------------------------------------------------------------------------------
(* The steps. *)

\* Every variable stays within its type.
LEMMA TypeStep == TypeOK /\ [MediaNext]_mediaVars => TypeOK'
<1> SUFFICES ASSUME TypeOK, [MediaNext]_mediaVars PROVE TypeOK'
  OBVIOUS
<1> USE DEF TypeOK
<1>1. spec' = spec /\ Publishers' = Publishers
  BY DEF MediaNext, Warmup, Restart, SendAudio, SendFrame, Done, mediaVars, Publishers
<1>2. /\ AudioPackets(spec) \in Nat /\ Frames(spec) \in Nat
      /\ AudioInterval \in Nat /\ VideoInterval \in Nat
      /\ WarmupPackets \in Nat /\ WarmupFrames \in Nat
  BY SpecFacts, ScheduleAssumption
<1>3. ASSUME NEW p \in Publishers, Warmup(p)
      PROVE  TypeOK'
  <2>1. WarmupPackets * AudioInterval \in Nat /\ WarmupFrames * VideoInterval \in Nat
    BY <1>2
  <2>2. due[p]["audio"] \in Nat /\ due[p]["video"] \in Nat
    OBVIOUS
  <2>3. due' \in [Publishers -> [{"audio", "video"} -> Nat]]
    BY <1>3, <2>1, <2>2 DEF Warmup
  <2> QED
    BY <1>1, <1>3, <2>3 DEF Warmup
<1>4. ASSUME NEW p \in Publishers, Restart(p)
      PROVE  TypeOK'
  <2>1. due' \in [Publishers -> [{"audio", "video"} -> Nat]]
    BY <1>4, FreshIsTyped DEF Restart, Publishers, Media
  <2> QED
    BY <1>1, <1>4, <2>1 DEF Restart
<1>5. ASSUME NEW p \in Publishers, SendAudio(p)
      PROVE  TypeOK'
  <2>1. packet[p] + 1 \in 0 .. AudioPackets(spec)
    BY <1>2, <1>5 DEF SendAudio, AudioTurnIsNext, AudioPending
  <2>2. due' \in [Publishers -> [{"audio", "video"} -> Nat]]
    BY <1>2, <1>5 DEF SendAudio, Advance, Interval
  <2>3. packet' \in [Publishers -> 0 .. AudioPackets(spec)]
    BY <1>5, <2>1 DEF SendAudio
  <2>4. latest' \in [Publishers -> Nat] /\ sent' \in [Kinds -> Nat]
    BY <1>5 DEF SendAudio, Kinds
  <2> QED
    BY <1>1, <1>5, <2>2, <2>3, <2>4 DEF SendAudio
<1>6. ASSUME NEW p \in Publishers, SendFrame(p)
      PROVE  TypeOK'
  <2>0. frame[p] \in Nat
    BY <1>2
  <2>1. frame[p] + 1 \in 0 .. Frames(spec)
    BY <1>2, <1>6 DEF SendFrame, VideoTurnIsNext, VideoPending
  <2>2. due' \in [Publishers -> [{"audio", "video"} -> Nat]]
    BY <1>2, <1>6 DEF SendFrame, Advance, Interval
  <2>3. frame' \in [Publishers -> 0 .. Frames(spec)]
    BY <1>6, <2>1 DEF SendFrame
  <2>4. latest' \in [Publishers -> Nat]
    BY <1>6 DEF SendFrame
  <2>5. [layer \in Layers |-> ordinal[p][layer] + FrameSize(layer, frame[p])] \in [Layers -> Nat]
    BY <2>0, FrameSizes
  <2>6. ordinal' \in [Publishers -> [Layers -> Nat]]
    BY <1>6, <2>5 DEF SendFrame
  <2>7. sent' \in [Kinds -> Nat]
    BY <1>6, <2>0, FrameSizes DEF SendFrame, Kinds, Layers
  <2> QED
    BY <1>1, <1>6, <2>2, <2>3, <2>4, <2>6, <2>7 DEF SendFrame
<1>7. ASSUME NEW p \in Publishers, Done(p)
      PROVE  TypeOK'
  BY <1>1, <1>7 DEF Done
<1>8. CASE UNCHANGED mediaVars
  BY <1>1, <1>8 DEF mediaVars
<1> QED
  BY <1>3, <1>4, <1>5, <1>6, <1>7, <1>8 DEF MediaNext

\* Nothing is counted before Restart.
LEMMA FreshStep == TypeOK /\ FreshInv /\ [MediaNext]_mediaVars => FreshInv'
<1> SUFFICES ASSUME TypeOK, FreshInv, [MediaNext]_mediaVars PROVE FreshInv'
  OBVIOUS
<1>1. spec' = spec /\ Publishers' = Publishers
  BY DEF MediaNext, Warmup, Restart, SendAudio, SendFrame, Done, mediaVars, Publishers
<1> USE <1>1 DEF TypeOK, FreshInv
<1>2. ASSUME NEW p \in Publishers, Warmup(p) \/ Restart(p) \/ Done(p)
      PROVE  FreshInv'
  BY <1>2 DEF Warmup, Restart, Done
<1>3. ASSUME NEW p \in Publishers, SendAudio(p) \/ SendFrame(p)
      PROVE  FreshInv'
  BY <1>3 DEF SendAudio, SendFrame
<1>4. CASE UNCHANGED mediaVars
  BY <1>4 DEF mediaVars
<1> QED
  BY <1>2, <1>3, <1>4 DEF MediaNext

\* Turns advance the timeline that they are taken from, and Restart sets both back.
LEMMA TimelineStep == TypeOK /\ FreshInv /\ TimelineInv /\ [MediaNext]_mediaVars => TimelineInv'
<1> SUFFICES ASSUME TypeOK, FreshInv, TimelineInv, [MediaNext]_mediaVars,
                    NEW q \in Publishers', NEW medium \in Media,
                    phase'[q] \in {"measured", "done"}, Publishes(spec', q, medium)
             PROVE  due'[q][medium] = FirstEmission(spec', q, medium)
                                          + Taken(q, medium)' * Interval(medium)
  BY DEF TimelineInv
<1>1. spec' = spec /\ q \in Publishers
  BY DEF MediaNext, Warmup, Restart, SendAudio, SendFrame, Done, mediaVars, Publishers
<1>2. q \in PublishersOf(spec) /\ spec \in Legal
  BY <1>1 DEF TypeOK, Publishers
<1>3. /\ Interval(medium) \in Nat
      /\ FirstEmission(spec, q, medium) \in Nat
      /\ Taken(q, medium) \in Nat
      /\ AudioPackets(spec) \in Nat /\ Frames(spec) \in Nat
  <2>1. Interval(medium) \in Nat
    BY ScheduleAssumption DEF Interval
  <2>2. FirstEmission(spec, q, medium) \in Nat
    BY <1>1, <1>2, <2>1, FirstIsEarly
  <2> QED
    BY <1>1, <1>2, <2>1, <2>2, SpecFacts DEF TypeOK, Taken
<1>4. (Taken(q, medium) + 1) * Interval(medium)
          = Taken(q, medium) * Interval(medium) + Interval(medium)
  BY <1>3
<1>5. CASE /\ phase[q] \in {"measured", "done"}
           /\ due'[q] = due[q] /\ packet'[q] = packet[q] /\ frame'[q] = frame[q]
  BY <1>1, <1>5 DEF TimelineInv, Taken
<1>6. ASSUME NEW p \in Publishers, Warmup(p)
      PROVE  phase[q] \in {"measured", "done"} /\ q # p
  BY <1>1, <1>6 DEF Warmup, TypeOK
<1>7. ASSUME Restart(q)
      PROVE  due'[q][medium] = FirstEmission(spec, q, medium)
                                   + Taken(q, medium)' * Interval(medium)
  <2>1. due'[q] = Fresh(spec, q) /\ packet'[q] = 0 /\ frame'[q] = 0
    BY <1>1, <1>7 DEF Restart, TypeOK, FreshInv
  <2>2. due'[q][medium] = FirstEmission(spec, q, medium)
    BY <1>1, <1>2, <2>1, FreshIsTyped
  <2>3. Taken(q, medium)' = 0
    BY <2>1 DEF Taken
  <2> QED BY <1>3, <2>2, <2>3
<1>8. ASSUME SendAudio(q)
      PROVE  due'[q][medium] = FirstEmission(spec, q, medium)
                                   + Taken(q, medium)' * Interval(medium)
  <2>1. /\ phase[q] = "measured" /\ frame'[q] = frame[q]
        /\ packet'[q] = packet[q] + 1
        /\ due'[q] = [due[q] EXCEPT !["audio"] = @ + 1 * Interval("audio")]
    BY <1>1, <1>8 DEF SendAudio, Advance, TypeOK
  <2>2. due[q][medium] = FirstEmission(spec, q, medium) + Taken(q, medium) * Interval(medium)
    BY <1>1, <2>1 DEF TimelineInv
  <2>3. CASE medium = "audio"
    <3>1. due'[q]["audio"] = due[q]["audio"] + Interval("audio")
      BY <1>1, <1>3, <2>1, <2>3 DEF TypeOK
    <3>2. Taken(q, medium)' = Taken(q, medium) + 1
      BY <2>1, <2>3 DEF Taken
    <3> QED BY <1>3, <1>4, <2>2, <2>3, <3>1, <3>2
  <2>4. CASE medium = "video"
    BY <1>1, <2>1, <2>2, <2>4 DEF TypeOK, Taken
  <2> QED BY <2>3, <2>4 DEF Media
<1>9. ASSUME SendFrame(q)
      PROVE  due'[q][medium] = FirstEmission(spec, q, medium)
                                   + Taken(q, medium)' * Interval(medium)
  <2>1. /\ phase[q] = "measured" /\ packet'[q] = packet[q]
        /\ frame'[q] = frame[q] + 1
        /\ due'[q] = [due[q] EXCEPT !["video"] = @ + 1 * Interval("video")]
    BY <1>1, <1>9 DEF SendFrame, Advance, TypeOK
  <2>2. due[q][medium] = FirstEmission(spec, q, medium) + Taken(q, medium) * Interval(medium)
    BY <1>1, <2>1 DEF TimelineInv
  <2>3. CASE medium = "video"
    <3>1. due'[q]["video"] = due[q]["video"] + Interval("video")
      BY <1>1, <1>3, <2>1, <2>3 DEF TypeOK
    <3>2. Taken(q, medium)' = Taken(q, medium) + 1
      BY <2>1, <2>3 DEF Taken
    <3> QED BY <1>3, <1>4, <2>2, <2>3, <3>1, <3>2
  <2>4. CASE medium = "audio"
    BY <1>1, <2>1, <2>2, <2>4 DEF TypeOK, Taken
  <2> QED BY <2>3, <2>4 DEF Media
<1>10. ASSUME NEW p \in Publishers, Warmup(p) \/ Restart(p) \/ SendAudio(p) \/ SendFrame(p), p # q
      PROVE  /\ phase[q] \in {"measured", "done"}
             /\ due'[q] = due[q] /\ packet'[q] = packet[q] /\ frame'[q] = frame[q]
  BY <1>1, <1>10 DEF Warmup, Restart, SendAudio, SendFrame, Advance, TypeOK
<1>11. ASSUME (\E p \in Publishers : Done(p)) \/ UNCHANGED mediaVars
      PROVE  /\ phase[q] \in {"measured", "done"}
             /\ due'[q] = due[q] /\ packet'[q] = packet[q] /\ frame'[q] = frame[q]
  BY <1>1, <1>11 DEF Done, mediaVars, TypeOK
<1> QED
  BY <1>1, <1>5, <1>6, <1>7, <1>8, <1>9, <1>10, <1>11 DEF MediaNext

\* The turn that is taken is due first, so that what is left is due no earlier.
LEMMA OrderStep ==
    TypeOK /\ FreshInv /\ TimelineInv /\ OrderInv /\ TimelineInv' /\ [MediaNext]_mediaVars => OrderInv'
<1> SUFFICES ASSUME TypeOK, FreshInv, TimelineInv, OrderInv, TimelineInv', [MediaNext]_mediaVars,
                    NEW q \in Publishers'
             PROVE  /\ latest'[q] <= TargetDuration(spec')
                    /\ \A medium \in Media :
                           phase'[q] \in {"measured", "done"} /\ Pending(q, medium)' =>
                               latest'[q] <= due'[q][medium]
  BY DEF OrderInv
<1>1. spec' = spec /\ q \in Publishers
  BY DEF MediaNext, Warmup, Restart, SendAudio, SendFrame, Done, mediaVars, Publishers
<1>2. q \in PublishersOf(spec) /\ spec \in Legal
  BY <1>1 DEF TypeOK, Publishers
<1>3. /\ packet[q] \in Nat /\ frame[q] \in Nat /\ latest[q] \in Nat
      /\ due[q] \in [Media -> Nat]
      /\ AudioInterval \in Nat /\ VideoInterval \in Nat
  BY <1>1, SpecFacts, ScheduleAssumption DEF TypeOK, Media
<1>4. /\ latest[q] <= TargetDuration(spec)
      /\ \A medium \in Media :
             phase[q] \in {"measured", "done"} /\ Pending(q, medium) => latest[q] <= due[q][medium]
  BY <1>1 DEF OrderInv
<1>5. ASSUME NEW medium \in Media, phase[q] = "measured", Pending(q, medium)
      PROVE  due[q][medium] <= TargetDuration(spec)
  <2>1. due[q][medium] = FirstEmission(spec, q, medium) + Taken(q, medium) * Interval(medium)
    BY <1>1, <1>5 DEF TimelineInv, Pending
  <2>2. Taken(q, medium) \in Nat
    BY <1>3 DEF Taken
  <2> QED BY <1>2, <1>5, <2>1, <2>2, WithinTarget DEF Pending
<1>6. CASE /\ phase[q] \in {"measured", "done"} \/ phase'[q] \notin {"measured", "done"}
           /\ phase'[q] \notin {"measured", "done"} \/ due'[q] = due[q]
           /\ packet'[q] = packet[q] /\ frame'[q] = frame[q] /\ latest'[q] = latest[q]
  BY <1>1, <1>4, <1>6 DEF Pending, Taken
<1>7. ASSUME Restart(q)
      PROVE  latest'[q] = 0 /\ due'[q] = Fresh(spec, q)
  BY <1>1, <1>7 DEF Restart, TypeOK, FreshInv
<1>8. CASE Restart(q)
  <2>1. Fresh(spec, q) \in [Media -> Nat]
    BY <1>2, FreshIsTyped
  <2>2. TargetDuration(spec) \in Nat
    BY <1>2, SpecFacts, ScheduleAssumption DEF TargetDuration
  <2> QED BY <1>1, <1>7, <1>8, <2>1, <2>2
<1>9. CASE SendAudio(q)
  <2>1. /\ phase[q] = "measured" /\ frame'[q] = frame[q] /\ packet'[q] = packet[q] + 1
        /\ latest'[q] = due[q]["audio"]
        /\ due'[q] = [due[q] EXCEPT !["audio"] = @ + 1 * Interval("audio")]
    BY <1>1, <1>9 DEF SendAudio, Advance, TypeOK
  <2>2. /\ Pending(q, "audio")
        /\ Pending(q, "video") => due[q]["audio"] <= due[q]["video"]
    BY <1>9, NextTurn DEF SendAudio, AudioTurnIsNext
  <2>3. due[q]["audio"] <= TargetDuration(spec)
    BY <1>5, <2>1, <2>2 DEF Media
  <2>4. due[q]["audio"] <= due'[q]["audio"] /\ due'[q]["video"] = due[q]["video"]
    BY <1>3, <2>1 DEF Interval, Media
  <2>5. Pending(q, "video")' => Pending(q, "video")
    BY <1>1, <2>1 DEF Pending, Taken
  <2> QED BY <1>1, <2>1, <2>2, <2>3, <2>4, <2>5 DEF Media
<1>10. CASE SendFrame(q)
  <2>1. /\ phase[q] = "measured" /\ packet'[q] = packet[q] /\ frame'[q] = frame[q] + 1
        /\ latest'[q] = due[q]["video"]
        /\ due'[q] = [due[q] EXCEPT !["video"] = @ + 1 * Interval("video")]
    BY <1>1, <1>10 DEF SendFrame, Advance, TypeOK
  <2>2. /\ Pending(q, "video")
        /\ Pending(q, "audio") => due[q]["video"] <= due[q]["audio"]
    <3>1. VideoPending(q) /\ (AudioPending(q) => ~(due[q]["audio"] <= due[q]["video"]))
      BY <1>10 DEF SendFrame, VideoTurnIsNext, AudioTurnIsNext
    <3> QED BY <1>3, <3>1, NextTurn DEF Media
  <2>3. due[q]["video"] <= TargetDuration(spec)
    BY <1>5, <2>1, <2>2 DEF Media
  <2>4. due[q]["video"] <= due'[q]["video"] /\ due'[q]["audio"] = due[q]["audio"]
    BY <1>3, <2>1 DEF Interval, Media
  <2>5. Pending(q, "audio")' => Pending(q, "audio")
    BY <1>1, <2>1 DEF Pending, Taken
  <2> QED BY <1>1, <2>1, <2>2, <2>3, <2>4, <2>5 DEF Media
<1>11. CASE Warmup(q)
  <2>1. /\ phase'[q] = "warm"
        /\ packet'[q] = packet[q] /\ frame'[q] = frame[q] /\ latest'[q] = latest[q]
    BY <1>1, <1>11 DEF Warmup, TypeOK
  <2> QED BY <1>6, <2>1
<1>12. CASE \E p \in Publishers :
               Warmup(p) \/ Restart(p) \/ SendAudio(p) \/ SendFrame(p)
  <2>1. PICK p \in Publishers :
            Warmup(p) \/ Restart(p) \/ SendAudio(p) \/ SendFrame(p)
    BY <1>12
  <2>2. CASE p # q
    <3>1. /\ phase'[q] = phase[q] /\ due'[q] = due[q]
          /\ packet'[q] = packet[q] /\ frame'[q] = frame[q] /\ latest'[q] = latest[q]
      BY <1>1, <2>1, <2>2 DEF Warmup, Restart, SendAudio, SendFrame, Advance, TypeOK
    <3> QED BY <1>6, <3>1
  <2>3. CASE p = q
    BY <1>8, <1>9, <1>10, <1>11, <2>1, <2>3
  <2> QED BY <2>2, <2>3
<1>13. CASE (\E p \in Publishers : Done(p)) \/ UNCHANGED mediaVars
  <2>1. /\ phase[q] \in {"measured", "done"} \/ phase'[q] \notin {"measured", "done"}
        /\ due'[q] = due[q] /\ packet'[q] = packet[q] /\ frame'[q] = frame[q]
        /\ latest'[q] = latest[q]
    BY <1>1, <1>13 DEF Done, mediaVars, TypeOK
  <2> QED BY <1>6, <2>1
<1> QED
  BY <1>8, <1>9, <1>10, <1>11, <1>12, <1>13 DEF MediaNext

\* What a source has numbered grows by the fragments of its frames, and it is done when no turn
\* is left.
LEMMA NumberingStep == TypeOK /\ NumberingInv /\ [MediaNext]_mediaVars => NumberingInv'
<1> SUFFICES ASSUME TypeOK, NumberingInv, [MediaNext]_mediaVars, NEW q \in Publishers'
             PROVE  /\ \A layer \in Layers :
                           ordinal'[q][layer] =
                               (frame'[q] - Keys(frame'[q])) * Fragments[layer]["delta"]
                                   + Keys(frame'[q]) * Fragments[layer]["key"]
                    /\ phase'[q] = "done" => \A medium \in Media : ~Pending(q, medium)'
  BY DEF NumberingInv
<1>1. spec' = spec /\ q \in Publishers
  BY DEF MediaNext, Warmup, Restart, SendAudio, SendFrame, Done, mediaVars, Publishers
<1>2. frame[q] \in Nat
  BY <1>1, SpecFacts DEF TypeOK
<1>3. /\ \A layer \in Layers :
             ordinal[q][layer] = (frame[q] - Keys(frame[q])) * Fragments[layer]["delta"]
                                     + Keys(frame[q]) * Fragments[layer]["key"]
      /\ phase[q] = "done" => \A medium \in Media : ~Pending(q, medium)
  BY <1>1 DEF NumberingInv
<1>4. CASE /\ phase'[q] = "done" => phase[q] = "done"
           /\ packet'[q] = packet[q] /\ frame'[q] = frame[q] /\ ordinal'[q] = ordinal[q]
  BY <1>1, <1>3, <1>4 DEF Pending, Taken
<1>5. CASE SendAudio(q)
  <2>1. /\ phase'[q] = "measured" /\ frame'[q] = frame[q] /\ ordinal'[q] = ordinal[q]
    BY <1>1, <1>5 DEF SendAudio, TypeOK
  <2> QED BY <1>3, <2>1
<1>6. CASE SendFrame(q)
  <2>1. /\ phase'[q] = "measured" /\ frame'[q] = frame[q] + 1
        /\ \A layer \in Layers :
               ordinal'[q][layer] = ordinal[q][layer] + FrameSize(layer, frame[q])
    BY <1>1, <1>6 DEF SendFrame, TypeOK
  <2>2. ASSUME NEW layer \in Layers
        PROVE  ordinal'[q][layer] = (frame'[q] - Keys(frame'[q])) * Fragments[layer]["delta"]
                                        + Keys(frame'[q]) * Fragments[layer]["key"]
    <3> DEFINE f == frame[q]
               k == Keys(frame[q])
               delta == Fragments[layer]["delta"]
               key == Fragments[layer]["key"]
    <3>1. f \in Nat /\ k \in Nat /\ delta \in Nat /\ key \in Nat
      BY <1>2, KeysGrow, FrameSizes
    <3>2. ordinal'[q][layer] = (f - k) * delta + k * key + FrameSize(layer, f)
      BY <1>3, <2>1
    <3>3. CASE f % KeyframeInterval = 0
      <4>1. FrameSize(layer, f) = key /\ Keys(f + 1) = k + 1
        BY <1>2, <3>3, KeysGrow, FrameSizes
      <4>2. (f + 1) - (k + 1) = f - k /\ (k + 1) * key = k * key + key
        BY <3>1
      <4>3. (f - k) * delta \in Int /\ k * key \in Int
        BY <3>1
      <4> QED BY <2>1, <3>1, <3>2, <4>1, <4>2, <4>3
    <3>4. CASE f % KeyframeInterval # 0
      <4>1. FrameSize(layer, f) = delta /\ Keys(f + 1) = k
        BY <1>2, <3>4, KeysGrow, FrameSizes
      <4>2. ((f + 1) - k) * delta = (f - k) * delta + delta
        BY <3>1
      <4>3. (f - k) * delta \in Int /\ k * key \in Int
        BY <3>1
      <4> QED BY <2>1, <3>1, <3>2, <4>1, <4>2, <4>3
    <3> QED BY <3>3, <3>4
  <2> QED BY <2>1, <2>2
<1>7. CASE Done(q)
  <2>1. /\ packet'[q] = packet[q] /\ frame'[q] = frame[q] /\ ordinal'[q] = ordinal[q]
        /\ ~AudioPending(q) /\ ~VideoPending(q)
    BY <1>7, NextTurn DEF Done
  <2>2. \A medium \in Media : ~Pending(q, medium)'
    BY <1>1, <2>1, NextTurn DEF Pending, Taken, Media
  <2> QED BY <1>3, <2>1, <2>2
<1>8. CASE \E p \in Publishers :
              \/ Warmup(p) \/ Restart(p)
              \/ (SendAudio(p) \/ SendFrame(p) \/ Done(p)) /\ p # q
  <2>1. /\ phase'[q] = "done" => phase[q] = "done"
        /\ packet'[q] = packet[q] /\ frame'[q] = frame[q] /\ ordinal'[q] = ordinal[q]
    BY <1>1, <1>8 DEF Warmup, Restart, SendAudio, SendFrame, Done, TypeOK
  <2> QED BY <1>4, <2>1
<1>9. CASE UNCHANGED mediaVars
  BY <1>4, <1>9 DEF mediaVars
<1> QED
  BY <1>5, <1>6, <1>7, <1>8, <1>9 DEF MediaNext

\* A turn is one of a medium that is published.
LEMMA IdleStep == TypeOK /\ IdleInv /\ [MediaNext]_mediaVars => IdleInv'
<1> SUFFICES ASSUME TypeOK, IdleInv, [MediaNext]_mediaVars,
                    NEW q \in Publishers', NEW medium \in Media, ~Publishes(spec', q, medium)
             PROVE  Taken(q, medium)' = 0
  BY DEF IdleInv
<1>1. spec' = spec /\ q \in Publishers
  BY DEF MediaNext, Warmup, Restart, SendAudio, SendFrame, Done, mediaVars, Publishers
<1>2. Taken(q, medium) = 0
  BY <1>1 DEF IdleInv
<1>3. ASSUME NEW p \in Publishers, Warmup(p) \/ Restart(p) \/ Done(p)
      PROVE  packet' = packet /\ frame' = frame
  BY <1>3 DEF Warmup, Restart, Done
<1>4. ASSUME NEW p \in Publishers, SendAudio(p)
      PROVE  frame' = frame /\ (medium = "audio" => packet'[q] = packet[q])
  BY <1>1, <1>4 DEF SendAudio, AudioTurnIsNext, AudioPending, TypeOK
<1>5. ASSUME NEW p \in Publishers, SendFrame(p)
      PROVE  packet' = packet /\ (medium = "video" => frame'[q] = frame[q])
  BY <1>1, <1>5 DEF SendFrame, VideoTurnIsNext, VideoPending, TypeOK
<1>6. CASE UNCHANGED mediaVars
  BY <1>2, <1>6 DEF mediaVars, Taken
<1> QED
  BY <1>2, <1>3, <1>4, <1>5, <1>6 DEF MediaNext, Taken, Media

\* There are finitely many publishers.
LEMMA PublishersAreFinite ==
    ASSUME TypeOK
    PROVE  /\ Sized(spec) /\ Publishers \in SUBSET Places(spec) /\ IsFiniteSet(Publishers)
<1>1. Sized(spec)
  BY CandidatesAssumption, AcceptedIsSized DEF TypeOK, Legal
<1>2. 0 \in 0 .. spec.peers
  BY <1>1 DEF Sized
<1>3. IsFiniteSet(Places(spec))
  BY <1>1, <1>2, PlacesAreFinite
<1>4. Publishers \in SUBSET Places(spec)
  BY DEF Publishers, PublishersOf
<1> QED
  BY <1>1, <1>3, <1>4, FS_Subset

\* What a publisher has numbered.
LEMMA NumberedFacts ==
    ASSUME TypeOK, NEW kind \in Kinds, NEW p \in Publishers
    PROVE  /\ Numbered(kind)[p] \in Nat
           /\ Numbered(kind)[p] = IF kind = "audio" THEN packet[p] ELSE ordinal[p][kind]
<1>1. packet[p] \in Nat
  BY SpecFacts DEF TypeOK
<1>2. kind # "audio" => ordinal[p][kind] \in Nat
  BY DEF TypeOK, Kinds, Layers
<1> QED
  BY <1>1, <1>2 DEF Numbered

\* A turn adds to the sum what it numbers.
LEMMA SentStep == TypeOK /\ SentInv /\ [MediaNext]_mediaVars => SentInv'
<1> SUFFICES ASSUME TypeOK, SentInv, [MediaNext]_mediaVars, NEW kind \in Kinds
             PROVE  sent'[kind] = SumFunctionOnSet(Numbered(kind)', Publishers')
  BY DEF SentInv
<1>1. spec' = spec /\ Publishers' = Publishers
  BY DEF MediaNext, Warmup, Restart, SendAudio, SendFrame, Done, mediaVars, Publishers
<1>2. sent[kind] = SumFunctionOnSet(Numbered(kind), Publishers) /\ sent[kind] \in Nat
  BY DEF SentInv, TypeOK
<1>3. IsFiniteSet(Publishers) /\ \A p \in Publishers : Numbered(kind)[p] \in Int
  BY PublishersAreFinite, NumberedFacts
<1>4. ASSUME packet' = packet, ordinal' = ordinal, sent' = sent
      PROVE  sent'[kind] = SumFunctionOnSet(Numbered(kind)', Publishers')
  <2>1. Numbered(kind)' = Numbered(kind)
    BY <1>1, <1>4 DEF Numbered
  <2> QED
    BY <1>1, <1>2, <1>4, <2>1
<1>5. ASSUME NEW p \in Publishers, NEW n \in Nat,
             Numbered(kind)'[p] = Numbered(kind)[p] + n,
             \A q \in Publishers \ {p} : Numbered(kind)'[q] = Numbered(kind)[q],
             sent'[kind] = sent[kind] + n
      PROVE  sent'[kind] = SumFunctionOnSet(Numbered(kind)', Publishers')
  <2> DEFINE new == Numbered(kind)'
             old == Numbered(kind)
  <2>1. \A q \in Publishers \ {p} : new[q] = old[q]
    BY <1>5
  <2>2. old[p] \in Int /\ new[p] = old[p] + n /\ new[p] \in Int
    BY <1>3, <1>5
  <2> HIDE DEF new, old
  <2>3. \A q \in Publishers : old[q] \in Int
    BY <1>3 DEF old
  <2>4. SumFunctionOnSet(new, Publishers) = SumFunctionOnSet(old, Publishers) + new[p] - old[p]
    BY <1>3, <2>1, <2>2, <2>3, SumChange, Zenon
  <2>5. sent[kind] = SumFunctionOnSet(old, Publishers)
    BY <1>2 DEF old
  <2>6. sent'[kind] = SumFunctionOnSet(new, Publishers)
    BY <1>2, <1>5, <2>2, <2>4, <2>5
  <2> QED
    BY <1>1, <2>6 DEF new
<1>6. ASSUME NEW p \in Publishers, SendAudio(p)
      PROVE  sent'[kind] = SumFunctionOnSet(Numbered(kind)', Publishers')
  <2>1. /\ packet' = [packet EXCEPT ![p] = @ + 1] /\ ordinal' = ordinal
        /\ sent' = [sent EXCEPT !["audio"] = @ + 1]
    BY <1>6 DEF SendAudio
  <2>2. packet'[p] = packet[p] + 1 /\ packet[p] \in Nat /\ \A q \in Publishers \ {p} : packet'[q] = packet[q]
    BY <2>1, SpecFacts DEF TypeOK
  <2>3. CASE kind = "audio"
    <3>1. sent'[kind] = sent[kind] + 1
      BY <2>1, <2>3 DEF TypeOK
    <3>2. Numbered(kind)'[p] = Numbered(kind)[p] + 1
      BY <1>1, <2>2, <2>3 DEF Numbered
    <3>3. \A q \in Publishers \ {p} : Numbered(kind)'[q] = Numbered(kind)[q]
      BY <1>1, <2>2, <2>3 DEF Numbered
    <3> QED
      BY <1>5, <3>1, <3>2, <3>3
  <2>4. CASE kind # "audio"
    <3>1. sent'[kind] = sent[kind]
      BY <2>1, <2>4 DEF TypeOK
    <3>2. Numbered(kind)' = Numbered(kind)
      BY <1>1, <2>1, <2>4 DEF Numbered
    <3> QED
      BY <1>1, <1>2, <3>1, <3>2
  <2> QED
    BY <2>3, <2>4
<1>7. ASSUME NEW p \in Publishers, SendFrame(p)
      PROVE  sent'[kind] = SumFunctionOnSet(Numbered(kind)', Publishers')
  <2>1. /\ packet' = packet
        /\ ordinal' = [ordinal EXCEPT ![p] = [layer \in Layers |->
                                                 @[layer] + FrameSize(layer, frame[p])]]
        /\ sent' = [k \in Kinds |->
                       IF k = "audio" THEN sent[k] ELSE sent[k] + FrameSize(k, frame[p])]
    BY <1>7 DEF SendFrame
  <2>2. CASE kind = "audio"
    <3>1. sent'[kind] = sent[kind]
      BY <2>1, <2>2
    <3>2. Numbered(kind)' = Numbered(kind)
      BY <1>1, <2>1, <2>2 DEF Numbered
    <3> QED
      BY <1>1, <1>2, <3>1, <3>2
  <2>3. CASE kind # "audio"
    <3>0. kind \in Layers /\ frame[p] \in Nat
      BY <2>3, SpecFacts DEF Kinds, Layers, TypeOK
    <3>1. sent'[kind] = sent[kind] + FrameSize(kind, frame[p])
      BY <2>1, <2>3
    <3>2. ordinal'[p][kind] = ordinal[p][kind] + FrameSize(kind, frame[p])
      BY <2>1, <3>0 DEF TypeOK
    <3>3. \A q \in Publishers \ {p} : ordinal'[q] = ordinal[q]
      BY <2>1 DEF TypeOK
    <3>4. Numbered(kind)'[p] = Numbered(kind)[p] + FrameSize(kind, frame[p])
      BY <1>1, <2>3, <3>2 DEF Numbered
    <3>5. \A q \in Publishers \ {p} : Numbered(kind)'[q] = Numbered(kind)[q]
      BY <1>1, <2>3, <3>3 DEF Numbered
    <3>6. FrameSize(kind, frame[p]) \in Nat
      BY <3>0, FrameSizes
    <3> QED
      BY <1>5, <3>1, <3>4, <3>5, <3>6
  <2> QED
    BY <2>2, <2>3
<1>8. ASSUME NEW p \in Publishers, Warmup(p) \/ Restart(p) \/ Done(p)
      PROVE  sent'[kind] = SumFunctionOnSet(Numbered(kind)', Publishers')
  BY <1>4, <1>8 DEF Warmup, Restart, Done
<1>9. CASE UNCHANGED mediaVars
  BY <1>4, <1>9 DEF mediaVars
<1> QED
  BY <1>6, <1>7, <1>8, <1>9 DEF MediaNext

\* The invariant holds when no publisher has begun.
LEMMA Start == MediaInit => MediaInv
<1> SUFFICES ASSUME MediaInit PROVE MediaInv
  OBVIOUS
<1>1. spec \in Legal /\ Publishers = PublishersOf(spec)
  BY DEF MediaInit, Publishers
<1>2. AudioPackets(spec) \in Nat /\ Frames(spec) \in Nat
  BY <1>1, SpecFacts
<1>3. due \in [Publishers -> [{"audio", "video"} -> Nat]]
  BY <1>1, FreshIsTyped DEF MediaInit, Media
<1>4. TypeOK
  BY <1>1, <1>2, <1>3 DEF MediaInit, TypeOK
<1>5. TargetDuration(spec) \in Nat
  BY <1>1, SpecFacts, ScheduleAssumption DEF TargetDuration
<1>6. FreshInv /\ TimelineInv /\ OrderInv
  BY <1>1, <1>5 DEF MediaInit, FreshInv, TimelineInv, OrderInv
<1>7. NumberingInv
  BY <1>1, NoKeys, WorkloadAssumption DEF MediaInit, NumberingInv
<1>8. IdleInv
  BY <1>1 DEF MediaInit, IdleInv, Taken
<1>9. SentInv
  <2> SUFFICES ASSUME NEW kind \in Kinds
               PROVE  sent[kind] = SumFunctionOnSet(Numbered(kind), Publishers)
    BY DEF SentInv
  <2>1. \A p \in Publishers : Numbered(kind)[p] = 0
    BY <1>1 DEF MediaInit, Numbered, Kinds, Layers
  <2>2. IsFiniteSet(Publishers) /\ 0 \in Int
    BY <1>4, PublishersAreFinite
  <2>3. SumFunctionOnSet(Numbered(kind), Publishers) = 0 * Cardinality(Publishers)
    BY <2>1, <2>2, SumConstant, Zenon
  <2>4. Cardinality(Publishers) \in Nat
    BY <2>2, FS_CardinalityType
  <2> QED
    BY <2>3, <2>4 DEF MediaInit
<1> QED BY <1>4, <1>6, <1>7, <1>8, <1>9 DEF MediaInv

\* The invariant holds in every reachable state.
LEMMA Invariance == MediaSpec => []MediaInv
<1>1. MediaInv /\ [MediaNext]_mediaVars => MediaInv'
  BY TypeStep, FreshStep, TimelineStep, OrderStep, NumberingStep, IdleStep, SentStep DEF MediaInv
<1> QED
  BY Start, <1>1, PTL DEF MediaSpec

-------------------------------------------------------------------------------
(* The theorems. *)

\* Whatever the rates and intervals, a peer's audio and video turns come in the order of their
\* emission times.
THEOREM TurnsAreInOrder == MediaSpec => TurnsInOrder
<1> DEFINE Step == [\A p \in Publishers : latest'[p] >= latest[p]]_latest
<1>1. MediaInv /\ [MediaNext]_mediaVars => Step
  <2> SUFFICES ASSUME MediaInv, [MediaNext]_mediaVars, latest' # latest, NEW p \in Publishers
               PROVE  latest'[p] >= latest[p]
    OBVIOUS
  <2>1. latest[p] \in Nat
    BY DEF MediaInv, TypeOK
  <2>2. ASSUME NEW q \in Publishers, NEW medium \in Media, phase[q] = "measured",
               Pending(q, medium), latest' = [latest EXCEPT ![q] = due[q][medium]]
        PROVE  latest'[p] >= latest[p]
    <3>1. latest[q] <= due[q][medium] /\ latest[q] \in Nat /\ due[q][medium] \in Nat
      BY <2>2 DEF MediaInv, OrderInv, TypeOK, Media
    <3> QED BY <2>1, <2>2, <3>1 DEF MediaInv, TypeOK
  <2>3. ASSUME NEW q \in Publishers, SendAudio(q)
        PROVE  latest'[p] >= latest[p]
    BY <2>2, <2>3, NextTurn DEF SendAudio, AudioTurnIsNext, Media
  <2>4. ASSUME NEW q \in Publishers, SendFrame(q)
        PROVE  latest'[p] >= latest[p]
    BY <2>2, <2>4, NextTurn DEF SendFrame, VideoTurnIsNext, Media
  <2> QED
    BY <2>3, <2>4 DEF MediaNext, Warmup, Restart, Done, mediaVars
<1> QED
  BY <1>1, Invariance, PTL DEF MediaSpec, TurnsInOrder

\* Whatever the rates and intervals, no measured packet is due after target_duration.
THEOREM TurnsEndWithTarget == MediaSpec => []TurnsWithinTarget
<1>1. MediaInv => TurnsWithinTarget
  <2> SUFFICES ASSUME MediaInv, NEW p \in Publishers
               PROVE  /\ latest[p] <= TargetDuration(spec)
                      /\ phase[p] = "measured" /\ (AudioTurnIsNext(p) \/ VideoTurnIsNext(p)) =>
                             \E medium \in {"audio", "video"} :
                                 /\ Publishes(spec, p, medium)
                                 /\ due[p][medium] <= TargetDuration(spec)
    BY DEF TurnsWithinTarget
  <2>1. p \in PublishersOf(spec) /\ spec \in Legal
    BY DEF MediaInv, TypeOK, Publishers
  <2>2. packet[p] \in Nat /\ frame[p] \in Nat
    BY <2>1, SpecFacts DEF MediaInv, TypeOK
  <2>3. ASSUME NEW medium \in Media, phase[p] = "measured", Pending(p, medium)
        PROVE  Publishes(spec, p, medium) /\ due[p][medium] <= TargetDuration(spec)
    <3>1. due[p][medium] = FirstEmission(spec, p, medium) + Taken(p, medium) * Interval(medium)
      BY <2>3 DEF MediaInv, TimelineInv, Pending
    <3>2. Taken(p, medium) \in Nat
      BY <2>2 DEF Taken
    <3> QED BY <2>1, <2>3, <3>1, <3>2, WithinTarget DEF Pending
  <2> QED
    BY <2>3, NextTurn DEF MediaInv, OrderInv, Media
<1> QED
  BY <1>1, Invariance, PTL

\* Whatever the topology, every receiver expects of a source exactly what it numbers.
THEOREM SourcesMeetExpectations == MediaSpec => []NumberingIsExpected
<1>1. MediaInv => NumberingIsExpected
  <2> SUFFICES ASSUME MediaInv, NEW p \in Publishers, phase[p] = "done",
                      NEW r \in Places(spec), NEW e \in Expected(spec, r[1], r[2]),
                      e.source = SourceId(spec.peers, p[1], p[2])
               PROVE  /\ r[1] = p[1] /\ r # p
                      /\ e.packets = IF e.kind = "audio" THEN packet[p] ELSE ordinal[p][e.kind]
    BY DEF NumberingIsExpected
  <2>1. p \in PublishersOf(spec) /\ spec \in Legal
    BY DEF MediaInv, TypeOK, Publishers
  <2>2. /\ spec.peers \in Nat /\ spec.rooms \in Nat
        /\ spec.audio \in Nat /\ spec.video \in Nat
        /\ spec.audio <= spec.peers /\ spec.video <= spec.peers
        /\ AudioPackets(spec) \in Nat /\ Frames(spec) \in Nat
    BY <2>1, SpecFacts
  <2>3. p[1] \in Nat /\ p[2] \in Nat /\ p[2] \in 0 .. spec.peers - 1
    BY <2>1, PublisherFacts
  <2>4. r[1] \in Nat /\ r[2] \in Nat
    BY <2>2 DEF Places
  <2>5. ASSUME NEW i \in 0 .. spec.peers - 1, e.source = SourceId(spec.peers, r[1], i)
        PROVE  r[1] = p[1] /\ i = p[2]
    <3>1. SourceId(spec.peers, r[1], i) = SourceId(spec.peers, p[1], p[2])
      BY <2>5
    <3>2. \A a, b \in Nat : \A j, k \in 0 .. spec.peers - 1 :
              SourceId(spec.peers, a, j) = SourceId(spec.peers, b, k) => a = b /\ j = k
      BY <2>2, SourceIdsAreDistinct
    <3> QED BY <2>3, <2>4, <3>1, <3>2
  <2>6. ~Pending(p, "audio") /\ ~Pending(p, "video")
    BY DEF MediaInv, NumberingInv, Media
  <2>7. packet[p] \in 0 .. AudioPackets(spec) /\ frame[p] \in 0 .. Frames(spec)
    BY DEF MediaInv, TypeOK
  <2>8. CASE e \in ExpectedAudio(spec, r[1], r[2])
    <3>1. PICK i \in (0 .. spec.audio - 1) \ {r[2]} : e = AudioStream(spec, r[1], i)
      BY <2>8 DEF ExpectedAudio
    <3>2. e.source = SourceId(spec.peers, r[1], i) /\ e.kind = "audio"
          /\ e.packets = AudioPackets(spec)
      BY <3>1 DEF AudioStream
    <3>3. r[1] = p[1] /\ i = p[2]
      BY <2>2, <2>5, <3>2
    <3>4. packet[p] = AudioPackets(spec)
      BY <2>2, <2>6, <2>7, <3>3 DEF Pending, Publishes, Taken, Total
    <3> QED BY <3>1, <3>2, <3>3, <3>4
  <2>9. CASE e \in ExpectedVideo(spec, r[1], r[2])
    <3>1. PICK i \in (0 .. spec.video - 1) \ {r[2]} : e = VideoStream(spec, r[1], r[2], i)
      BY <2>9 DEF ExpectedVideo
    <3>2. PICK layer \in Layers :
              /\ e.source = SourceId(spec.peers, r[1], i) /\ e.kind = layer
              /\ e.packets = LayerPackets(spec, layer)
      BY <3>1 DEF VideoStream, Layers
    <3>3. r[1] = p[1] /\ i = p[2]
      BY <2>2, <2>5, <3>2
    <3>4. frame[p] = Frames(spec)
      BY <2>2, <2>6, <2>7, <3>3 DEF Pending, Publishes, Taken, Total
    <3>5. ordinal[p][layer] = LayerPackets(spec, layer)
      BY <3>4 DEF MediaInv, NumberingInv, LayerPackets, Keyframes, Keys
    <3> QED BY <3>1, <3>2, <3>3, <3>5 DEF Layers
  <2> QED
    BY <2>8, <2>9 DEF Expected
<1> QED
  BY <1>1, Invariance, PTL

\* What one publisher has sent when it is done: all that the plan makes of it, or nothing.
LEMMA DoneHasNumbered ==
    ASSUME MediaInv, NEW p \in Publishers, phase[p] = "done", NEW kind \in Kinds
    PROVE  Numbered(kind)[p] =
               IF p[2] < IF kind = "audio" THEN spec.audio ELSE spec.video
               THEN Packets(spec, kind) ELSE 0
<1> DEFINE medium == IF kind = "audio" THEN "audio" ELSE "video"
<1>1. /\ AudioPackets(spec) \in Nat /\ Frames(spec) \in Nat
      /\ packet[p] \in 0 .. AudioPackets(spec) /\ frame[p] \in 0 .. Frames(spec)
  BY SpecFacts DEF MediaInv, TypeOK
<1>2. Taken(p, medium) = IF Publishes(spec, p, medium) THEN Total(spec, medium) ELSE 0
  <2>1. ~Pending(p, medium)
    BY DEF MediaInv, NumberingInv, Media
  <2>2. CASE Publishes(spec, p, medium)
    BY <1>1, <2>1, <2>2 DEF Pending, Taken, Total
  <2>3. CASE ~Publishes(spec, p, medium)
    BY <2>3 DEF MediaInv, IdleInv, Media
  <2> QED
    BY <2>2, <2>3
<1>3. Publishes(spec, p, medium) <=> p[2] < IF kind = "audio" THEN spec.audio ELSE spec.video
  BY DEF Publishes
<1>4. Numbered(kind)[p] = IF kind = "audio" THEN packet[p] ELSE ordinal[p][kind]
  BY NumberedFacts DEF MediaInv
<1>5. CASE kind = "audio"
  BY <1>2, <1>3, <1>4, <1>5 DEF Packets, Taken, Total
<1>6. CASE kind # "audio"
  <2>1. kind \in Layers
    BY <1>6 DEF Kinds, Layers
  <2>2. ordinal[p][kind] = (frame[p] - Keys(frame[p])) * Fragments[kind]["delta"]
                               + Keys(frame[p]) * Fragments[kind]["key"]
    BY <2>1 DEF MediaInv, NumberingInv
  <2>3. CASE Publishes(spec, p, medium)
    <3>1. frame[p] = Frames(spec)
      BY <1>2, <1>6, <2>3 DEF Taken, Total
    <3>2. ordinal[p][kind] = LayerPackets(spec, kind)
      BY <2>2, <3>1 DEF LayerPackets, Keyframes, Keys
    <3> QED
      BY <1>3, <1>4, <1>6, <2>3, <3>2 DEF Packets
  <2>4. CASE ~Publishes(spec, p, medium)
    <3>1. frame[p] = 0
      BY <1>2, <1>6, <2>4 DEF Taken
    <3>2. ordinal[p][kind] = 0
      BY <2>1, <2>2, <3>1, NoKeys, WorkloadAssumption
    <3> QED
      BY <1>3, <1>4, <1>6, <2>4, <3>2
  <2> QED
    BY <2>3, <2>4
<1> QED
  BY <1>5, <1>6

\* All publishers together have sent what the plan offers, for every number of rooms, peers and
\* publishers: media.rs and model.rs count turns, keyframes and packets alike.
THEOREM AllDoneIsOffered == MediaSpec => []OfferIsPlan
<1>1. MediaInv => OfferIsPlan
  <2> SUFFICES ASSUME MediaInv, \A p \in Publishers : phase[p] = "done", NEW kind \in Kinds
               PROVE  sent[kind] = Offered(spec, kind)
    BY DEF OfferIsPlan
  <2> DEFINE m == IF kind = "audio" THEN spec.audio ELSE spec.video
             f == Numbered(kind)
             c == Packets(spec, kind)
             P == First(spec, m)
  <2>1. Sized(spec) /\ Publishers \in SUBSET Places(spec) /\ IsFiniteSet(Publishers)
    BY PublishersAreFinite DEF MediaInv
  <2>2. m \in 0 .. spec.peers /\ c \in Int
    BY <2>1 DEF Sized, Packets, Kinds
  <2>3. P \in SUBSET Publishers
    BY DEF First, Publishers, PublishersOf, Publishes
  <2>4. Cardinality(P) = spec.rooms * m
    BY <2>1, <2>2, PlacesAreFinite
  <2>5. \A p \in Publishers : f[p] = IF p[2] < m THEN c ELSE 0
    BY DoneHasNumbered
  <2>6. sent[kind] = SumFunctionOnSet(f, Publishers)
    BY DEF MediaInv, SentInv
  <2>7. (\A p \in P : f[p] = c) /\ \A p \in Publishers \ P : f[p] = 0
    BY <2>1, <2>3, <2>5 DEF First
  <2>8. Offered(spec, kind) = spec.rooms * m * c
    BY DEF Offered, Packets
  <2> HIDE DEF m, f, c, P
  <2>9. SumFunctionOnSet(f, Publishers) =
            c * Cardinality(P) + 0 * (Cardinality(Publishers) - Cardinality(P))
    <3>1. IsFiniteSet(Publishers) /\ P \in SUBSET Publishers /\ c \in Int /\ 0 \in Int
      BY <2>1, <2>2, <2>3
    <3>2. \A p \in P : f[p] = c
      BY <2>7
    <3>3. \A p \in Publishers \ P : f[p] = 0
      BY <2>7
    <3> QED
      BY <3>1, <3>2, <3>3, SumOfTwoValues
  <2>10. Cardinality(Publishers) \in Nat /\ Cardinality(P) \in Nat
    BY <2>1, <2>3, FS_Subset, FS_CardinalityType
  <2>11. 0 * (Cardinality(Publishers) - Cardinality(P)) = 0
    BY <2>10
  <2>12. c * Cardinality(P) = Cardinality(P) * c /\ c * Cardinality(P) \in Int
    BY <2>2, <2>10
  <2> QED
    BY <2>4, <2>6, <2>8, <2>9, <2>11, <2>12
<1> QED
  BY <1>1, Invariance, PTL

-------------------------------------------------------------------------------
(* WorkloadAgreement and Comparison. *)

-------------------------------------------------------------------------------
(* StreamsAreTold. *)

\* In a scenario within the bounds no two sources share a number, and no receiver takes one
\* stream for another.
LEMMA BoundedIsTold ==
    ASSUME NEW s, Bounded(s)
    PROVE  Told(s)
<1>0. /\ s.rooms \in 1 .. 64 /\ s.peers \in 1 .. 100 /\ s.peers \in Nat
      /\ s.audio \in 0 .. s.peers /\ s.video \in 0 .. s.peers
  BY DEF Bounded
<1>1. ASSUME NEW p \in Places(s)
      PROVE  /\ p = <<p[1], p[2]>>
             /\ p[1] \in 0 .. s.rooms - 1 /\ p[2] \in 0 .. s.peers - 1 /\ p[1] \in Nat
  BY <1>0 DEF Places
<1>2. ASSUME NEW p \in Places(s), NEW q \in Places(s),
             SourceId(s.peers, p[1], p[2]) = SourceId(s.peers, q[1], q[2])
      PROVE  p = q
  <2>1. p[1] = q[1] /\ p[2] = q[2]
    BY <1>0, <1>1, <1>2, SourceIdsAreDistinct
  <2> QED BY <2>1, <1>1
<1>3. ASSUME NEW p \in Places(s)
      PROVE  WithinU16(SourceId(s.peers, p[1], p[2]))
  BY <1>0, <1>1, SourceIdsFit
<1>4. ASSUME NEW p \in Places(s), NEW e \in Expected(s, p[1], p[2])
      PROVE  \E i \in (0 .. s.peers - 1) \ {p[2]} :
                 \/ e = AudioStream(s, p[1], i)
                 \/ e = VideoStream(s, p[1], p[2], i)
  <2>1. CASE e \in ExpectedAudio(s, p[1], p[2])
    BY <1>0, <2>1 DEF ExpectedAudio
  <2>2. CASE e \in ExpectedVideo(s, p[1], p[2])
    BY <1>0, <2>2 DEF ExpectedVideo
  <2> QED BY <1>4, <2>1, <2>2 DEF Expected
<1>5. ASSUME NEW room, NEW peer, NEW i
      PROVE  /\ AudioStream(s, room, i).source = SourceId(s.peers, room, i)
             /\ AudioStream(s, room, i).kind = "audio"
             /\ VideoStream(s, room, peer, i).source = SourceId(s.peers, room, i)
             /\ VideoStream(s, room, peer, i).kind # "audio"
  BY DEF AudioStream, VideoStream
<1>6. ASSUME NEW p \in Places(s), NEW e \in Expected(s, p[1], p[2])
      PROVE  e.source # SourceId(s.peers, p[1], p[2])
  <2>1. PICK i \in (0 .. s.peers - 1) \ {p[2]} : e.source = SourceId(s.peers, p[1], i)
    BY <1>4, <1>5, <1>6
  <2> QED BY <1>0, <1>1, <2>1, SourceIdsAreDistinct
<1>7. ASSUME NEW p \in Places(s),
             NEW e \in Expected(s, p[1], p[2]), NEW f \in Expected(s, p[1], p[2]),
             e.source = f.source, (e.kind = "audio") <=> (f.kind = "audio")
      PROVE  e = f
  <2>1. PICK i \in (0 .. s.peers - 1) \ {p[2]} :
            e = AudioStream(s, p[1], i) \/ e = VideoStream(s, p[1], p[2], i)
    BY <1>4, <1>7
  <2>2. PICK j \in (0 .. s.peers - 1) \ {p[2]} :
            f = AudioStream(s, p[1], j) \/ f = VideoStream(s, p[1], p[2], j)
    BY <1>4, <1>7
  <2>3. SourceId(s.peers, p[1], i) = SourceId(s.peers, p[1], j)
    BY <1>5, <1>7, <2>1, <2>2
  <2>4. i = j
    BY <1>0, <1>1, <2>3, SourceIdsAreDistinct
  <2>5. CASE e = AudioStream(s, p[1], i)
    BY <1>5, <1>7, <2>2, <2>4, <2>5
  <2>6. CASE e = VideoStream(s, p[1], p[2], i)
    BY <1>5, <1>7, <2>2, <2>4, <2>6
  <2> QED BY <2>1, <2>5, <2>6
<1> QED BY <1>2, <1>3, <1>6, <1>7 DEF Told

IInv == spec \in Candidates /\ (stage = "accepted" => Accepted(spec))

\* A receiver can tell its streams apart in every scenario that is accepted.
THEOREM AcceptedStreamsAreTold == Spec => []StreamsAreTold
<1>1. Init => IInv
  BY DEF Init, IInv
<1>2. IInv /\ [Next]_vars => IInv'
  BY DEF IInv, Next, Refuse, Accept, vars
<1>3. IInv => StreamsAreTold
  BY CandidatesAssumption, AcceptedIsBounded, BoundedIsTold DEF IInv, StreamsAreTold
<1> QED BY <1>1, <1>2, <1>3, PTL DEF Spec

\* The plan is what the receivers expect in every scenario that is accepted: model.rs and
\* scenario.rs agree, for every number of rooms, peers and publishers that a constructor takes.
THEOREM AcceptedIsPlanned == Spec => []PlanIsExpectation
<1>1. Init => IInv
  BY DEF Init, IInv
<1>2. IInv /\ [Next]_vars => IInv'
  BY DEF IInv, Next, Refuse, Accept, vars
<1>3. IInv => PlanIsExpectation
  BY CandidatesAssumption, AcceptedIsSized, SizedIsExpectation DEF IInv, PlanIsExpectation
<1> QED BY <1>1, <1>2, <1>3, PTL DEF Spec

-------------------------------------------------------------------------------
(* KeyTellsScenariosApart. *)

\* scenario_key is one-to-one over accepted scenarios: two smoke runs of equal seconds differ in
\* what they deliver.
LEMMA KeysAreDistinct ==
    ASSUME NEW s, NEW t, Constructed(s), Constructed(t), Accepted(s), Accepted(t),
           Key(s) = Key(t)
    PROVE  s = t
<1>1. /\ s.type = t.type /\ s.rooms = t.rooms /\ s.peers = t.peers
      /\ s.audio = t.audio /\ s.video = t.video
      /\ PlannedDeliveries(s) = PlannedDeliveries(t)
      /\ s.type # "smoke" => s.work = t.work
  BY DEF Key
<1>2. s.work = t.work
  <2>1. CASE s.type = "smoke"
    <3>1. /\ s.peers \in Nat /\ s.work \in Nat /\ t.work \in Nat
          /\ s.rooms = 1 /\ s.audio = 1 /\ s.video = 0
          /\ t.rooms = 1 /\ t.audio = 1 /\ t.video = 0
      BY <1>1, <2>1 DEF Constructed
    <3>2. s.peers - 1 \in Nat /\ s.peers - 1 > 0
      BY <2>1, SMT DEF Accepted, InBounds
    <3>3. ASSUME NEW r, r.rooms = 1, r.audio = 1, r.video = 0, r.type = "smoke",
                 r.peers = s.peers, r.work \in Nat, Constructed(r)
          PROVE  PlannedDeliveries(r) = (s.peers - 1) * r.work
      <4>1. Deliveries(r, "audio") = (s.peers - 1) * r.work
        BY <3>2, <3>3 DEF Deliveries, AudioRoutes, AudioPackets
      <4>2. Deliveries(r, "high") = 0
        <5>1. LayerPackets(r, "high") \in Int
          BY <3>3, WorkloadAssumption DEF LayerPackets, Frames, Keyframes, Layers
        <5> QED BY <3>3, <5>1 DEF Deliveries, HighRoutes
      <4>3. Deliveries(r, "low") = 0
        <5>1. LayerPackets(r, "low") \in Int
          BY <3>3, WorkloadAssumption DEF LayerPackets, Frames, Keyframes, Layers
        <5>2. LowRoutes(r) = 0
          BY <3>2, <3>3 DEF LowRoutes, VideoRoutes, HighRoutes
        <5> QED BY <5>1, <5>2 DEF Deliveries
      <4>4. (s.peers - 1) * r.work \in Nat
        BY <3>2, <3>3
      <4> QED BY <4>1, <4>2, <4>3, <4>4 DEF PlannedDeliveries
    <3>4. (s.peers - 1) * s.work = (s.peers - 1) * t.work
      BY <1>1, <2>1, <3>1, <3>3
    <3>5. ASSUME NEW k \in Nat, k > 0, NEW m \in Nat, NEW n \in Nat, k * m = k * n
          PROVE  m = n
      BY <3>5
    <3> QED BY <3>1, <3>2, <3>4, <3>5
  <2> QED BY <1>1, <2>1
<1> QED
  BY <1>1, <1>2 DEF Constructed

\* The inputs of each side are results of accepted scenarios, whatever is wrong with them, and
\* so is the scenario in hand.
InputsInv ==
    /\ spec \in Candidates /\ (stage = "accepted" => Accepted(spec))
    /\ DOMAIN sides = Sides
    /\ \A side \in Sides : sides[side] \in Seq(Inputs(side))

\* What an input can be: one that could not be read, or one of a scenario.
LEMMA InputShapes ==
    ASSUME NEW side \in Sides, NEW r \in Inputs(side)
    PROVE  /\ r # None
           /\ r.loaded \in BOOLEAN
           /\ r.loaded => /\ r.scenario \in Compared
                          /\ r.exact \in BOOLEAN
                          /\ r.lag \in Nat
                          /\ r.revision \in {None, "branch", "first", "second"}
                          /\ r.telemetry \in {"complete", "gaps", "empty", "absent"}
<1>1. PICK s \in Compared : r = Proper(side, s) \/ r \in Defective(side, s)
  BY DEF Inputs
<1>2. r # None
  BY ComparisonAssumption
<1>3. Revisions[side] \in {"first", "second"}
  BY DEF Revisions, Sides
<1>4. ASSUME NEW other \in Sides
      PROVE  Revisions[other] \in {"first", "second"}
  BY DEF Revisions, Sides
<1>5. (CHOOSE other \in Sides : other # side) \in Sides
  BY DEF Sides
<1>6. CASE r = Proper(side, s)
  BY <1>2, <1>3, <1>6 DEF Proper
<1>7. CASE r \in Defective(side, s)
  <2> DEFINE proper == Proper(side, s)
  <2>1. \/ r = Unreadable \/ r = [proper EXCEPT !.contract = "other"]
        \/ r = [proper EXCEPT !.exact = FALSE]
        \/ r \in {[proper EXCEPT !.lag = lag] : lag \in {21, 35}}
        \/ r \in {[proper EXCEPT !.revision = revision] :
                      revision \in {None, "branch",
                                    Revisions[CHOOSE other \in Sides : other # side]}}
        \/ r \in {[proper EXCEPT !.telemetry = telemetry] :
                      telemetry \in {"gaps", "empty", "absent"}}
    BY <1>7 DEF Defective
  <2>2. CASE r = Unreadable
    BY <1>2, <2>2 DEF Unreadable
  <2> DEFINE Shape == /\ r.loaded \in BOOLEAN /\ r.scenario \in Compared /\ r.exact \in BOOLEAN
                      /\ r.lag \in Nat /\ r.revision \in {None, "branch", "first", "second"}
                      /\ r.telemetry \in {"complete", "gaps", "empty", "absent"}
  <2>3. CASE r = [proper EXCEPT !.contract = "other"]
    <3>1. Shape
      BY <1>3, <2>3 DEF Proper
    <3> QED BY <1>2, <3>1
  <2>4. CASE r = [proper EXCEPT !.exact = FALSE]
    <3>1. Shape
      BY <1>3, <2>4 DEF Proper
    <3> QED BY <1>2, <3>1
  <2>5. ASSUME NEW lag \in Nat, r = [proper EXCEPT !.lag = lag]
        PROVE  Shape
    BY <1>3, <2>5 DEF Proper
  <2>6. ASSUME NEW revision \in {None, "branch", "first", "second"},
               r = [proper EXCEPT !.revision = revision]
        PROVE  Shape
    BY <2>6 DEF Proper
  <2>7. ASSUME NEW telemetry \in {"gaps", "empty", "absent"},
               r = [proper EXCEPT !.telemetry = telemetry]
        PROVE  Shape
    BY <1>3, <2>7 DEF Proper
  <2> HIDE DEF Shape
  <2>8. CASE r \in {[proper EXCEPT !.lag = lag] : lag \in {21, 35}}
    <3>1. Shape
      BY <2>5, <2>8
    <3> QED BY <1>2, <3>1 DEF Shape
  <2>9. CASE r \in {[proper EXCEPT !.revision = revision] :
                       revision \in {None, "branch",
                                     Revisions[CHOOSE other \in Sides : other # side]}}
    <3>1. Shape
      BY <1>4, <1>5, <2>6, <2>9
    <3> QED BY <1>2, <3>1 DEF Shape
  <2>10. CASE r \in {[proper EXCEPT !.telemetry = telemetry] :
                        telemetry \in {"gaps", "empty", "absent"}}
    <3>1. Shape
      BY <2>7, <2>10
    <3> QED BY <1>2, <3>1 DEF Shape
  <2> QED
    BY <2>1, <2>2, <2>3, <2>4, <2>8, <2>9, <2>10
<1> QED
  BY <1>1, <1>6, <1>7

\* The invariant holds in every reachable state.
LEMMA InputsInvariance == ComparisonSpec => []InputsInv
<1>1. ComparisonInit => InputsInv
  <2> SUFFICES ASSUME ComparisonInit PROVE InputsInv
    OBVIOUS
  <2> QED
    BY DEF ComparisonInit, Init, InputsInv
<1>2. InputsInv /\ [ComparisonNext]_comparisonVars => InputsInv'
  <2> SUFFICES ASSUME InputsInv, [ComparisonNext]_comparisonVars PROVE InputsInv'
    OBVIOUS
  <2>1. CASE (Refuse \/ Accept) /\ UNCHANGED sides
    BY <2>1 DEF InputsInv, Refuse, Accept
  <2>2. ASSUME NEW side \in Sides, NEW input \in Inputs(side), Add(side, input)
        PROVE  InputsInv'
    <3>1. spec' \in Candidates /\ (stage' = "accepted" => Accepted(spec'))
      BY <2>2, InputShapes, ComparisonAssumption DEF InputsInv, Add
    <3>2. sides' = [sides EXCEPT ![side] = Append(@, input)]
      BY <2>2 DEF Add
    <3>3. Append(sides[side], input) \in Seq(Inputs(side))
      BY <2>2 DEF InputsInv
    <3> QED
      BY <3>1, <3>2, <3>3 DEF InputsInv
  <2>3. ASSUME NEW side \in Sides, AddProper(side) \/ AddDefective(side)
        PROVE  InputsInv'
    BY <2>2, <2>3 DEF AddProper, AddDefective, Inputs
  <2>4. CASE UNCHANGED comparisonVars
    BY <2>4 DEF InputsInv, comparisonVars
  <2> QED
    BY <2>1, <2>3, <2>4 DEF ComparisonNext
<1> QED
  BY <1>1, <1>2, PTL DEF ComparisonSpec

\* Results of different scenarios never have one key, so that sorting by it and dropping equal
\* neighbours keeps every scenario once.
THEOREM KeysTellApart == ComparisonSpec => []KeyTellsScenariosApart
<1>1. InputsInv => KeyTellsScenariosApart
  <2> SUFFICES ASSUME InputsInv, stage = "accepted",
                      NEW s \in Candidates, Accepted(s), Key(s) = Key(spec)
               PROVE  s = spec
    BY DEF KeyTellsScenariosApart
  <2> QED
    BY CandidatesAssumption, KeysAreDistinct DEF InputsInv
<1> QED
  BY <1>1, InputsInvariance, PTL

-------------------------------------------------------------------------------
(* DashboardsAreTables. *)

\* The results that were read are among the inputs.
LEMMA RunsAreInputs ==
    ASSUME InputsInv, NEW side \in Sides, NEW i \in Runs(side)
    PROVE  /\ i \in DOMAIN sides[side] /\ i \in Nat
           /\ sides[side][i] \in Inputs(side) /\ sides[side][i].loaded
BY DEF InputsInv, Runs

\* unique_scenario finds the result of a scenario when it is the only one.
LEMMA UniqueIsTheOne ==
    ASSUME InputsInv, NEW side \in Sides, NEW s
    PROVE  /\ \A i \in Runs(side) : RunsOf(side, s) = {i} => UniqueScenario(side, s) = sides[side][i]
           /\ UniqueScenario(side, s) # None => \E i \in Runs(side) : RunsOf(side, s) = {i}
<1>1. IsFiniteSet(RunsOf(side, s))
  <2>1. sides[side] \in Seq(Inputs(side))
    BY DEF InputsInv
  <2>2. DOMAIN sides[side] = 1 .. Len(sides[side]) /\ Len(sides[side]) \in Nat
    BY <2>1
  <2>3. IsFiniteSet(1 .. Len(sides[side]))
    BY <2>2, FS_Interval
  <2>4. RunsOf(side, s) \in SUBSET (1 .. Len(sides[side]))
    BY <2>2 DEF RunsOf, Runs
  <2> QED
    BY <2>3, <2>4, FS_Subset
<1>2. ASSUME NEW i \in Runs(side), RunsOf(side, s) = {i}
      PROVE  UniqueScenario(side, s) = sides[side][i]
  <2>1. Cardinality(RunsOf(side, s)) = 1
    BY <1>2, FS_Singleton
  <2>2. i \in Nat
    BY RunsAreInputs
  <2>3. Min({i}) = i
    BY <2>2 DEF Min
  <2> QED
    BY <1>2, <2>1, <2>3 DEF UniqueScenario
<1>3. ASSUME UniqueScenario(side, s) # None
      PROVE  \E i \in Runs(side) : RunsOf(side, s) = {i}
  <2>1. Cardinality(RunsOf(side, s)) = 1
    BY <1>3 DEF UniqueScenario
  <2>2. PICK i : RunsOf(side, s) = {i}
    BY <1>1, <2>1, FS_Singleton
  <2>3. i \in Runs(side)
    BY <2>2 DEF RunsOf
  <2> QED
    BY <2>2, <2>3
<1> QED
  BY <1>2, <1>3

\* The one result of a scenario on each side.
Single(s, i, j) ==
    /\ s \in Scenarios("baseline") /\ i \in Runs("baseline") /\ j \in Runs("comparison")
    /\ RunsOf("baseline", s) = {i} /\ RunsOf("comparison", s) = {j}

PairOf(i, j) == [baseline |-> sides["baseline"][i], comparison |-> sides["comparison"][j]]

\* pair_runs pairs them.
LEMMA PairsAreSingle ==
    ASSUME NEW pair
    PROVE  pair \in Pairs <=> \E s, i, j : Single(s, i, j) /\ pair = PairOf(i, j)
<1>1. ASSUME pair \in Pairs
      PROVE  \E s, i, j : Single(s, i, j) /\ pair = PairOf(i, j)
  BY <1>1 DEF Pairs, Single, PairOf
<1>2. ASSUME NEW s, NEW i, NEW j, Single(s, i, j), pair = PairOf(i, j)
      PROVE  pair \in Pairs
  <2>1. <<i, j>> \in Runs("baseline") \X Runs("comparison")
    BY <1>2 DEF Single
  <2> QED
    BY <1>2, <2>1 DEF Pairs, Single, PairOf
<1> QED
  BY <1>1, <1>2

\* The dashboards draw the pairs of the tables, for any number of inputs.
THEOREM DashboardsDrawTheTables == ComparisonSpec => []DashboardsAreTables
<1>1. InputsInv => DashboardsAreTables
  <2> SUFFICES ASSUME InputsInv, NEW pair
               PROVE  pair \in Dashboards <=>
                          /\ pair \in Pairs /\ WorkloadMatches(pair.baseline, pair.comparison)
                          /\ HasSamples(pair.baseline) /\ HasSamples(pair.comparison)
    BY DEF DashboardsAreTables, Matching
  <2>0. "baseline" \in Sides /\ "comparison" \in Sides
    BY DEF Sides
  <2>1. ASSUME NEW s, NEW i, NEW j, Single(s, i, j)
        PROVE  /\ UniqueScenario("baseline", s) = sides["baseline"][i]
               /\ UniqueScenario("comparison", s) = sides["comparison"][j]
               /\ sides["baseline"][i] # None /\ sides["comparison"][j] # None
    BY <2>0, <2>1, UniqueIsTheOne, RunsAreInputs, InputShapes DEF Single
  <2>2. ASSUME pair \in Dashboards
        PROVE  /\ pair \in Pairs /\ WorkloadMatches(pair.baseline, pair.comparison)
               /\ HasSamples(pair.baseline) /\ HasSamples(pair.comparison)
    <3>1. PICK s \in Scenarios("baseline") :
              /\ pair = [baseline |-> UniqueScenario("baseline", s),
                         comparison |-> UniqueScenario("comparison", s)]
              /\ UniqueScenario("baseline", s) # None /\ UniqueScenario("comparison", s) # None
              /\ WorkloadMatches(UniqueScenario("baseline", s), UniqueScenario("comparison", s))
              /\ HasSamples(UniqueScenario("baseline", s))
              /\ HasSamples(UniqueScenario("comparison", s))
      BY <2>2 DEF Dashboards
    <3>2. PICK i \in Runs("baseline") : RunsOf("baseline", s) = {i}
      BY <2>0, <3>1, UniqueIsTheOne
    <3>3. PICK j \in Runs("comparison") : RunsOf("comparison", s) = {j}
      BY <2>0, <3>1, UniqueIsTheOne
    <3>4. Single(s, i, j)
      BY <3>2, <3>3 DEF Single
    <3>5. pair = PairOf(i, j)
      BY <2>1, <3>1, <3>4 DEF PairOf
    <3> QED
      BY <3>1, <3>4, <3>5, PairsAreSingle
  <2>3. ASSUME pair \in Pairs, WorkloadMatches(pair.baseline, pair.comparison),
               HasSamples(pair.baseline), HasSamples(pair.comparison)
        PROVE  pair \in Dashboards
    <3>1. PICK s, i, j : Single(s, i, j) /\ pair = PairOf(i, j)
      BY <2>3, PairsAreSingle
    <3>2. /\ UniqueScenario("baseline", s) = pair.baseline
          /\ UniqueScenario("comparison", s) = pair.comparison
          /\ pair.baseline # None /\ pair.comparison # None
          /\ s \in Scenarios("baseline")
          /\ pair = [baseline |-> pair.baseline, comparison |-> pair.comparison]
      BY <2>1, <3>1 DEF PairOf, Single
    <3> QED
      BY <2>3, <3>2 DEF Dashboards
  <2> QED
    BY <2>2, <2>3
<1> QED
  BY <1>1, InputsInvariance, PTL

-------------------------------------------------------------------------------
(* VerdictsAreEarned. *)

Left == sides["baseline"]
Right == sides["comparison"]

AllLoaded == \A side \in Sides : Runs(side) = DOMAIN sides[side]

\* The inputs of the two sides match one to one, whatever is asked of them besides.
Matched(partner) ==
    /\ partner \in [DOMAIN Left -> DOMAIN Right]
    /\ {partner[i] : i \in DOMAIN Left} = DOMAIN Right
    /\ \A i \in DOMAIN Left : /\ Left[i].scenario = Right[partner[i]].scenario
                              /\ Left[i].contract = Right[partner[i]].contract
    /\ \A i, j \in DOMAIN Left : Left[i].scenario = Left[j].scenario => i = j

\* Then each input has its partner in a pair, and nothing is an issue.
LEMMA MatchedPairs ==
    ASSUME InputsInv, AllLoaded, Left # <<>>, NEW partner, Matched(partner)
    PROVE  /\ WorkloadsMatch
           /\ \A pair : pair \in Pairs <=> \E i \in DOMAIN Left : pair = PairOf(i, partner[i])
<1>0. "baseline" \in Sides /\ "comparison" \in Sides
  BY DEF Sides
<1>1. Runs("baseline") = DOMAIN Left /\ Runs("comparison") = DOMAIN Right
  BY <1>0 DEF AllLoaded, Left, Right
<1>2. ASSUME NEW i \in DOMAIN Left
      PROVE  Single(Left[i].scenario, i, partner[i])
  <2>1. partner[i] \in DOMAIN Right
    BY <1>2 DEF Matched
  <2>2. RunsOf("baseline", Left[i].scenario) = {i}
    BY <1>1, <1>2 DEF RunsOf, Matched, Left
  <2>3. ASSUME NEW j \in RunsOf("comparison", Left[i].scenario)
        PROVE  j = partner[i]
    <3>1. j \in DOMAIN Right /\ Right[j].scenario = Left[i].scenario
      BY <1>1, <2>3 DEF RunsOf, Right
    <3>2. PICK k \in DOMAIN Left : j = partner[k]
      BY <3>1 DEF Matched
    <3>3. Left[k].scenario = Left[i].scenario
      BY <3>1, <3>2 DEF Matched
    <3> QED
      BY <1>2, <3>2, <3>3 DEF Matched
  <2>4. partner[i] \in RunsOf("comparison", Left[i].scenario)
    BY <1>1, <1>2, <2>1 DEF RunsOf, Matched, Right
  <2>5. Left[i].scenario \in Scenarios("baseline")
    BY <1>1, <1>2 DEF Scenarios, Left
  <2> QED
    BY <1>1, <1>2, <2>1, <2>2, <2>3, <2>4, <2>5 DEF Single
<1>3. ASSUME NEW s, NEW i, NEW j, Single(s, i, j)
      PROVE  i \in DOMAIN Left /\ s = Left[i].scenario /\ j = partner[i]
  <2>1. i \in DOMAIN Left /\ Left[i].scenario = s
    BY <1>1, <1>3 DEF Single, RunsOf, Left
  <2> QED
    BY <1>2, <1>3, <2>1 DEF Single
<1>4. ASSUME NEW pair
      PROVE  pair \in Pairs <=> \E i \in DOMAIN Left : pair = PairOf(i, partner[i])
  BY <1>2, <1>3, PairsAreSingle
<1>5. ASSUME NEW i \in DOMAIN Left
      PROVE  /\ PairOf(i, partner[i]) \in Matching
             /\ PairOf(i, partner[i]).baseline.scenario = Left[i].scenario
  BY <1>4, <1>5 DEF Matching, PairOf, WorkloadMatches, Matched, Left, Right
<1>6. Pairs = Matching
  BY <1>4, <1>5 DEF Matching
<1>7. Pairs # {}
  <2>1. Left \in Seq(Inputs("baseline"))
    BY <1>0 DEF InputsInv, Left
  <2>2. 1 \in DOMAIN Left
    BY <2>1
  <2> QED
    BY <1>4, <2>2
<1>8. Issues = {}
  <2> SUFFICES ASSUME NEW s \in Scenarios("baseline") \union Scenarios("comparison")
               PROVE  \E pair \in Matching : pair.baseline.scenario = s
    BY DEF Issues
  <2>1. \E i \in DOMAIN Left : Left[i].scenario = s
    <3>1. CASE s \in Scenarios("baseline")
      BY <1>1, <3>1 DEF Scenarios, Left
    <3>2. CASE s \in Scenarios("comparison")
      <4>1. PICK j \in DOMAIN Right : Right[j].scenario = s
        BY <1>1, <3>2 DEF Scenarios, Right
      <4>2. PICK i \in DOMAIN Left : j = partner[i]
        BY <4>1 DEF Matched
      <4> QED
        BY <4>1, <4>2 DEF Matched
    <3> QED
      BY <3>1, <3>2
  <2> QED
    BY <1>5, <2>1
<1> QED
  BY <1>4, <1>6, <1>7, <1>8 DEF WorkloadsMatch

\* Workloads that match leave no input without a partner.
LEMMA PairsMatch ==
    ASSUME InputsInv, AllLoaded, WorkloadsMatch
    PROVE  \E partner : Matched(partner)
<1>0. "baseline" \in Sides /\ "comparison" \in Sides
  BY DEF Sides
<1>1. Runs("baseline") = DOMAIN Left /\ Runs("comparison") = DOMAIN Right
  BY <1>0 DEF AllLoaded, Left, Right
<1>2. ASSUME NEW s \in Scenarios("baseline") \union Scenarios("comparison")
      PROVE  \E i, j : /\ Single(s, i, j) /\ Left[i].scenario = s /\ Right[j].scenario = s
                      /\ Left[i].contract = Right[j].contract
  <2>1. PICK pair \in Matching : pair.baseline.scenario = s
    BY <1>2 DEF WorkloadsMatch, Issues
  <2>2. PICK t, i, j : Single(t, i, j) /\ pair = PairOf(i, j)
    BY <2>1, PairsAreSingle DEF Matching
  <2>3. Left[i].scenario = t /\ Right[j].scenario = t
    BY <2>2 DEF Single, RunsOf, Left, Right
  <2>4. Left[i].scenario = s /\ Left[i].contract = Right[j].contract
    BY <2>1, <2>2 DEF Matching, WorkloadMatches, PairOf, Left, Right
  <2> QED
    BY <2>2, <2>3, <2>4
<1> DEFINE Fits(i, j) == /\ Single(Left[i].scenario, i, j)
                         /\ Left[i].scenario = Right[j].scenario
                         /\ Left[i].contract = Right[j].contract
           partner == [i \in DOMAIN Left |-> CHOOSE j \in DOMAIN Right : Fits(i, j)]
<1>3. ASSUME NEW i \in DOMAIN Left
      PROVE  \E j \in DOMAIN Right : Fits(i, j)
  <2>1. Left[i].scenario \in Scenarios("baseline")
    BY <1>1, <1>3 DEF Scenarios, Left
  <2>2. PICK k, j : /\ Single(Left[i].scenario, k, j) /\ Left[k].scenario = Left[i].scenario
                    /\ Right[j].scenario = Left[i].scenario
                    /\ Left[k].contract = Right[j].contract
    BY <1>2, <2>1
  <2>3. i \in RunsOf("baseline", Left[i].scenario)
    BY <1>1, <1>3 DEF RunsOf, Left
  <2>4. k = i
    BY <2>2, <2>3 DEF Single
  <2> QED
    BY <1>1, <2>2, <2>4 DEF Single
<1>4. ASSUME NEW i \in DOMAIN Left
      PROVE  partner[i] \in DOMAIN Right /\ Fits(i, partner[i])
  BY <1>3, <1>4
<1>5. partner \in [DOMAIN Left -> DOMAIN Right]
  BY <1>4
<1> HIDE DEF partner
<1>6. ASSUME NEW j \in DOMAIN Right
      PROVE  \E i \in DOMAIN Left : partner[i] = j
  <2>1. Right[j].scenario \in Scenarios("comparison")
    BY <1>1, <1>6 DEF Scenarios, Right
  <2>2. PICK i, k : Single(Right[j].scenario, i, k) /\ Left[i].scenario = Right[j].scenario
    BY <1>2, <2>1
  <2>3. i \in DOMAIN Left
    BY <1>1, <2>2 DEF Single
  <2>4. j \in RunsOf("comparison", Right[j].scenario)
    BY <1>1, <1>6 DEF RunsOf, Right
  <2>5. RunsOf("comparison", Right[j].scenario) = {partner[i]}
    BY <1>4, <2>2, <2>3 DEF Single
  <2> QED
    BY <2>3, <2>4, <2>5
<1>7. ASSUME NEW i \in DOMAIN Left, NEW j \in DOMAIN Left, Left[i].scenario = Left[j].scenario
      PROVE  i = j
  <2>1. RunsOf("baseline", Left[i].scenario) = {i} /\ RunsOf("baseline", Left[j].scenario) = {j}
    BY <1>4, <1>7 DEF Single
  <2> QED
    BY <1>7, <2>1
<1>8. {partner[i] : i \in DOMAIN Left} = DOMAIN Right
  BY <1>4, <1>6
<1>9. /\ \A i \in DOMAIN Left : /\ Left[i].scenario = Right[partner[i]].scenario
                                /\ Left[i].contract = Right[partner[i]].contract
      /\ \A i, j \in DOMAIN Left : Left[i].scenario = Left[j].scenario => i = j
  BY <1>4, <1>7
<1>10. Matched(partner)
  BY <1>5, <1>8, <1>9 DEF Matched
<1> QED
  BY <1>10

\* A side is of a revision when all of its inputs are.
LEMMA RevisionOfAll ==
    ASSUME InputsInv, AllLoaded, NEW side \in Sides, sides[side] # <<>>,
           NEW rev \in FullRevisions
    PROVE  Revision(side) = rev <=> \A i \in DOMAIN sides[side] : sides[side][i].revision = rev
<1> DEFINE named == {sides[side][i].revision : i \in Runs(side)}
<1>1. Runs(side) = DOMAIN sides[side]
  BY DEF AllLoaded
<1>2. \E i : i \in Runs(side)
  <2>1. sides[side] \in Seq(Inputs(side))
    BY DEF InputsInv
  <2>2. 1 \in DOMAIN sides[side]
    BY <2>1
  <2> QED
    BY <1>1, <2>2
<1>3. IsFiniteSet(named)
  <2>1. named \in SUBSET ({None} \union {"branch"} \union {"first"} \union {"second"})
    BY RunsAreInputs, InputShapes
  <2>2. IsFiniteSet({None} \union {"branch"} \union {"first"} \union {"second"})
    BY FS_Singleton, FS_Union
  <2> QED
    BY <2>1, <2>2, FS_Subset
<1>4. Revision(side) = IF Cardinality(named) = 1 THEN CHOOSE revision \in named : TRUE ELSE None
  BY DEF Revision
<1>5. ASSUME Revision(side) = rev
      PROVE  named = {rev}
  <2>1. Cardinality(named) = 1
    BY <1>4, <1>5, ComparisonAssumption
  <2>2. PICK revision : named = {revision}
    BY <1>3, <2>1, FS_Singleton
  <2> QED
    BY <1>4, <1>5, <2>1, <2>2
<1>6. ASSUME named = {rev}
      PROVE  Revision(side) = rev
  <2>1. Cardinality({rev}) = 1 /\ (CHOOSE revision \in {rev} : TRUE) = rev
    BY FS_Singleton
  <2> HIDE DEF named
  <2> QED
    BY <1>4, <1>6, <2>1
<1>7. ASSUME named = {rev}
      PROVE  \A i \in DOMAIN sides[side] : sides[side][i].revision = rev
  BY <1>1, <1>7
<1>8. ASSUME \A i \in DOMAIN sides[side] : sides[side][i].revision = rev
      PROVE  named = {rev}
  BY <1>1, <1>2, <1>8
<1> QED
  BY <1>5, <1>6, <1>7, <1>8

ExactResult(result) == result.loaded /\ result.exact

GoodResult(result) ==
    /\ ExactResult(result)
    /\ result.telemetry = "complete"
    /\ result.lag <= 20 \/ (result.lag <= 34 /\ result.scenario.type = "video-gallery")

OfTwoRevisions ==
    \E first, second \in FullRevisions :
        /\ first # second
        /\ \A i \in DOMAIN Left : Left[i].revision = first
        /\ \A i \in DOMAIN Right : Right[i].revision = second

\* If each input of the left has loaded, with its partner, then all have.
LEMMA PartnersLoaded ==
    ASSUME InputsInv, NEW partner, Matched(partner),
           \A i \in DOMAIN Left : Left[i].loaded /\ Right[partner[i]].loaded
    PROVE  AllLoaded
<1>1. \A j \in DOMAIN Right : Right[j].loaded
  BY DEF Matched
<1> QED
  BY <1>1 DEF AllLoaded, Runs, Sides, Left, Right

\* The work of two sides is exact when they match one to one with valid results.
LEMMA ExactIsOneToOne ==
    ASSUME InputsInv, Left # <<>>
    PROVE  Exact <=> \E partner : /\ Matched(partner)
                                 /\ \A i \in DOMAIN Left : /\ ExactResult(Left[i])
                                                          /\ ExactResult(Right[partner[i]])
<1>1. ASSUME Exact
      PROVE  \E partner : /\ Matched(partner)
                         /\ \A i \in DOMAIN Left : /\ ExactResult(Left[i])
                                                  /\ ExactResult(Right[partner[i]])
  <2>1. AllLoaded /\ WorkloadsMatch
    BY <1>1 DEF Exact, AllLoaded
  <2>2. PICK partner : Matched(partner)
    BY <2>1, PairsMatch
  <2>3. ASSUME NEW i \in DOMAIN Left
        PROVE  ExactResult(Left[i]) /\ ExactResult(Right[partner[i]])
    <3>1. PairOf(i, partner[i]) \in Pairs
      BY <2>1, <2>2, MatchedPairs
    <3>2. Left[i].exact /\ Right[partner[i]].exact
      BY <1>1, <3>1 DEF Exact, PairOf, Left, Right
    <3>3. partner[i] \in DOMAIN Right
      BY <2>2 DEF Matched
    <3>4. Left[i].loaded /\ Right[partner[i]].loaded
      BY <2>1, <3>3 DEF AllLoaded, Runs, Sides, Left, Right
    <3> QED
      BY <3>2, <3>4 DEF ExactResult
  <2> QED
    BY <2>2, <2>3
<1>2. ASSUME NEW partner, Matched(partner),
             \A i \in DOMAIN Left : ExactResult(Left[i]) /\ ExactResult(Right[partner[i]])
      PROVE  Exact
  <2>1. AllLoaded
    BY <1>2, PartnersLoaded DEF ExactResult
  <2>2. WorkloadsMatch
    BY <1>2, <2>1, MatchedPairs
  <2>3. ASSUME NEW pair \in Pairs
        PROVE  pair.baseline.exact /\ pair.comparison.exact
    <3>1. PICK i \in DOMAIN Left : pair = PairOf(i, partner[i])
      BY <1>2, <2>1, MatchedPairs
    <3> QED
      BY <1>2, <3>1 DEF PairOf, ExactResult, Left, Right
  <2> QED
    BY <2>1, <2>2, <2>3 DEF Exact, AllLoaded
<1> QED
  BY <1>1, <1>2

\* A full revision is not None, so that a side has it only by its results.
LEMMA TwoRevisions ==
    ASSUME InputsInv, AllLoaded, Left # <<>>, Right # <<>>
    PROVE  RevisionsValid <=> OfTwoRevisions
<1>0. /\ "baseline" \in Sides /\ "comparison" \in Sides
      /\ \A side \in Sides : side = "baseline" \/ side = "comparison"
  BY DEF Sides
<1>1. ASSUME NEW first \in FullRevisions
      PROVE  /\ Revision("baseline") = first <=> \A i \in DOMAIN Left : Left[i].revision = first
             /\ Revision("comparison") = first
                    <=> \A i \in DOMAIN Right : Right[i].revision = first
  BY <1>0, RevisionOfAll DEF Left, Right
<1>2. RevisionsValid => OfTwoRevisions
  BY <1>0, <1>1 DEF RevisionsValid, OfTwoRevisions
<1>3. OfTwoRevisions => RevisionsValid
  BY <1>0, <1>1 DEF RevisionsValid, OfTwoRevisions
<1> QED
  BY <1>2, <1>3

\* pacing_valid and telemetry_complete are what is asked of a good result.
LEMMA GoodPairs ==
    ASSUME InputsInv, AllLoaded, Left # <<>>, NEW partner, Matched(partner),
           NEW i \in DOMAIN Left, ExactResult(Left[i]), ExactResult(Right[partner[i]])
    PROVE  GoodResult(Left[i]) /\ GoodResult(Right[partner[i]]) <=>
               LET pair == PairOf(i, partner[i])
               IN  /\ PacingValid(pair.baseline) /\ PacingValid(pair.comparison)
                   /\ TelemetryComplete(pair.baseline) /\ TelemetryComplete(pair.comparison)
<1>0. "baseline" \in Sides /\ "comparison" \in Sides
  BY DEF Sides
<1>1. partner[i] \in DOMAIN Right
  BY DEF Matched
<1>2. Left[i].lag \in Nat /\ Right[partner[i]].lag \in Nat
  BY <1>0, <1>1, RunsAreInputs, InputShapes DEF AllLoaded, Left, Right
<1>3. ASSUME NEW result, result.lag \in Nat, ExactResult(result)
      PROVE  GoodResult(result) <=> PacingValid(result) /\ TelemetryComplete(result)
  BY <1>3 DEF GoodResult, PacingValid, TelemetryComplete
<1>4. /\ PairOf(i, partner[i]).baseline = Left[i]
      /\ PairOf(i, partner[i]).comparison = Right[partner[i]]
  BY DEF PairOf, Left, Right
<1> QED
  BY <1>2, <1>3, <1>4

\* Performance is valid when besides all kept their pace, were sampled throughout and are of one
\* revision a side.
LEMMA PerformanceIsEarned ==
    ASSUME InputsInv, Left # <<>>, Right # <<>>
    PROVE  PerformanceValid <=>
               /\ \E partner : /\ Matched(partner)
                              /\ \A i \in DOMAIN Left : /\ GoodResult(Left[i])
                                                       /\ GoodResult(Right[partner[i]])
               /\ OfTwoRevisions
<1>1. ASSUME PerformanceValid
      PROVE  /\ \E partner : /\ Matched(partner)
                            /\ \A i \in DOMAIN Left : /\ GoodResult(Left[i])
                                                     /\ GoodResult(Right[partner[i]])
             /\ OfTwoRevisions
  <2>1. PICK partner : /\ Matched(partner)
                       /\ \A i \in DOMAIN Left : /\ ExactResult(Left[i])
                                                /\ ExactResult(Right[partner[i]])
    BY <1>1, ExactIsOneToOne DEF PerformanceValid
  <2>2. AllLoaded
    BY <1>1 DEF PerformanceValid, Exact, AllLoaded
  <2>3. ASSUME NEW i \in DOMAIN Left
        PROVE  GoodResult(Left[i]) /\ GoodResult(Right[partner[i]])
    <3>1. PairOf(i, partner[i]) \in Pairs
      BY <2>1, <2>2, MatchedPairs
    <3> QED
      BY <1>1, <2>1, <2>2, <3>1, GoodPairs DEF PerformanceValid
  <2> QED
    BY <1>1, <2>1, <2>2, <2>3, TwoRevisions DEF PerformanceValid
<1>2. ASSUME NEW partner, Matched(partner), OfTwoRevisions,
             \A i \in DOMAIN Left : GoodResult(Left[i]) /\ GoodResult(Right[partner[i]])
      PROVE  PerformanceValid
  <2>1. \A i \in DOMAIN Left : ExactResult(Left[i]) /\ ExactResult(Right[partner[i]])
    BY <1>2 DEF GoodResult
  <2>2. Exact
    BY <1>2, <2>1, ExactIsOneToOne
  <2>3. AllLoaded
    BY <2>2 DEF Exact, AllLoaded
  <2>4. RevisionsValid
    BY <1>2, <2>3, TwoRevisions
  <2>5. ASSUME NEW pair \in Pairs
        PROVE  /\ pair \in Matching
               /\ PacingValid(pair.baseline) /\ PacingValid(pair.comparison)
               /\ TelemetryComplete(pair.baseline) /\ TelemetryComplete(pair.comparison)
    <3>1. PICK i \in DOMAIN Left : pair = PairOf(i, partner[i])
      BY <1>2, <2>3, MatchedPairs
    <3>2. pair \in Matching
      BY <2>2 DEF Exact, WorkloadsMatch
    <3> QED
      BY <1>2, <2>1, <2>3, <3>1, <3>2, GoodPairs
  <2> QED
    BY <2>2, <2>4, <2>5 DEF PerformanceValid
<1> QED
  BY <1>1, <1>2

\* A verdict is given when it is earned and only then, for any number of inputs: none that is
\* missing, given twice or unreadable hides behind the others.
THEOREM VerdictsAreAlwaysEarned == ComparisonSpec => []VerdictsAreEarned
<1>1. InputsInv => VerdictsAreEarned
  <2> SUFFICES ASSUME InputsInv, Left # <<>>, Right # <<>>
               PROVE  /\ Exact <=> OneToOne(ExactResult)
                      /\ PerformanceValid <=> OneToOne(GoodResult) /\ OfTwoRevisions
    BY DEF VerdictsAreEarned, OneToOne, ExactResult, GoodResult, OfTwoRevisions, Left, Right
  <2>1. OneToOne(ExactResult) <=>
            \E partner : /\ Matched(partner)
                        /\ \A i \in DOMAIN Left : /\ ExactResult(Left[i])
                                                 /\ ExactResult(Right[partner[i]])
    BY DEF OneToOne, Matched, Left, Right
  <2>2. OneToOne(GoodResult) <=>
            \E partner : /\ Matched(partner)
                        /\ \A i \in DOMAIN Left : /\ GoodResult(Left[i])
                                                 /\ GoodResult(Right[partner[i]])
    BY DEF OneToOne, Matched, Left, Right
  <2> QED
    BY <2>1, <2>2, ExactIsOneToOne, PerformanceIsEarned
<1> QED
  BY <1>1, InputsInvariance, PTL
===============================================================================
