------------------------------- MODULE Workload -------------------------------
(***************************************************************************)
(* The fixed work of a scenario, computed twice by the code: the           *)
(* cardinalities that src/src/model.rs plans and the result is validated   *)
(* against, and the streams that src/src/client/scenario.rs tells every    *)
(* receiver to expect.  Pure operators; a scenario is the record that a    *)
(* constructor of ScenarioSpec returns.                                    *)
(*                                                                         *)
(* Integers are unbounded here.  The code multiplies u64 with overflow     *)
(* checks and its constructors bound every factor; WithinU16 is the one    *)
(* width that a legal scenario could come near to.                         *)
(***************************************************************************)
EXTENDS Integers, FiniteSets, FiniteSetsExt

CONSTANTS
    AudioRate,          \* AUDIO_PACKETS_PER_SECOND
    VideoRate,          \* VIDEO_FRAMES_PER_SECOND
    KeyframeInterval,   \* VIDEO_KEYFRAME_INTERVAL
    Fragments,          \* packets of a frame: layer -> "delta" or "key" -> number
    MaxOffered,         \* MAX_OFFERED_PACKETS
    MaxDeliveries       \* MAX_EXPECTED_DELIVERIES

Layers == {"low", "high"}

ASSUME WorkloadAssumption ==
    /\ AudioRate \in Nat \ {0} /\ VideoRate \in Nat \ {0} /\ KeyframeInterval \in Nat \ {0}
    /\ Fragments \in [Layers -> [{"delta", "key"} -> Nat \ {0}]]
    /\ MaxOffered \in Nat /\ MaxDeliveries \in Nat

-------------------------------------------------------------------------------
(* Scenarios.  "work" is a number of packets for smoke, else of seconds. *)

Scenario(type, rooms, peers, audio, video, work) ==
    [type |-> type, rooms |-> rooms, peers |-> peers, audio |-> audio, video |-> video,
     work |-> work]

Smoke(receivers, packets) == Scenario("smoke", 1, receivers + 1, 1, 0, packets)
AudioMesh(rooms, peers, seconds) == Scenario("audio-mesh", rooms, peers, peers, 0, seconds)
VideoGallery(rooms, peers, publishers, seconds) ==
    Scenario("video-gallery", rooms, peers, 0, publishers, seconds)
MixedConference(rooms, peers, audio, video, seconds) ==
    Scenario("mixed-conference", rooms, peers, audio, video, seconds)

\* Whatever the arguments, all of them u32, and what the constructors fill in themselves.
Constructed(s) ==
    /\ s \in [type : {"smoke", "audio-mesh", "video-gallery", "mixed-conference"},
             rooms : Nat, peers : Nat, audio : Nat, video : Nat, work : Nat]
    /\ s.type = "smoke" => s.rooms = 1 /\ s.audio = 1 /\ s.video = 0
    /\ s.type = "audio-mesh" => s.audio = s.peers /\ s.video = 0
    /\ s.type = "video-gallery" => s.audio = 0

MaxSmokePackets == 180000
MaxSeconds == 3600

\* The ensures of the constructors, before validate_plan_size.
InBounds(s) ==
    /\ s.type = "smoke" => s.peers \in 2 .. 100 /\ s.work \in 1 .. MaxSmokePackets
    /\ s.type # "smoke" => s.rooms \in 1 .. 64 /\ s.peers <= 100 /\ s.work \in 1 .. MaxSeconds
    /\ s.type = "audio-mesh" => s.peers >= 2
    /\ s.type = "video-gallery" => s.peers >= 3 /\ s.video \in 1 .. 10 /\ s.video <= s.peers
    /\ s.type = "mixed-conference" =>
           /\ s.peers >= 3
           /\ s.audio \in 1 .. s.peers
           /\ s.video \in 1 .. 10 /\ s.video <= s.audio

-------------------------------------------------------------------------------
(* What is planned: model.rs. *)

AudioPackets(s) == IF s.type = "smoke" THEN s.work ELSE s.work * AudioRate

Frames(s) == s.work * VideoRate

\* Mutant: the last group of pictures counts only when it is whole.
WholeGroups(s) == Frames(s) \div KeyframeInterval
Keyframes(s) == (Frames(s) + KeyframeInterval - 1) \div KeyframeInterval

\* video_packets_per_layer.
LayerPackets(s, layer) ==
    (Frames(s) - Keyframes(s)) * Fragments[layer]["delta"] + Keyframes(s) * Fragments[layer]["key"]

AudioRoutes(s) == s.rooms * s.audio * (s.peers - 1)
VideoRoutes(s) == s.rooms * s.video * (s.peers - 1)
Routes(s) == AudioRoutes(s) + VideoRoutes(s)

\* Mutant: a lone publisher features a camera too.
HighRoutesOfAll(s) == IF s.video = 0 THEN 0 ELSE s.rooms * s.peers
\* Every peer features one camera, except a publisher that has none but its own.
HighRoutes(s) ==
    IF s.video = 0 THEN 0 ELSE s.rooms * (IF s.video = 1 THEN s.peers - 1 ELSE s.peers)
LowRoutes(s) == VideoRoutes(s) - HighRoutes(s)

\* Packets by kind, offered and delivered.
Offered(s, kind) ==
    IF kind = "audio" THEN s.rooms * s.audio * AudioPackets(s)
    ELSE s.rooms * s.video * LayerPackets(s, kind)

Deliveries(s, kind) ==
    CASE kind = "audio" -> AudioRoutes(s) * AudioPackets(s)
      [] kind = "low" -> LowRoutes(s) * LayerPackets(s, "low")
      [] kind = "high" -> HighRoutes(s) * LayerPackets(s, "high")

\* audio_plan, video_plan and their sum, mixed_plan.
PlannedOffer(s) == Offered(s, "audio") + Offered(s, "low") + Offered(s, "high")
PlannedDeliveries(s) == Deliveries(s, "audio") + Deliveries(s, "low") + Deliveries(s, "high")

\* ScenarioSpec::validate, with validate_plan_size.
Accepted(s) ==
    /\ InBounds(s)
    /\ PlannedOffer(s) <= MaxOffered
    /\ PlannedDeliveries(s) <= MaxDeliveries

-------------------------------------------------------------------------------
(* What is expected: scenario.rs.  Rooms and peers are counted from 0. *)

\* Mutant: sources are numbered in each room anew.
RoomSourceId(peers, room, peer) == peer
\* source_id: numbered over all rooms.
SourceId(peers, room, peer) == room * peers + peer

WithinU16(n) == n < 65536

NoFeatured == -1

\* The camera that a peer features, or none.
Featured(peer, publishers) ==
    IF publishers = 0 THEN NoFeatured
    ELSE IF peer % publishers # peer THEN peer % publishers
    ELSE IF publishers > 1 THEN (peer + 1) % publishers
    ELSE NoFeatured

AudioStream(s, room, i) ==
    [source |-> SourceId(s.peers, room, i), kind |-> "audio", packets |-> AudioPackets(s)]

VideoStream(s, room, peer, i) ==
    LET layer == IF Featured(peer, s.video) = i THEN "high" ELSE "low"
    IN  [source |-> SourceId(s.peers, room, i), kind |-> layer, packets |-> LayerPackets(s, layer)]

ExpectedAudio(s, room, peer) == {AudioStream(s, room, i) : i \in (0 .. s.audio - 1) \ {peer}}

ExpectedVideo(s, room, peer) == {VideoStream(s, room, peer, i) : i \in (0 .. s.video - 1) \ {peer}}

Expected(s, room, peer) == ExpectedAudio(s, room, peer) \union ExpectedVideo(s, room, peer)

Places(s) == (0 .. s.rooms - 1) \X (0 .. s.peers - 1)

\* The streams that all receivers together expect, of some kinds.
ExpectedRoutes(s) ==
    SumFunction([p \in Places(s) |-> Cardinality(Expected(s, p[1], p[2]))])

\* Those of a kind that one receiver expects.
ExpectedAt(s, p, kind) == {e \in Expected(s, p[1], p[2]) : e.kind = kind}

ExpectedOf(s, kind) ==
    SumFunction([p \in Places(s) |->
        SumFunction([e \in ExpectedAt(s, p, kind) |-> e.packets])])
===============================================================================
