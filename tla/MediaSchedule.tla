----------------------------- MODULE MediaSchedule -----------------------------
(***************************************************************************)
(* Who sends what when: every publisher of a scenario takes its turns of   *)
(* audio packets and video frames along its own timelines                  *)
(* (src/src/client/media.rs and PeerMedia of src/src/client/scenario.rs).  *)
(* Publishers run as tasks of their own, so their turns interleave freely; *)
(* ScenarioSync shows that no measured turn comes before all have warmed   *)
(* up, which is the guard of Restart here.                                 *)
(*                                                                         *)
(* Durations are integers of one unit.  RTP sequence numbers, timestamps   *)
(* and payload bytes are left out: PacketLedger models what is sent of     *)
(* them and read back.                                                     *)
(***************************************************************************)
EXTENDS WorkloadAgreement

CONSTANTS
    AudioInterval,      \* AUDIO_FRAME_INTERVAL
    VideoInterval,      \* VIDEO_FRAME_INTERVAL
    WarmupPackets,      \* WARMUP_AUDIO_PACKETS
    WarmupFrames        \* WARMUP_VIDEO_FRAMES

ASSUME ScheduleAssumption ==
    /\ AudioInterval \in Nat \ {0} /\ VideoInterval \in Nat \ {0}
    /\ WarmupPackets \in Nat /\ WarmupFrames \in Nat

VARIABLES
    phase,      \* of each publisher: "warmup", "warm", "measured" or "done"
    due,        \* its timelines' next_emitted_at
    packet,     \* its audio_ordinal
    frame,      \* its video_frame
    ordinal,    \* measured_low_ordinal and measured_high_ordinal
    sent,       \* measured packets sent, of each kind
    latest      \* the emitted_at of its last measured turn

mediaVars == <<stage, spec, phase, due, packet, frame, ordinal, sent, latest>>

\* The scenarios that may run.
Legal == {s \in Candidates : Accepted(s)}

Kinds == {"audio", "low", "high"}

Publishes(s, p, medium) == p[2] < IF medium = "audio" THEN s.audio ELSE s.video

PublishersOf(s) == {p \in Places(s) : Publishes(s, p, "audio") \/ Publishes(s, p, "video")}
Publishers == PublishersOf(spec)

-------------------------------------------------------------------------------
(* MediaTimeline. *)

Interval(medium) == IF medium = "audio" THEN AudioInterval ELSE VideoInterval

\* A source's phase offset, in slots of the interval.
Slot(index, count) == IF index + 1 < count THEN index + 1 ELSE count

\* MediaTimeline::new, or staggered in a mixed conference: source_count is at least 1.
FirstEmission(s, p, medium) ==
    IF s.type # "mixed-conference" THEN Interval(medium)
    ELSE LET count == IF medium = "audio" THEN s.audio ELSE s.video
         IN  (Interval(medium) \div count) * Slot(p[2], count)

Fresh(s, p) == [medium \in {"audio", "video"} |->
                   IF Publishes(s, p, medium) THEN FirstEmission(s, p, medium) ELSE 0]

TargetDuration(s) ==
    LET audio == IF s.audio = 0 THEN 0 ELSE AudioInterval * AudioPackets(s)
        video == IF s.video = 0 THEN 0 ELSE VideoInterval * Frames(s)
    IN  IF audio > video THEN audio ELSE video

-------------------------------------------------------------------------------
(* PeerMedia::next_turn. *)

AudioPending(p) == Publishes(spec, p, "audio") /\ packet[p] < AudioPackets(spec)
\* Frames are left to send.
VideoPending(p) == Publishes(spec, p, "video") /\ frame[p] < Frames(spec)

\* Mutant: audio goes first while it lasts.
AudioWhenPending(p) == AudioPending(p)
\* The medium whose turn is due first is next; audio when both are.
AudioTurnIsNext(p) == AudioPending(p) /\ (VideoPending(p) => due[p]["audio"] <= due[p]["video"])
VideoTurnIsNext(p) == VideoPending(p) /\ ~AudioTurnIsNext(p)

\* Mutant: only the first frame is a keyframe.
FirstFrameSize(layer, f) == Fragments[layer][IF f = 0 THEN "key" ELSE "delta"]
\* A keyframe begins every group of pictures.
FrameSize(layer, f) == Fragments[layer][IF f % KeyframeInterval = 0 THEN "key" ELSE "delta"]

Advance(p, medium, times) == due' = [due EXCEPT ![p][medium] = @ + times * Interval(medium)]

\* send_warmup: its packets have warm-up ordinals and are not observed.
Warmup(p) ==
    /\ phase[p] = "warmup"
    /\ phase' = [phase EXCEPT ![p] = "warm"]
    /\ due' = [due EXCEPT ![p] = [audio |-> @["audio"] + WarmupPackets * AudioInterval,
                                  video |-> @["video"] + WarmupFrames * VideoInterval]]
    /\ UNCHANGED <<stage, spec, packet, frame, ordinal, sent, latest>>

\* Mutant: the timelines keep the warm-up.
RestartLate(p) ==
    /\ phase[p] = "warm"
    /\ \A q \in Publishers : phase[q] # "warmup"
    /\ phase' = [phase EXCEPT ![p] = "measured"]
    /\ UNCHANGED <<stage, spec, due, packet, frame, ordinal, sent, latest>>

\* reset_timelines, when every peer has warmed up.
Restart(p) ==
    /\ phase[p] = "warm"
    /\ \A q \in Publishers : phase[q] # "warmup"
    /\ phase' = [phase EXCEPT ![p] = "measured"]
    /\ due' = [due EXCEPT ![p] = Fresh(spec, p)]
    /\ UNCHANGED <<stage, spec, packet, frame, ordinal, sent, latest>>

SendAudio(p) ==
    /\ phase[p] = "measured"
    /\ AudioTurnIsNext(p)
    /\ Advance(p, "audio", 1)
    /\ packet' = [packet EXCEPT ![p] = @ + 1]
    /\ sent' = [sent EXCEPT !["audio"] = @ + 1]
    /\ latest' = [latest EXCEPT ![p] = due[p]["audio"]]
    /\ UNCHANGED <<stage, spec, phase, frame, ordinal>>

\* VideoSource::next_frame: the packets of both layers.
SendFrame(p) ==
    /\ phase[p] = "measured"
    /\ VideoTurnIsNext(p)
    /\ Advance(p, "video", 1)
    /\ frame' = [frame EXCEPT ![p] = @ + 1]
    /\ ordinal' = [ordinal EXCEPT ![p] = [layer \in Layers |-> @[layer] + FrameSize(layer, frame[p])]]
    /\ sent' = [kind \in Kinds |->
                   IF kind = "audio" THEN sent[kind] ELSE sent[kind] + FrameSize(kind, frame[p])]
    /\ latest' = [latest EXCEPT ![p] = due[p]["video"]]
    /\ UNCHANGED <<stage, spec, phase, packet>>

\* No turn is left: the peer goes on to receive_until_complete.
Done(p) ==
    /\ phase[p] = "measured"
    /\ ~AudioTurnIsNext(p) /\ ~VideoTurnIsNext(p)
    /\ phase' = [phase EXCEPT ![p] = "done"]
    /\ UNCHANGED <<stage, spec, due, packet, frame, ordinal, sent, latest>>

-------------------------------------------------------------------------------
\* A scenario has been accepted, as in WorkloadAgreement.
MediaInit ==
    /\ stage = "accepted" /\ spec \in Legal
    /\ phase = [p \in PublishersOf(spec) |-> "warmup"]
    /\ due = [p \in PublishersOf(spec) |-> Fresh(spec, p)]
    /\ packet = [p \in PublishersOf(spec) |-> 0]
    /\ frame = [p \in PublishersOf(spec) |-> 0]
    /\ ordinal = [p \in PublishersOf(spec) |-> [layer \in Layers |-> 0]]
    /\ sent = [kind \in Kinds |-> 0]
    /\ latest = [p \in PublishersOf(spec) |-> 0]

MediaNext ==
    \E p \in Publishers : Warmup(p) \/ Restart(p) \/ SendAudio(p) \/ SendFrame(p) \/ Done(p)

MediaSpec == MediaInit /\ [][MediaNext]_mediaVars

-------------------------------------------------------------------------------
(* Properties. *)

TypeOK ==
    /\ stage = "accepted" /\ spec \in Legal
    /\ phase \in [Publishers -> {"warmup", "warm", "measured", "done"}]
    /\ due \in [Publishers -> [{"audio", "video"} -> Nat]]
    /\ packet \in [Publishers -> 0 .. AudioPackets(spec)]
    /\ frame \in [Publishers -> 0 .. Frames(spec)]
    /\ ordinal \in [Publishers -> [Layers -> Nat]]
    /\ sent \in [Kinds -> Nat]
    /\ latest \in [Publishers -> Nat]

\* When all publishers are done, what they have sent is what the plan offers, kind by kind:
\* media.rs and model.rs count turns, keyframes and packets alike.
OfferIsPlan ==
    (\A p \in Publishers : phase[p] = "done") =>
        \A kind \in Kinds : sent[kind] = Offered(spec, kind)

\* A source that is done has numbered exactly as many packets of a kind as the ledger of every
\* receiver has slots for, and that ledger's stream is of its number and of no other source:
\* what scenario.rs tells one task to expect is what it makes another task send.
NumberingIsExpected ==
    \A p \in Publishers :
        phase[p] = "done" =>
            \A r \in Places(spec) :
                \A e \in Expected(spec, r[1], r[2]) :
                    e.source = SourceId(spec.peers, p[1], p[2]) =>
                        /\ r[1] = p[1] /\ r # p
                        /\ e.packets = IF e.kind = "audio" THEN packet[p] ELSE ordinal[p][e.kind]

\* A peer's measured turns come in the order of their emission times, its audio and video
\* interleaved on one timeline: pace_until never waits for an instant before the last one.
TurnsInOrder == [][\A p \in Publishers : latest'[p] >= latest[p]]_latest

\* No measured packet is due before the shared origin or after target_duration, from which the
\* deadline of receive_until_complete and elapsed_ms are counted: warm-up leaves no trace in the
\* timelines.
TurnsWithinTarget ==
    \A p \in Publishers :
        /\ latest[p] <= TargetDuration(spec)
        /\ phase[p] = "measured" /\ (AudioTurnIsNext(p) \/ VideoTurnIsNext(p)) =>
               \E medium \in {"audio", "video"} :
                   /\ Publishes(spec, p, medium)
                   /\ due[p][medium] <= TargetDuration(spec)

SameInstant(p, q, medium) ==
    /\ spec.type = "mixed-conference"
    /\ Publishes(spec, p, medium) /\ Publishes(spec, q, medium)
    /\ phase[p] = "measured" /\ phase[q] = "measured"
    /\ due[p][medium] = due[q][medium]

\* No two publishers of the run, whatever their rooms, have a packet of one medium due at the
\* same instant: "Mixed publishers use deterministic phase offsets within each media interval so
\* independent sources do not form synchronized sender bursts" (README.md:29-30).
NoSynchronizedBursts ==
    \A p, q \in Publishers :
        p # q => \A medium \in {"audio", "video"} : ~SameInstant(p, q, medium)
===============================================================================
