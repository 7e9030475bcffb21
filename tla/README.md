# A TLA+ model of o-sfu-load-testing

This directory holds the formal model of the load harness: TLA+ modules translated
from the Rust source, TLC configurations that check them on small instances, and TLAPS
proofs about them for every instance. Paths below are relative to the repository.

## The system

One load run is three processes. `o-sfu-load` (the *controller*) starts the *server*
(`o-sfu-load-server`, a thin start of o-sfu) and the *RTC worker* (`o-sfu-load-rtc`),
which drives all synthetic peers as tasks. The worker tells the controller of four phases
(`setup`, `warmup`, `measured`, `drain`) over its stdout and waits on its stdin for each
acknowledgement; the controller answers when its telemetry sampler has flushed the phase
to `samples.jsonl`. When all is sent and drained the worker writes `result.json`, which
both it and the controller validate against the plan of the scenario. Reports and
comparisons read the artifacts afterwards.

### Inventory

| Component | State | Operations | What is hard | What makes it correct |
| --- | --- | --- | --- | --- |
| Scenario synchronisation, `src/client/scenario.rs` | a task per room and peer, a barrier of all peers, `measured_at`, `measured_acknowledged`, two `Notify` | `run_media_peer`, `prepare_media_peer`, `report_measured`, `collect_peer_observations` | wake-ups, leaders, aborted tasks still counted by the barrier, errors while others wait | media stays inside the announced phase; one origin; drain after all work; the run ends; no error is lost |
| Packet ledger, `src/client/scenario.rs` | `seen`, `next_ordinal`, counters per stream | `observe`, `is_complete`, `finish` | loss, reordering, repetition, stragglers | a clean account means exact delivery |
| Media sources, `src/client/media.rs` | timelines, ordinals, RTP counters per source | `next_packet`, `next_frame`, `next_turn`, `reset_timelines` | two media on one loop, keyframes, phase offsets | what is sent is what is planned, in time and in order |
| Workload plan, `src/model.rs` | none | constructors, `plan`, `validate` | closed formulas against loops elsewhere | the plan equals the sum of all expectations |
| Phase protocol, `src/phase.rs` | `PhaseSequence`, a locked pair of pipes | `report`, `exchange_phase`, `advance`, `finish` | several tasks report, blocking threads | one report at a time, in order |
| Controller, `src/controller.rs` | child processes, deadlines, signals | `run`, `start_server`, `wait_for_rtc_worker`, `capture_rtc_phases`, `stop_server` | five-way select, crashes, seven results to combine | Ok is earned; nothing is left running; it returns |
| Telemetry sampler, `src/telemetry.rs` | a command channel, `samples.jsonl` | `mark`, `record`, `record_phase`, `finish` | ticks against commands, write errors | acknowledged phases are persisted; a final record ends the file |
| Profiler, `src/profile/capture.rs` | `perf` and its control pipes | `start`, `finish` | a child that does not answer | its failure fails the run and does not hang it |
| Signaling client, `src/client/protocol.rs` | protocol core, timers, negotiation count | `connect`, `publish`, `accept_next_negotiation`, `service_signaling` | counted negotiations, request timers, a background task | every peer negotiates what it publishes and consumes |
| RTC peer, `src/client/rtc.rs` | str0m, a socket, `next_timeout`, `pending_rtp`, `send_origin` | `answer_offer`, `send_*`, `pace_until`, `read_rtp_payload`, `wait_for_input` | one task for pacing, media and timeouts; reads that are dropped half way | nothing sent early, nothing read is lost, timeouts are served |
| Report, dashboard, comparison | none (pure, over artifacts) | `parse_samples`, `from_samples`, `gap_phase_crossings`, `moving_average`, `pair_runs`, `render_sides` | gaps, missing endpoints, inputs that are missing or given twice | verdicts and drawings follow from what was measured |
| Profile report, `src/profile/report.rs` | prepared artifacts, a ready marker | `prepare`, `load_prepared`, `FoldedProfile::parse` | a crash half way, a later run | no half-prepared or mixed set is used; tables agree |

`PROJECT.json` lists each with its status, the hazards of the code at their lines with the
properties that watch them, and the lines each definition models.

## The modules

**`PacketLedger`** is one receiving peer's account. An action is one arm of
`PacketLedger::observe` (`ObserveUnexpected`, `ObserveWarmup`, `ObserveDuplicate`,
`ObserveDelivery`), one step of the receive loops around it, or something the network does:
it may lose and reorder anything, and repeat, damage and misroute up to `MaxFaults`
datagrams. `inflight` is a set, so delay and reordering need no actions. `heard` and `foul`
are history variables. `DeliveryAudit` is the promise in terms of that history alone: an
account is closed as clean exactly when every stream was heard once, complete, in order and
intact, and nothing else was. `MCPacketLedger` takes streams of three and two packets and
one foreign stream.

**`ScenarioSync`** is the concurrent run. `at[p]` is the place a peer has reached between
two awaits. `Gate`, `Leader` and `Follower` are the seven waits on tokio's barrier, which
is modelled as it works: a count of arrivals and a generation. `Check`, `Subscribe`,
`Recheck` and `Wake` are the four steps of `wait_for_measured_acknowledgement`, and
`ReporterStore` and `ReporterRelease` the two that race with them. The controller is
`Acknowledge` and `CloseStream`. `Lockstep` is what a barrier promises
to peers that have identities, though the real one only counts; the mapping takes a peer that
waits in a round of the barrier to have entered it (`Entered`) and one that has left it to have
finished it (`Finished`). Every room has a peer (`SyncAssumption`), since the constructors of
`ScenarioSpec` ask for two (`model.rs:89-173`).

**`Controller`** is `controller::run` with everything it conducts: `stage` is where `run`
is, and the server, the worker, the capture task and the sampler take steps of their own.
The channel to the sampler (`queue`), the reply (`reply`) and both pipes (`events`, `acks`)
are explicit. A timeout may fire at any time that the code waits under it. `profiler` is the
command that `perf` was last sent and whether it has answered (`PerfAnswers`, `PerfExits`): it may
stay silent.
`ReadResult` takes a stale `result.json` for a good one, as the code would. `outcome` is the
combination of results so far; `"lost"` is `RtcWorkerCompletion::ServerExited`, which makes
`run` skip `stop_server`. `recorded` is `PhaseSequence`'s place in the sampler: a phase that is
not the next one ends it, so that `Persisted(n)`, the first `n` phases are in `samples.jsonl`,
holds of all that were recorded.

**`Workload`** holds the pure operators: on one side the plan of `model.rs`, on the other the
streams that `scenario.rs` tells each receiver to expect. **`WorkloadAgreement`** lets
arguments come, and be refused or accepted. **`Comparison`** goes on from there: results of
accepted scenarios are given as inputs of two sides, proper ones and up to `MaxDefects` that
are not (unreadable, of another policy, inexact, late, without revision, with gaps), and
`Pairs`, `Exact`, `PerformanceValid` and `Dashboards` are what comparison.rs and dashboard.rs
make of them. Scenarios are a set there and not a sorted sequence without neighbouring
duplicates: `KeyTellsScenariosApart` is what makes the two the same.

**`MediaSchedule`** extends `WorkloadAgreement` with the publishers' timelines: it begins where a
scenario has been accepted. Turns of different publishers interleave freely, since they are
tasks of their own. `Constructed` of `Workload` is what a `ScenarioSpec` is before any check: its
numbers are u32, and its constructors fill some of them in.

**`TelemetryWindow`** is the life of `samples.jsonl`: the sampler writes it along a clock
that moves during scrapes and between the reading of a marker's time and its queueing, and
`report.rs` reads it back. The records of samples and of phases are two sequences, as the reader
has them: which of a sample and a phase comes first in the file makes no difference to it.
`Average`, `CpuTicks` and `TelemetryComplete` are the report's and the comparison's functions of
them. **`Dashboard`**
extends it with the smoothed series of the dashboard: for each sample a value and where its
interval began (`Cpu`, `PacketRate`, `Fanout`, `WorkerBitrate`), `Gapped`, which opens a gap
where an interval crosses the begin of a phase, and `Smoothed`, the moving average. The two
are checked in one run, so that what is drawn is judged by what the sampler really saw.

**`Signaling`** brings the peers of one room to the start of `ScenarioSync`. `stage` and
`turn` are where the room's task is in `connect_peers`, `configure_video_layouts` and
`publish_sources`; `peer[p].at` is where the future of a peer is. `Receive` is a round of
`read_until_negotiation`, `Flush` is `flush_next_timer`. The server (`sfu`, `sources`,
`Negotiate`, `Reply`) and the protocol core's batch and timers are external: they are what
the code relies on, except that the server may be slow, may renegotiate about several
sources at once, and sends events at will (`Notify`: one at a time waits to be read, and their
number is not bounded). `Hangup` stands for whatever makes the core close the RTC peer
(`Command::ClosePeerConnection`); `rtc` is the number of the negotiation that bound the RTC peer, or
`None` without one. From `IntoLoadPeers` on, `task` is `service_signaling`.

**`RtcPeer`** is one peer's task from warm-up to its end, in steps as small as its awaits.
`call` is the method of `RtcPeer` in progress and `wait` where it is inside
`wait_for_input`; `stage` is where `run_media_peer` is. Sending a packet goes through
`StartSend`, the rounds of `wait_for_input` (`Sleep`, `Receive`, `DrainReceived`, `Wake`,
`WaitOverdue`), `Write`, `ApplyDue` and `EndSend`; a pass of `drain_pending` is `StartPoll`
with `PollReceives`, `PollDrains`, `PollReturns`, `PollEmpty`; `Cancel` is the timeout of
`drain_for`, which drops a read wherever it waits. The str0m state machine is external: it
turns a datagram into a payload or none, and asks for timeouts at will, but after a timeout
for a later one. A datagram in the kernel's buffer is not yet one that the peer can read: tokio
looks at the buffer only while it holds the socket for readable (`ready`), which it learns when it
polls its I/O driver (`Notice`) and forgets when a read finds nothing (`FindNothing`, `PollEmpty`).
`Calls` and `Packets` are the finite sets that the calls and the datagrams of a
run are from, `Read` is all that was read so far, and no poll starts when the task has failed
(`Sending`). Every datagram is one that the peer's own socket has: loss and disorder are
`PacketLedger`'s.

**`ProfilePreparation`** is one output directory under load runs, with and without profiler,
and preparations of the profile. The kind of a command says which changes of files it makes
(`Changes`), and `made` how many of them it has made; `Fail` cuts it off between any two. A file
is absent, empty, a part or whole, and made of a run: `Accepts` is `load_prepared`.
**`FoldedProfile`** is `FoldedProfile::parse`, a recursive function of the lines of a file.

`PacketLedger` abstracts the senders that `MediaSchedule` details; `ScenarioSync` abstracts
both to counters; `Controller` abstracts the worker to what `ScenarioSync` shows of it:
phases in order, a result, and an exit status that is a failure when anything failed.

## The runs

| Run | Checks | Bounds |
| --- | --- | --- |
| `packet_ledger` | `CursorIsLeastUnseen`, `Conservation`, `CountersMatchHistory`, `ImplementsAudit` | two streams, so that one is complete while another is not; three packets, so that one is overtaken by two; one fault |
| `scenario_sync` | `MediaInsidePhase`, `OneOrigin`, `PhasesComeOneByOne`, `SuccessHidesNothing`, `ImplementsLockstep`, `RunEnds` | a room of a publisher and a listener and a room of one publisher: a barrier over two rooms, a leader and two followers; two failures |
| `controller` | `SuccessIsEarned`, `WorkEndsBeforeShutdown`, `AcknowledgedIsPersisted`, `RunReturns` | two startup attempts (one retried, one last; the code has three), one periodic sample, two failures of any kind; signals and timeouts are not bounded; with and without a profiler |
| `workload_agreement` | `PlanIsExpectation`, `StreamsAreTold`, `KeyTellsScenariosApart`, `VerdictsAreEarned`, `DashboardsAreTables` | all topologies of up to three rooms and five peers with every number of publishers, legal or not, smoke runs about a second, the edges of the bounds, and the six nightly profiles; comparisons of up to three inputs a side, so that one scenario may be there twice beside the other, with two defects, so that one may hide another |
| `media_schedule` | `OfferIsPlan`, `NumberingIsExpected`, `TurnsInOrder`, `TurnsWithinTarget` | one scenario of each type with the real rates and intervals in microseconds, one of them of two rooms; three seconds of video reach the second keyframe interval |
| `telemetry_window` | `AverageIsWholeWindow`, `PhasesReachTheReport`, `SmoothedWithinPhase` | three milliseconds, in each of which the server uses a tick of CPU or none; a first, two periodic and a final sample, of which two may fail |
| `rtc_peer` | `ReadsInOrder`, `TimersAreServed`, `PacketsFollowTimeline`, `PollMissesNothing`, `PeerEnds` | three packets in each stage, with time for timeouts between them and the last of them before the second, as in a mixed warm-up; passes of two reads (64 in the code) over three media packets and two other datagrams, so that a pass meets its limit, an empty socket, a socket that tokio does not know to be readable, and a datagram of no media; two units of time in which the task does not run |
| `profile_preparation` | `RenderedIsOneCapture`, `PreparedIsAccepted`, `CaptureStaysUsable`, `ProfileCountsAgree` | three runs, so that one without profiler may come between or after two with; two preparations, each cut off anywhere; stacks of two lines with recurring, unresolved and missing frames and counts about the largest total |
| `complete_telemetry` | `FaultlessIsComplete`, violated | one millisecond, no periodic sample, no failure |
| `smoothed_fanout` | `SmoothedFanoutWithinPhase`, violated | as `telemetry_window`, with one failure |
| `signaling` | `CountMeansContent`, `LoadPeersAreNegotiated`, `EveryWaitIsServed`, `TransportIsKept`, `RoomEnds` | three peers: one publishes audio and camera, one a camera, one listens, so that two others accept concurrently and three publications follow each other; one broken connection or one closing of an RTC peer; one event on its way at a time; timeouts and events are not bounded in number |
| `synchronized_bursts` | `NoSynchronizedBursts`, violated | two rooms with one publisher each |

What they show:

- A ledger without a discrepancy is proof of exact delivery (`ImplementsAudit`). The
  converse price is visible in `CountersMatchHistory`: one lost packet charges every later
  packet of its stream as out of order, since the cursor stays at the hole.
- The measured release loses no wake-up, because the peer looks a second time after it has
  created its `Notified` future; without that look `RunEnds` fails.
- The barrier's count includes tasks that were aborted while they waited, and yet no peer
  gets a round ahead (`ImplementsLockstep`).
- A run returns Ok only when every part of it did well (`SuccessIsEarned`). The server's exit
  may be `"quit"`: one that exits by itself with success, between the controller's look
  and its signal, cannot be told from one that was asked.
- `NoSynchronizedBursts` does not hold. README.md:29-30 says that sources do not form
  synchronized bursts; offsets are computed within a room (`scenario.rs:330-334`) while all
  rooms share `measured_at`, so the publishers of one index in two rooms emit at the same
  instants.
- A peer never looks at what a negotiation is about, and need not: because the next source
  is published only when all peers have answered for the last, even a server that batches
  its renegotiations cannot make counts and contents differ (`CountMeansContent`). If the
  room's task waited for one peer instead of all, a peer could negotiate two sources at once
  and then wait for a negotiation that never comes.
- The batch of the protocol core is what `flush_next_timer` finds, as long as the batch delay
  is less than a request's timeout (`SignalingAssumption`); a timer chosen by age would leave
  a publication unsent (`EveryWaitIsServed`).
- The report's average is the CPU use of the whole window, up to rounding, although gaps
  and a final sample in the same millisecond lie in between (`AverageIsWholeWindow`). This
  holds because the sampler forms percentages against the last good sample and the report
  weighs them by the same intervals: neither file says so.
- `FaultlessIsComplete` does not hold: the final sample is taken when the RTC worker has been
  reaped (`controller.rs:337-356`), so it has no RTC CPU ticks, the whole-window RTC average
  is undefined, and `telemetry_complete` (`comparison.rs:795`) is false of every run. The test
  that expects valid performance (`src/TESTS/comparison_tests.rs:20`) has an `rtc` object in
  the final samples of its fixture.
- A smoothed line of CPU, packets or worker bitrates has no part that was observed over the
  begin of a phase, and leaves out nothing else (`SmoothedWithinPhase`), because the series
  reckon an interval from the last value and not from the last sample. One value is excepted:
  the first CPU percentage has no value before it, so that its interval is not known to begin
  at the first sample, and stays in the line although `setup` begins within it.
- The fanout line does not keep to this (`SmoothedFanoutWithinPhase`). In the closure of
  `fanout_series` (`dashboard.rs:830-863`) a gap returns by `?` before the start of an
  interval is pushed, so that after one failed scrape all starts are those of earlier
  samples. README.md:167-172 says that smoothed lines exclude phase-crossing intervals.
- What a task is told to expect of a source is what another task numbers
  (`NumberingIsExpected`): the plan counts keyframes by a quotient rounded up, the source by a
  remainder of each frame.
- A verdict on a comparison is given when it is earned and only then (`VerdictsAreEarned`);
  an input that is given twice or missing shows as an issue, without which the verdict would
  be over the remaining pairs. The dashboard pairs the inputs a second time, with code of its
  own, and yet draws what the tables show (`DashboardsAreTables`).
- A peer loses no packet that has reached its socket (`ReadsInOrder`): str0m keeps the
  payloads of a read that is dropped, and the next drain of its output queues them. A poll ends
  at its limit or at `WouldBlock`. `WouldBlock` is no proof of an empty socket, since tokio does
  not look at one that it does not hold for readable: what `PollMissesNothing` says is that a
  poll that begins with a readable socket ends only when all is handed out that had come by then.
  An overdue timeout and a datagram of no media do not end it.
- The timeouts of str0m are served within the time for which the task does not run
  (`TimersAreServed`): that time includes the barriers, at which a peer serves neither
  timeouts nor socket.
- A closed RTC peer is noticed at the latest when the peers are to go to work
  (`LoadPeersAreNegotiated`), and no renegotiation puts another one in its place
  (`TransportIsKept`).
- The waits of the controller for another process have deadlines of their own, `perf`'s answers
  included, so that `run` returns although nobody answers (`RunReturns`).
- The marker goes first and comes last, so that a profile that is rendered is of one capture
  (`RenderedIsOneCapture`). The result beside it may be a later one: a run without
  profiler replaces `result.json` and leaves the profile, so that the report may show the
  counters of one run with the stacks of another.

Deadlock is checked in `scenario_sync`, `controller` and `signaling`, whose final states
have a self-loop (`Exited`, `Returned`, `Over`). The others stop when their work is done.

### Fairness

Safety is checked without it, and no model assumes strong fairness.

- `ScenarioSync`: weak fairness of each peer's task, of the room's task once its peers are
  spawned, of the reporter, of the start of the measurement (a sleep that ends) and of the phase
  stream, whose other end is the controller. The runtime polls every task that was woken, and
  from there on every read has a time window, and what is sent, the close frame of a WebSocket
  included, fits into a socket's buffer. Barriers and parked peers have no timeout and get no
  fairness beyond being polled; nor has the answer to a phase report, which the controller gives
  or refuses. The setup of a room has none: the
  request of `create_room` (`scenario.rs:897`) and `connect_async` (`protocol.rs:159`) have no
  timeout, so `RunEnds` is about runs in which every room's setup ends or fails. A worker that
  hangs there is killed by the controller after `rtc_worker_deadline`.
- `Controller`: `run` itself and the sampler. `run` waits for the server's readiness, the worker,
  the phase task, `perf` and the server's end under deadlines, and the sampler's requests have
  `REQUEST_TIMEOUT`. Taken to end without one are reaping a killed child, changes of files, a
  command of a few bytes written to `perf`'s pipe, and the helpers `kill` and `getconf`. The
  server, the worker, the capture task and `perf` get no fairness: they may hang for ever and
  `RunReturns` still holds.
- `Signaling`: the room's task and each peer's future, without `Open`. A read goes on with each
  frame and ends with ten seconds without one; the wait for the transport ends after ten seconds.
  Because `connect_async` has no timeout and each frame restarts the ten seconds of
  `read_until_negotiation` (`protocol.rs:127-137`), an event that means nothing to the harness as
  well, `RoomEnds` has the premise `ServerSettles`: every connection comes about or fails, and
  from some point on no event comes. What a peer sends fits into its connection's buffers. The
  server and the transport get no fairness.
- `RtcPeer`: its calls, `run_media_peer` between them, and time: the runtime polls a task that
  can go on, and a sleep ends. Neither the datagrams nor `Notice` nor str0m get any. `PeerEnds`
  is of runs in which a bounded number of datagrams comes: a read without a window goes on as long
  as it finds datagrams of no media (`rtc.rs:213-219`).

## The proofs

All are checked by `tlapm` with Z3, Zenon and LS4, for every value of the constants that the
named assumptions allow. Every invariant and every action property that a passing run checks is
a theorem, and both refinements are. There is one inductive invariant to a specification: a lemma
for each of its parts, or each of its actions, says that a step preserves it, and the theorems
follow from the invariant. The invariants were checked by TLC before they were proved.

**`SumTheorems`** holds what the proofs about counts, plans and averages share: the value of
`SumFunctionOnSet` over the empty set, with an element more, over a union, of a series of
differences, and so on. The library's induction theorems take a predicate as their parameter,
which the provers cannot instantiate. `NumberInduction` and `SubsetInduction` are about the *set*
of the numbers, or of the subsets of a finite set, that have a property; such a set is a value,
which a proof by induction defines and hides. By them a recursive function is shown to
exist, `CHOOSE` is then rid of, and its values follow step by step.

**`PacketLedgerProofs`**, from `StreamsAssumption` alone: streams are finitely many, each
expects at least one packet, foreign streams are foreign.

- `TypeCorrect`, `CursorsAreExact`, `PacketsAreConserved` prove `TypeOK`,
  `CursorIsLeastUnseen` and `Conservation` as invariants of `Spec`. The cursor needs the
  type invariant, since `Advance` is a `CHOOSE` whose witness lies within the stream; the
  conservation needs both, because it counts the complement of what is seen over the finite
  set of slots.
- `CountersTellTheHistory` proves `CountersMatchHistory`: an ordinal is marked exactly when it
  was heard, an earlier arrival stays the repeat or the straggler that it was, and what the last
  one is can be told from `seen` and the cursor. The counters are compared to cardinalities of
  sets of positions in the history, so that no fold and no induction over data is needed.
- `LedgerImplementsAudit` proves `Spec => Audit!AuditSpec`. The invariant that it takes links
  the ledger to the history: a stream without duplicates and disorder was heard as a prefix
  of its ordinals, as long as its cursor. With it a clean and complete ledger means that
  each history is the whole sequence, and the other way round.

**`ScenarioSyncProofs`**, from `SyncAssumption`: rooms and peers are finitely many and every room
has a peer. `BarrierInv` ties the barrier's count to the set of peers in its current round (which
is why cardinalities and `FiniteSetTheorems` appear), `RoomInv` the rooms to their peers,
`StreamInv` the phases on the two pipes to what was persisted, `LeaderInv` says where everybody
is while a leader reports `warmup` or `drain`, `MeasuredInv` and `OriginInv` the same for the
reporter of `measured` and its clock.

- `PhasesAreReportedInOrder`, `AllMeasureFromOneOrigin` and `MediaStaysInsidePhase` prove
  `PhasesComeOneByOne`, `OneOrigin` and the action property `MediaInsidePhase`.
- `SuccessIsComplete` proves `SuccessHidesNothing`. The invariant it needs, `FaultInv`, is that a
  peer that has stopped leaves some round of the barrier short for good (`Blocked`), so that the
  others can never get to their own ends.
- `PeersStayInLockstep` proves `Spec => Steps!LockstepSpec`, the refinement, step by step: each
  action moves one peer by one round or stutters, because the generation that a peer waits in
  and the one that it was counted in are the same.

**`ControllerProofs`**, from `ControllerAssumption`. `StageInv` says which processes and tasks
live in which stage of `run`, and that `perf` records only from its start to its end, `PipeInv`
that what is on the pipes, in the channel and in the replies is the difference of the counters at its ends, `MarkerInv` that at most one phase is under
way between worker, capture task and sampler, `OutcomeInv` what an outcome that is still ok has
seen, and `Persisted(recorded)` that a recorded phase is in the file.

- `SuccessfulRunsAreEarned`, `NothingOutlivesTheRun` and `PhasesArePersistedFirst` prove
  `SuccessIsEarned`, `WorkEndsBeforeShutdown` and `AcknowledgedIsPersisted`.

**`SignalingProofs`**, from `SignalingAssumption`. `SourcesInv` is which publications the server
has heard of; `PairsInv` relates each peer to the server: the server is at most one source ahead
of what a peer was told (`Link`), and at most one offer, answered or not, is in a peer's mailbox
(`Mail`); `StageInv` says for each stage and turn of the room's task where every peer is.

- `CountsTellContents`, `HandoverIsComplete` and `ReadsAreServed` prove `CountMeansContent`,
  `LoadPeersAreNegotiated` and `EveryWaitIsServed`, and `TransportsAreKept` the action property
  `TransportIsKept`. The first is a consequence of `Link`, which is inductive only because the
  room's task publishes when all peers have answered.

**`RtcPeerProofs`**, from `PeerAssumption`. `CallInv` ties `wait` to `call` and `stage`,
`InsideInv` says what each place inside a call may assume of the clock and the buffers,
`TimelineInv` where the send origin and the next emission are. `ReadsInOrder` is inductive with
these once it is put as one equation: what was read, what is pending and what str0m and the socket
hold, in this order, is what has come. A step changes it in one of four ways, each a lemma: not at
all, by moving payloads on, by a new datagram of media and by another one.

- `PacketsReadInOrder` and `TimersNeverSlip` prove `ReadsInOrder` and `TimersAreServed`,
  `PacketsKeepTheirInstants` and `PollsAreComplete` the action properties `PacketsFollowTimeline`
  and `PollMissesNothing`: the last needs of a poll in progress that what tokio held for readable
  when it began is handed out, queued, or in a socket that is still held for readable.

**`WorkloadProofs`** is about the work of a scenario, in three parts. The first, from
`WorkloadAssumption`, are facts about the operators, which the two others cite.

- `SourceIdsAreDistinct`: the number `room * peers + peer` is one-to-one over places.
- `FeaturedIsRemote`: a featured camera is a publisher's and never one's own.
- The lemmas `AcceptedIsBounded` (what the constructors let through), `KeysGrow` (a frame is a
  keyframe exactly when it adds one to the rounded-up quotient) and `SlotsFit`.
- `AcceptedIsPlanned` proves `PlanIsExpectation`: the plan's products are the double sums, over
  places and expected streams. A receiver expects one stream less of a medium if it publishes it
  itself (`AudioAtPlace`, `VideoAtPlace`), and it is given the high layer of exactly one camera,
  the featured one, unless it is the only publisher.

Of `MediaSchedule`, from `ScheduleAssumption` (intervals are positive) and `CandidatesAssumption`:
`TimelineInv` says that a timeline of the measurement is as many intervals past its first
emission as turns were taken, `OrderInv` that nothing that is left is due before the last turn,
`NumberingInv` that a source has numbered the fragments of its frames, and `SentInv` that what
all have sent is the sum of what each has numbered.

- `TurnsAreInOrder` and `TurnsEndWithTarget` prove the action property `TurnsInOrder` and the
  invariant `TurnsWithinTarget`.
- `SourcesMeetExpectations` proves `NumberingIsExpected`, with `KeysGrow` and
  `SourceIdsAreDistinct`, and `AllDoneIsOffered` proves `OfferIsPlan`, with `SentInv`: one turn adds
  to `sent` what it adds to its source, and the turns of different publishers commute.

Of `Comparison`, from `CandidatesAssumption` and `ComparisonAssumption`: what is compared was
accepted, and `None` is neither a revision nor an input. The invariant (`InputsInv`) is no
more than that inputs are inputs; the argument is about finite sets.

- `AcceptedStreamsAreTold`: the property `StreamsAreTold` for all scenarios that the
  constructors can be asked for, of any size; it rests on the bounds of the constructors,
  by which at most 64 rooms of 100 peers fit the u16.
- `KeysTellApart` proves `KeyTellsScenariosApart`: two smoke runs that round to one rate and one
  number of seconds differ in what they deliver.
- `DashboardsDrawTheTables` and `VerdictsAreAlwaysEarned` prove `DashboardsAreTables` and
  `VerdictsAreEarned` for any number of inputs. One lemma makes a pairing of the inputs out of
  workloads that match (`PairsMatch`), one the pairs out of a pairing (`MatchedPairs`).

**`ArtifactProofs`** is about what lies in the output directory.

Of `TelemetryWindow` and `Dashboard`, from `WindowAssumption`. `ClockInv` orders the samples and the
clock, `MarkerInv` says that at most one phase is on its way and that it is the next one and the
youngest, `BaseInv` that a percentage is that of the ticks since the good sample before, and
that the sampler's base is the last good sample.

- `RecordedPhasesAreRead` proves `PhasesReachTheReport`, of which `MarkerInv` is the
  strengthening: a phase that was read from the clock but not recorded is no younger than what the
  final sample will see, because the worker is gone and its events are served by then.
- `AverageCoversTheWindow` proves `AverageIsWholeWindow`. The weights of the good samples
  telescope to the window (`SumTelescopes`), the ticks to those used in it; what the rounding of
  each percentage takes away, weighed by its interval, is less than the window all together.
- `AveragesStayInTheirPhase` proves `SmoothedWithinPhase`: a series is a list of values, each with
  the good sample that its interval began at (`IsSeries`), so that a phase begins within the
  interval exactly when more phases have begun at its end.

Of `ProfilePreparation` and `FoldedProfile`, from `CountAssumption` and `FoldingsAssumption`: the
counts of a file's lines are u64, or the line is malformed. `PreparationInv` is how far each
command has come, by the number of changes that it has made (`ProfiledInv`, `PlainInv`,
`FailedInv`, `ClearInv`, `PrepareInv`), and `FilesInv` what holds of the files wherever a command was
cut off: metadata are only beside their own capture when that is whole, the marker only beside
all reports of one capture, and no result or profiled run between a capture and its result.

- `RenderingsAreOneCapture`, `PreparationsAreAccepted` and `CapturesStayUsable` prove
  `RenderedIsOneCapture`, `PreparedIsAccepted` and `CaptureStaysUsable`, for any number of runs and
  preparations and every way to cut them off.
- `ReportsCountAlike` proves `ProfileCountsAgree` of every file of stacks: `LineIsParsed` is the
  induction step, over the lines.

Only model-checked: the liveness properties (`RunEnds`, `RunReturns`, `RoomEnds`, `PeerEnds`), which
are about fairness and thus `ENABLED`, beyond this prover. The three runs that end in a violation
refute a property, which needs no proof.

Type correctness is part of the inductive invariant of every one of these modules (`TypeOK`, `WindowTypeOK`, `ProfileTypeOK`); no run checks it by itself.

## Not modelled

RTP sequence numbers and timestamps, VP8 headers and payload bytes: the payload's identity is
modelled, its coding is data. The parsers of `/proc`, of the metrics text and of JSON. Markdown,
Mermaid and SVG, and the panels of the dashboard that are drawn without smoothing: they are
renderings of what is modelled. The single-revision report's tables of phases and workers. CPU
sets, ports and tokens.
The str0m and o-sfu libraries, perf and Inferno appear only by what the code relies on and by
the faults they may cause. Time is abstract in `ScenarioSync`, `Controller` and
`ProfilePreparation`; it is exact in `MediaSchedule`, `RtcPeer` and `TelemetryWindow`, which
assumes that the server's workers do not change within a run: a sample that the reader refuses
for its workers (`report.rs:406`) would be a gap that the sampler does not know of. Build
metadata and the nightly workflow have no concurrent state of their own.

## Plan

Done, in this order: the ledger and its abstract promise; the synchronised run; the
controller with its sampler; the plan against the expectations; the media schedule; the
telemetry log and its readers; the signaling of a room; the RTC peer; the smoothed dashboard;
the comparison of two revisions; the preparation of a profile.

The proofs, in this order: the ledger; the workload; the controller; the synchronised run and its
refinement; the RTC peer; the signaling of a room; the history of the ledger; the media schedule;
the comparison; sums and induction over sets; the plan against the expectations and the offer
against the plan; the telemetry window and its smoothed panels; the preparation of a profile and
its counts.

What is left:

1. Workers of the server that change within a run, in `TelemetryWindow`: the reader's gap of which
   the sampler does not know (`report.rs:406`).
2. A composition of `RtcPeer` with `PacketLedger`: what a pass of `drain_pending` reads is what
   the ledger observes.
3. The merging of the peers' observations and `ScenarioResult::validate` in full; `ScenarioSync`
   takes its outcome as a choice.
