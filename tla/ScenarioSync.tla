----------------------------- MODULE ScenarioSync -----------------------------
(***************************************************************************)
(* The concurrent run of src/src/client/scenario.rs: one task per room,    *)
(* one task per peer, the future that reports the Measured phase, a        *)
(* barrier shared by the peers of all rooms, and the phase stream to the   *)
(* controller.  at[p] names the place a peer has reached in run_media_peer *)
(* and prepare_media_peer; a step is what the task does from there.        *)
(*                                                                         *)
(* What the packets carry is modelled in PacketLedger; here a peer sends   *)
(* its warm-up, then Work[p] measured packets, and waits for its own.      *)
(* MaxFailures bounds the awaits that fail in a run.                       *)
(***************************************************************************)
EXTENDS Naturals, Sequences, FiniteSets

CONSTANTS
    Rooms,
    Peers,
    Room,           \* Room[p]: the room of peer p
    Work,           \* Work[p]: measured packets p publishes
    MaxFailures,
    None

\* Every room has peers: ScenarioSpec::validate asks for at least two.
ASSUME SyncAssumption ==
    /\ IsFiniteSet(Peers) /\ Peers # {}
    /\ Room \in [Peers -> Rooms]
    /\ \A r \in Rooms : \E p \in Peers : Room[p] = r
    /\ Work \in [Peers -> Nat]
    /\ MaxFailures \in Nat
    /\ None \notin Peers

VARIABLES
    room,           \* room[r]: the task of room r
    at,             \* at[p]: where the task of peer p is
    waits,          \* waits[p]: calls of Barrier::wait that p has made
    sent,           \* sent[p]: measured packets p has sent
    origin,         \* origin[p]: started_at of p
    arrived,        \* Barrier: arrivals in this generation
    generation,     \* Barrier: generations that have opened
    measured_at,    \* OnceLock: the peer whose clock set the start, or None
    started,        \* the instant in measured_at has come
    measured_acknowledged,
    measured_ready, \* Notify: the stored permit
    woken,          \* peers whose Notified future notify_waiters has reached
    reporter,       \* where report_measured is
    report,         \* report[ph]: the exchange of phase ph on the phase stream
    persisted,      \* the phases the controller has persisted, in order
    run,            \* the future of client::run, then the process
    failures

taskVars    == <<room, at>>
barrierVars == <<waits, arrived, generation>>
mediaVars   == <<sent, origin, measured_at>>
releaseVars == <<started, measured_acknowledged, measured_ready, woken, reporter>>
streamVars  == <<report, persisted>>
vars == <<taskVars, barrierVars, mediaVars, releaseVars, streamVars, run, failures>>

Go(p, label) == at' = [at EXCEPT ![p] = label]

Members(r) == { p \in Peers : Room[p] = r }

Phases == {"warmup", "measured", "drain"}

\* ScenarioPhase::ORDERED.  main reports Setup before it calls client::run.
Ordered == <<"setup", "warmup", "measured", "drain">>

-------------------------------------------------------------------------------
(* The phase stream: PhaseReporter on this side, the controller on the other. *)

\* PhaseSequence::advance: the phase the controller takes next.
NextPhase == IF Len(persisted) < Len(Ordered) THEN Ordered[Len(persisted) + 1] ELSE None

InFlight == { ph \in Phases : report[ph] = "written" }

\* report_phase hands the report to a blocking thread; measured's is alike.
Request(ph) == report' = [report EXCEPT ![ph] = "requested"]

\* exchange_phase, first half: the thread holds the stream's lock, from the
\* event until it has read the acknowledgement.
WriteEvent(ph) ==
    /\ report[ph] = "requested"
    /\ InFlight = {}
    /\ run \notin {"ok", "error"}
    /\ report' = [report EXCEPT ![ph] = "written"]
    /\ UNCHANGED <<taskVars, barrierVars, mediaVars, releaseVars, persisted, run, failures>>

\* The controller accepts the phase PhaseSequence expects, persists it and
\* acknowledges it.
Acknowledge(ph) ==
    /\ report[ph] = "written"
    /\ ph = NextPhase
    /\ persisted' = Append(persisted, ph)
    /\ report' = [report EXCEPT ![ph] = "acknowledged"]
    /\ UNCHANGED <<taskVars, barrierVars, mediaVars, releaseVars, run, failures>>

\* It closes the stream instead: PhaseSequence::advance refuses the phase, or it cannot be
\* persisted.
CloseStream(ph) ==
    /\ report[ph] = "written"
    /\ IF ph # NextPhase
       THEN UNCHANGED failures
       ELSE failures < MaxFailures /\ failures' = failures + 1
    /\ report' = [report EXCEPT ![ph] = "refused"]
    /\ UNCHANGED <<taskVars, barrierVars, mediaVars, releaseVars, persisted, run>>

-------------------------------------------------------------------------------
(* The barrier, tokio::sync::Barrier of the number of peers in the run.  It  *)
(* counts arrivals and does not know who arrived: the arrival of a task that *)
(* is aborted later still counts.                                            *)

\* From where a peer calls wait, and where it then waits.
Gate == [spawned |-> "gate1", warmup_announced |-> "gate2", settled |-> "gate3",
         restarted |-> "gate4", timed |-> "gate5", complete |-> "gate6",
         drain_announced |-> "gate7"]

\* Where the last peer to arrive goes on: BarrierWaitResult::is_leader.
Leader == [gate1 |-> "lead_warmup", gate2 |-> "warmup", gate3 |-> "restart",
           gate4 |-> "origin", gate5 |-> "lead_measured", gate6 |-> "lead_drain",
           gate7 |-> "draining"]

\* Where the others go on.
Follower == [gate1 |-> "warmup_announced", gate2 |-> "warmup", gate3 |-> "restart",
             gate4 |-> "origin", gate5 |-> "check", gate6 |-> "drain_announced",
             gate7 |-> "draining"]

\* Mutant: the barrier is built for the peers of one room.
RoomTotal == Cardinality(Members(CHOOSE r \in Rooms : TRUE))

\* The barrier is built for all peers of all rooms: ScenarioSync::new.
PeerTotal == Cardinality(Peers)

\* Barrier::wait: the last to arrive opens the barrier and leads.
BarrierArrive(p) ==
    /\ at[p] \in DOMAIN Gate
    /\ waits' = [waits EXCEPT ![p] = @ + 1]
    /\ IF arrived + 1 = PeerTotal
       THEN /\ generation' = generation + 1
            /\ arrived' = 0
            /\ Go(p, Leader[Gate[at[p]]])
       ELSE /\ arrived' = arrived + 1
            /\ Go(p, Gate[at[p]])
            /\ UNCHANGED generation
    /\ UNCHANGED <<room, mediaVars, releaseVars, streamVars, run, failures>>

BarrierPass(p) ==
    /\ at[p] \in DOMAIN Follower
    /\ generation >= waits[p]
    /\ Go(p, Follower[at[p]])
    /\ UNCHANGED <<room, barrierVars, mediaVars, releaseVars, streamVars, run, failures>>

-------------------------------------------------------------------------------
(* A peer, from run_media_peer and prepare_media_peer. *)

LeadWarmup(p) ==
    /\ at[p] = "lead_warmup"
    /\ Request("warmup")
    /\ Go(p, "report_warmup")
    /\ UNCHANGED <<room, barrierVars, mediaVars, releaseVars, persisted, run, failures>>

\* Mutant: the leader does not wait for the acknowledgement.
WarmupAnnounced(p) ==
    /\ at[p] = "report_warmup"
    /\ Go(p, "warmup_announced")
    /\ UNCHANGED <<room, barrierVars, mediaVars, releaseVars, streamVars, run, failures>>

WarmupReported(p) ==
    /\ at[p] = "report_warmup"
    /\ report["warmup"] = "acknowledged"
    /\ Go(p, "warmup_announced")
    /\ UNCHANGED <<room, barrierVars, mediaVars, releaseVars, streamVars, run, failures>>

\* send_warmup, then drain_for(ROUTE_SETTLE_TIME).
Warmup(p) ==
    /\ at[p] = "warmup"
    /\ Go(p, "settled")
    /\ UNCHANGED <<room, barrierVars, mediaVars, releaseVars, streamVars, run, failures>>

\* reset_timelines and reset_send_pacing.
Restart(p) ==
    /\ at[p] = "restart"
    /\ Go(p, "restarted")
    /\ UNCHANGED <<room, barrierVars, mediaVars, releaseVars, streamVars, run, failures>>

\* Mutant: every peer starts from its own clock.
SetOwnOrigin(p) ==
    /\ at[p] = "origin"
    /\ measured_at' = p
    /\ origin' = [origin EXCEPT ![p] = p]
    /\ Go(p, "timed")
    /\ UNCHANGED <<room, barrierVars, sent, releaseVars, streamVars, run, failures>>

\* measured_at.get_or_init: the first peer's clock is everybody's.
SetOrigin(p) ==
    /\ at[p] = "origin"
    /\ measured_at' = IF measured_at = None THEN p ELSE measured_at
    /\ origin' = [origin EXCEPT ![p] = measured_at']
    /\ Go(p, "timed")
    /\ UNCHANGED <<room, barrierVars, sent, releaseVars, streamVars, run, failures>>

\* notify_one leaves a permit when report_measured is not waiting yet.
LeadMeasured(p) ==
    /\ at[p] = "lead_measured"
    /\ measured_ready' = TRUE
    /\ Go(p, "check")
    /\ UNCHANGED <<room, barrierVars, mediaVars, started, measured_acknowledged, woken,
                   reporter, streamVars, run, failures>>

\* Mutant: the start time is enough.
CheckClock(p) ==
    /\ at[p] = "check"
    /\ Go(p, IF started THEN "measured" ELSE "subscribe")
    /\ UNCHANGED <<room, barrierVars, mediaVars, releaseVars, streamVars, run, failures>>

\* wait_for_measured_acknowledgement: look, create the Notified future (which
\* notices every notify_waiters from here on), look again, wait.
Check(p) ==
    /\ at[p] = "check"
    /\ Go(p, IF measured_acknowledged THEN "measured" ELSE "subscribe")
    /\ UNCHANGED <<room, barrierVars, mediaVars, releaseVars, streamVars, run, failures>>

Subscribe(p) ==
    /\ at[p] = "subscribe"
    /\ woken' = woken \ {p}
    /\ Go(p, "recheck")
    /\ UNCHANGED <<room, barrierVars, mediaVars, started, measured_acknowledged,
                   measured_ready, reporter, streamVars, run, failures>>

\* Mutant: the future is awaited without a second look.
ParkAtOnce(p) ==
    /\ at[p] = "recheck"
    /\ Go(p, "parked")
    /\ UNCHANGED <<room, barrierVars, mediaVars, releaseVars, streamVars, run, failures>>

Recheck(p) ==
    /\ at[p] = "recheck"
    /\ Go(p, IF measured_acknowledged THEN "measured" ELSE "parked")
    /\ UNCHANGED <<room, barrierVars, mediaVars, releaseVars, streamVars, run, failures>>

Wake(p) ==
    /\ at[p] = "parked"
    /\ p \in woken
    /\ Go(p, "check")
    /\ UNCHANGED <<room, barrierVars, mediaVars, releaseVars, streamVars, run, failures>>

\* One packet of the send loop, with its opportunistic drain.
SendMeasured(p) ==
    /\ at[p] = "measured"
    /\ sent[p] < Work[p]
    /\ sent' = [sent EXCEPT ![p] = @ + 1]
    /\ UNCHANGED <<taskVars, barrierVars, origin, measured_at, releaseVars, streamVars, run,
                   failures>>

\* receive_until_complete returns: all is in, or the deadline has passed.
Complete(p) ==
    /\ at[p] = "measured"
    /\ sent[p] = Work[p]
    /\ Go(p, "complete")
    /\ UNCHANGED <<room, barrierVars, mediaVars, releaseVars, streamVars, run, failures>>

LeadDrain(p) ==
    /\ at[p] = "lead_drain"
    /\ Request("drain")
    /\ Go(p, "report_drain")
    /\ UNCHANGED <<room, barrierVars, mediaVars, releaseVars, persisted, run, failures>>

DrainReported(p) ==
    /\ at[p] = "report_drain"
    /\ report["drain"] = "acknowledged"
    /\ Go(p, "drain_announced")
    /\ UNCHANGED <<room, barrierVars, mediaVars, releaseVars, streamVars, run, failures>>

\* drain_for(QUIESCENCE_TIMEOUT), the ledger's finish, close.
Drain(p) ==
    /\ at[p] = "draining"
    /\ Go(p, "done")
    /\ UNCHANGED <<room, barrierVars, mediaVars, releaseVars, streamVars, run, failures>>

\* An await of the peer's transport or signaling fails.
FailPeer(p) ==
    /\ at[p] \in {"warmup", "measured", "draining"}
    /\ failures < MaxFailures
    /\ failures' = failures + 1
    /\ Go(p, "failed")
    /\ UNCHANGED <<room, barrierVars, mediaVars, releaseVars, streamVars, run>>

\* The leader's report_phase fails with the phase stream.
FailReport(p) ==
    /\ \/ at[p] = "report_warmup" /\ report["warmup"] = "refused"
       \/ at[p] = "report_drain" /\ report["drain"] = "refused"
    /\ Go(p, "failed")
    /\ UNCHANGED <<room, barrierVars, mediaVars, releaseVars, streamVars, run, failures>>

Stopped == {"done", "failed", "aborted"}

\* The peer's JoinSet is gone: its task is aborted at its next await.
Abort(p) ==
    /\ at[p] \notin Stopped
    /\ run = "failed" \/ room[Room[p]] = "failed"
    /\ Go(p, "aborted")
    /\ UNCHANGED <<room, barrierVars, mediaVars, releaseVars, streamVars, run, failures>>

Peer(p) ==
    \/ BarrierArrive(p) \/ BarrierPass(p)
    \/ LeadWarmup(p) \/ WarmupReported(p) \/ Warmup(p) \/ Restart(p)
    \/ SetOrigin(p) \/ LeadMeasured(p)
    \/ Check(p) \/ Subscribe(p) \/ Recheck(p) \/ Wake(p)
    \/ SendMeasured(p) \/ Complete(p)
    \/ LeadDrain(p) \/ DrainReported(p) \/ Drain(p)
    \/ FailReport(p) \/ Abort(p)

-------------------------------------------------------------------------------
(* report_measured, which runs beside the rooms in try_join!. *)

\* measured_ready.notified() consumes the permit; measured_at is set by then.
ReporterReady ==
    /\ reporter = "waiting"
    /\ measured_ready
    /\ measured_ready' = FALSE
    /\ reporter' = IF measured_at = None THEN "failed" ELSE "sleeping"
    /\ UNCHANGED <<taskVars, barrierVars, mediaVars, started, measured_acknowledged, woken,
                   streamVars, run, failures>>

\* The start comes MEASURE_START_LEAD after the first peer read its clock.
StartComes ==
    /\ measured_at # None
    /\ ~started
    /\ started' = TRUE
    /\ UNCHANGED <<taskVars, barrierVars, mediaVars, measured_acknowledged, measured_ready,
                   woken, reporter, streamVars, run, failures>>

\* sleep_until(started_at), then report_phase.
ReporterRequest ==
    /\ reporter = "sleeping"
    /\ started
    /\ Request("measured")
    /\ reporter' = "reporting"
    /\ UNCHANGED <<taskVars, barrierVars, mediaVars, started, measured_acknowledged,
                   measured_ready, woken, persisted, run, failures>>

ReporterStore ==
    /\ reporter = "reporting"
    /\ report["measured"] = "acknowledged"
    /\ measured_acknowledged' = TRUE
    /\ reporter' = "releasing"
    /\ UNCHANGED <<taskVars, barrierVars, mediaVars, started, measured_ready, woken,
                   streamVars, run, failures>>

\* notify_waiters reaches the futures that exist, and leaves no permit.
ReporterRelease ==
    /\ reporter = "releasing"
    /\ woken' = { p \in Peers : at[p] \in {"recheck", "parked"} }
    /\ reporter' = "done"
    /\ UNCHANGED <<taskVars, barrierVars, mediaVars, started, measured_acknowledged,
                   measured_ready, streamVars, run, failures>>

ReporterFails ==
    /\ reporter = "reporting"
    /\ report["measured"] = "refused"
    /\ reporter' = "failed"
    /\ UNCHANGED <<taskVars, barrierVars, mediaVars, started, measured_acknowledged,
                   measured_ready, woken, streamVars, run, failures>>

\* The future of report_measured lives in client::run and goes with it.
Reporter == /\ run = "running"
            /\ \/ ReporterReady \/ ReporterRequest \/ ReporterStore
               \/ ReporterRelease \/ ReporterFails

-------------------------------------------------------------------------------
(* The rooms and the run. *)

\* create_room, connect_peers, configure_video_layouts and publish_sources,
\* then one task for each peer.  The request of create_room and the WebSocket connects
\* have no timeout: a room may stay here.
SpawnPeers(r) ==
    /\ room[r] = "setup"
    /\ room' = [room EXCEPT ![r] = "running"]
    /\ at' = [p \in Peers |-> IF Room[p] = r THEN "spawned" ELSE at[p]]
    /\ UNCHANGED <<barrierVars, mediaVars, releaseVars, streamVars, run, failures>>

FailRoom(r) ==
    /\ room[r] = "setup"
    /\ failures < MaxFailures
    /\ failures' = failures + 1
    /\ room' = [room EXCEPT ![r] = "failed"]
    /\ UNCHANGED <<at, barrierVars, mediaVars, releaseVars, streamVars, run>>

\* Mutant: a room is done when its tasks are, whatever they return.
CollectStopped(r) ==
    /\ room[r] = "running"
    /\ \A p \in Members(r) : at[p] \in {"done", "failed"}
    /\ room' = [room EXCEPT ![r] = "done"]
    /\ UNCHANGED <<at, barrierVars, mediaVars, releaseVars, streamVars, run, failures>>

\* collect_peer_observations: the first error ends the room.
CollectPeers(r) ==
    /\ room[r] = "running"
    /\ \/ /\ \E p \in Members(r) : at[p] = "failed"
          /\ room' = [room EXCEPT ![r] = "failed"]
       \/ /\ \A p \in Members(r) : at[p] = "done"
          /\ room' = [room EXCEPT ![r] = "done"]
    /\ UNCHANGED <<at, barrierVars, mediaVars, releaseVars, streamVars, run, failures>>

\* The room's task is aborted with the run.
AbortRoom(r) ==
    /\ run = "failed"
    /\ room[r] \in {"setup", "running"}
    /\ room' = [room EXCEPT ![r] = "failed"]
    /\ UNCHANGED <<at, barrierVars, mediaVars, releaseVars, streamVars, run, failures>>

\* try_join!(collect_rooms, report_measured): both, or the first error.
JoinRun ==
    /\ run = "running"
    /\ \/ /\ \A r \in Rooms : room[r] = "done"
          /\ reporter = "done"
          /\ run' = "joined"
       \/ /\ (\E r \in Rooms : room[r] = "failed") \/ reporter = "failed"
          /\ run' = "failed"
    /\ UNCHANGED <<taskVars, barrierVars, mediaVars, releaseVars, streamVars, failures>>

\* write_result and validate: the file may not be written, the counts may differ.
ValidateRun ==
    /\ run = "joined"
    /\ run' \in {"ok", "failed"}
    /\ UNCHANGED <<taskVars, barrierVars, mediaVars, releaseVars, streamVars, failures>>

\* The runtime shuts down: it waits for tasks to be dropped and for the thread
\* that is in the middle of a phase exchange.
ExitWithError ==
    /\ run = "failed"
    /\ \A p \in Peers : at[p] \in Stopped
    /\ \A r \in Rooms : room[r] \notin {"setup", "running"}
    /\ InFlight = {}
    /\ run' = "error"
    /\ UNCHANGED <<taskVars, barrierVars, mediaVars, releaseVars, streamVars, failures>>

Exited == run \in {"ok", "error"} /\ UNCHANGED vars

-------------------------------------------------------------------------------

Init ==
    /\ room = [r \in Rooms |-> "setup"]
    /\ at = [p \in Peers |-> "idle"]
    /\ waits = [p \in Peers |-> 0]
    /\ sent = [p \in Peers |-> 0]
    /\ origin = [p \in Peers |-> None]
    /\ arrived = 0
    /\ generation = 0
    /\ measured_at = None
    /\ started = FALSE
    /\ measured_acknowledged = FALSE
    /\ measured_ready = FALSE
    /\ woken = {}
    /\ reporter = "waiting"
    /\ report = [ph \in Phases |-> "none"]
    /\ persisted = <<"setup">>
    /\ run = "running"
    /\ failures = 0

Stream(ph) == WriteEvent(ph) \/ Acknowledge(ph) \/ CloseStream(ph)

RoomTask(r) == SpawnPeers(r) \/ CollectPeers(r) \/ AbortRoom(r)

Next ==
    \/ \E p \in Peers : Peer(p) \/ FailPeer(p)
    \/ \E r \in Rooms : RoomTask(r) \/ FailRoom(r)
    \/ \E ph \in Phases : Stream(ph)
    \/ Reporter
    \/ StartComes
    \/ JoinRun \/ ValidateRun \/ ExitWithError
    \/ Exited

Spec == Init /\ [][Next]_vars

\* The runtime polls every task that can run, sleeps end, the blocking thread
\* runs, and the controller answers every event, one way or the other.  Nothing
\* in this process makes the setup of a room end: SpawnPeers is not here.
Fairness ==
    /\ \A p \in Peers : WF_vars(Peer(p))
    /\ \A r \in Rooms : WF_vars(CollectPeers(r) \/ AbortRoom(r))
    /\ \A ph \in Phases : WF_vars(Stream(ph))
    /\ WF_vars(Reporter)
    /\ WF_vars(StartComes)
    /\ WF_vars(JoinRun \/ ValidateRun \/ ExitWithError)

FairSpec == Spec /\ Fairness

-------------------------------------------------------------------------------
(* Properties. *)

Labels == {"idle", "lead_warmup", "report_warmup", "warmup", "restart", "origin",
           "lead_measured", "check", "subscribe", "recheck", "parked", "measured",
           "lead_drain", "report_drain", "draining"}
          \cup DOMAIN Gate \cup DOMAIN Follower \cup Stopped

\* Type invariant: in particular the barrier never holds as many arrivals as it
\* waits for, and opens at most seven times.
TypeOK ==
    /\ room \in [Rooms -> {"setup", "running", "done", "failed"}]
    /\ at \in [Peers -> Labels]
    /\ waits \in [Peers -> 0 .. 7]
    /\ sent \in [Peers -> Nat]
    /\ origin \in [Peers -> Peers \cup {None}]
    /\ arrived \in 0 .. (PeerTotal - 1)
    /\ generation \in 0 .. 7
    /\ measured_at \in Peers \cup {None}
    /\ started \in BOOLEAN
    /\ measured_acknowledged \in BOOLEAN
    /\ measured_ready \in BOOLEAN
    /\ woken \in SUBSET Peers
    /\ reporter \in {"waiting", "sleeping", "reporting", "releasing", "done", "failed"}
    /\ report \in [Phases -> {"none", "requested", "written", "acknowledged", "refused"}]
    /\ persisted \in Seq({"setup"} \cup Phases)
    /\ run \in {"running", "joined", "failed", "ok", "error"}
    /\ failures \in 0 .. MaxFailures

\* Media stays inside the phase the controller has persisted for it: warm-up
\* packets leave after Warmup and before Measured, measured packets after
\* Measured and before Drain, whatever peer of whatever room sends them.
MediaInsidePhase ==
    [][ /\ (\E p \in Peers : sent'[p] # sent[p]) =>
                persisted = <<"setup", "warmup", "measured">>
        /\ (\E p \in Peers : at[p] = "warmup" /\ at'[p] = "settled") =>
                persisted = <<"setup", "warmup">> ]_vars

\* All peers measure from one instant, and have it before any of them sends.
OneOrigin ==
    /\ \A p \in Peers : origin[p] \in {None, measured_at}
    /\ (\E p \in Peers : sent[p] > 0) => \A p \in Peers : origin[p] # None

\* Reports are made by different tasks, and their threads by whoever leads; yet
\* no two are ever made at the same time, and each is the one PhaseSequence
\* expects.
PhasesComeOneByOne ==
    /\ Cardinality({ ph \in Phases : report[ph] \in {"requested", "written"} }) <= 1
    /\ \A ph \in Phases : report[ph] \in {"requested", "written"} => ph = NextPhase

\* A run that succeeds has lost no error on the way: every phase is persisted,
\* every peer has finished its work and closed, and nothing failed.
SuccessHidesNothing ==
    run = "ok" => /\ failures = 0
                  /\ persisted = Ordered
                  /\ \A p \in Peers : at[p] = "done" /\ sent[p] = Work[p]

\* The rounds of a peer that still runs, by where it is.
Round == [idle |-> 0, spawned |-> 0, gate1 |-> 0,
          lead_warmup |-> 1, report_warmup |-> 1, warmup_announced |-> 1, gate2 |-> 1,
          warmup |-> 2, settled |-> 2, gate3 |-> 2,
          restart |-> 3, restarted |-> 3, gate4 |-> 3,
          origin |-> 4, timed |-> 4, gate5 |-> 4,
          lead_measured |-> 5, check |-> 5, subscribe |-> 5, recheck |-> 5, parked |-> 5,
          measured |-> 5, complete |-> 5, gate6 |-> 5,
          lead_drain |-> 6, report_drain |-> 6, drain_announced |-> 6, gate7 |-> 6,
          draining |-> 7]

\* What Lockstep sees of a peer; of one that has stopped, what its calls of wait tell.
Entered == [p \in Peers |->
    IF at[p] \notin Stopped THEN Round[at[p]]
    ELSE IF waits[p] > generation THEN generation ELSE waits[p]]
Finished == [p \in Peers |->
    IF at[p] \notin Stopped THEN at[p] \in DOMAIN Follower ELSE waits[p] > generation]

\* The barrier keeps the peers of all rooms in lockstep, though it only counts
\* and tasks may fail or be aborted while they are counted.
Steps == INSTANCE Lockstep WITH Rounds <- 7, round <- Entered, finished <- Finished

ImplementsLockstep == Steps!LockstepSpec

\* Once every room is set up, or has failed, the process ends: no lost wake-up,
\* no barrier that stays shut and no phase exchange keeps it, whatever fails.  A
\* room whose server does not answer in setup keeps the process until the
\* controller's rtc_worker_deadline kills it (RunReturns of Controller).
RunEnds == (\A r \in Rooms : <>(room[r] # "setup")) => <>(run \in {"ok", "error"})
===============================================================================
