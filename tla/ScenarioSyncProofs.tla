-------------------------- MODULE ScenarioSyncProofs --------------------------
(***************************************************************************)
(* For every number of rooms and peers, every room assignment and every    *)
(* amount of work: the barrier keeps the peers in lockstep, the phases are *)
(* reported one at a time and in order, media stays inside its phase, all  *)
(* peers measure from one instant, and success hides no failure.           *)
(***************************************************************************)
EXTENDS ScenarioSync, FiniteSetTheorems, SequenceTheorems, TLAPS

-------------------------------------------------------------------------------
(* The inductive invariant. *)

\* The places from where a peer calls wait, and those where it waits.
Calling == {"spawned", "warmup_announced", "settled", "restarted", "timed", "complete",
            "drain_announced"}
Waiting == {"gate1", "gate2", "gate3", "gate4", "gate5", "gate6", "gate7"}

\* The arrivals of the generation that has not opened.
Counted == { p \in Peers : waits[p] = generation + 1 }

\* The barrier counts arrivals only, yet it holds exactly one for each peer that has called wait
\* in this generation, dropped or not: nobody is more than one call ahead.
BarrierInv ==
    /\ \A p \in Peers : waits[p] \in {generation, generation + 1}
    /\ arrived = Cardinality(Counted)
    /\ \A p \in Peers : at[p] \in Waiting => waits[p] = Round[at[p]] + 1
    /\ \A p \in Peers : at[p] \notin Waiting \union Stopped =>
           waits[p] = Round[at[p]] /\ generation = Round[at[p]]
    /\ \A p \in Peers : at[p] = "done" => waits[p] = 7 /\ generation = 7

\* What a room's state says about its peers, and the run's about the rooms.
RoomInv ==
    /\ \A p \in Peers : room[Room[p]] = "setup" => at[p] \in {"idle", "aborted"} /\ waits[p] = 0
    /\ \A p \in Peers : room[Room[p]] = "done" => at[p] = "done"
    /\ run \in {"joined", "ok"} => (\A r \in Rooms : room[r] = "done") /\ reporter = "done"

Acknowledged(ph) == report[ph] = "acknowledged"

\* What the controller has persisted is what it has acknowledged, in order.
StreamInv ==
    \/ /\ persisted = <<"setup">>
       /\ \A ph \in Phases : ~Acknowledged(ph)
    \/ /\ persisted = <<"setup", "warmup">>
       /\ Acknowledged("warmup") /\ ~Acknowledged("measured") /\ ~Acknowledged("drain")
    \/ /\ persisted = <<"setup", "warmup", "measured">>
       /\ Acknowledged("warmup") /\ Acknowledged("measured") /\ ~Acknowledged("drain")
    \/ /\ persisted = <<"setup", "warmup", "measured", "drain">>
       /\ \A ph \in Phases : Acknowledged(ph)

\* One leader reports Warmup in round 1 and one reports Drain in round 6.  The barrier cannot open
\* again before the acknowledgement: the leader is at it, or has stopped without arriving.
LeaderInv(ph, lead, reporting, r) ==
    /\ report[ph] # "none" => generation >= r
    /\ \A p \in Peers : at[p] = lead => report[ph] = "none"
    /\ \A p, q \in Peers : at[p] = lead /\ at[q] = lead => p = q
    /\ generation >= r =>
           \/ Acknowledged(ph)
           \/ /\ generation = r
              /\ \E p \in Peers : waits[p] = r /\ at[p] \in {lead, reporting} \union Stopped

\* report_measured reports in round 5, and nobody leaves that round before it is acknowledged.
MeasuredInv ==
    /\ measured_ready \/ reporter # "waiting" => generation >= 5
    /\ reporter \in {"waiting", "sleeping"} => report["measured"] = "none"
    /\ measured_acknowledged <=> reporter \in {"releasing", "done"}
    /\ measured_acknowledged => Acknowledged("measured")
    /\ \A p \in Peers : waits[p] >= 6 \/ at[p] \in {"measured", "complete"} =>
           measured_acknowledged

\* The first peer of round 4 sets the origin, and all have it before the fifth opens.
OriginInv ==
    /\ \A p \in Peers : origin[p] \in {None, measured_at}
    /\ \A p \in Peers : waits[p] >= 5 \/ at[p] = "timed" => origin[p] # None
    /\ \A p \in Peers : sent[p] > 0 => generation >= 5
    /\ \A p \in Peers : waits[p] >= 6 \/ at[p] = "complete" => sent[p] = Work[p]

\* A peer that will never arrive, while the barrier waits for it.
Blocker(p) ==
    /\ waits[p] = generation
    /\ at[p] \in {"idle", "failed", "aborted"}
    /\ room[Room[p]] # "setup"

Blocked == reporter = "failed" \/ \E p \in Peers : Blocker(p)

Trouble ==
    \/ \E p \in Peers : at[p] \in {"failed", "aborted"}
    \/ \E r \in Rooms : room[r] = "failed"
    \/ run \in {"failed", "error"} /\ \E r \in Rooms : room[r] # "done"

\* Nothing fails and nobody is aborted but the barrier is shut for good, and a failure leaves its
\* mark.
FaultInv ==
    /\ Trouble => Blocked
    /\ failures > 0 => \/ \E p \in Peers : at[p] = "failed"
                       \/ \E r \in Rooms : room[r] = "failed"
                       \/ \E ph \in Phases : report[ph] = "refused"

IInv ==
    /\ TypeOK
    /\ BarrierInv
    /\ RoomInv
    /\ StreamInv
    /\ LeaderInv("warmup", "lead_warmup", "report_warmup", 1)
    /\ LeaderInv("drain", "lead_drain", "report_drain", 6)
    /\ MeasuredInv
    /\ OriginInv
    /\ FaultInv
-------------------------------------------------------------------------------
(* The places of a peer and the barrier's arrivals. *)

\* The tables that lead a peer through the barrier, spelled out.
LEMMA Places == DOMAIN Gate = Calling /\ DOMAIN Follower = Waiting
BY DEF Gate, Follower, Calling, Waiting

\* A call of wait keeps the round of its peer, and an open barrier takes it to the next.
LEMMA NextRound ==
    /\ \A s \in Calling : Gate[s] \in Waiting /\ Round[Gate[s]] = Round[s] /\ Round[s] \in 0 .. 6
    /\ \A s \in Calling : /\ Leader[Gate[s]] \in Labels \ (Waiting \union Stopped)
                          /\ Round[Leader[Gate[s]]] = Round[s] + 1
    /\ \A s \in Waiting : /\ Follower[s] \in Labels \ (Waiting \union Stopped)
                          /\ Round[Follower[s]] = Round[s] + 1
    /\ \A s \in Labels \ Stopped : Round[s] \in 0 .. 7
BY Places DEF Gate, Leader, Follower, Round, Calling, Waiting, Labels, Stopped

\* The barrier waits for at least one peer.
LEMMA SomePeers == PeerTotal \in Nat /\ PeerTotal > 0
BY SyncAssumption, FS_CardinalityType, FS_EmptySet DEF PeerTotal

\* A peer that is about to call wait is in the generation the barrier is in.
LEMMA Callers ==
    ASSUME TypeOK, BarrierInv, NEW p \in Peers, at[p] \in Calling
    PROVE  /\ at[p] \notin Waiting \union Stopped
           /\ waits[p] = generation /\ Round[at[p]] = generation
           /\ generation \in 0 .. 6
           /\ Counted \subseteq Peers /\ p \notin Counted
<1>1. at[p] \notin Waiting \union Stopped
  BY DEF Calling, Waiting, Stopped
<1>2. waits[p] = generation /\ Round[at[p]] = generation
  BY <1>1 DEF BarrierInv
<1>3. generation \in 0 .. 6
  BY <1>2, NextRound
<1> QED
  BY <1>1, <1>2, <1>3 DEF Counted

\* The arrival that opens the barrier is the last: every other peer has called wait, and nobody
\* twice.
LEMMA Opening ==
    ASSUME TypeOK, BarrierInv, NEW p \in Peers, at[p] \in Calling, arrived + 1 = PeerTotal
    PROVE  \A q \in Peers \ {p} : waits[q] = generation + 1
<1>1. Counted \subseteq Peers /\ p \notin Counted
  BY Callers
<1>2. IsFiniteSet(Counted)
  BY <1>1, SyncAssumption, FS_Subset
<1>3. Cardinality(Counted \union {p}) = Cardinality(Peers)
  BY <1>1, <1>2, FS_AddElement DEF BarrierInv, PeerTotal
<1>4. Counted \union {p} = Peers
  BY <1>1, <1>3, SyncAssumption, FS_Subset
<1> QED
  BY <1>4 DEF Counted

\* Any other arrival leaves room for one more.
LEMMA Arriving ==
    ASSUME TypeOK, BarrierInv, NEW p \in Peers, at[p] \in Calling, arrived + 1 # PeerTotal
    PROVE  /\ p \notin Counted
           /\ Cardinality(Counted \union {p}) = arrived + 1
           /\ arrived + 1 \in 0 .. (PeerTotal - 1)
<1>1. Counted \subseteq Peers /\ p \notin Counted
  BY Callers
<1>2. IsFiniteSet(Counted)
  BY <1>1, SyncAssumption, FS_Subset
<1>3. Cardinality(Counted \union {p}) = arrived + 1
  BY <1>1, <1>2, FS_AddElement DEF BarrierInv
<1>4. Cardinality(Counted \union {p}) <= PeerTotal
  BY <1>1, SyncAssumption, FS_Subset DEF PeerTotal
<1> QED
  BY <1>1, <1>3, <1>4, SomePeers DEF TypeOK

-------------------------------------------------------------------------------
(* What a step of a peer leaves alone. *)

\* The steps of a peer between two calls of wait.
Inside(p) ==
    \/ LeadWarmup(p) \/ WarmupReported(p) \/ Warmup(p) \/ Restart(p)
    \/ SetOrigin(p) \/ LeadMeasured(p)
    \/ Check(p) \/ Subscribe(p) \/ Recheck(p) \/ Wake(p)
    \/ SendMeasured(p) \/ Complete(p)
    \/ LeadDrain(p) \/ DrainReported(p)

\* The steps with which a peer's task ends.
Stop(p) == Drain(p) \/ FailPeer(p) \/ FailReport(p) \/ Abort(p)

\* Between two calls of wait a peer stays in its round.
LEMMA InsideRound ==
    ASSUME TypeOK, NEW p \in Peers, Inside(p)
    PROVE  /\ UNCHANGED <<room, waits, arrived, generation, run, failures>>
           /\ at' = [at EXCEPT ![p] = at'[p]]
           /\ at[p] \notin Waiting \union Stopped \union {"idle"}
           /\ at'[p] \in Labels \ (Waiting \union Stopped \union {"idle"})
           /\ Round[at'[p]] = Round[at[p]]
<1> USE DEF TypeOK, Go, taskVars, barrierVars, mediaVars, releaseVars, streamVars
<1>1. CASE LeadWarmup(p) \/ WarmupReported(p) \/ Warmup(p) \/ Restart(p) \/ SetOrigin(p)
  BY <1>1, Places DEF LeadWarmup, WarmupReported, Warmup, Restart, SetOrigin, Calling, Waiting,
     Stopped, Labels,
     Round
<1>2. CASE LeadMeasured(p) \/ Check(p) \/ Subscribe(p) \/ Recheck(p) \/ Wake(p)
  BY <1>2, Places DEF LeadMeasured, Check, Subscribe, Recheck, Wake, Calling, Waiting, Stopped,
     Labels, Round
<1>3. CASE SendMeasured(p) \/ Complete(p) \/ LeadDrain(p) \/ DrainReported(p)
  BY <1>3, Places DEF SendMeasured, Complete, LeadDrain, DrainReported, Calling, Waiting, Stopped,
     Labels, Round
<1> QED
  BY <1>1, <1>2, <1>3 DEF Inside

\* A task that ends changes only its own place.
LEMMA StopPlace ==
    ASSUME TypeOK, NEW p \in Peers, Stop(p)
    PROVE  /\ UNCHANGED <<room, barrierVars, mediaVars, releaseVars, streamVars, run>>
           /\ at' = [at EXCEPT ![p] = at'[p]]
           /\ at[p] \notin Stopped
           /\ \/ at'[p] = "done" /\ at[p] = "draining" /\ UNCHANGED failures
              \/ /\ at'[p] = "failed" /\ at[p] \notin Waiting \union {"idle"}
                 /\ failures' \in 0 .. MaxFailures
              \/ /\ at'[p] = "aborted" /\ UNCHANGED failures
                 /\ run = "failed" \/ room[Room[p]] = "failed"
<1> USE DEF TypeOK, Go, taskVars, barrierVars, mediaVars, releaseVars, streamVars, Stopped, Waiting
<1>1. CASE Drain(p)
  BY <1>1 DEF Drain
<1>2. CASE FailPeer(p)
  BY SMTT(30), <1>2, SyncAssumption DEF FailPeer
<1>3. CASE FailReport(p)
  BY <1>3 DEF FailReport
<1>4. CASE Abort(p)
  BY <1>4 DEF Abort
<1> QED
  BY <1>1, <1>2, <1>3, <1>4 DEF Stop

\* The steps that touch neither a task nor the barrier.
Aside ==
    \/ \E ph \in Phases : Stream(ph)
    \/ Reporter \/ StartComes
    \/ JoinRun \/ ValidateRun \/ ExitWithError
    \/ UNCHANGED vars

\* They leave tasks, barrier and media as they are.
LEMMA AsideKeeps == ASSUME Aside PROVE UNCHANGED <<taskVars, barrierVars, mediaVars>>
<1> USE DEF vars
<1>1. CASE \E ph \in Phases : Stream(ph)
  BY <1>1 DEF Stream, WriteEvent, Acknowledge, CloseStream
<1>2. CASE Reporter
  BY <1>2 DEF Reporter, ReporterReady, ReporterRequest, ReporterStore, ReporterRelease,
     ReporterFails
<1>3. CASE StartComes \/ JoinRun \/ ValidateRun \/ ExitWithError
  BY <1>3 DEF StartComes, JoinRun, ValidateRun, ExitWithError
<1> QED
  BY <1>1, <1>2, <1>3 DEF Aside

\* The steps of the system, sorted.
LEMMA Sorted ==
    ASSUME [Next]_vars
    PROVE  \/ \E p \in Peers : BarrierArrive(p) \/ BarrierPass(p) \/ Inside(p) \/ Stop(p)
           \/ \E r \in Rooms : RoomTask(r) \/ FailRoom(r)
           \/ Aside
BY DEF Next, Peer, Inside, Stop, Aside, Exited

-------------------------------------------------------------------------------
(* The parts of the invariant, one by one. *)

\* BarrierInv: only an arrival counts, and only the last opens the barrier.
LEMMA BarrierStep == IInv /\ [Next]_vars => BarrierInv'
<1> SUFFICES ASSUME IInv, [Next]_vars PROVE BarrierInv'
  OBVIOUS
<1> USE DEF IInv, barrierVars, taskVars
<1>1. ASSUME NEW p \in Peers, BarrierArrive(p) PROVE BarrierInv'
  <2>1. /\ at[p] \in Calling
        /\ waits' = [waits EXCEPT ![p] = @ + 1]
        /\ UNCHANGED room
    BY <1>1, Places DEF BarrierArrive
  <2>2. /\ waits[p] = generation /\ Round[at[p]] = generation /\ generation \in 0 .. 6
        /\ Counted \subseteq Peers /\ p \notin Counted
    BY <2>1, Callers
  <2>3. waits'[p] = generation + 1 /\ \A q \in Peers \ {p} : waits'[q] = waits[q]
    BY <2>1, <2>2 DEF TypeOK
  <2>4. CASE arrived + 1 = PeerTotal
    <3>1. \A q \in Peers : waits'[q] = generation + 1
      BY <2>1, <2>3, <2>4, Opening
    <3>2. /\ generation' = generation + 1 /\ arrived' = 0
          /\ at' = [at EXCEPT ![p] = Leader[Gate[at[p]]]]
      BY <1>1, <2>4 DEF BarrierArrive, Go
    <3>3. Counted' = {}
      BY <2>2, <3>1, <3>2 DEF Counted
    <3>4. /\ at'[p] \notin Waiting \union Stopped
          /\ Round[at'[p]] = generation + 1
      BY <2>1, <2>2, <3>2, NextRound DEF TypeOK
    <3>5. ASSUME NEW q \in Peers \ {p}
          PROVE  at'[q] = at[q] /\ at[q] \in Waiting \union Stopped /\ at[q] # "done"
      <4>1. waits[q] = generation + 1 /\ waits[q] # generation
        BY <2>2, <2>3, <3>1
      <4>2. at[q] \in Waiting \union Stopped
        BY <4>1 DEF BarrierInv
      <4>3. at[q] # "done"
        BY <2>2 DEF BarrierInv
      <4>4. at'[q] = at[q]
        BY <3>2 DEF TypeOK
      <4> QED
        BY <4>2, <4>3, <4>4
    <3> QED
      BY <2>2, <2>3, <3>1, <3>2, <3>3, <3>4, <3>5, FS_EmptySet DEF BarrierInv, Stopped
  <2>5. CASE arrived + 1 # PeerTotal
    <3>1. /\ arrived' = arrived + 1 /\ generation' = generation
          /\ at' = [at EXCEPT ![p] = Gate[at[p]]]
      BY <1>1, <2>5 DEF BarrierArrive, Go
    <3>2. Counted' = Counted \union {p}
      BY <2>2, <2>3, <3>1 DEF Counted
    <3>3. arrived' = Cardinality(Counted')
      BY <2>1, <2>5, <3>1, <3>2, Arriving
    <3>4. at'[p] \in Waiting /\ Round[at'[p]] = generation
      BY <2>1, <2>2, <3>1, NextRound DEF TypeOK
    <3>5. \A q \in Peers \ {p} : at'[q] = at[q]
      BY <3>1 DEF TypeOK
    <3> QED
      BY <2>2, <2>3, <3>1, <3>3, <3>4, <3>5 DEF BarrierInv, Stopped, Waiting
  <2> QED
    BY <2>4, <2>5
<1>2. ASSUME NEW p \in Peers, BarrierPass(p) PROVE BarrierInv'
  <2>1. /\ at[p] \in Waiting /\ generation >= waits[p]
        /\ at' = [at EXCEPT ![p] = Follower[at[p]]]
        /\ UNCHANGED <<waits, arrived, generation>>
    BY <1>2, Places DEF BarrierPass, Go
  <2>2. waits[p] = generation /\ waits[p] = Round[at[p]] + 1
    BY <2>1 DEF BarrierInv, TypeOK
  <2>3. at'[p] \notin Waiting \union Stopped /\ Round[at'[p]] = generation
    BY <2>1, <2>2, NextRound DEF TypeOK
  <2>4. \A q \in Peers \ {p} : at'[q] = at[q]
    BY <2>1 DEF TypeOK
  <2>5. Counted' = Counted
    BY <2>1 DEF Counted
  <2> QED
    BY <2>1, <2>2, <2>3, <2>4, <2>5 DEF BarrierInv, Stopped
<1>3. ASSUME NEW p \in Peers, Inside(p) PROVE BarrierInv'
  <2>1. \A q \in Peers \ {p} : at'[q] = at[q]
    BY <1>3, InsideRound DEF TypeOK
  <2>2. Counted' = Counted
    BY <1>3, InsideRound DEF Counted
  <2> QED
    BY <1>3, <2>1, <2>2, InsideRound DEF BarrierInv, Stopped
<1>4. ASSUME NEW p \in Peers, Stop(p) PROVE BarrierInv'
  <2>1. \A q \in Peers \ {p} : at'[q] = at[q]
    BY <1>4, StopPlace DEF TypeOK
  <2>2. UNCHANGED <<waits, arrived, generation>> /\ Counted' = Counted
    BY <1>4, StopPlace DEF Counted
  <2>3. at'[p] \in Stopped \ Waiting /\ (at'[p] = "done" => waits[p] = 7 /\ generation = 7)
    BY <1>4, StopPlace DEF BarrierInv, Stopped, Waiting, Round
  <2> QED
    BY <2>1, <2>2, <2>3 DEF BarrierInv
<1>5. ASSUME NEW r \in Rooms, RoomTask(r) \/ FailRoom(r) PROVE BarrierInv'
  <2>1. CASE SpawnPeers(r)
    <3>1. UNCHANGED <<waits, arrived, generation>> /\ Counted' = Counted
      BY <2>1 DEF SpawnPeers, Counted
    <3>2. \A q \in Peers : at'[q] = IF Room[q] = r THEN "spawned" ELSE at[q]
      BY <2>1 DEF SpawnPeers
    <3>3. \A q \in Peers : Room[q] = r => waits[q] = 0 /\ generation = 0
      BY <2>1 DEF SpawnPeers, RoomInv, BarrierInv, TypeOK
    <3>4. Round["spawned"] = 0 /\ "spawned" \notin Waiting \union Stopped
      BY DEF Round, Waiting, Stopped
    <3> QED
      BY <3>1, <3>2, <3>3, <3>4 DEF BarrierInv, Stopped
  <2>2. CASE CollectPeers(r) \/ AbortRoom(r) \/ FailRoom(r)
    <3>1. UNCHANGED <<at, waits, arrived, generation>> /\ Counted' = Counted
      BY <2>2 DEF CollectPeers, AbortRoom, FailRoom, Counted
    <3> QED
      BY <3>1 DEF BarrierInv
  <2> QED
    BY <1>5, <2>1, <2>2 DEF RoomTask
<1>6. ASSUME Aside PROVE BarrierInv'
  <2>1. UNCHANGED <<at, waits, arrived, generation>> /\ Counted' = Counted
    BY <1>6, AsideKeeps DEF Counted
  <2> QED
    BY <2>1 DEF BarrierInv
<1> QED
  BY <1>1, <1>2, <1>3, <1>4, <1>5, <1>6, Sorted

\* RoomInv: a room that is being set up has no tasks, and one that is done has only finished ones.
LEMMA RoomStep == IInv /\ [Next]_vars => RoomInv'
<1> SUFFICES ASSUME IInv, [Next]_vars PROVE RoomInv'
  OBVIOUS
<1> USE DEF IInv, barrierVars, taskVars
<1>1. ASSUME NEW p \in Peers, BarrierArrive(p) \/ BarrierPass(p) \/ Inside(p)
      PROVE  RoomInv'
  <2>1. /\ UNCHANGED <<room, run>>
        /\ at[p] \notin {"idle", "aborted", "done"}
        /\ \A q \in Peers \ {p} : at'[q] = at[q] /\ waits'[q] = waits[q]
    <3>1. CASE BarrierArrive(p)
      BY <3>1, Places DEF BarrierArrive, Go, TypeOK, Calling
    <3>2. CASE BarrierPass(p)
      BY <3>2, Places DEF BarrierPass, Go, TypeOK, Waiting
    <3>3. CASE Inside(p)
      BY <3>3, InsideRound DEF Stopped, TypeOK
    <3> QED
      BY <1>1, <3>1, <3>2, <3>3
  <2>2. UNCHANGED reporter
    BY <1>1 DEF BarrierArrive, BarrierPass, Inside, LeadWarmup, WarmupReported, Warmup, Restart,
       SetOrigin,
       LeadMeasured, Check, Subscribe, Recheck, Wake, SendMeasured, Complete, LeadDrain,
       DrainReported, releaseVars
  <2> QED
    BY <2>1, <2>2 DEF RoomInv
<1>2. ASSUME NEW p \in Peers, Stop(p) PROVE RoomInv'
  <2>1. /\ UNCHANGED <<room, waits, run, reporter>>
        /\ at[p] \notin Stopped
        /\ at'[p] = "aborted" \/ at[p] # "idle"
        /\ \A q \in Peers \ {p} : at'[q] = at[q]
    BY <1>2, StopPlace DEF TypeOK, releaseVars
  <2> QED
    BY <2>1 DEF RoomInv, Stopped
<1>3. ASSUME NEW r \in Rooms, RoomTask(r) \/ FailRoom(r) PROVE RoomInv'
  <2>1. UNCHANGED <<waits, run, reporter>>
    BY <1>3 DEF RoomTask, SpawnPeers, CollectPeers, AbortRoom, FailRoom, releaseVars
  <2>2. CASE SpawnPeers(r)
    BY <2>1, <2>2 DEF SpawnPeers, RoomInv, TypeOK
  <2>3. CASE CollectPeers(r)
    BY <2>1, <2>3, SyncAssumption DEF CollectPeers, Members, RoomInv, TypeOK
  <2>4. CASE AbortRoom(r) \/ FailRoom(r)
    BY SMTT(30), <2>1, <2>4, SyncAssumption DEF AbortRoom, FailRoom, RoomInv, TypeOK
  <2> QED
    BY <1>3, <2>2, <2>3, <2>4 DEF RoomTask
<1>4. ASSUME Aside PROVE RoomInv'
  <2>1. UNCHANGED <<room, at, waits>>
    BY <1>4, AsideKeeps
  <2>2. run' \in {"joined", "ok"} => (\A r \in Rooms : room[r] = "done") /\ reporter' = "done"
    <3>1. CASE \E ph \in Phases : Stream(ph)
      BY <3>1 DEF Stream, WriteEvent, Acknowledge, CloseStream, RoomInv, releaseVars
    <3>2. CASE Reporter
      BY <3>2 DEF Reporter, ReporterReady, ReporterRequest, ReporterStore, ReporterRelease,
         ReporterFails
    <3>3. CASE StartComes \/ JoinRun \/ ValidateRun \/ ExitWithError
      BY <3>3 DEF StartComes, JoinRun, ValidateRun, ExitWithError, RoomInv, releaseVars
    <3>4. CASE UNCHANGED vars
      BY <3>4 DEF vars, releaseVars, RoomInv
    <3> QED
      BY <1>4, <3>1, <3>2, <3>3, <3>4 DEF Aside
  <2> QED
    BY <2>1, <2>2 DEF RoomInv
<1> QED
  BY <1>1, <1>2, <1>3, <1>4, Sorted

\* Append to sequences of known length.
LEMMA Appending ==
    ASSUME NEW w, NEW x, NEW y
    PROVE  /\ Append(<<w>>, x) = <<w, x>>
           /\ Append(<<w, x>>, y) = <<w, x, y>>
<1>1. Append(<<w>>, x) = <<w, x>>
  <2>1. /\ <<w>> \in Seq({w, x, y}) /\ Len(<<w>>) = 1
        /\ <<w>>[1] = w
    OBVIOUS
  <2>2. /\ Append(<<w>>, x) \in Seq({w, x, y}) /\ Len(Append(<<w>>, x)) = 2
        /\ Append(<<w>>, x)[1] = w /\ Append(<<w>>, x)[2] = x
    BY <2>1
  <2>3. /\ <<w, x>> \in Seq({w, x, y}) /\ Len(<<w, x>>) = 2
        /\ <<w, x>>[1] = w /\ <<w, x>>[2] = x
    OBVIOUS
  <2>4. \A i \in 1 .. 2 : Append(<<w>>, x)[i] = <<w, x>>[i]
    BY <2>2, <2>3
  <2> QED
    BY <2>2, <2>3, <2>4, SeqEqual
<1>2. Append(<<w, x>>, y) = <<w, x, y>>
  <2>1. /\ <<w, x>> \in Seq({w, x, y}) /\ Len(<<w, x>>) = 2
        /\ <<w, x>>[1] = w /\ <<w, x>>[2] = x
    OBVIOUS
  <2>2. /\ Append(<<w, x>>, y) \in Seq({w, x, y}) /\ Len(Append(<<w, x>>, y)) = 3
        /\ Append(<<w, x>>, y)[1] = w /\ Append(<<w, x>>, y)[2] = x /\ Append(<<w, x>>, y)[3] = y
    BY <2>1
  <2>3. /\ <<w, x, y>> \in Seq({w, x, y}) /\ Len(<<w, x, y>>) = 3
        /\ <<w, x, y>>[1] = w /\ <<w, x, y>>[2] = x /\ <<w, x, y>>[3] = y
    OBVIOUS
  <2>4. \A i \in 1 .. 3 : Append(<<w, x>>, y)[i] = <<w, x, y>>[i]
    BY <2>2, <2>3
  <2> QED
    BY <2>2, <2>3, <2>4, SeqEqual
<1> QED
  BY <1>1, <1>2

\* The same for one more element.
LEMMA AppendingThird ==
    ASSUME NEW w, NEW x, NEW y, NEW z
    PROVE  Append(<<w, x, y>>, z) = <<w, x, y, z>>
<1>1. /\ <<w, x, y>> \in Seq({w, x, y, z}) /\ Len(<<w, x, y>>) = 3
      /\ <<w, x, y>>[1] = w /\ <<w, x, y>>[2] = x /\ <<w, x, y>>[3] = y
  OBVIOUS
<1>2. /\ Append(<<w, x, y>>, z) \in Seq({w, x, y, z}) /\ Len(Append(<<w, x, y>>, z)) = 4
      /\ Append(<<w, x, y>>, z)[1] = w /\ Append(<<w, x, y>>, z)[2] = x
      /\ Append(<<w, x, y>>, z)[3] = y /\ Append(<<w, x, y>>, z)[4] = z
  BY <1>1
<1>3. /\ <<w, x, y, z>> \in Seq({w, x, y, z}) /\ Len(<<w, x, y, z>>) = 4
      /\ <<w, x, y, z>>[1] = w /\ <<w, x, y, z>>[2] = x /\ <<w, x, y, z>>[3] = y
      /\ <<w, x, y, z>>[4] = z
  OBVIOUS
<1>4. \A i \in 1 .. 4 : Append(<<w, x, y>>, z)[i] = <<w, x, y, z>>[i]
  BY <1>2, <1>3
<1> QED
  BY <1>2, <1>3, <1>4, SeqEqual

\* The phase PhaseSequence expects, by what has been persisted, and what persisting it gives.
LEMMA Expected ==
    /\ persisted = <<"setup">> =>
           NextPhase = "warmup" /\ Append(persisted, "warmup") = <<"setup", "warmup">>
    /\ persisted = <<"setup", "warmup">> =>
           /\ NextPhase = "measured"
           /\ Append(persisted, "measured") = <<"setup", "warmup", "measured">>
    /\ persisted = <<"setup", "warmup", "measured">> =>
           NextPhase = "drain" /\ Append(persisted, "drain") = Ordered
<1>1. Len(Ordered) = 4 /\ Ordered[2] = "warmup" /\ Ordered[3] = "measured" /\ Ordered[4] = "drain"
  BY DEF Ordered
<1>2. /\ Len(<<"setup">>) = 1 /\ Len(<<"setup", "warmup">>) = 2
      /\ Len(<<"setup", "warmup", "measured">>) = 3
  OBVIOUS
<1>3. Append(<<"setup">>, "warmup") = <<"setup", "warmup">>
  BY Appending
<1>4. Append(<<"setup", "warmup">>, "measured") = <<"setup", "warmup", "measured">>
  BY Appending
<1>5. Append(<<"setup", "warmup", "measured">>, "drain") = <<"setup", "warmup", "measured", "drain">>
  BY AppendingThird
<1>6. persisted = <<"setup">> => NextPhase = "warmup"
  BY <1>1, <1>2 DEF NextPhase
<1>7. persisted = <<"setup", "warmup">> => NextPhase = "measured"
  BY <1>1, <1>2 DEF NextPhase
<1>8. persisted = <<"setup", "warmup", "measured">> => NextPhase = "drain"
  BY <1>1, <1>2 DEF NextPhase
<1> QED
  BY <1>3, <1>4, <1>5, <1>6, <1>7, <1>8 DEF Ordered

\* Only these steps change a report.
LEMMA Reports ==
    ASSUME [Next]_vars
    PROVE  \/ UNCHANGED streamVars
           \/ \E p \in Peers : LeadWarmup(p) \/ LeadDrain(p)
           \/ Reporter /\ ReporterRequest
           \/ \E ph \in Phases : Stream(ph)
<1> USE DEF streamVars, vars
<1>1. ASSUME NEW p \in Peers, Peer(p) \/ FailPeer(p)
      PROVE  UNCHANGED streamVars \/ LeadWarmup(p) \/ LeadDrain(p)
  BY <1>1 DEF Peer, BarrierArrive, BarrierPass, WarmupReported, Warmup, Restart, SetOrigin,
     LeadMeasured, Check,
     Subscribe, Recheck, Wake, SendMeasured, Complete, DrainReported, Drain, FailPeer, FailReport,
     Abort
<1>2. ASSUME NEW r \in Rooms, RoomTask(r) \/ FailRoom(r) PROVE UNCHANGED streamVars
  BY <1>2 DEF RoomTask, SpawnPeers, CollectPeers, AbortRoom, FailRoom
<1>3. Reporter => UNCHANGED streamVars \/ ReporterRequest
  BY DEF Reporter, ReporterReady, ReporterStore, ReporterRelease, ReporterFails
<1>4. StartComes \/ JoinRun \/ ValidateRun \/ ExitWithError \/ Exited => UNCHANGED streamVars
  BY DEF StartComes, JoinRun, ValidateRun, ExitWithError, Exited
<1> QED
  BY <1>1, <1>2, <1>3, <1>4 DEF Next

\* StreamInv: the controller acknowledges the phase it expects, and nobody reports a phase twice.
LEMMA StreamStep == IInv /\ [Next]_vars => StreamInv'
<1> SUFFICES ASSUME IInv, [Next]_vars PROVE StreamInv'
  OBVIOUS
<1> USE DEF IInv, Phases, Acknowledged, Request
<1>1. CASE UNCHANGED streamVars
  BY <1>1 DEF StreamInv, streamVars
<1>2. ASSUME NEW p \in Peers, LeadWarmup(p) \/ LeadDrain(p) PROVE StreamInv'
  BY <1>2 DEF LeadWarmup, LeadDrain, LeaderInv, StreamInv, TypeOK
<1>3. CASE ReporterRequest
  BY <1>3 DEF ReporterRequest, MeasuredInv, StreamInv, TypeOK
<1>4. ASSUME NEW ph \in Phases, Stream(ph) PROVE StreamInv'
  <2>1. CASE WriteEvent(ph) \/ CloseStream(ph)
    BY <2>1 DEF WriteEvent, CloseStream, StreamInv, TypeOK
  <2>2. CASE Acknowledge(ph)
    <3> USE <2>2 DEF Acknowledge, TypeOK
    <3>1. CASE persisted = <<"setup">>
      <4>1. ph = "warmup" /\ persisted' = <<"setup", "warmup">>
        BY <3>1, Expected
      <4> QED
        BY <3>1, <4>1 DEF StreamInv
    <3>2. CASE persisted = <<"setup", "warmup">>
      <4>1. ph = "measured" /\ persisted' = <<"setup", "warmup", "measured">>
        BY <3>2, Expected
      <4> QED
        BY <3>2, <4>1 DEF StreamInv
    <3>3. CASE persisted = <<"setup", "warmup", "measured">>
      <4>1. ph = "drain" /\ persisted' = <<"setup", "warmup", "measured", "drain">>
        BY <3>3, Expected DEF Ordered
      <4> QED
        BY <3>3, <4>1 DEF StreamInv
    <3>4. CASE persisted = <<"setup", "warmup", "measured", "drain">>
      BY <3>4 DEF StreamInv
    <3> QED
      BY <3>1, <3>2, <3>3, <3>4 DEF StreamInv
  <2> QED
    BY <1>4, <2>1, <2>2 DEF Stream
<1> QED
  BY <1>1, <1>2, <1>3, <1>4, Reports

\* The two reports a leader makes: the phase, where the leader stands before and while it reports,
\* and its round.
LeaderOf(ph, lead, reporting, r) ==
    \/ ph = "warmup" /\ lead = "lead_warmup" /\ reporting = "report_warmup" /\ r = 1
    \/ ph = "drain" /\ lead = "lead_drain" /\ reporting = "report_drain" /\ r = 6

\* Where the leader stands belongs to its round, and is neither a gate nor an end.
LEMMA LeaderPlaces ==
    ASSUME NEW ph, NEW lead, NEW reporting, NEW r, LeaderOf(ph, lead, reporting, r)
    PROVE  /\ ph \in Phases /\ r \in {1, 6}
           /\ {lead, reporting} \intersect (Waiting \union Stopped \union Calling \union {"idle"}) = {}
           /\ Round[lead] = r /\ Round[reporting] = r
           /\ lead # reporting
           /\ IInv => LeaderInv(ph, lead, reporting, r)
<1> USE DEF Phases, Waiting, Stopped, Calling, Round
<1>1. CASE ph = "warmup" /\ lead = "lead_warmup" /\ reporting = "report_warmup" /\ r = 1
  <2>1. IInv => LeaderInv(ph, lead, reporting, r)
    BY <1>1 DEF IInv
  <2> QED
    BY <1>1, <2>1
<1>2. CASE ph = "drain" /\ lead = "lead_drain" /\ reporting = "report_drain" /\ r = 6
  <2>1. IInv => LeaderInv(ph, lead, reporting, r)
    BY <1>2 DEF IInv
  <2> QED
    BY <1>2, <2>1
<1> QED
  BY <1>1, <1>2 DEF LeaderOf

\* A leader asks for the report, and goes on when it is acknowledged.
LEMMA LeaderMoves ==
    ASSUME TypeOK, NEW p \in Peers, Inside(p),
           NEW ph, NEW lead, NEW reporting, NEW r, LeaderOf(ph, lead, reporting, r)
    PROVE  /\ at'[p] # lead
           /\ at[p] = lead => at'[p] = reporting /\ report'[ph] = "requested"
           /\ at[p] = reporting => Acknowledged(ph)
           /\ at[p] # lead => report'[ph] = report[ph]
<1> USE DEF TypeOK, Go, Request, Acknowledged, Phases, LeaderOf, taskVars, streamVars
<1>1. CASE LeadWarmup(p) \/ WarmupReported(p) \/ LeadDrain(p) \/ DrainReported(p)
  BY <1>1 DEF LeadWarmup, WarmupReported, LeadDrain, DrainReported
<1>2. CASE Warmup(p) \/ Restart(p) \/ SetOrigin(p) \/ LeadMeasured(p) \/ Check(p)
  BY <1>2 DEF Warmup, Restart, SetOrigin, LeadMeasured, Check
<1>3. CASE Subscribe(p) \/ Recheck(p) \/ Wake(p) \/ SendMeasured(p) \/ Complete(p)
  BY <1>3 DEF Subscribe, Recheck, Wake, SendMeasured, Complete
<1> QED
  BY <1>1, <1>2, <1>3 DEF Inside

\* Only the arrival that opens round r makes a leader of that round.
LEMMA LeaderArrives ==
    ASSUME TypeOK, BarrierInv, NEW p \in Peers, BarrierArrive(p),
           NEW ph, NEW lead, NEW reporting, NEW r, LeaderOf(ph, lead, reporting, r)
    PROVE  \/ /\ at'[p] = lead <=> generation' = r
              /\ generation' = generation + 1
              /\ \A q \in Peers : waits'[q] = generation'
           \/ /\ at'[p] # lead /\ generation' = generation
<1>1. at[p] \in Calling /\ waits' = [waits EXCEPT ![p] = @ + 1]
  BY Places DEF BarrierArrive
<1>2. Round[at[p]] = generation /\ waits[p] = generation /\ generation \in 0 .. 6
  BY <1>1, Callers
<1>3. CASE arrived + 1 = PeerTotal
  <2>1. generation' = generation + 1 /\ at'[p] = Leader[Gate[at[p]]]
    BY <1>3 DEF BarrierArrive, Go, TypeOK
  <2>2. \A q \in Peers : waits'[q] = generation'
    BY <1>1, <1>2, <1>3, <2>1, Opening DEF TypeOK
  <2>3. \A s \in Calling : Leader[Gate[s]] = lead <=> Round[s] + 1 = r
    BY DEF Leader, Gate, Round, Calling, LeaderOf
  <2> QED
    BY <1>1, <1>2, <2>1, <2>2, <2>3
<1>4. CASE arrived + 1 # PeerTotal
  <2>1. generation' = generation /\ at'[p] \in Waiting
    BY <1>1, <1>4, NextRound DEF BarrierArrive, Go, TypeOK
  <2> QED
    BY <2>1, LeaderPlaces
<1> QED
  BY <1>3, <1>4

\* LeaderInv: one leader a round, who stays until the phase is acknowledged.
LEMMA LeaderStep ==
    ASSUME IInv, [Next]_vars,
           NEW ph, NEW lead, NEW reporting, NEW r, LeaderOf(ph, lead, reporting, r)
    PROVE  LeaderInv(ph, lead, reporting, r)'
<1> DEFINE Held == \E p \in Peers : waits[p] = r /\ at[p] \in {lead, reporting} \union Stopped
<1>0. /\ ph \in Phases /\ r \in {1, 6} /\ lead # reporting
      /\ {lead, reporting} \intersect (Waiting \union Stopped \union Calling \union {"idle"}) = {}
      /\ Round[lead] = r /\ Round[reporting] = r
      /\ LeaderInv(ph, lead, reporting, r)
      /\ TypeOK /\ BarrierInv
  BY LeaderPlaces DEF IInv
<1>1. \A p \in Peers : at[p] = lead => generation = r
  BY <1>0 DEF BarrierInv
<1>2. ASSUME NEW p \in Peers, BarrierArrive(p) PROVE LeaderInv(ph, lead, reporting, r)'
  <2>1. UNCHANGED <<report>> /\ at[p] \in Calling /\ \A q \in Peers \ {p} : at'[q] = at[q]
    BY <1>0, <1>2, Places DEF BarrierArrive, streamVars, Go, TypeOK
  <2>2. waits[p] = generation /\ \A q \in Peers \ {p} : waits'[q] = waits[q]
    BY <1>0, <1>2, <2>1, Callers DEF BarrierArrive, TypeOK
  <2>3. generation \in Nat
    BY <1>0 DEF TypeOK
  <2>4. CASE /\ at'[p] = lead <=> generation' = r
             /\ generation' = generation + 1
             /\ \A q \in Peers : waits'[q] = generation'
    <3>1. at'[p] = lead => report[ph] = "none" /\ waits'[p] = r /\ \A q \in Peers : at[q] # lead
      BY <1>0, <1>1, <2>3, <2>4 DEF LeaderInv
    <3>2. \A q \in Peers : at'[q] = lead => report'[ph] = "none"
      BY <1>0, <2>1, <3>1 DEF LeaderInv
    <3>3. \A q, s \in Peers : at'[q] = lead /\ at'[s] = lead => q = s
      BY <1>0, <2>1, <3>1 DEF LeaderInv
    <3>4. generation' >= r /\ ~Acknowledged(ph)' => generation' = r /\ Held'
      <4>1. CASE generation' = r
        BY <3>1, <2>4, <4>1
      <4>2. CASE generation >= r
        <5>1. ASSUME ~Acknowledged(ph) PROVE FALSE
          <6>1. PICK w \in Peers : waits[w] = r /\ at[w] \in {lead, reporting} \union Stopped
            BY <1>0, <4>2, <5>1 DEF LeaderInv
          <6>2. generation = r
            BY <1>0, <4>2, <5>1 DEF LeaderInv
          <6>3. w # p
            BY <1>0, <2>1, <6>1 DEF Calling, Stopped
          <6> QED
            BY <2>2, <2>3, <2>4, <6>1, <6>2, <6>3
        <5> QED
          BY <2>1, <5>1 DEF Acknowledged
      <4> QED
        BY <1>0, <2>3, <2>4, <4>1, <4>2
    <3> QED
      BY <1>0, <2>1, <2>3, <2>4, <3>2, <3>3, <3>4 DEF LeaderInv
  <2>5. CASE at'[p] # lead /\ generation' = generation
    <3>1. Held => Held'
      <4> SUFFICES ASSUME NEW w \in Peers, waits[w] = r /\ at[w] \in {lead, reporting} \union Stopped
                   PROVE  waits'[w] = r /\ at'[w] \in {lead, reporting} \union Stopped
        OBVIOUS
      <4>1. w # p
        BY <1>0, <2>1 DEF Calling, Stopped
      <4> QED
        BY <2>1, <2>2, <4>1
    <3> QED
      BY <1>0, <2>1, <2>5, <3>1 DEF LeaderInv, Acknowledged
  <2> QED
    BY <1>0, <1>2, <2>4, <2>5, LeaderArrives
<1>3. ASSUME NEW p \in Peers, BarrierPass(p) PROVE LeaderInv(ph, lead, reporting, r)'
  <2>1. /\ UNCHANGED <<report, waits, generation>> /\ at[p] \in Waiting
        /\ at'[p] = Follower[at[p]] /\ \A q \in Peers \ {p} : at'[q] = at[q]
    BY <1>0, <1>3, Places DEF BarrierPass, streamVars, barrierVars, Go, TypeOK
  <2>2. at'[p] # lead
    BY <2>1 DEF Follower, Waiting, LeaderOf
  <2>3. at[p] \notin {lead, reporting} \union Stopped
    BY <1>0, <2>1 DEF Waiting, Stopped
  <2> QED
    BY <1>0, <2>1, <2>2, <2>3 DEF LeaderInv, Acknowledged
<1>4. ASSUME NEW p \in Peers, Inside(p) PROVE LeaderInv(ph, lead, reporting, r)'
  <2>1. /\ UNCHANGED <<waits, generation>> /\ \A q \in Peers \ {p} : at'[q] = at[q]
        /\ at[p] \notin Waiting \union Stopped
    BY <1>0, <1>4, InsideRound DEF TypeOK
  <2>2. /\ at'[p] # lead
        /\ at[p] = lead => at'[p] = reporting /\ report'[ph] = "requested"
        /\ at[p] = reporting => Acknowledged(ph)
        /\ at[p] # lead => report'[ph] = report[ph]
    BY <1>0, <1>4, LeaderMoves
  <2>3. CASE at[p] = lead
    <3>1. waits[p] = r /\ generation = r
      BY <1>0, <2>1, <2>3 DEF BarrierInv
    <3> QED
      BY <1>0, <2>1, <2>2, <2>3, <3>1 DEF LeaderInv
  <2>4. CASE at[p] # lead
    BY <1>0, <2>1, <2>2, <2>4 DEF LeaderInv, Acknowledged
  <2> QED
    BY <2>3, <2>4
<1>5. ASSUME NEW p \in Peers, Stop(p) PROVE LeaderInv(ph, lead, reporting, r)'
  <2>1. /\ UNCHANGED <<report, waits, generation>> /\ \A q \in Peers \ {p} : at'[q] = at[q]
        /\ at'[p] \in Stopped
    BY <1>0, <1>5, StopPlace DEF TypeOK, barrierVars, streamVars, Stopped
  <2> QED
    BY <1>0, <2>1 DEF LeaderInv, Acknowledged
<1>6. ASSUME NEW s \in Rooms, RoomTask(s) \/ FailRoom(s) PROVE LeaderInv(ph, lead, reporting, r)'
  <2>1. UNCHANGED <<report, waits, generation>>
    BY <1>6 DEF RoomTask, SpawnPeers, CollectPeers, AbortRoom, FailRoom, streamVars, barrierVars
  <2>2. ASSUME NEW q \in Peers PROVE at'[q] = at[q] \/ (at'[q] = "spawned" /\ waits[q] = 0)
    <3>1. CASE SpawnPeers(s)
      <4>1. at'[q] = IF Room[q] = s THEN "spawned" ELSE at[q]
        BY <3>1 DEF SpawnPeers
      <4>2. Room[q] = s => waits[q] = 0
        BY <3>1 DEF SpawnPeers, IInv, RoomInv
      <4> QED
        BY <4>1, <4>2
    <3>2. CASE CollectPeers(s) \/ AbortRoom(s) \/ FailRoom(s)
      <4>1. UNCHANGED at
        BY <3>2 DEF CollectPeers, AbortRoom, FailRoom
      <4> QED
        BY <4>1
    <3> QED
      BY <1>6, <3>1, <3>2 DEF RoomTask
  <2>3. "spawned" # lead
    BY <1>0 DEF Calling
  <2> QED
    BY <1>0, <2>1, <2>2, <2>3 DEF LeaderInv, Acknowledged
<1>7. ASSUME Aside PROVE LeaderInv(ph, lead, reporting, r)'
  <2>1. UNCHANGED <<at, waits, generation>>
    BY <1>7, AsideKeeps DEF taskVars, barrierVars
  <2>2. \/ report'[ph] = report[ph]
        \/ report[ph] \in {"requested", "written"} /\ report'[ph] # "none"
    <3> USE <1>0 DEF TypeOK, Phases
    <3>1. CASE \E k \in Phases : Stream(k)
      BY <3>1 DEF Stream, WriteEvent, Acknowledge, CloseStream
    <3>2. CASE Reporter
      BY <3>2 DEF Reporter, ReporterReady, ReporterRequest, ReporterStore, ReporterRelease,
         ReporterFails,
         Request, streamVars, LeaderOf
    <3>3. CASE StartComes \/ JoinRun \/ ValidateRun \/ ExitWithError \/ UNCHANGED vars
      BY <3>3 DEF StartComes, JoinRun, ValidateRun, ExitWithError, streamVars, vars
    <3> QED
      BY <1>7, <3>1, <3>2, <3>3 DEF Aside
  <2> QED
    BY <1>0, <2>1, <2>2 DEF LeaderInv, Acknowledged
<1> QED
  BY <1>2, <1>3, <1>4, <1>5, <1>6, <1>7, Sorted

\* MeasuredInv: the release follows the acknowledgement, and no peer leaves round 5 before it.
LEMMA MeasuredStep == IInv /\ [Next]_vars => MeasuredInv'
<1> SUFFICES ASSUME IInv, [Next]_vars PROVE MeasuredInv'
  OBVIOUS
<1>0. TypeOK /\ BarrierInv /\ RoomInv /\ MeasuredInv /\ OriginInv
  BY DEF IInv
<1> DEFINE Free(p) == waits[p] >= 6 \/ at[p] \in {"measured", "complete"}
<1>1. ASSUME NEW p \in Peers, BarrierArrive(p) PROVE MeasuredInv'
  <2>1. /\ UNCHANGED <<measured_ready, measured_acknowledged, reporter, report>>
        /\ at[p] \in Calling /\ \A q \in Peers \ {p} : at'[q] = at[q]
        /\ waits' = [waits EXCEPT ![p] = @ + 1]
    BY <1>0, <1>1, Places DEF BarrierArrive, releaseVars, streamVars, Go, TypeOK
  <2>2. /\ waits[p] = generation /\ Round[at[p]] = generation /\ generation \in 0 .. 6
        /\ waits'[p] = generation + 1 /\ \A q \in Peers \ {p} : waits'[q] = waits[q]
    BY <1>0, <2>1, Callers DEF TypeOK
  <2>3. generation' >= generation
    BY <1>1, <2>2 DEF BarrierArrive
  <2>4. at'[p] \notin {"measured", "complete"}
    BY <1>0, <1>1, <2>1 DEF BarrierArrive, Go, Gate, Leader, Calling, TypeOK
  <2>5. waits'[p] >= 6 => Free(p)
    <3>1. generation = 5 => at[p] = "complete"
      BY <2>1, <2>2 DEF Round, Calling
    <3> QED
      BY <2>2, <3>1
  <2>6. \A q \in Peers : Free(q)' => Free(q)
    BY <2>1, <2>2, <2>4, <2>5
  <2>7. generation' \in Nat
    BY <1>1, <2>2 DEF BarrierArrive
  <2>8. \A q \in Peers : Free(q)' => measured_acknowledged'
    BY <1>0, <2>1, <2>6 DEF MeasuredInv
  <2>9. measured_ready' \/ reporter' # "waiting" => generation' >= 5
    BY <1>0, <2>1, <2>2, <2>3, <2>7 DEF MeasuredInv
  <2> QED
    BY <1>0, <2>1, <2>8, <2>9 DEF MeasuredInv, Acknowledged
<1>2. ASSUME NEW p \in Peers, BarrierPass(p) PROVE MeasuredInv'
  <2>1. /\ UNCHANGED <<measured_ready, measured_acknowledged, reporter, report, waits, generation>>
        /\ at'[p] \notin {"measured", "complete"} /\ \A q \in Peers \ {p} : at'[q] = at[q]
    BY <1>0, <1>2, Places DEF BarrierPass, releaseVars, streamVars, barrierVars, Go, TypeOK,
       Follower, Waiting
  <2> QED
    BY <1>0, <2>1 DEF MeasuredInv, Acknowledged
<1>3. ASSUME NEW p \in Peers, Inside(p) PROVE MeasuredInv'
  <2>1. /\ UNCHANGED <<waits, generation>> /\ \A q \in Peers \ {p} : at'[q] = at[q]
        /\ generation = Round[at[p]]
    BY <1>0, <1>3, InsideRound DEF TypeOK, BarrierInv
  <2>2. /\ UNCHANGED <<measured_acknowledged, reporter>>
        /\ report'["measured"] = report["measured"]
        /\ at'[p] \in {"measured", "complete"} => at[p] = "measured" \/ measured_acknowledged
        /\ measured_ready' = measured_ready \/ at[p] = "lead_measured"
    <3> USE <1>0 DEF TypeOK, Go, Request, Phases, taskVars, streamVars, releaseVars
    <3>1. CASE LeadWarmup(p) \/ WarmupReported(p) \/ LeadDrain(p) \/ DrainReported(p) \/ Warmup(p) \/ Restart(p)
      BY <3>1 DEF LeadWarmup, WarmupReported, LeadDrain, DrainReported, Warmup, Restart
    <3>2. CASE SetOrigin(p) \/ LeadMeasured(p) \/ Check(p) \/ Subscribe(p)
      BY <3>2 DEF SetOrigin, LeadMeasured, Check, Subscribe
    <3>3. CASE Recheck(p) \/ Wake(p) \/ SendMeasured(p) \/ Complete(p)
      BY <3>3 DEF Recheck, Wake, SendMeasured, Complete
    <3> QED
      BY <1>3, <3>1, <3>2, <3>3 DEF Inside
  <2>3. Round["lead_measured"] = 5
    BY DEF Round
  <2> QED
    BY <1>0, <2>1, <2>2, <2>3 DEF MeasuredInv, Acknowledged
<1>4. ASSUME NEW p \in Peers, Stop(p) PROVE MeasuredInv'
  <2>1. /\ UNCHANGED <<measured_ready, measured_acknowledged, reporter, report, waits, generation>>
        /\ at'[p] \notin {"measured", "complete"} /\ \A q \in Peers \ {p} : at'[q] = at[q]
    <3>1. /\ UNCHANGED <<measured_ready, measured_acknowledged, reporter, report, waits, generation>>
          /\ at'[p] \in Stopped
      BY <1>0, <1>4, StopPlace DEF TypeOK, barrierVars, streamVars, releaseVars, Stopped
    <3>2. \A q \in Peers \ {p} : at'[q] = at[q]
      BY <1>0, <1>4, StopPlace DEF TypeOK
    <3> QED
      BY <3>1, <3>2 DEF Stopped
  <2> QED
    BY <1>0, <2>1 DEF MeasuredInv, Acknowledged
<1>5. ASSUME NEW s \in Rooms, RoomTask(s) \/ FailRoom(s) PROVE MeasuredInv'
  <2>1. UNCHANGED <<measured_ready, measured_acknowledged, reporter, report, waits, generation>>
    BY <1>5 DEF RoomTask, SpawnPeers, CollectPeers, AbortRoom, FailRoom, streamVars, barrierVars,
       releaseVars
  <2>2. \A q \in Peers : at'[q] = at[q] \/ at'[q] = "spawned"
    BY <1>5, <1>0 DEF RoomTask, SpawnPeers, CollectPeers, AbortRoom, FailRoom
  <2> QED
    BY <1>0, <2>1, <2>2 DEF MeasuredInv, Acknowledged
<1>6. ASSUME NEW ph \in Phases, Stream(ph) PROVE MeasuredInv'
  <2>1. UNCHANGED <<measured_ready, measured_acknowledged, reporter, at, waits, generation>>
    BY <1>6 DEF Stream, WriteEvent, Acknowledge, CloseStream, taskVars, barrierVars, releaseVars
  <2>2. \/ report'["measured"] = report["measured"]
        \/ report["measured"] \in {"requested", "written"}
    BY <1>0, <1>6 DEF Stream, WriteEvent, Acknowledge, CloseStream, TypeOK, Phases
  <2> QED
    BY <1>0, <2>1, <2>2 DEF MeasuredInv, Acknowledged
<1>7. CASE Reporter
  <2>1. UNCHANGED <<at, waits, generation>>
    BY <1>7 DEF Reporter, ReporterReady, ReporterRequest, ReporterStore, ReporterRelease,
       ReporterFails,
       taskVars, barrierVars
  <2>2. CASE ReporterReady \/ ReporterRequest
    BY <1>0, <2>1, <2>2 DEF ReporterReady, ReporterRequest, Request, MeasuredInv, Acknowledged,
       streamVars, TypeOK,
       Phases
  <2>3. CASE ReporterStore \/ ReporterRelease \/ ReporterFails
    BY <1>0, <2>1, <2>3 DEF ReporterStore, ReporterRelease, ReporterFails, MeasuredInv,
       Acknowledged, streamVars
  <2> QED
    BY <1>7, <2>2, <2>3 DEF Reporter
<1>8. CASE StartComes \/ JoinRun \/ ValidateRun \/ ExitWithError \/ UNCHANGED vars
  BY <1>0, <1>8 DEF StartComes, JoinRun, ValidateRun, ExitWithError, vars, taskVars, barrierVars,
     streamVars,
     releaseVars, MeasuredInv, Acknowledged
<1> QED
  BY <1>1, <1>2, <1>3, <1>4, <1>5, <1>6, <1>7, <1>8, Sorted DEF Aside

\* OriginInv: one clock sets the origin, and the barrier hands it to all before anybody sends.
LEMMA OriginStep == IInv /\ [Next]_vars => OriginInv'
<1> SUFFICES ASSUME IInv, [Next]_vars PROVE OriginInv'
  OBVIOUS
<1>0. TypeOK /\ BarrierInv /\ OriginInv
  BY DEF IInv
<1> DEFINE Timed(p) == waits[p] >= 5 \/ at[p] = "timed"
           Ended(p) == waits[p] >= 6 \/ at[p] = "complete"
<1>1. ASSUME NEW p \in Peers, BarrierArrive(p) PROVE OriginInv'
  <2>1. /\ UNCHANGED <<sent, origin, measured_at>>
        /\ at[p] \in Calling /\ \A q \in Peers \ {p} : at'[q] = at[q]
        /\ waits' = [waits EXCEPT ![p] = @ + 1]
    BY <1>0, <1>1, Places DEF BarrierArrive, mediaVars, Go, TypeOK
  <2>2. /\ waits[p] = generation /\ Round[at[p]] = generation /\ generation \in 0 .. 6
        /\ waits'[p] = generation + 1 /\ \A q \in Peers \ {p} : waits'[q] = waits[q]
    BY <1>0, <2>1, Callers DEF TypeOK
  <2>3. generation' >= generation
    BY <1>1, <2>2 DEF BarrierArrive
  <2>4. at'[p] \notin {"timed", "complete"}
    BY <1>0, <1>1, <2>1 DEF BarrierArrive, Go, Gate, Leader, Calling, TypeOK
  <2>5. (generation = 4 => at[p] = "timed") /\ (generation = 5 => at[p] = "complete")
    BY <2>1, <2>2 DEF Round, Calling
  <2>6. \A q \in Peers : (Timed(q)' => Timed(q)) /\ (Ended(q)' => Ended(q))
    BY <2>1, <2>2, <2>4, <2>5
  <2>7. generation' \in Nat /\ \A q \in Peers : sent[q] > 0 => generation' >= 5
    BY <1>0, <1>1, <2>2, <2>3 DEF OriginInv, BarrierArrive
  <2> QED
    BY <1>0, <2>1, <2>6, <2>7 DEF OriginInv
<1>2. ASSUME NEW p \in Peers, BarrierPass(p) PROVE OriginInv'
  <2>1. /\ UNCHANGED <<sent, origin, measured_at, waits, generation>>
        /\ at'[p] \notin {"timed", "complete"} /\ \A q \in Peers \ {p} : at'[q] = at[q]
    BY <1>0, <1>2, Places DEF BarrierPass, mediaVars, barrierVars, Go, TypeOK, Follower, Waiting
  <2> QED
    BY <1>0, <2>1 DEF OriginInv
<1>3. ASSUME NEW p \in Peers, Inside(p) PROVE OriginInv'
  <2>1. /\ UNCHANGED <<waits, generation>> /\ \A q \in Peers \ {p} : at'[q] = at[q]
        /\ waits[p] = Round[at[p]] /\ generation = Round[at[p]]
    BY <1>0, <1>3, InsideRound DEF TypeOK, BarrierInv
  <2>2. CASE SetOrigin(p)
    <3>1. measured_at' # None /\ origin' = [origin EXCEPT ![p] = measured_at'] /\ UNCHANGED sent
      BY <1>0, <2>2, SyncAssumption DEF SetOrigin, TypeOK
    <3>2. measured_at = None \/ measured_at' = measured_at
      BY <2>2 DEF SetOrigin
    <3>3. at'[p] = "timed"
      BY <1>0, <2>2 DEF SetOrigin, Go, TypeOK
    <3>4. waits[p] = 4
      BY <2>1, <2>2 DEF SetOrigin, Round
    <3>5. \A q \in Peers \ {p} : origin'[q] = origin[q]
      BY <1>0, <3>1 DEF TypeOK
    <3>6. origin'[p] = measured_at'
      BY <1>0, <3>1 DEF TypeOK
    <3> QED
      BY <1>0, <2>1, <3>1, <3>2, <3>3, <3>4, <3>5, <3>6 DEF OriginInv
  <2>3. CASE SendMeasured(p)
    <3>1. generation = 5 /\ waits[p] = 5
      BY <2>1, <2>3 DEF SendMeasured, Round
    <3>2. at' = at /\ at[p] = "measured" /\ UNCHANGED <<origin, measured_at>> /\ sent' = [sent EXCEPT ![p] = @ + 1]
      BY <2>3 DEF SendMeasured, taskVars
    <3>3. \A q \in Peers \ {p} : sent'[q] = sent[q]
      BY <1>0, <3>2 DEF TypeOK
    <3> QED
      BY <1>0, <2>1, <3>1, <3>2, <3>3 DEF OriginInv
  <2>4. CASE ~SetOrigin(p) /\ ~SendMeasured(p)
    <3>1. UNCHANGED <<sent, origin, measured_at>>
      BY <1>3, <2>4 DEF Inside, LeadWarmup, WarmupReported, LeadDrain, DrainReported, Warmup,
         Restart, LeadMeasured,
         Check, Subscribe, Recheck, Wake, Complete, mediaVars
    <3>2. at'[p] # "timed"
      BY <1>0, <1>3, <2>4 DEF Inside, LeadWarmup, WarmupReported, LeadDrain, DrainReported,
         Warmup, Restart,
         LeadMeasured, Check, Subscribe, Recheck, Wake, Complete, Go, TypeOK
    <3>3. at'[p] = "complete" => sent[p] = Work[p]
      BY <1>0, <1>3, <2>4 DEF Inside, LeadWarmup, WarmupReported, LeadDrain, DrainReported,
         Warmup, Restart,
         LeadMeasured, Check, Subscribe, Recheck, Wake, Complete, Go, TypeOK
    <3> QED
      BY <1>0, <2>1, <3>1, <3>2, <3>3 DEF OriginInv
  <2> QED
    BY <2>2, <2>3, <2>4
<1>4. ASSUME NEW p \in Peers, Stop(p) PROVE OriginInv'
  <2>1. /\ UNCHANGED <<sent, origin, measured_at, waits, generation>>
        /\ at'[p] \notin {"timed", "complete"} /\ \A q \in Peers \ {p} : at'[q] = at[q]
    BY SMTT(30), <1>0, <1>4, StopPlace DEF TypeOK, barrierVars, mediaVars
  <2> QED
    BY <1>0, <2>1 DEF OriginInv
<1>5. ASSUME NEW s \in Rooms, RoomTask(s) \/ FailRoom(s) PROVE OriginInv'
  <2>1. UNCHANGED <<sent, origin, measured_at, waits, generation>>
    BY <1>5 DEF RoomTask, SpawnPeers, CollectPeers, AbortRoom, FailRoom, mediaVars, barrierVars
  <2>2. \A q \in Peers : at'[q] = at[q] \/ at'[q] = "spawned"
    BY <1>5, <1>0 DEF RoomTask, SpawnPeers, CollectPeers, AbortRoom, FailRoom
  <2> QED
    BY <1>0, <2>1, <2>2 DEF OriginInv
<1>6. ASSUME Aside PROVE OriginInv'
  <2>1. UNCHANGED <<at, sent, origin, measured_at, waits, generation>>
    BY <1>6, AsideKeeps DEF mediaVars, barrierVars, taskVars
  <2> QED
    BY <1>0, <2>1 DEF OriginInv
<1> QED
  BY <1>1, <1>2, <1>3, <1>4, <1>5, <1>6, Sorted

\* report_measured does not come back from a failure.
LEMMA ReporterStaysFailed == reporter = "failed" /\ [Next]_vars => reporter' = "failed"
<1> SUFFICES ASSUME reporter = "failed", [Next]_vars PROVE reporter' = "failed"
  OBVIOUS
<1> USE DEF releaseVars, vars
<1>1. ASSUME NEW p \in Peers, Peer(p) \/ FailPeer(p) PROVE UNCHANGED reporter
  BY <1>1 DEF Peer, BarrierArrive, BarrierPass, LeadWarmup, WarmupReported, Warmup, Restart,
     SetOrigin,
     LeadMeasured, Check, Subscribe, Recheck, Wake, SendMeasured, Complete, LeadDrain,
     DrainReported, Drain,
     FailPeer, FailReport, Abort
<1>2. ASSUME NEW r \in Rooms, RoomTask(r) \/ FailRoom(r) PROVE UNCHANGED reporter
  BY <1>2 DEF RoomTask, SpawnPeers, CollectPeers, AbortRoom, FailRoom
<1>3. ASSUME NEW ph \in Phases, Stream(ph) PROVE UNCHANGED reporter
  BY <1>3 DEF Stream, WriteEvent, Acknowledge, CloseStream
<1>4. Reporter => reporter' = "failed"
  BY DEF Reporter, ReporterReady, ReporterRequest, ReporterStore, ReporterRelease, ReporterFails
<1>5. StartComes \/ JoinRun \/ ValidateRun \/ ExitWithError \/ Exited => UNCHANGED reporter
  BY DEF StartComes, JoinRun, ValidateRun, ExitWithError, Exited
<1> QED
  BY <1>1, <1>2, <1>3, <1>4, <1>5 DEF Next

\* What blocks the barrier blocks it for good.
LEMMA BlockedStays == IInv /\ Blocked /\ [Next]_vars => Blocked'
<1> SUFFICES ASSUME IInv, [Next]_vars, NEW b \in Peers, Blocker(b) PROVE Blocker(b)'
  BY ReporterStaysFailed DEF Blocked
<1>0. TypeOK /\ BarrierInv /\ RoomInv /\ generation \in Nat
  BY DEF IInv, TypeOK
<1> USE DEF Blocker
<1>1. ASSUME NEW p \in Peers, BarrierArrive(p) PROVE Blocker(b)'
  <2>1. at[p] \in Calling /\ UNCHANGED room /\ waits' = [waits EXCEPT ![p] = @ + 1]
    BY <1>1, Places DEF BarrierArrive
  <2>2. b # p
    BY <2>1 DEF Calling
  <2>3. arrived + 1 # PeerTotal
    BY <1>0, <2>1, <2>2, Opening
  <2>4. generation' = generation /\ at'[b] = at[b] /\ waits'[b] = waits[b]
    BY <1>0, <1>1, <2>1, <2>2, <2>3 DEF BarrierArrive, Go, TypeOK
  <2> QED
    BY <2>1, <2>4
<1>2. ASSUME NEW p \in Peers, BarrierPass(p) \/ Inside(p) PROVE Blocker(b)'
  <2>1. /\ at[p] \notin {"idle", "failed", "aborted"} /\ UNCHANGED <<room, waits, generation>>
        /\ at' = [at EXCEPT ![p] = at'[p]]
    <3>1. CASE BarrierPass(p)
      BY <1>0, <3>1, Places DEF BarrierPass, Waiting, barrierVars, Go, TypeOK
    <3>2. CASE Inside(p)
      BY <1>0, <3>2, InsideRound DEF Stopped
    <3> QED
      BY <1>2, <3>1, <3>2
  <2>2. at'[b] = at[b]
    BY <1>0, <2>1 DEF TypeOK
  <2> QED
    BY <2>1, <2>2
<1>3. ASSUME NEW p \in Peers, Stop(p) PROVE Blocker(b)'
  <2>1. UNCHANGED <<room, waits, generation>> /\ at' = [at EXCEPT ![p] = at'[p]]
    BY <1>0, <1>3, StopPlace DEF barrierVars
  <2>2. b = p => at'[p] = "aborted"
    BY <1>0, <1>3, StopPlace DEF Stopped
  <2>3. b # p => at'[b] = at[b]
    BY <1>0, <2>1 DEF TypeOK
  <2> QED
    BY <2>1, <2>2, <2>3
<1>4. ASSUME NEW r \in Rooms, RoomTask(r) \/ FailRoom(r) PROVE Blocker(b)'
  <2>1. UNCHANGED <<waits, generation>>
    BY <1>4 DEF RoomTask, SpawnPeers, CollectPeers, AbortRoom, FailRoom, barrierVars
  <2>2. room'[Room[b]] # "setup"
    BY <1>0, <1>4, SyncAssumption DEF RoomTask, SpawnPeers, CollectPeers, AbortRoom, FailRoom,
       TypeOK
  <2>3. CASE SpawnPeers(r)
    <3>1. Room[b] # r
      BY <2>3 DEF SpawnPeers
    <3>2. at'[b] = at[b]
      BY <2>3, <3>1 DEF SpawnPeers
    <3> QED
      BY <2>1, <2>2, <3>2
  <2>4. CASE ~SpawnPeers(r)
    <3>1. UNCHANGED at
      BY <1>4, <2>4 DEF RoomTask, CollectPeers, AbortRoom, FailRoom
    <3> QED
      BY <2>1, <2>2, <3>1
  <2> QED
    BY <2>3, <2>4
<1>5. ASSUME Aside PROVE Blocker(b)'
  <2>1. UNCHANGED <<room, at, waits, generation>>
    BY <1>5, AsideKeeps DEF taskVars, barrierVars
  <2> QED
    BY <2>1
<1> QED
  BY <1>1, <1>2, <1>3, <1>4, <1>5, Sorted

\* FaultInv, first half: a failure keeps a peer from the barrier before anybody is aborted.
LEMMA TroubleStep == IInv /\ [Next]_vars => (Trouble => Blocked)'
<1> SUFFICES ASSUME IInv, [Next]_vars, Trouble', ~Blocked' PROVE FALSE
  OBVIOUS
<1>0. TypeOK /\ BarrierInv /\ RoomInv
  BY DEF IInv
<1>1. ~Blocked /\ ~Trouble
  BY BlockedStays DEF IInv, FaultInv
<1>2. ASSUME NEW p \in Peers, BarrierArrive(p) \/ BarrierPass(p) \/ Inside(p) PROVE FALSE
  <2>1. UNCHANGED <<room, run>> /\ at'[p] \notin Stopped /\ \A q \in Peers \ {p} : at'[q] = at[q]
    <3>1. CASE BarrierArrive(p)
      <4>1. at[p] \in Calling /\ at'[p] \in {Gate[at[p]], Leader[Gate[at[p]]]}
        BY <1>0, <3>1, Places DEF BarrierArrive, Go, TypeOK
      <4>2. at'[p] \notin Stopped
        BY <4>1, NextRound DEF Waiting, Stopped
      <4> QED
        BY <1>0, <3>1, <4>2 DEF BarrierArrive, Go, TypeOK
    <3>2. CASE BarrierPass(p)
      BY <1>0, <3>2, Places, NextRound DEF BarrierPass, Go, TypeOK
    <3>3. CASE Inside(p)
      BY <1>0, <3>3, InsideRound DEF TypeOK
    <3> QED
      BY <1>2, <3>1, <3>2, <3>3
  <2> QED
    BY <1>1, <2>1 DEF Trouble, Stopped
<1>3. ASSUME NEW p \in Peers, Stop(p) PROVE FALSE
  <2>1. UNCHANGED <<room, run, waits, generation>> /\ \A q \in Peers \ {p} : at'[q] = at[q]
    BY <1>0, <1>3, StopPlace DEF TypeOK, barrierVars
  <2>2. CASE at'[p] = "failed"
    <3>1. at[p] \notin Waiting \union Stopped \union {"idle"}
      BY <1>0, <1>3, <2>2, StopPlace
    <3>2. waits[p] = generation /\ room[Room[p]] # "setup"
      BY <1>0, <3>1 DEF BarrierInv, RoomInv, Stopped
    <3>3. Blocker(p)'
      BY <2>1, <2>2, <3>2 DEF Blocker
    <3> QED
      BY <3>3 DEF Blocked
  <2>3. CASE at'[p] = "aborted"
    <3>1. run = "failed" \/ room[Room[p]] = "failed"
      BY <1>0, <1>3, <2>3, StopPlace
    <3>2. room[Room[p]] # "done" /\ Room[p] \in Rooms
      BY <1>0, <1>3, StopPlace, SyncAssumption DEF RoomInv, Stopped
    <3> QED
      BY <1>1, <3>1, <3>2 DEF Trouble
  <2>4. CASE at'[p] = "done"
    BY <1>1, <2>1, <2>4 DEF Trouble
  <2> QED
    BY <1>0, <1>3, <2>2, <2>3, <2>4, StopPlace
<1>4. ASSUME NEW r \in Rooms, RoomTask(r) \/ FailRoom(r) PROVE FALSE
  <2>1. CASE SpawnPeers(r)
    BY <1>0, <1>1, <2>1 DEF SpawnPeers, Trouble, TypeOK
  <2>2. CASE CollectPeers(r)
    BY <1>0, <1>1, <2>2 DEF CollectPeers, Members, Trouble, TypeOK
  <2>3. CASE AbortRoom(r)
    BY <1>1, <2>3 DEF AbortRoom, Trouble
  <2>4. CASE FailRoom(r)
    <3>1. PICK p \in Peers : Room[p] = r
      BY SyncAssumption
    <3>2. at[p] \in {"idle", "aborted"} /\ waits[p] = 0
      BY <1>0, <2>4, <3>1 DEF FailRoom, RoomInv
    <3>3. waits[p] = generation
      BY <1>0, <3>2 DEF BarrierInv, TypeOK
    <3>4. UNCHANGED <<at, waits, generation>> /\ room'[r] = "failed"
      BY <1>0, <2>4 DEF FailRoom, TypeOK, barrierVars
    <3>5. Blocker(p)'
      BY <3>1, <3>2, <3>3, <3>4 DEF Blocker
    <3> QED
      BY <3>5 DEF Blocked
  <2> QED
    BY <1>4, <2>1, <2>2, <2>3, <2>4 DEF RoomTask
<1>5. ASSUME Aside PROVE FALSE
  <2>1. UNCHANGED <<room, at>>
    BY <1>5, AsideKeeps DEF taskVars
  <2>2. run' \in {"failed", "error"} => \/ run \in {"failed", "error"} \/ reporter = "failed"
                                        \/ \E r \in Rooms : room[r] = "failed"
                                        \/ \A r \in Rooms : room[r] = "done"
    <3>1. CASE JoinRun \/ ValidateRun \/ ExitWithError
      BY <1>0, <3>1 DEF JoinRun, ValidateRun, ExitWithError, RoomInv
    <3>2. CASE ~(JoinRun \/ ValidateRun \/ ExitWithError)
      <4>1. UNCHANGED run
        BY <1>5, <3>2 DEF Aside, Stream, WriteEvent, Acknowledge, CloseStream, Reporter,
           ReporterReady,
           ReporterRequest, ReporterStore, ReporterRelease, ReporterFails, StartComes, vars
      <4> QED
        BY <4>1
    <3> QED
      BY <3>1, <3>2
  <2> QED
    BY <1>1, <2>1, <2>2 DEF Trouble, Blocked
<1> QED
  BY <1>2, <1>3, <1>4, <1>5, Sorted

\* FaultInv, second half: what failed is still there to be seen.
LEMMA MarkStep ==
    IInv /\ [Next]_vars =>
        (failures > 0 => \/ \E p \in Peers : at[p] = "failed"
                         \/ \E r \in Rooms : room[r] = "failed"
                         \/ \E ph \in Phases : report[ph] = "refused")'
<1> DEFINE Mark == \/ \E p \in Peers : at[p] = "failed"
                   \/ \E r \in Rooms : room[r] = "failed"
                   \/ \E ph \in Phases : report[ph] = "refused"
<1> SUFFICES ASSUME IInv, [Next]_vars PROVE failures' > 0 => Mark'
  OBVIOUS
<1>0. TypeOK /\ BarrierInv /\ RoomInv /\ MeasuredInv /\ (failures > 0 => Mark)
  BY DEF IInv, FaultInv
<1>1. ASSUME NEW p \in Peers, at[p] = "failed" PROVE at'[p] = "failed"
  <2>1. ASSUME NEW q \in Peers, BarrierArrive(q) \/ BarrierPass(q) \/ Inside(q) PROVE at'[p] = "failed"
    <3>1. CASE BarrierArrive(q)
      BY <1>0, <1>1, <3>1, Places DEF BarrierArrive, Go, TypeOK, Calling
    <3>2. CASE BarrierPass(q)
      BY <1>0, <1>1, <3>2, Places DEF BarrierPass, Go, TypeOK, Waiting
    <3>3. CASE Inside(q)
      BY <1>0, <1>1, <3>3, InsideRound DEF TypeOK, Stopped
    <3> QED
      BY <2>1, <3>1, <3>2, <3>3
  <2>2. ASSUME NEW q \in Peers, Stop(q) PROVE at'[p] = "failed"
    BY <1>0, <1>1, <2>2, StopPlace DEF TypeOK, Stopped
  <2>3. ASSUME NEW r \in Rooms, RoomTask(r) \/ FailRoom(r) PROVE at'[p] = "failed"
    BY <1>0, <1>1, <2>3 DEF RoomTask, SpawnPeers, CollectPeers, AbortRoom, FailRoom, RoomInv
  <2> QED
    BY <1>1, <2>1, <2>2, <2>3, Sorted, AsideKeeps DEF taskVars
<1>2. ASSUME NEW r \in Rooms, room[r] = "failed" PROVE room'[r] = "failed"
  <2>1. ASSUME NEW q \in Peers, BarrierArrive(q) \/ BarrierPass(q) \/ Inside(q) \/ Stop(q)
        PROVE  UNCHANGED room
    BY <1>0, <2>1, InsideRound, StopPlace DEF BarrierArrive, BarrierPass
  <2>2. ASSUME NEW s \in Rooms, RoomTask(s) \/ FailRoom(s) PROVE room'[r] = "failed"
    BY <1>0, <1>2, <2>2 DEF RoomTask, SpawnPeers, CollectPeers, AbortRoom, FailRoom, TypeOK
  <2> QED
    BY <1>2, <2>1, <2>2, Sorted, AsideKeeps DEF taskVars
<1>3. ASSUME NEW ph \in Phases, report[ph] = "refused" PROVE report'[ph] = "refused"
  <2>1. ASSUME NEW p \in Peers, LeadWarmup(p) \/ LeadDrain(p) PROVE report'[ph] = "refused"
    BY <1>0, <1>3, <2>1 DEF LeadWarmup, LeadDrain, Request, IInv, LeaderInv, TypeOK, Phases
  <2>2. CASE ReporterRequest
    BY <1>0, <1>3, <2>2 DEF ReporterRequest, Request, MeasuredInv, TypeOK, Phases
  <2>3. ASSUME NEW k \in Phases, Stream(k) PROVE report'[ph] = "refused"
    BY <1>0, <1>3, <2>3 DEF Stream, WriteEvent, Acknowledge, CloseStream, TypeOK
  <2> QED
    BY <1>3, <2>1, <2>2, <2>3, Reports DEF streamVars
<1>4. failures' > 0 => failures > 0 \/ Mark'
  <2>1. ASSUME NEW q \in Peers, BarrierArrive(q) \/ BarrierPass(q) \/ Inside(q) PROVE UNCHANGED failures
    BY <1>0, <2>1, InsideRound DEF BarrierArrive, BarrierPass
  <2>2. ASSUME NEW q \in Peers, Stop(q) PROVE UNCHANGED failures \/ at'[q] = "failed"
    BY <1>0, <2>2, StopPlace
  <2>3. ASSUME NEW r \in Rooms, RoomTask(r) \/ FailRoom(r) PROVE UNCHANGED failures \/ room'[r] = "failed"
    BY <1>0, <2>3 DEF RoomTask, SpawnPeers, CollectPeers, AbortRoom, FailRoom, TypeOK
  <2>4. ASSUME NEW ph \in Phases, Stream(ph) PROVE UNCHANGED failures \/ report'[ph] = "refused"
    BY <1>0, <2>4 DEF Stream, WriteEvent, Acknowledge, CloseStream, TypeOK
  <2>5. ASSUME Aside, ~\E ph \in Phases : Stream(ph) PROVE UNCHANGED failures
    BY <2>5 DEF Aside, Reporter, ReporterReady, ReporterRequest, ReporterStore, ReporterRelease,
       ReporterFails,
       StartComes, JoinRun, ValidateRun, ExitWithError, vars
  <2> QED
    BY <2>1, <2>2, <2>3, <2>4, <2>5, Sorted
<1> QED
  BY <1>0, <1>1, <1>2, <1>3, <1>4

\* What a step may write: every variable stays within its type.
LEMMA TypeStep == IInv /\ [Next]_vars /\ StreamInv' => TypeOK'
<1> SUFFICES ASSUME IInv, [Next]_vars, StreamInv' PROVE TypeOK'
  OBVIOUS
<1>0. TypeOK /\ BarrierInv /\ RoomInv
  BY DEF IInv
<1>1. persisted' \in Seq({"setup"} \union Phases)
  <2>1. /\ <<"setup">> \in Seq({"setup"} \union Phases)
        /\ <<"setup", "warmup">> \in Seq({"setup"} \union Phases)
        /\ <<"setup", "warmup", "measured">> \in Seq({"setup"} \union Phases)
        /\ <<"setup", "warmup", "measured", "drain">> \in Seq({"setup"} \union Phases)
    BY DEF Phases
  <2> QED
    BY <2>1 DEF StreamInv
<1>2. report' \in [Phases -> {"none", "requested", "written", "acknowledged", "refused"}]
  <2>1. ASSUME NEW p \in Peers, LeadWarmup(p) \/ LeadDrain(p)
        PROVE  report' \in [Phases -> {"none", "requested", "written", "acknowledged", "refused"}]
    BY <1>0, <2>1 DEF LeadWarmup, LeadDrain, Request, TypeOK
  <2>2. CASE ReporterRequest
    BY <1>0, <2>2 DEF ReporterRequest, Request, TypeOK
  <2>3. ASSUME NEW k \in Phases, Stream(k)
        PROVE  report' \in [Phases -> {"none", "requested", "written", "acknowledged", "refused"}]
    BY <1>0, <2>3 DEF Stream, WriteEvent, Acknowledge, CloseStream, TypeOK
  <2>4. CASE UNCHANGED streamVars
    BY <1>0, <2>4 DEF streamVars, TypeOK
  <2> QED
    BY <2>1, <2>2, <2>3, <2>4, Reports
<1> DEFINE
      Tasks == /\ room \in [Rooms -> {"setup", "running", "done", "failed"}]
               /\ at \in [Peers -> Labels]
               /\ run \in {"running", "joined", "failed", "ok", "error"}
               /\ failures \in 0 .. MaxFailures
      Counts == /\ waits \in [Peers -> 0 .. 7]
                /\ arrived \in 0 .. (PeerTotal - 1)
                /\ generation \in 0 .. 7
      Media == /\ sent \in [Peers -> Nat]
               /\ origin \in [Peers -> Peers \union {None}]
               /\ measured_at \in Peers \union {None}
      Release == /\ started \in BOOLEAN
                 /\ measured_acknowledged \in BOOLEAN
                 /\ measured_ready \in BOOLEAN
                 /\ woken \in SUBSET Peers
                 /\ reporter \in {"waiting", "sleeping", "reporting", "releasing", "done", "failed"}
<1>3. Tasks /\ Counts /\ Media /\ Release
  BY <1>0 DEF TypeOK
<1>4. Tasks' /\ Counts' /\ Media' /\ Release'
  <2> USE DEF taskVars, barrierVars, mediaVars, releaseVars
  <2>1. ASSUME NEW p \in Peers, BarrierArrive(p) PROVE Tasks' /\ Counts' /\ Media' /\ Release'
    <3>1. Media' /\ Release' /\ UNCHANGED <<room, run, failures>>
      BY <1>3, <2>1 DEF BarrierArrive
    <3>2. at[p] \in Calling /\ waits' = [waits EXCEPT ![p] = @ + 1]
      BY <2>1, Places DEF BarrierArrive
    <3>3. waits[p] = generation /\ generation \in 0 .. 6
      BY <1>0, <3>2, Callers
    <3>4. Waiting \subseteq Labels
      BY Places DEF Labels
    <3>5. at' \in [Peers -> Labels]
      <4>1. at' = [at EXCEPT ![p] = Gate[at[p]]] \/ at' = [at EXCEPT ![p] = Leader[Gate[at[p]]]]
        BY <2>1 DEF BarrierArrive, Go
      <4>2. Gate[at[p]] \in Labels /\ Leader[Gate[at[p]]] \in Labels
        BY <3>2, <3>4, NextRound
      <4> QED
        BY <1>3, <4>1, <4>2
    <3>6. arrived' \in 0 .. (PeerTotal - 1) /\ generation' \in 0 .. 7
      <4>1. CASE arrived + 1 = PeerTotal
        BY <2>1, <3>3, <4>1, SomePeers DEF BarrierArrive
      <4>2. CASE arrived + 1 # PeerTotal
        <5>1. arrived + 1 \in 0 .. (PeerTotal - 1)
          BY <1>0, <3>2, <4>2, Arriving
        <5>2. arrived' = arrived + 1 /\ generation' = generation
          BY <2>1, <4>2 DEF BarrierArrive
        <5>3. PeerTotal' = PeerTotal
          BY DEF PeerTotal
        <5> QED
          BY <3>3, <5>1, <5>2, <5>3
      <4> QED
        BY <4>1, <4>2
    <3>7. waits' \in [Peers -> 0 .. 7]
      BY <1>3, <3>2, <3>3
    <3> QED
      BY <1>3, <3>1, <3>5, <3>6, <3>7
  <2>2. ASSUME NEW p \in Peers, BarrierPass(p) PROVE Tasks' /\ Counts' /\ Media' /\ Release'
    <3>1. Counts' /\ Media' /\ Release' /\ UNCHANGED <<room, run, failures>>
      BY <1>3, <2>2 DEF BarrierPass
    <3>2. at' = [at EXCEPT ![p] = Follower[at[p]]] /\ Follower[at[p]] \in Labels
      BY <2>2, Places, NextRound DEF BarrierPass, Go
    <3> QED
      BY <1>3, <3>1, <3>2
  <2>3. ASSUME NEW p \in Peers, Inside(p) PROVE Tasks' /\ Counts' /\ Media' /\ Release'
    <3>1. UNCHANGED <<room, waits, arrived, generation, run, failures>> /\ at' \in [Peers -> Labels]
      BY <1>0, <2>3, InsideRound DEF TypeOK
    <3>2. CASE SetOrigin(p)
      <4>1. measured_at' \in Peers \union {None}
        BY <1>3, <3>2 DEF SetOrigin
      <4>2. Media' /\ Release'
        BY <1>3, <3>2, <4>1 DEF SetOrigin
      <4> QED
        BY <1>3, <3>1, <4>2
    <3>3. CASE LeadMeasured(p) \/ Subscribe(p) \/ SendMeasured(p)
      <4>1. CASE LeadMeasured(p) \/ Subscribe(p)
        BY <1>3, <3>1, <4>1 DEF LeadMeasured, Subscribe
      <4>2. CASE SendMeasured(p)
        <5>1. sent' \in [Peers -> Nat]
          BY <1>3, <4>2 DEF SendMeasured
        <5> QED
          BY <1>3, <3>1, <4>2, <5>1 DEF SendMeasured
      <4> QED
        BY <3>3, <4>1, <4>2
    <3>4. CASE ~SetOrigin(p) /\ ~(LeadMeasured(p) \/ Subscribe(p) \/ SendMeasured(p))
      <4>1. UNCHANGED <<mediaVars, releaseVars>>
        BY <2>3, <3>4 DEF Inside, LeadWarmup, WarmupReported, LeadDrain, DrainReported, Warmup,
           Restart, Check,
           Recheck, Wake, Complete
      <4> QED
        BY <1>3, <3>1, <4>1
    <3> QED
      BY <3>2, <3>3, <3>4
  <2>4. ASSUME NEW p \in Peers, Stop(p) PROVE Tasks' /\ Counts' /\ Media' /\ Release'
    <3>1. UNCHANGED <<room, barrierVars, mediaVars, releaseVars, run>> /\ failures' \in 0 .. MaxFailures
      BY <1>0, <2>4, StopPlace DEF TypeOK
    <3>2. at' = [at EXCEPT ![p] = at'[p]] /\ at'[p] \in Labels
      BY <1>0, <2>4, StopPlace DEF Labels, Stopped
    <3> QED
      BY <1>3, <3>1, <3>2
  <2>5. ASSUME NEW r \in Rooms, RoomTask(r) \/ FailRoom(r) PROVE Tasks' /\ Counts' /\ Media' /\ Release'
    <3>1. Counts' /\ Media' /\ Release' /\ UNCHANGED run
      BY <1>3, <2>5 DEF RoomTask, SpawnPeers, CollectPeers, AbortRoom, FailRoom
    <3>2. "spawned" \in Labels
      BY Places DEF Labels, Calling
    <3>3. at' \in [Peers -> Labels]
      BY <1>3, <2>5, <3>2 DEF RoomTask, SpawnPeers, CollectPeers, AbortRoom, FailRoom
    <3>4. room' \in [Rooms -> {"setup", "running", "done", "failed"}]
      BY <1>3, <2>5 DEF RoomTask, SpawnPeers, CollectPeers, AbortRoom, FailRoom
    <3>5. failures' \in 0 .. MaxFailures
      BY <1>3, <2>5, SyncAssumption DEF RoomTask, SpawnPeers, CollectPeers, AbortRoom, FailRoom
    <3> QED
      BY <1>3, <3>1, <3>3, <3>4, <3>5
  <2>6. ASSUME Aside PROVE Tasks' /\ Counts' /\ Media' /\ Release'
    <3>1. Counts' /\ Media' /\ UNCHANGED <<room, at>>
      BY <1>3, <2>6, AsideKeeps
    <3>2. CASE \E ph \in Phases : Stream(ph)
      <4>1. UNCHANGED <<releaseVars, run>> /\ failures' \in 0 .. MaxFailures
        BY <1>3, <3>2, SyncAssumption DEF Stream, WriteEvent, Acknowledge, CloseStream
      <4> QED
        BY <1>3, <3>1, <4>1
    <3>3. CASE Reporter
      <4>1. Release' /\ UNCHANGED <<run, failures>>
        BY <1>3, <3>3 DEF Reporter, ReporterReady, ReporterRequest, ReporterStore,
           ReporterRelease, ReporterFails
      <4> QED
        BY <1>3, <3>1, <4>1
    <3>4. CASE StartComes \/ JoinRun \/ ValidateRun \/ ExitWithError \/ UNCHANGED vars
      <4>1. Release' /\ UNCHANGED failures /\ run' \in {"running", "joined", "failed", "ok", "error"}
        BY <1>3, <3>4 DEF StartComes, JoinRun, ValidateRun, ExitWithError, vars
      <4> QED
        BY <1>3, <3>1, <4>1
    <3> QED
      BY <2>6, <3>2, <3>3, <3>4 DEF Aside
  <2> QED
    BY <2>1, <2>2, <2>3, <2>4, <2>5, <2>6, Sorted
<1> QED
  BY <1>1, <1>2, <1>4 DEF TypeOK

\* The run starts in the invariant.
LEMMA InitIInv == Init => IInv
<1> SUFFICES ASSUME Init PROVE IInv
  OBVIOUS
<1> USE DEF Init
<1>1. TypeOK
  <2>1. "idle" \in Labels /\ 0 \in 0 .. (PeerTotal - 1)
    BY SomePeers DEF Labels
  <2>2. persisted \in Seq({"setup"} \union Phases)
    OBVIOUS
  <2>3. /\ room \in [Rooms -> {"setup", "running", "done", "failed"}]
        /\ at \in [Peers -> Labels]
        /\ waits \in [Peers -> 0 .. 7]
        /\ sent \in [Peers -> Nat]
        /\ origin \in [Peers -> Peers \union {None}]
        /\ report \in [Phases -> {"none", "requested", "written", "acknowledged", "refused"}]
    BY <2>1
  <2>4. /\ arrived \in 0 .. (PeerTotal - 1) /\ generation \in 0 .. 7
        /\ failures \in 0 .. MaxFailures
    BY <2>1, SyncAssumption
  <2> QED
    BY <2>2, <2>3, <2>4 DEF TypeOK
<1>2. BarrierInv
  <2>1. Counted = {}
    BY DEF Counted
  <2>2. Round["idle"] = 0 /\ "idle" \notin Waiting \union Stopped
    BY DEF Round, Waiting, Stopped
  <2> QED
    BY <2>1, <2>2, FS_EmptySet DEF BarrierInv, Stopped
<1>3. RoomInv
  BY SyncAssumption DEF RoomInv
<1>4. StreamInv
  BY DEF StreamInv, Acknowledged
<1>5. LeaderInv("warmup", "lead_warmup", "report_warmup", 1)
  BY DEF LeaderInv, Phases
<1>6. LeaderInv("drain", "lead_drain", "report_drain", 6)
  BY DEF LeaderInv, Phases
<1>7. MeasuredInv
  BY DEF MeasuredInv, Phases
<1>8. OriginInv
  BY DEF OriginInv
<1>9. FaultInv
  BY DEF FaultInv, Trouble
<1> QED
  BY <1>1, <1>2, <1>3, <1>4, <1>5, <1>6, <1>7, <1>8, <1>9 DEF IInv

\* Every step keeps the invariant.
LEMMA NextIInv == IInv /\ [Next]_vars => IInv'
<1> SUFFICES ASSUME IInv, [Next]_vars PROVE IInv'
  OBVIOUS
<1>1. LeaderInv("warmup", "lead_warmup", "report_warmup", 1)'
  BY LeaderStep DEF LeaderOf
<1>2. LeaderInv("drain", "lead_drain", "report_drain", 6)'
  BY LeaderStep DEF LeaderOf
<1>3. FaultInv'
  BY TroubleStep, MarkStep DEF FaultInv
<1> QED
  BY <1>1, <1>2, <1>3, TypeStep, BarrierStep, RoomStep, StreamStep, MeasuredStep,
     OriginStep DEF IInv

\* The invariant holds in every reachable state.
LEMMA Invariance == Spec => []IInv
BY InitIInv, NextIInv, PTL DEF Spec

-------------------------------------------------------------------------------
(* What follows from it. *)

\* The barrier cannot open over a task that has stopped.
LEMMA OpensComplete ==
    ASSUME IInv, NEW p \in Peers, at[p] \in Calling, arrived + 1 = PeerTotal
    PROVE  \A q \in Peers : at[q] \notin Stopped
<1>0. TypeOK /\ BarrierInv /\ MeasuredInv /\ FaultInv
  BY DEF IInv
<1>1. waits[p] = generation /\ Round[at[p]] = generation /\ generation \in 0 .. 6
  BY <1>0, Callers
<1>2. \A q \in Peers \ {p} : waits[q] = generation + 1
  BY <1>0, Opening
<1>3. ~\E b \in Peers : Blocker(b)
  BY <1>1, <1>2 DEF Blocker, Calling
<1>4. reporter # "failed"
  <2>1. SUFFICES ASSUME reporter = "failed" PROVE FALSE
    OBVIOUS
  <2>2. generation >= 5 /\ ~measured_acknowledged
    BY <1>0, <2>1 DEF MeasuredInv
  <2>3. generation = 5 => at[p] = "complete"
    BY <1>1 DEF Round, Calling
  <2> QED
    BY <1>0, <1>1, <2>2, <2>3 DEF MeasuredInv
<1>5. ~Trouble
  BY <1>0, <1>3, <1>4 DEF FaultInv, Blocked
<1>6. \A q \in Peers : at[q] # "done"
  BY <1>0, <1>1 DEF BarrierInv
<1> QED
  BY <1>5, <1>6 DEF Trouble, Stopped

\* While a report is under way it is the phase that comes next.
LEMMA InOrder ==
    ASSUME IInv, NEW ph \in Phases, report[ph] \in {"requested", "written"}
    PROVE  ph = NextPhase
<1>0. /\ TypeOK /\ BarrierInv /\ StreamInv /\ MeasuredInv
      /\ LeaderInv("warmup", "lead_warmup", "report_warmup", 1)
      /\ LeaderInv("drain", "lead_drain", "report_drain", 6)
      /\ \E p \in Peers : TRUE
      /\ generation \in Nat
  BY SyncAssumption DEF IInv, TypeOK
<1>1. report["measured"] # "none" => generation >= 5
  BY <1>0 DEF MeasuredInv
<1>2. generation >= 2 => Acknowledged("warmup")
  BY <1>0 DEF LeaderInv
<1>3. report["drain"] # "none" => generation >= 6
  BY <1>0 DEF LeaderInv
<1>4. generation >= 6 => Acknowledged("measured")
  BY <1>0 DEF BarrierInv, MeasuredInv
<1>5. CASE ph = "warmup"
  BY <1>0, <1>5, Expected DEF StreamInv, Acknowledged, Phases
<1>6. CASE ph = "measured"
  <2>1. Acknowledged("warmup") /\ ~Acknowledged("measured")
    BY <1>0, <1>1, <1>2, <1>6 DEF Acknowledged
  <2> QED
    BY <1>0, <1>6, <2>1, Expected DEF StreamInv, Phases
<1>7. CASE ph = "drain"
  <2>1. Acknowledged("measured") /\ ~Acknowledged("drain")
    BY <1>0, <1>3, <1>4, <1>7 DEF Acknowledged
  <2> QED
    BY <1>0, <1>7, <2>1, Expected DEF StreamInv, Phases
<1> QED
  BY <1>5, <1>6, <1>7 DEF Phases

\* No two phases are ever reported at the same time, and each is the one the controller's
\* PhaseSequence expects, though three different tasks report them.
THEOREM PhasesAreReportedInOrder == Spec => []PhasesComeOneByOne
<1>1. IInv => PhasesComeOneByOne
  <2> SUFFICES ASSUME IInv PROVE PhasesComeOneByOne
    OBVIOUS
  <2> DEFINE Busy == { ph \in Phases : report[ph] \in {"requested", "written"} }
  <2>1. Busy = {} \/ Busy = {NextPhase}
    BY InOrder
  <2>2. Cardinality(Busy) <= 1
    <3>1. CASE Busy = {}
      <4>1. Cardinality(Busy) = 0
        BY <3>1, FS_EmptySet
      <4> QED
        BY <4>1
    <3>2. CASE Busy = {NextPhase}
      <4>1. Cardinality(Busy) = 1
        BY <3>2, FS_Singleton
      <4> QED
        BY <4>1
    <3> QED
      BY <2>1, <3>1, <3>2
  <2> QED
    BY <2>2, InOrder DEF PhasesComeOneByOne
<1> QED
  BY <1>1, Invariance, PTL

\* Whoever sets measured_at first, every peer of every room measures from that instant and has it
\* before the first measured packet is sent.
THEOREM AllMeasureFromOneOrigin == Spec => []OneOrigin
<1>1. IInv => OneOrigin
  <2> SUFFICES ASSUME IInv PROVE OneOrigin
    OBVIOUS
  <2>1. TypeOK /\ BarrierInv /\ OriginInv
    BY DEF IInv
  <2>2. ASSUME NEW p \in Peers, sent[p] > 0, NEW q \in Peers PROVE origin[q] # None
    <3>1. generation >= 5 /\ waits[q] >= generation /\ generation \in Nat
      BY <2>1, <2>2 DEF OriginInv, BarrierInv, TypeOK
    <3> QED
      BY <2>1, <3>1 DEF OriginInv, BarrierInv
  <2> QED
    BY <2>1, <2>2 DEF OneOrigin, OriginInv
<1> QED
  BY <1>1, Invariance, PTL

\* A run that succeeds lost no error on the way: the joins of rooms and reporter see every failure,
\* and the last phase is persisted before the last peer closes.
THEOREM SuccessIsComplete == Spec => []SuccessHidesNothing
<1>1. IInv => SuccessHidesNothing
  <2> SUFFICES ASSUME IInv, run = "ok" PROVE failures = 0 /\ persisted = Ordered
                                           /\ \A p \in Peers : at[p] = "done" /\ sent[p] = Work[p]
    BY DEF SuccessHidesNothing
  <2>0. /\ TypeOK /\ BarrierInv /\ RoomInv /\ StreamInv /\ OriginInv /\ FaultInv
        /\ LeaderInv("drain", "lead_drain", "report_drain", 6)
    BY DEF IInv
  <2>1. \A r \in Rooms : room[r] = "done"
    BY <2>0 DEF RoomInv
  <2>2. \A p \in Peers : at[p] = "done"
    BY <2>0, <2>1, SyncAssumption DEF RoomInv
  <2>3. \A p \in Peers : waits[p] = 7 /\ generation = 7
    BY <2>0, <2>2 DEF BarrierInv
  <2>4. \A p \in Peers : sent[p] = Work[p]
    BY <2>0, <2>3 DEF OriginInv
  <2>5. Acknowledged("drain")
    BY <2>0, <2>3, SyncAssumption DEF LeaderInv
  <2>6. persisted = Ordered /\ \A ph \in Phases : Acknowledged(ph)
    BY <2>0, <2>5 DEF StreamInv, Ordered, Phases
  <2>7. failures = 0
    BY <2>0, <2>1, <2>2, <2>6 DEF FaultInv, Acknowledged, TypeOK
  <2> QED
    BY <2>2, <2>4, <2>6, <2>7
<1> QED
  BY <1>1, Invariance, PTL

\* A measured packet leaves only between the acknowledgement of Measured and that of Drain, and the
\* warm-up ends between those of Warmup and Measured, whatever peer of whatever room it is.
THEOREM MediaStaysInsidePhase == Spec => MediaInsidePhase
<1> DEFINE Step == /\ (\E p \in Peers : sent'[p] # sent[p]) =>
                          persisted = <<"setup", "warmup", "measured">>
                   /\ (\E p \in Peers : at[p] = "warmup" /\ at'[p] = "settled") =>
                          persisted = <<"setup", "warmup">>
<1>1. IInv /\ [Next]_vars => [Step]_vars
  <2> SUFFICES ASSUME IInv, [Next]_vars PROVE Step
    OBVIOUS
  <2>0. /\ TypeOK /\ BarrierInv /\ StreamInv /\ MeasuredInv
        /\ LeaderInv("warmup", "lead_warmup", "report_warmup", 1)
        /\ LeaderInv("drain", "lead_drain", "report_drain", 6)
        /\ generation \in Nat
    BY DEF IInv, TypeOK
  <2>1. ASSUME NEW p \in Peers, sent'[p] # sent[p]
        PROVE  persisted = <<"setup", "warmup", "measured">>
    <3>1. PICK q \in Peers : SendMeasured(q)
      <4>1. ASSUME NEW q \in Peers, BarrierArrive(q) \/ BarrierPass(q) \/ Stop(q) PROVE UNCHANGED sent
        BY <2>0, <4>1, StopPlace DEF BarrierArrive, BarrierPass, mediaVars
      <4>2. ASSUME NEW q \in Peers, Inside(q), ~SendMeasured(q) PROVE UNCHANGED sent
        BY <4>2 DEF Inside, LeadWarmup, WarmupReported, LeadDrain, DrainReported, Warmup, Restart,
           SetOrigin,
           LeadMeasured, Check, Subscribe, Recheck, Wake, Complete, mediaVars
      <4>3. ASSUME NEW r \in Rooms, RoomTask(r) \/ FailRoom(r) PROVE UNCHANGED sent
        BY <4>3 DEF RoomTask, SpawnPeers, CollectPeers, AbortRoom, FailRoom, mediaVars
      <4> QED
        BY <2>1, <4>1, <4>2, <4>3, Sorted, AsideKeeps DEF mediaVars
    <3>2. at[q] = "measured" /\ generation = 5
      <4>1. at[q] = "measured" /\ "measured" \notin Waiting \union Stopped /\ Round["measured"] = 5
        BY <3>1 DEF SendMeasured, Waiting, Stopped, Round
      <4> QED
        BY <2>0, <4>1 DEF BarrierInv
    <3>3. Acknowledged("measured")
      BY <2>0, <3>2 DEF MeasuredInv
    <3>4. ~Acknowledged("drain")
      BY <2>0, <3>2 DEF LeaderInv, Acknowledged
    <3> QED
      BY <2>0, <3>3, <3>4 DEF StreamInv, Phases
  <2>2. ASSUME NEW p \in Peers, at[p] = "warmup", at'[p] = "settled"
        PROVE  persisted = <<"setup", "warmup">>
    <3>1. generation = 2
      <4>1. "warmup" \notin Waiting \union Stopped /\ Round["warmup"] = 2
        BY DEF Waiting, Stopped, Round
      <4> QED
        BY <2>0, <2>2, <4>1 DEF BarrierInv
    <3>2. Acknowledged("warmup")
      BY <2>0, <3>1 DEF LeaderInv
    <3>3. ~Acknowledged("measured")
      BY <2>0, <3>1 DEF MeasuredInv, Acknowledged, TypeOK
    <3> QED
      BY <2>0, <3>2, <3>3 DEF StreamInv, Phases
  <2> QED
    BY <2>1, <2>2
<1> QED
  BY <1>1, Invariance, PTL DEF Spec, MediaInsidePhase

-------------------------------------------------------------------------------
(* The barrier implements Lockstep. *)

\* What Lockstep sees, in terms of the calls of wait.
View ==
    /\ Entered \in [Peers -> Int] /\ Finished \in [Peers -> BOOLEAN]
    /\ \A p \in Peers :
           Finished[p] <=> at[p] \in Waiting \/ (at[p] \in Stopped /\ waits[p] > generation)
    /\ \A p \in Peers : Entered[p] = IF Finished[p] THEN waits[p] - 1 ELSE waits[p]

\* The refinement mapping takes the reachable states to states of Lockstep.
LEMMA Mapping == IInv => View
<1> SUFFICES ASSUME IInv PROVE View
  OBVIOUS
<1>0. TypeOK /\ BarrierInv /\ generation \in Nat /\ \A p \in Peers : waits[p] \in 0 .. 7
  BY DEF IInv, TypeOK
<1>1. \A p \in Peers : Finished[p] <=> (at[p] \in Waiting \/ (at[p] \in Stopped /\ waits[p] > generation))
  BY Places DEF Finished, Waiting, Stopped
<1>2. ASSUME NEW p \in Peers PROVE Entered[p] = IF Finished[p] THEN waits[p] - 1 ELSE waits[p]
  <2>1. CASE at[p] \in Stopped
    <3>1. Entered[p] = IF waits[p] > generation THEN generation ELSE waits[p]
      BY <2>1 DEF Entered
    <3>2. at[p] \notin Waiting
      BY <2>1 DEF Waiting, Stopped
    <3>3. Finished[p] <=> waits[p] > generation
      BY <1>1, <2>1, <3>2
    <3>4. waits[p] \in {generation, generation + 1}
      BY <1>0 DEF BarrierInv
    <3>5. CASE waits[p] = generation
      <4>1. ~(waits[p] > generation)
        BY <1>0, <3>5
      <4> QED
        BY <3>1, <3>3, <4>1
    <3>6. CASE waits[p] = generation + 1
      <4>1. waits[p] > generation /\ waits[p] - 1 = generation
        BY <1>0, <3>6
      <4> QED
        BY <3>1, <3>3, <4>1
    <3> QED
      BY <3>4, <3>5, <3>6
  <2>2. CASE at[p] \in Waiting
    <3>1. at[p] \notin Stopped /\ Round[at[p]] \in 0 .. 7
      BY <1>0, <2>2, NextRound DEF Waiting, Stopped, TypeOK
    <3>2. Entered[p] = Round[at[p]] /\ waits[p] = Round[at[p]] + 1
      BY <1>0, <2>2, <3>1 DEF Entered, BarrierInv
    <3>3. Round[at[p]] = waits[p] - 1
      BY <3>1, <3>2
    <3> QED
      BY <1>1, <2>2, <3>2, <3>3
  <2>3. CASE at[p] \notin Waiting \union Stopped
    <3>1. Entered[p] = Round[at[p]]
      BY <2>3 DEF Entered
    <3> QED
      BY <1>0, <1>1, <2>3, <3>1 DEF BarrierInv
  <2> QED
    BY <2>1, <2>2, <2>3
<1>3. Entered \in [Peers -> Int]
  <2>1. \A p \in Peers : Entered[p] \in Int
    BY <1>0, <1>2
  <2> QED
    BY <2>1 DEF Entered
<1>4. Finished \in [Peers -> BOOLEAN]
  <2>1. ASSUME NEW p \in Peers PROVE Finished[p] \in BOOLEAN
    <3>1. CASE at[p] \in Stopped
      <4>1. Finished[p] = (waits[p] > generation)
        BY <3>1 DEF Finished
      <4> QED
        BY <4>1
    <3>2. CASE at[p] \notin Stopped
      <4>1. Finished[p] = (at[p] \in DOMAIN Follower)
        BY <3>2 DEF Finished
      <4> QED
        BY <4>1
    <3> QED
      BY <3>1, <3>2
  <2> QED
    BY <2>1 DEF Finished
<1> QED
  BY <1>1, <1>2, <1>3, <1>4 DEF View

\* A step in which only one peer moves, and moves as Lockstep lets it, is a step of Lockstep.
LEMMA OneMoves ==
    ASSUME IInv, IInv', NEW p \in Peers,
           \A q \in Peers \ {p} : Entered'[q] = Entered[q] /\ Finished'[q] = Finished[q],
           \/ Entered'[p] = Entered[p] /\ (Finished'[p] = Finished[p] \/ (~Finished[p] /\ Finished'[p]))
           \/ /\ Entered[p] < 7 /\ Entered'[p] = Entered[p] + 1 /\ ~Finished'[p]
              /\ \A q \in Peers \ {p} : \/ Entered[q] > Entered[p]
                                        \/ Entered[q] = Entered[p] /\ Finished[q]
    PROVE  [Steps!LockstepNext]_<<Entered, Finished>>
<1>0. /\ Entered \in [Peers -> Int] /\ Finished \in [Peers -> BOOLEAN]
      /\ Entered' \in [Peers -> Int] /\ Finished' \in [Peers -> BOOLEAN]
  <2>1. (IInv => View)'
    BY Mapping, PTL
  <2> QED
    BY <2>1, Mapping DEF View
<1>1. CASE Entered'[p] = Entered[p] /\ Finished'[p] = Finished[p]
  <2>1. Entered' = Entered /\ Finished' = Finished
    BY <1>0, <1>1
  <2> QED
    BY <2>1
<1>2. CASE Entered'[p] = Entered[p] /\ ~Finished[p] /\ Finished'[p]
  <2>1. Entered' = Entered
    BY <1>0, <1>2
  <2>2. Finished' = [Finished EXCEPT ![p] = TRUE]
    BY <1>0, <1>2
  <2> QED
    BY <1>2, <2>1, <2>2 DEF Steps!LockstepNext, Steps!FinishRound
<1>3. CASE /\ Entered[p] < 7 /\ Entered'[p] = Entered[p] + 1 /\ ~Finished'[p]
           /\ \A q \in Peers \ {p} : \/ Entered[q] > Entered[p]
                                     \/ Entered[q] = Entered[p] /\ Finished[q]
  <2>1. Entered' = [Entered EXCEPT ![p] = @ + 1]
    BY <1>0, <1>3
  <2>2. Finished' = [Finished EXCEPT ![p] = FALSE]
    BY <1>0, <1>3
  <2> QED
    BY <1>3, <2>1, <2>2 DEF Steps!LockstepNext, Steps!EnterRound
<1> QED
  BY <1>1, <1>2, <1>3

\* What a step that keeps a peer's place, its calls and the generation keeps.
LEMMA SamePeer ==
    ASSUME NEW q \in Peers, at'[q] = at[q], waits'[q] = waits[q], generation' = generation
    PROVE  Entered'[q] = Entered[q] /\ Finished'[q] = Finished[q]
BY DEF Entered, Finished

\* Every step of the run is a step of Lockstep on what Lockstep sees, or nothing to it.
LEMMA RefineStep == IInv /\ IInv' /\ [Next]_vars => [Steps!LockstepNext]_<<Entered, Finished>>
<1> SUFFICES ASSUME IInv, IInv', [Next]_vars PROVE [Steps!LockstepNext]_<<Entered, Finished>>
  OBVIOUS
<1>0. /\ TypeOK /\ BarrierInv /\ RoomInv /\ generation \in 0 .. 7
      /\ \A p \in Peers : waits[p] \in 0 .. 7 /\ waits[p] \in {generation, generation + 1}
  BY DEF IInv, TypeOK, BarrierInv
<1>1. /\ \A p \in Peers : Finished[p] <=> (at[p] \in Waiting \/ (at[p] \in Stopped /\ waits[p] > generation))
      /\ \A p \in Peers : Entered[p] = IF Finished[p] THEN waits[p] - 1 ELSE waits[p]
      /\ \A p \in Peers : Finished[p] \in BOOLEAN
  BY Mapping DEF View
<1>2. /\ \A p \in Peers : Finished'[p] <=> (at'[p] \in Waiting \/ (at'[p] \in Stopped /\ waits'[p] > generation'))
      /\ \A p \in Peers : Entered'[p] = IF Finished'[p] THEN waits'[p] - 1 ELSE waits'[p]
      /\ \A p \in Peers : Finished'[p] \in BOOLEAN
  <2>1. (IInv => View)'
    BY Mapping, PTL
  <2> QED
    BY <2>1 DEF View
<1>3. ASSUME NEW p \in Peers, waits[p] = generation, Finished[p]
      PROVE  /\ Entered[p] < 7
             /\ \A q \in Peers \ {p} : \/ Entered[q] > Entered[p]
                                       \/ Entered[q] = Entered[p] /\ Finished[q]
  <2>1. Entered[p] = generation - 1
    BY <1>1, <1>3
  <2>2. ASSUME NEW q \in Peers
        PROVE  Entered[q] > Entered[p] \/ (Entered[q] = Entered[p] /\ Finished[q])
    <3>1. CASE Finished[q]
      <4>1. Entered[q] = waits[q] - 1
        BY <1>1, <3>1
      <4> QED
        BY <1>0, <2>1, <3>1, <4>1
    <3>2. CASE ~Finished[q]
      <4>1. Entered[q] = waits[q]
        BY <1>1, <3>2
      <4> QED
        BY <1>0, <2>1, <4>1
    <3> QED
      BY <3>1, <3>2
  <2> QED
    BY <1>0, <2>1, <2>2
<1>4. ASSUME NEW p \in Peers, BarrierArrive(p) PROVE [Steps!LockstepNext]_<<Entered, Finished>>
  <2>1. /\ at[p] \in Calling /\ waits' = [waits EXCEPT ![p] = @ + 1]
        /\ \A q \in Peers \ {p} : at'[q] = at[q]
    BY <1>0, <1>4, Places DEF BarrierArrive, Go, TypeOK
  <2>2. /\ at[p] \notin Waiting \union Stopped /\ waits[p] = generation /\ generation \in 0 .. 6
        /\ waits'[p] = generation + 1 /\ \A q \in Peers \ {p} : waits'[q] = waits[q]
    BY <1>0, <2>1, Callers DEF TypeOK
  <2>3. ~Finished[p] /\ Entered[p] = generation
    BY <1>1, <2>2
  <2>4. CASE arrived + 1 = PeerTotal
    <3>1. generation' = generation + 1 /\ at'[p] \notin Waiting \union Stopped
      BY <1>0, <1>4, <2>1, <2>4, NextRound DEF BarrierArrive, Go, TypeOK
    <3>2. ~Finished'[p] /\ Entered'[p] = generation + 1
      BY <1>2, <2>2, <3>1
    <3>3. ASSUME NEW q \in Peers \ {p}
          PROVE  /\ Finished[q] /\ Finished'[q]
                 /\ Entered[q] = generation /\ Entered'[q] = generation
      <4>1. at[q] \notin Stopped /\ waits[q] = generation + 1
        BY <1>0, <2>1, <2>4, OpensComplete, Opening
      <4>2. at[q] \in Waiting
        BY <2>2, <4>1, <1>0 DEF BarrierInv
      <4>3. Finished[q] /\ Finished'[q]
        BY <1>1, <1>2, <2>1, <4>2
      <4> QED
        BY <1>1, <1>2, <2>2, <4>1, <4>3
    <3>4. Entered[p] < 7 /\ Entered'[p] = Entered[p] + 1
      BY <2>2, <2>3, <3>2
    <3>5. \A q \in Peers \ {p} : Entered'[q] = Entered[q] /\ Finished'[q] = Finished[q]
      BY <1>1, <1>2, <3>3
    <3>6. \A q \in Peers \ {p} : Entered[q] = Entered[p] /\ Finished[q]
      BY <2>3, <3>3
    <3> QED
      BY <3>2, <3>4, <3>5, <3>6, OneMoves
  <2>5. CASE arrived + 1 # PeerTotal
    <3>1. generation' = generation /\ at'[p] \in Waiting
      BY <1>0, <1>4, <2>1, <2>5, NextRound DEF BarrierArrive, Go, TypeOK
    <3>2. Finished'[p] /\ Entered'[p] = generation
      BY <1>2, <2>2, <3>1
    <3>3. \A q \in Peers \ {p} : Entered'[q] = Entered[q] /\ Finished'[q] = Finished[q]
      BY <2>1, <2>2, <3>1, SamePeer
    <3> QED
      BY <2>3, <3>2, <3>3, OneMoves
  <2> QED
    BY <2>4, <2>5
<1>5. ASSUME NEW p \in Peers, BarrierPass(p) PROVE [Steps!LockstepNext]_<<Entered, Finished>>
  <2>1. /\ at[p] \in Waiting /\ generation >= waits[p] /\ UNCHANGED <<waits, generation>>
        /\ at' = [at EXCEPT ![p] = Follower[at[p]]]
    BY <1>5, Places DEF BarrierPass, Go, barrierVars
  <2>2. waits[p] = generation
    BY <1>0, <2>1
  <2>3. at'[p] \notin Waiting \union Stopped /\ \A q \in Peers \ {p} : at'[q] = at[q]
    BY <1>0, <2>1, NextRound DEF TypeOK
  <2>4. Finished[p] /\ Entered[p] = generation - 1
    BY <1>1, <2>1, <2>2
  <2>5. ~Finished'[p] /\ Entered'[p] = generation
    BY <1>2, <2>1, <2>2, <2>3
  <2>6. Entered'[p] = Entered[p] + 1
    BY <1>0, <2>4, <2>5
  <2>7. \A q \in Peers \ {p} : Entered'[q] = Entered[q] /\ Finished'[q] = Finished[q]
    BY <2>1, <2>3, SamePeer
  <2> QED
    BY <1>3, <2>2, <2>4, <2>5, <2>6, <2>7, OneMoves
<1>6. ASSUME NEW p \in Peers, Inside(p) PROVE [Steps!LockstepNext]_<<Entered, Finished>>
  <2>1. /\ UNCHANGED <<waits, generation>> /\ \A q \in Peers \ {p} : at'[q] = at[q]
        /\ at[p] \notin Waiting \union Stopped /\ at'[p] \notin Waiting \union Stopped
    BY <1>0, <1>6, InsideRound DEF TypeOK
  <2>2. Entered'[p] = Entered[p] /\ Finished'[p] = Finished[p]
    BY <1>1, <1>2, <2>1
  <2>3. \A q \in Peers \ {p} : Entered'[q] = Entered[q] /\ Finished'[q] = Finished[q]
    BY <2>1, SamePeer
  <2> QED
    BY <2>2, <2>3, OneMoves
<1>7. ASSUME NEW p \in Peers, Stop(p) PROVE [Steps!LockstepNext]_<<Entered, Finished>>
  <2>1. /\ UNCHANGED <<waits, generation>> /\ \A q \in Peers \ {p} : at'[q] = at[q]
        /\ at[p] \notin Stopped /\ at'[p] \in Stopped /\ at'[p] \notin Waiting
    BY <1>0, <1>7, StopPlace DEF TypeOK, barrierVars, Stopped, Waiting
  <2>2. \A q \in Peers \ {p} : Entered'[q] = Entered[q] /\ Finished'[q] = Finished[q]
    BY <2>1, SamePeer
  <2>3. CASE at[p] \in Waiting /\ waits[p] = generation
    <3>1. Finished[p] /\ Entered[p] = generation - 1
      BY <1>1, <2>3
    <3>2. ~(waits'[p] > generation')
      BY <1>0, <2>1, <2>3
    <3>3. ~Finished'[p] /\ Entered'[p] = generation
      BY <1>2, <2>1, <2>3, <3>2
    <3>4. Entered'[p] = Entered[p] + 1
      BY <1>0, <3>1, <3>3
    <3> QED
      BY <1>3, <2>2, <2>3, <3>1, <3>3, <3>4, OneMoves
  <2>4. CASE at[p] \in Waiting /\ waits[p] = generation + 1
    <3>1. Finished[p] /\ Entered[p] = waits[p] - 1
      BY <1>1, <2>4
    <3>2. waits'[p] > generation'
      BY <1>0, <2>1, <2>4
    <3>3. Finished'[p] /\ Entered'[p] = waits[p] - 1
      BY <1>2, <2>1, <3>2
    <3> QED
      BY <1>1, <1>2, <2>2, <3>1, <3>3, OneMoves
  <2>5. CASE at[p] \notin Waiting
    <3>1. waits[p] = generation
      BY <1>0, <2>1, <2>5 DEF BarrierInv
    <3>2. ~(waits'[p] > generation')
      BY <1>0, <2>1, <3>1
    <3>3. Entered'[p] = Entered[p] /\ Finished'[p] = Finished[p]
      BY <1>1, <1>2, <2>1, <2>5, <3>2
    <3> QED
      BY <2>2, <3>3, OneMoves
  <2> QED
    BY <1>0, <2>3, <2>4, <2>5
<1>8. ASSUME NEW r \in Rooms, RoomTask(r) \/ FailRoom(r) PROVE [Steps!LockstepNext]_<<Entered, Finished>>
  <2>1. UNCHANGED <<waits, generation>>
    BY <1>8 DEF RoomTask, SpawnPeers, CollectPeers, AbortRoom, FailRoom, barrierVars
  <2>2. PICK p \in Peers : TRUE
    BY SyncAssumption
  <2>3. ASSUME NEW q \in Peers PROVE Entered'[q] = Entered[q] /\ Finished'[q] = Finished[q]
    <3>1. CASE SpawnPeers(r) /\ Room[q] = r
      <4>1. at[q] \in {"idle", "aborted"} /\ waits[q] = 0 /\ at'[q] = "spawned"
        BY <1>0, <3>1 DEF SpawnPeers, RoomInv
      <4>2. waits[q] = generation /\ ~(waits[q] > generation)
        BY <1>0, <4>1
      <4>3. ~Finished[q] /\ ~Finished'[q]
        BY <1>1, <1>2, <4>1, <4>2 DEF Waiting, Stopped
      <4> QED
        BY <1>1, <1>2, <2>1, <4>3
    <3>2. CASE ~(SpawnPeers(r) /\ Room[q] = r)
      <4>1. at'[q] = at[q]
        BY <1>8, <3>2 DEF RoomTask, SpawnPeers, CollectPeers, AbortRoom, FailRoom
      <4> QED
        BY <2>1, <4>1, SamePeer
    <3> QED
      BY <3>1, <3>2
  <2> QED
    BY <2>2, <2>3, OneMoves
<1>9. ASSUME Aside PROVE [Steps!LockstepNext]_<<Entered, Finished>>
  <2>1. UNCHANGED <<at, waits, generation>>
    BY <1>9, AsideKeeps DEF taskVars, barrierVars
  <2>2. PICK p \in Peers : TRUE
    BY SyncAssumption
  <2>3. \A q \in Peers : Entered'[q] = Entered[q] /\ Finished'[q] = Finished[q]
    BY <2>1, SamePeer
  <2> QED
    BY <2>2, <2>3, OneMoves
<1> QED
  BY <1>4, <1>5, <1>6, <1>7, <1>8, <1>9, Sorted

\* The barrier of ScenarioSync implements Lockstep: the peers of all rooms go through the seven
\* rounds together, though the barrier only counts and counted tasks may be aborted.
THEOREM PeersStayInLockstep == Spec => ImplementsLockstep
<1>1. Init => Steps!LockstepInit
  <2> SUFFICES ASSUME Init PROVE Steps!LockstepInit
    OBVIOUS
  <2>1. Round["idle"] = 0 /\ "idle" \notin Stopped /\ "idle" \notin DOMAIN Follower
    BY Places DEF Round, Stopped, Waiting
  <2>2. \A p \in Peers : at[p] = "idle"
    BY DEF Init
  <2>3. Entered = [p \in Peers |-> 0]
    <3>1. \A p \in Peers : Entered[p] = 0
      BY <2>1, <2>2 DEF Entered
    <3> QED
      BY <3>1 DEF Entered
  <2>4. Finished = [p \in Peers |-> FALSE]
    <3>1. \A p \in Peers : ~Finished[p]
      BY <2>1, <2>2 DEF Finished
    <3>2. Finished \in [Peers -> BOOLEAN]
      BY InitIInv, Mapping DEF View
    <3> QED
      BY <3>1, <3>2
  <2> QED
    BY <2>3, <2>4 DEF Steps!LockstepInit
<1> QED
  BY <1>1, RefineStep, Invariance, PTL DEF Spec, ImplementsLockstep, Steps!LockstepSpec
==============================================================================
