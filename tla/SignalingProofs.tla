---------------------------- MODULE SignalingProofs ----------------------------
(***************************************************************************)
(* For every room, every plan of publications and every number of faults:  *)
(* what a peer has negotiated can be told from how often it has, no read   *)
(* waits for a negotiation that nobody begins, a room whose peers go to    *)
(* work is negotiated completely, and its transports are those of the first*)
(* offers.                                                                 *)
(***************************************************************************)
EXTENDS Signaling, SequenceTheorems, TLAPS

-------------------------------------------------------------------------------
(* The inductive invariant. *)

Stages == {"connect", "layouts", "subscribed", "publish", "published", "accept", "work", "failed"}

Publications == [peer : Nat, kind : {"audio", "camera"}]

Frames ==
    [kind : {"offer", "renegotiation"}, covers : Nat]
        \union [kind : {"reply", "event", "close"}]

PeerRecords ==
    [at : PeerStates, goal : Nat, count : Nat, rtc : Nat \union {None},
     timers : SUBSET {"batch", "request"},
     batch : [layouts : SUBSET Nat, sources : Seq(Publications)],
     covered : Nat, paths : SUBSET {"audio", "camera"}]

Sessions ==
    [session : BOOLEAN, ready : BOOLEAN, told : Nat \union {None}, unanswered : BOOLEAN,
     requested : BOOLEAN, layouts : SUBSET Nat]

Typed ==
    /\ stage \in Stages /\ turn \in Nat
    /\ peer \in [Peers -> PeerRecords]
    /\ sfu \in [Peers -> Sessions]
    /\ inbox \in [Peers -> Seq(Frames)]
    /\ sources \in Seq(Publications)

\* Publications reach the server in the order of the plan.
SourcesInv ==
    /\ Len(sources) <= Len(Plan)
    /\ \A i \in 1 .. Len(sources) : sources[i] = Plan[i]

PlannedPaths(p, n) == {Plan[i].kind : i \in {j \in 1 .. n : Plan[j].peer = p}}

\* One peer and the server: the server is at most one source ahead of what it has told the peer,
\* and the peer has answered all or all but the last of what it was told.
Link(p) ==
    /\ peer[p].count > 0 => /\ peer[p].covered = peer[p].count - 1
                            /\ peer[p].paths = PlannedPaths(p, peer[p].covered)
    /\ sfu[p].told = None => /\ Len(sources) = 0 /\ peer[p].count = 0
                             /\ ~sfu[p].unanswered
    /\ sfu[p].told # None => /\ sfu[p].told <= Len(sources) /\ Len(sources) <= sfu[p].told + 1
                             /\ sfu[p].unanswered => peer[p].count = sfu[p].told
                             /\ ~sfu[p].unanswered => peer[p].count = sfu[p].told + 1
    /\ sfu[p].ready => peer[p].count > 0

\* The frames on their way to a peer: one offer if one is unanswered, unless the peer has failed
\* over it, and the initial offer only as the first.
Mail(p) ==
    /\ \A i \in 1 .. Len(inbox[p]) : IsOffer(inbox[p][i]) =>
           /\ sfu[p].unanswered
           /\ inbox[p][i].covers = sfu[p].told
           /\ inbox[p][i].kind = "offer" => sfu[p].told = 0
    /\ \A i, j \in 1 .. Len(inbox[p]) : IsOffer(inbox[p][i]) /\ IsOffer(inbox[p][j]) => i = j
    /\ sfu[p].unanswered => \/ peer[p].at = "error"
                            \/ \E i \in 1 .. Len(inbox[p]) : IsOffer(inbox[p][i])

\* A peer between two things that the room's task asks of it.
Resting(p) == peer[p].at = "idle" /\ peer[p].batch = EmptyBatch

Connecting(p) ==
    /\ peer[p].at \in {"open", "read", "transport", "idle", "error"}
    /\ peer[p].batch = EmptyBatch /\ sfu[p].layouts = {}
    /\ peer[p].at = "open" => ~sfu[p].session /\ sfu[p].told = None
    /\ peer[p].at = "read" => sfu[p].session /\ peer[p].goal = 1 /\ peer[p].count = 0
    /\ peer[p].at = "transport" => peer[p].count > 0
    /\ peer[p].at = "idle" => sfu[p].ready

Subscribing(p) ==
    \/ /\ peer[p].at = "flush" /\ "batch" \in peer[p].timers
       /\ peer[p].batch = [layouts |-> Layouts(p), sources |-> << >>]
       /\ sfu[p].layouts = {}
    \/ Resting(p) /\ sfu[p].layouts = Layouts(p)
    \/ peer[p].at = "error"

Publishing(p) ==
    \/ /\ peer[p].at = "flush" /\ "batch" \in peer[p].timers
       /\ peer[p].batch = [layouts |-> {}, sources |-> <<Plan[turn]>>]
       /\ Len(sources) = turn - 1 /\ peer[p].count = turn
    \/ /\ peer[p].at = "read" /\ peer[p].batch = EmptyBatch
       /\ Len(sources) = turn /\ peer[p].goal = turn + 1 /\ peer[p].count = turn
    \/ /\ Resting(p) /\ Len(sources) = turn /\ peer[p].count = turn + 1
    \/ peer[p].at = "error"

Accepting(p) ==
    \/ /\ peer[p].at = "read" /\ peer[p].batch = EmptyBatch
       /\ peer[p].goal = turn + 1 /\ peer[p].count = turn
    \/ Resting(p) /\ peer[p].count = turn + 1
    \/ peer[p].at = "error"

Working(p) ==
    /\ peer[p].at \in {"work", "close", "done", "error"}
    /\ peer[p].count = Len(Plan) + 1 /\ peer[p].rtc # None
    /\ sfu[p].layouts = Layouts(p)

Publisher == Plan[turn].peer

\* Where the peers of the room are, in each of its stages.
AtConnect == sources = << >> /\ \A p \in Peers : Connecting(p)

AtLayouts ==
    /\ turn \in 1 .. PeerCount + 1 /\ Len(sources) = 0
    /\ \A p \in Peers : /\ Resting(p) /\ sfu[p].ready
                        /\ p < turn => sfu[p].layouts = Layouts(p)
                        /\ p >= turn => sfu[p].layouts = {}

AtSubscribed ==
    /\ turn \in 1 .. PeerCount /\ Len(sources) = 0
    /\ \A p \in Peers : /\ sfu[p].ready
                        /\ p # turn => Resting(p)
                        /\ p < turn => sfu[p].layouts = Layouts(p)
                        /\ p > turn => sfu[p].layouts = {}
                        /\ p = turn => Subscribing(p)

AtPublish ==
    /\ turn \in 1 .. Len(Plan) + 1 /\ Len(sources) = turn - 1
    /\ \A p \in Peers : /\ Resting(p) /\ peer[p].count = turn
                        /\ sfu[p].ready /\ sfu[p].layouts = Layouts(p)

AtPublished ==
    /\ turn \in 1 .. Len(Plan)
    /\ \A p \in Peers : /\ p # Publisher => Resting(p) /\ peer[p].count = turn
                        /\ p = Publisher => Publishing(p)
                        /\ sfu[p].ready /\ sfu[p].layouts = Layouts(p)

AtAccept ==
    /\ turn \in 1 .. Len(Plan) /\ Len(sources) = turn
    /\ \A p \in Peers : /\ p # Publisher => Accepting(p)
                        /\ p = Publisher => Resting(p) /\ peer[p].count = turn + 1
                        /\ sfu[p].ready /\ sfu[p].layouts = Layouts(p)

AtWork == Len(sources) = Len(Plan) /\ \A p \in Peers : Working(p)

StageInv ==
    /\ stage = "connect" => AtConnect
    /\ stage = "layouts" => AtLayouts
    /\ stage = "subscribed" => AtSubscribed
    /\ stage = "publish" => AtPublish
    /\ stage = "published" => AtPublished
    /\ stage = "accept" => AtAccept
    /\ stage = "work" => AtWork
    /\ stage # "work" => \A p \in Peers : task[p] = "none"

PairsInv == \A p \in Peers : Link(p) /\ Mail(p)

IInv == Typed /\ SourcesInv /\ PairsInv /\ StageInv

-------------------------------------------------------------------------------
(* Constants, the plan and the timers. *)

\* What the constants are, by name.
LEMMA Constants ==
    /\ PeerCount \in Nat /\ AudioPublishers \in Nat /\ VideoPublishers \in Nat
    /\ AudioPublishers <= PeerCount /\ VideoPublishers <= PeerCount
    /\ BatchDelay \in Nat /\ RequestTimeout \in Nat /\ BatchDelay < RequestTimeout
    /\ None \notin Nat
BY SignalingAssumption

\* The plan is a sequence of publications by peers of the room (publish_sources).
LEMMA PlanFacts ==
    /\ Len(Plan) \in Nat /\ Plan \in Seq(Publications)
    /\ \A i \in 1 .. Len(Plan) : Plan[i].peer \in Peers /\ Plan[i] \in Publications
<1>1. AudioPublishers + VideoPublishers \in Nat
  BY Constants
<1>2. ASSUME NEW i \in 1 .. AudioPublishers + VideoPublishers
      PROVE  Plan[i].peer \in Peers /\ Plan[i] \in Publications
  <2>1. CASE i <= AudioPublishers
    <3>1. Plan[i] = [peer |-> i, kind |-> "audio"]
      BY <2>1 DEF Plan
    <3> QED
      BY <1>1, <2>1, <3>1, Constants DEF Publications, Peers
  <2>2. CASE ~(i <= AudioPublishers)
    <3>1. Plan[i] = [peer |-> i - AudioPublishers, kind |-> "camera"]
      BY <2>2 DEF Plan
    <3>2. i - AudioPublishers \in 1 .. VideoPublishers
      BY <1>1, <2>2, Constants
    <3> QED
      BY <3>1, <3>2, Constants DEF Publications, Peers
  <2> QED
    BY <2>1, <2>2
<1>3. /\ DOMAIN Plan = 1 .. AudioPublishers + VideoPublishers
      /\ Plan \in [1 .. AudioPublishers + VideoPublishers -> Publications]
  BY <1>2 DEF Plan
<1>4. Plan \in Seq(Publications) /\ Len(Plan) = AudioPublishers + VideoPublishers
  BY <1>1, <1>3
<1> QED
  BY <1>1, <1>2, <1>4

\* The batch goes first, whatever else waits.
LEMMA BatchFirst ==
    ASSUME NEW p, peer[p].timers \subseteq {"batch", "request"}, "batch" \in peer[p].timers
    PROVE  NextTimer(p) = "batch"
<1>1. Delay["batch"] = BatchDelay /\ Delay["request"] = RequestTimeout
  BY DEF Delay
<1>2. \A other \in peer[p].timers : Delay["batch"] <= Delay[other]
  BY <1>1, Constants
<1>3. /\ NextTimer(p) \in peer[p].timers
      /\ \A other \in peer[p].timers : Delay[NextTimer(p)] <= Delay[other]
  BY <1>2 DEF NextTimer
<1>4. NextTimer(p) # "request"
  BY <1>1, <1>3, Constants
<1> QED
  BY <1>3, <1>4

-------------------------------------------------------------------------------
(* Types. *)

\* An offer asks for paths to sources that the server has.
LEMMA AskedPaths ==
    ASSUME Typed, PairsInv, NEW p \in Peers, inbox[p] # << >>, IsOffer(Head(inbox[p]))
    PROVE  /\ sfu[p].unanswered /\ sfu[p].told \in Nat /\ sfu[p].told <= Len(sources)
           /\ Head(inbox[p]).covers = sfu[p].told
           /\ peer[p].count = sfu[p].told
           /\ Head(inbox[p]).kind = "offer" => sfu[p].told = 0
           /\ Paths(p, Head(inbox[p]).covers) \in SUBSET {"audio", "camera"}
<1>1. inbox[p] \in Seq(Frames) /\ sfu[p].told \in Nat \union {None} /\ sources \in Seq(Publications)
  BY DEF Typed, Sessions
<1>2. Head(inbox[p]) = inbox[p][1] /\ 1 \in 1 .. Len(inbox[p])
  BY <1>1, EmptySeq
<1>3. /\ sfu[p].unanswered /\ Head(inbox[p]).covers = sfu[p].told
      /\ Head(inbox[p]).kind = "offer" => sfu[p].told = 0
  BY <1>2 DEF PairsInv, Mail
<1>4. sfu[p].told \in Nat /\ sfu[p].told <= Len(sources) /\ peer[p].count = sfu[p].told
  BY <1>1, <1>3 DEF PairsInv, Link
<1>5. \A i \in 1 .. sfu[p].told : sources[i].kind \in {"audio", "camera"}
  <2>1. \A i \in 1 .. Len(sources) : sources[i] \in Publications
    BY <1>1
  <2>2. Len(sources) \in Nat
    BY <1>1
  <2> QED
    BY <1>4, <2>1, <2>2 DEF Publications
<1> QED
  BY <1>3, <1>4, <1>5 DEF Paths

-------------------------------------------------------------------------------
(* What an action changes of a peer, and that it leaves the others alone. *)

Others(p) ==
    \A q \in Peers \ {p} : peer'[q] = peer[q] /\ sfu'[q] = sfu[q] /\ inbox'[q] = inbox[q]

\* A changed record or inbox in its place.
LEMMA Update ==
    ASSUME Typed, NEW p \in Peers
    PROVE  /\ \A r \in PeerRecords : peer' = [peer EXCEPT ![p] = r] =>
                  /\ peer' \in [Peers -> PeerRecords] /\ peer'[p] = r
                  /\ \A q \in Peers \ {p} : peer'[q] = peer[q]
           /\ \A s \in Sessions : sfu' = [sfu EXCEPT ![p] = s] =>
                  /\ sfu' \in [Peers -> Sessions] /\ sfu'[p] = s
                  /\ \A q \in Peers \ {p} : sfu'[q] = sfu[q]
           /\ \A m \in Seq(Frames) : inbox' = [inbox EXCEPT ![p] = m] =>
                  /\ inbox' \in [Peers -> Seq(Frames)] /\ inbox'[p] = m
                  /\ \A q \in Peers \ {p} : inbox'[q] = inbox[q]
           /\ peer[p] \in PeerRecords /\ sfu[p] \in Sessions /\ inbox[p] \in Seq(Frames)
BY DEF Typed

\* What is a record of a peer in each of its fields is one.
LEMMA RecordOfFields ==
    ASSUME NEW r \in PeerRecords, NEW v,
           DOMAIN v = DOMAIN r, v = [x \in DOMAIN v |-> v[x]],
           v.at \in PeerStates, v.goal \in Nat, v.count \in Nat, v.rtc \in Nat \union {None},
           v.timers \in SUBSET {"batch", "request"},
           v.batch \in [layouts : SUBSET Nat, sources : Seq(Publications)],
           v.covered \in Nat, v.paths \in SUBSET {"audio", "camera"}
    PROVE  v \in PeerRecords
BY DEF PeerRecords

\* ProtocolPeer::connect opens a session and begins to read.
LEMMA Opens ==
    ASSUME Typed, NEW p \in Peers, Open(p)
    PROVE  /\ Typed' /\ Others(p)
           /\ peer'[p] = [peer[p] EXCEPT !.at = "read", !.goal = 1]
           /\ sfu'[p] = [sfu[p] EXCEPT !.session = TRUE]
           /\ UNCHANGED <<stage, turn, sources, task, inbox>>
<1>1. peer' = [peer EXCEPT ![p] = [peer[p] EXCEPT !.at = "read", !.goal = 1]]
  BY DEF Open, Typed, PeerRecords
<1>2. sfu' = [sfu EXCEPT ![p] = [sfu[p] EXCEPT !.session = TRUE]]
  BY DEF Open, Typed
<1>3. [peer[p] EXCEPT !.at = "read", !.goal = 1] \in PeerRecords
  BY ZenonT(60) DEF Typed, PeerRecords, PeerStates
<1>4. [sfu[p] EXCEPT !.session = TRUE] \in Sessions
  BY DEF Typed, Sessions
<1> QED
  BY <1>1, <1>2, <1>3, <1>4, Update DEF Open, Typed, Others

\* The peer answers an offer.
LEMMA Answers ==
    ASSUME Typed, PairsInv, NEW p \in Peers, Receive(p), IsOffer(Head(inbox[p])),
           Rebind(p, Head(inbox[p])) # None
    PROVE  /\ Typed' /\ Others(p)
           /\ peer'[p] = [peer[p] EXCEPT !.at = Reading(p, peer[p].count + 1),
                             !.count = peer[p].count + 1,
                             !.rtc = Rebind(p, Head(inbox[p])),
                             !.covered = Head(inbox[p]).covers,
                             !.paths = Paths(p, Head(inbox[p]).covers)]
           /\ sfu'[p] = [sfu[p] EXCEPT !.unanswered = FALSE]
           /\ inbox'[p] = Tail(inbox[p])
           /\ UNCHANGED <<stage, turn, sources, task>>
<1> DEFINE frame == Head(inbox[p])
           answered == [peer[p] EXCEPT !.at = Reading(p, peer[p].count + 1),
                           !.count = peer[p].count + 1,
                           !.rtc = Rebind(p, frame),
                           !.covered = frame.covers,
                           !.paths = Paths(p, frame.covers)]
<1>0. inbox[p] # << >> /\ peer[p] \in PeerRecords /\ inbox[p] \in Seq(Frames)
  BY DEF Receive, Typed
<1>1. frame.covers \in Nat /\ Paths(p, frame.covers) \in SUBSET {"audio", "camera"}
  BY <1>0, AskedPaths
<1>2. Reading(p, peer[p].count + 1) \in PeerStates
  BY DEF Reading, PeerStates
<1>3. Rebind(p, frame) \in Nat \union {None}
  BY <1>0 DEF Rebind, PeerRecords
<1>4. answered \in PeerRecords
  <2>1. peer[p].count + 1 \in Nat
    BY <1>0 DEF PeerRecords
  <2>2. /\ answered.at = Reading(p, peer[p].count + 1) /\ answered.goal = peer[p].goal
        /\ answered.count = peer[p].count + 1 /\ answered.rtc = Rebind(p, frame)
        /\ answered.timers = peer[p].timers /\ answered.batch = peer[p].batch
        /\ answered.covered = frame.covers /\ answered.paths = Paths(p, frame.covers)
    BY <1>0 DEF PeerRecords
  <2>3. DOMAIN answered = DOMAIN peer[p] /\ answered = [x \in DOMAIN answered |-> answered[x]]
    BY <1>0 DEF PeerRecords
  <2>4. /\ peer[p].goal \in Nat /\ peer[p].timers \in SUBSET {"batch", "request"}
        /\ peer[p].batch \in [layouts : SUBSET Nat, sources : Seq(Publications)]
    BY <1>0 DEF PeerRecords
  <2> HIDE DEF answered
  <2> QED
    BY <1>0, <1>1, <1>2, <1>3, <2>1, <2>2, <2>3, <2>4, RecordOfFields
<1>5. peer' = [peer EXCEPT ![p] = answered]
  BY DEF Receive, ApplyNegotiation, RtcNotAvailable, Typed, PeerRecords
<1>6. sfu' = [sfu EXCEPT ![p] = [sfu[p] EXCEPT !.unanswered = FALSE]]
  BY DEF Receive, ApplyNegotiation, RtcNotAvailable, Typed
<1>7. [sfu[p] EXCEPT !.unanswered = FALSE] \in Sessions
  BY DEF Typed, Sessions
<1>8. Tail(inbox[p]) \in Seq(Frames) /\ inbox' = [inbox EXCEPT ![p] = Tail(inbox[p])]
  BY <1>0, HeadTailProperties DEF Receive, Typed
<1> HIDE DEF answered
<1>9. /\ peer' \in [Peers -> PeerRecords] /\ peer'[p] = answered
      /\ sfu' \in [Peers -> Sessions] /\ sfu'[p] = [sfu[p] EXCEPT !.unanswered = FALSE]
      /\ inbox' \in [Peers -> Seq(Frames)] /\ inbox'[p] = Tail(inbox[p])
      /\ Others(p)
  BY <1>4, <1>5, <1>6, <1>7, <1>8, Update DEF Others
<1> USE DEF answered
<1> QED
  BY <1>9 DEF Receive, Typed

\* The peer has no RTC peer any more to answer an offer.
LEMMA FailsToAnswer ==
    ASSUME Typed, NEW p \in Peers, Receive(p), IsOffer(Head(inbox[p])),
           Rebind(p, Head(inbox[p])) = None
    PROVE  /\ Typed' /\ Others(p)
           /\ peer'[p] = [peer[p] EXCEPT !.at = "error"]
           /\ inbox[p] # << >> /\ inbox'[p] = Tail(inbox[p])
           /\ UNCHANGED <<stage, turn, sources, task, sfu>>
<1>1. peer' = [peer EXCEPT ![p] = [peer[p] EXCEPT !.at = "error"]]
  BY DEF Receive, ApplyNegotiation, RtcNotAvailable, Typed, PeerRecords
<1>2. [peer[p] EXCEPT !.at = "error"] \in PeerRecords
  <2>1. peer[p] \in PeerRecords /\ "error" \in PeerStates
    BY DEF Typed, PeerStates
  <2> QED
    BY <2>1 DEF PeerRecords
<1>3. Tail(inbox[p]) \in Seq(Frames) /\ inbox' = [inbox EXCEPT ![p] = Tail(inbox[p])]
  BY HeadTailProperties DEF Receive, Typed
<1> QED
  BY <1>1, <1>2, <1>3, Update DEF Receive, ApplyNegotiation, RtcNotAvailable, Typed, Others

\* The peer reads something else, on which it may have to close its RTC peer.
LEMMA ReadsOther ==
    ASSUME Typed, NEW p \in Peers, Receive(p), ~IsOffer(Head(inbox[p]))
    PROVE  /\ Typed' /\ Others(p)
           /\ peer'[p].at = "read" /\ peer'[p].goal = peer[p].goal
           /\ peer'[p].count = peer[p].count /\ peer'[p].covered = peer[p].covered
           /\ peer'[p].paths = peer[p].paths /\ peer'[p].batch = peer[p].batch
           /\ peer'[p].rtc \in {peer[p].rtc, None}
           /\ inbox[p] # << >> /\ inbox'[p] = Tail(inbox[p])
           /\ UNCHANGED <<stage, turn, sources, task, sfu>>
<1> DEFINE frame == Head(inbox[p])
           left == IF frame.kind = "reply" THEN peer[p].timers \ {"request"} ELSE peer[p].timers
           rtc == IF frame.kind = "close" THEN None ELSE peer[p].rtc
           changed == [peer[p] EXCEPT !.timers = left, !.rtc = rtc]
<1>0. peer[p] \in PeerRecords /\ peer[p].at = "read"
  BY DEF Receive, Typed
<1>1. peer' = [peer EXCEPT ![p] = changed]
  BY DEF Receive, RunCommands, Typed, PeerRecords
<1>2. changed \in PeerRecords
  <2>1. left \in SUBSET {"batch", "request"} /\ rtc \in Nat \union {None}
    BY <1>0 DEF PeerRecords
  <2> HIDE DEF left, rtc
  <2> QED
    BY <1>0, <2>1 DEF PeerRecords
<1>3. /\ changed.at = "read" /\ changed.goal = peer[p].goal
      /\ changed.count = peer[p].count /\ changed.covered = peer[p].covered
      /\ changed.paths = peer[p].paths /\ changed.batch = peer[p].batch
      /\ changed.rtc \in {peer[p].rtc, None}
  BY <1>0 DEF PeerRecords
<1>4. Tail(inbox[p]) \in Seq(Frames) /\ inbox' = [inbox EXCEPT ![p] = Tail(inbox[p])]
  BY HeadTailProperties DEF Receive, Typed
<1>5. /\ peer' \in [Peers -> PeerRecords] /\ peer'[p] = changed
      /\ inbox' \in [Peers -> Seq(Frames)] /\ inbox'[p] = Tail(inbox[p])
      /\ \A q \in Peers \ {p} : peer'[q] = peer[q] /\ inbox'[q] = inbox[q]
  <2> HIDE DEF changed
  <2> QED
    BY <1>1, <1>2, <1>4, Update
<1>6. /\ inbox[p] # << >> /\ UNCHANGED <<stage, turn, sources, task, sfu>>
  BY DEF Receive, RunCommands
<1> HIDE DEF changed
<1> QED
  BY <1>3, <1>5, <1>6 DEF Typed, Others

\* wait_until_connected succeeds.
LEMMA GetsTransport ==
    ASSUME Typed, NEW p \in Peers, TransportReady(p)
    PROVE  /\ Typed' /\ Others(p)
           /\ peer'[p] = [peer[p] EXCEPT !.at = "idle"]
           /\ sfu'[p] = [sfu[p] EXCEPT !.ready = TRUE]
           /\ UNCHANGED <<stage, turn, sources, task, inbox>>
<1>1. peer' = [peer EXCEPT ![p] = [peer[p] EXCEPT !.at = "idle"]]
  BY DEF TransportReady, Typed, PeerRecords
<1>2. sfu' = [sfu EXCEPT ![p] = [sfu[p] EXCEPT !.ready = TRUE]]
  BY DEF TransportReady, Typed
<1>3. [peer[p] EXCEPT !.at = "idle"] \in PeerRecords
  BY DEF Typed, PeerRecords, PeerStates
<1>4. [sfu[p] EXCEPT !.ready = TRUE] \in Sessions
  BY DEF Typed, Sessions
<1> QED
  BY <1>1, <1>2, <1>3, <1>4, Update DEF TransportReady, Typed, Others

\* A flush of the batch, which is the only one if a batch waits.
LEMMA FlushesBatch ==
    ASSUME Typed, NEW p \in Peers, Flush(p), "batch" \in peer[p].timers
    PROVE  /\ Typed' /\ Others(p)
           /\ peer'[p].at = IF stage = "subscribed" THEN "idle" ELSE "read"
           /\ peer'[p].batch = EmptyBatch /\ peer'[p].goal = peer[p].count + 1
           /\ peer'[p].count = peer[p].count /\ peer'[p].rtc = peer[p].rtc
           /\ peer'[p].covered = peer[p].covered /\ peer'[p].paths = peer[p].paths
           /\ sfu'[p].layouts = sfu[p].layouts \union peer[p].batch.layouts
           /\ sfu'[p].session = sfu[p].session /\ sfu'[p].ready = sfu[p].ready
           /\ sfu'[p].told = sfu[p].told /\ sfu'[p].unanswered = sfu[p].unanswered
           /\ sources' = sources \o peer[p].batch.sources
           /\ UNCHANGED <<stage, turn, task, inbox>>
<1>0. peer[p] \in PeerRecords /\ sfu[p] \in Sessions
  BY DEF Typed
<1>1. NextTimer(p) = "batch"
  BY <1>0, BatchFirst DEF PeerRecords
<1>2. PICK begun \in SUBSET ({"request"} \ peer[p].timers) :
          /\ peer' = [peer EXCEPT ![p].timers = (@ \ {"batch"}) \union begun,
                         ![p].batch = EmptyBatch,
                         ![p].at = IF stage = "subscribed" THEN "idle" ELSE "read",
                         ![p].goal = peer[p].count + 1]
          /\ ReceiveBatch(p, begun)
  BY <1>1 DEF Flush
<1> DEFINE flushed == [peer[p] EXCEPT !.timers = (peer[p].timers \ {"batch"}) \union begun,
                          !.batch = EmptyBatch,
                          !.at = IF stage = "subscribed" THEN "idle" ELSE "read",
                          !.goal = peer[p].count + 1]
           served == [sfu[p] EXCEPT !.layouts = sfu[p].layouts \union peer[p].batch.layouts,
                         !.requested = sfu[p].requested \/ begun # {}]
<1>3. peer' = [peer EXCEPT ![p] = flushed]
  BY <1>2 DEF Typed, PeerRecords
<1>4. sfu' = [sfu EXCEPT ![p] = served]
  BY <1>2 DEF ReceiveBatch, Typed, Sessions
<1>5. EmptyBatch \in [layouts : SUBSET Nat, sources : Seq(Publications)]
  BY EmptySeq DEF EmptyBatch
<1>6. flushed \in PeerRecords
  <2>1. /\ peer[p].count + 1 \in Nat
        /\ (peer[p].timers \ {"batch"}) \union begun \in SUBSET {"batch", "request"}
    BY <1>0, <1>2 DEF PeerRecords
  <2>2. (IF stage = "subscribed" THEN "idle" ELSE "read") \in PeerStates
    BY DEF PeerStates
  <2>3. /\ flushed.at = IF stage = "subscribed" THEN "idle" ELSE "read"
        /\ flushed.goal = peer[p].count + 1 /\ flushed.count = peer[p].count
        /\ flushed.rtc = peer[p].rtc /\ flushed.batch = EmptyBatch
        /\ flushed.timers = (peer[p].timers \ {"batch"}) \union begun
        /\ flushed.covered = peer[p].covered /\ flushed.paths = peer[p].paths
    BY <1>0 DEF PeerRecords
  <2>4. DOMAIN flushed = DOMAIN peer[p] /\ flushed = [x \in DOMAIN flushed |-> flushed[x]]
    BY <1>0 DEF PeerRecords
  <2>5. /\ peer[p].count \in Nat /\ peer[p].rtc \in Nat \union {None} /\ peer[p].covered \in Nat
        /\ peer[p].paths \in SUBSET {"audio", "camera"}
    BY <1>0 DEF PeerRecords
  <2> HIDE DEF flushed
  <2> QED
    BY <1>0, <1>5, <2>1, <2>2, <2>3, <2>4, <2>5, RecordOfFields
<1>7. served \in Sessions
  BY <1>0 DEF Sessions, PeerRecords
<1>8. sources' = sources \o peer[p].batch.sources /\ sources' \in Seq(Publications)
  BY <1>0, <1>2, ConcatProperties DEF ReceiveBatch, PeerRecords, Typed
<1>9. /\ peer'[p] = flushed /\ peer' \in [Peers -> PeerRecords]
      /\ sfu'[p] = served /\ sfu' \in [Peers -> Sessions]
      /\ Others(p) /\ UNCHANGED <<stage, turn, task, inbox>>
  <2> HIDE DEF flushed, served
  <2> QED
    BY <1>3, <1>4, <1>6, <1>7, Update DEF Flush, Others
<1>10. Typed'
  BY <1>8, <1>9 DEF Typed
<1> QED
  BY <1>0, <1>8, <1>9, <1>10 DEF PeerRecords, Sessions

\* A peer that does nothing but to go on or to give up.
LEMMA MovesOn ==
    ASSUME Typed, NEW p \in Peers, NEW at \in PeerStates, peer' = [peer EXCEPT ![p].at = at],
           UNCHANGED <<stage, turn, task, inbox, sfu, sources>>
    PROVE  Typed' /\ Others(p) /\ peer'[p] = [peer[p] EXCEPT !.at = at]
<1>1. peer' = [peer EXCEPT ![p] = [peer[p] EXCEPT !.at = at]]
  BY DEF Typed, PeerRecords
<1>2. [peer[p] EXCEPT !.at = at] \in PeerRecords
  BY DEF Typed, PeerRecords
<1> QED
  BY <1>1, <1>2, Update DEF Typed, Others

\* The server sends an offer, about one source more than before.
LEMMA Offers ==
    ASSUME Typed, PairsInv, NEW p \in Peers, Negotiate(p)
    PROVE  /\ Typed' /\ Others(p)
           /\ \E kind \in {"offer", "renegotiation"} :
                  /\ inbox'[p] = Append(inbox[p], [kind |-> kind, covers |-> Len(sources)])
                  /\ kind = "offer" => Len(sources) = 0
           /\ sfu'[p] = [sfu[p] EXCEPT !.told = Len(sources), !.unanswered = TRUE]
           /\ sfu[p].session /\ ~sfu[p].unanswered /\ peer[p].count = Len(sources)
           /\ UNCHANGED <<stage, turn, sources, task, peer>>
<1>0. /\ Len(sources) \in Nat /\ inbox[p] \in Seq(Frames) /\ sfu[p].told \in Nat \union {None}
      /\ peer[p].count \in Nat
  BY DEF Typed, Sessions, PeerRecords
<1>1. PICK kind \in {"offer", "renegotiation"} :
          /\ inbox' = [inbox EXCEPT ![p] = Append(@, Covering(kind))]
          /\ kind = "offer" => sfu[p].told = None
          /\ kind = "renegotiation" => sfu[p].ready /\ sfu[p].told < Len(sources)
  BY DEF Negotiate
<1>2. /\ sfu[p].session /\ ~sfu[p].unanswered
      /\ sfu' = [sfu EXCEPT ![p].told = Len(sources), ![p].unanswered = TRUE]
      /\ UNCHANGED <<stage, turn, sources, task, peer>>
  BY DEF Negotiate
<1>3. Link(p)
  BY DEF PairsInv
<1>4. peer[p].count = Len(sources) /\ (kind = "offer" => Len(sources) = 0)
  <2>1. CASE sfu[p].told = None
    BY <1>3, <2>1 DEF Link
  <2>2. CASE sfu[p].told # None
    <3>1. sfu[p].told \in Nat /\ sfu[p].told < Len(sources) /\ kind # "offer"
      BY <1>0, <1>1, <2>2
    <3>2. Len(sources) <= sfu[p].told + 1 /\ peer[p].count = sfu[p].told + 1
      BY <1>2, <1>3, <2>2 DEF Link
    <3> QED
      BY <1>0, <3>1, <3>2
  <2> QED
    BY <2>1, <2>2
<1> DEFINE frame == [kind |-> kind, covers |-> Len(sources)]
           told == [sfu[p] EXCEPT !.told = Len(sources), !.unanswered = TRUE]
<1>5. frame \in Frames
  BY <1>0 DEF Frames
<1>6. Append(inbox[p], frame) \in Seq(Frames)
  BY <1>0, <1>5, AppendProperties
<1>7. inbox' = [inbox EXCEPT ![p] = Append(inbox[p], frame)]
  BY <1>1 DEF Covering, Typed
<1>8. sfu' = [sfu EXCEPT ![p] = told]
  BY <1>2 DEF Typed, Sessions
<1>9. told \in Sessions
  BY <1>0 DEF Typed, Sessions
<1>10. /\ inbox' \in [Peers -> Seq(Frames)] /\ inbox'[p] = Append(inbox[p], frame)
       /\ sfu' \in [Peers -> Sessions] /\ sfu'[p] = told
       /\ Others(p)
  <2> HIDE DEF frame, told
  <2> QED
    BY <1>2, <1>6, <1>7, <1>8, <1>9, Update DEF Others
<1> QED
  BY <1>2, <1>4, <1>10 DEF Typed

\* The server answers a request.
LEMMA Replies ==
    ASSUME Typed, NEW p \in Peers, Reply(p)
    PROVE  /\ Typed' /\ Others(p)
           /\ inbox'[p] = Append(inbox[p], [kind |-> "reply"])
           /\ sfu'[p] = [sfu[p] EXCEPT !.requested = FALSE]
           /\ UNCHANGED <<stage, turn, sources, task, peer>>
<1>1. [kind |-> "reply"] \in Frames /\ inbox[p] \in Seq(Frames)
  BY DEF Frames, Typed
<1> DEFINE frame == [kind |-> "reply"]
           served == [sfu[p] EXCEPT !.requested = FALSE]
<1>2. inbox' = [inbox EXCEPT ![p] = Append(inbox[p], frame)]
  BY DEF Reply, Typed
<1>3. sfu' = [sfu EXCEPT ![p] = served]
  BY DEF Reply, Typed
<1>4. served \in Sessions
  BY DEF Typed, Sessions
<1>5. Append(inbox[p], frame) \in Seq(Frames)
  BY <1>1, AppendProperties
<1>6. /\ inbox' \in [Peers -> Seq(Frames)] /\ inbox'[p] = Append(inbox[p], frame)
      /\ sfu' \in [Peers -> Sessions] /\ sfu'[p] = served
      /\ Others(p)
  <2> HIDE DEF frame, served
  <2> QED
    BY <1>2, <1>3, <1>4, <1>5, Update DEF Reply, Others
<1> QED
  BY <1>6 DEF Reply, Typed

\* The server sends something else.
LEMMA OtherFrames ==
    ASSUME Typed, NEW p \in Peers, Notify(p) \/ Hangup(p)
    PROVE  /\ Typed' /\ Others(p)
           /\ \E kind \in {"event", "close"} : inbox'[p] = Append(inbox[p], [kind |-> kind])
           /\ UNCHANGED <<stage, turn, sources, task, peer, sfu>>
<1>1. PICK kind \in {"event", "close"} :
          inbox' = [inbox EXCEPT ![p] = Append(inbox[p], [kind |-> kind])]
  BY DEF Notify, Hangup, Typed
<1>2. [kind |-> kind] \in Frames /\ inbox[p] \in Seq(Frames)
  BY DEF Frames, Typed
<1> DEFINE longer == Append(inbox[p], [kind |-> kind])
<1>3. longer \in Seq(Frames)
  BY <1>2, AppendProperties
<1>4. UNCHANGED <<stage, turn, sources, task, peer, sfu>>
  BY DEF Notify, Hangup
<1>5. inbox' = [inbox EXCEPT ![p] = longer] /\ inbox \in [Peers -> Seq(Frames)]
  BY <1>1 DEF Typed
<1> HIDE DEF longer
<1>6. /\ inbox' \in [Peers -> Seq(Frames)] /\ inbox'[p] = longer
      /\ \A q \in Peers \ {p} : inbox'[q] = inbox[q]
  BY <1>3, <1>5, Update
<1> USE DEF longer
<1> QED
  BY <1>4, <1>6 DEF Typed, Others

\* The signaling task of a peer at work takes a frame.
LEMMA Serves ==
    ASSUME Typed, NEW p \in Peers, Serve(p)
    PROVE  /\ Typed' /\ Others(p) /\ task[p] = "serving"
           /\ inbox[p] # << >> /\ inbox'[p] = Tail(inbox[p])
           /\ UNCHANGED <<stage, turn, sources, task, peer, sfu>>
<1>1. Tail(inbox[p]) \in Seq(Frames) /\ inbox' = [inbox EXCEPT ![p] = Tail(inbox[p])]
  BY HeadTailProperties DEF Serve, Typed
<1> QED
  BY <1>1, Update DEF Serve, Typed, Others

-------------------------------------------------------------------------------
(* Where a peer can be. *)

\* What a peer does tells which stage the room's task is in: it asks one thing at a time.
LEMMA WhereAt ==
    ASSUME Typed, StageInv, stage # "failed", NEW p \in Peers
    PROVE  /\ peer[p].at \in {"open", "transport"} => stage = "connect"
           /\ peer[p].at = "flush" => \/ stage = "subscribed" /\ p = turn
                                      \/ stage = "published" /\ p = Publisher
           /\ peer[p].at = "read" => \/ stage = "connect"
                                     \/ stage = "published" /\ p = Publisher
                                     \/ stage = "accept" /\ p # Publisher
           /\ peer[p].at \in {"work", "close", "done"} => stage = "work"
           /\ peer[p].at = "idle" => stage # "work"
<1>1. CASE stage = "connect"
  BY <1>1 DEF StageInv, AtConnect, Connecting
<1>2. CASE stage = "layouts"
  BY <1>2 DEF StageInv, AtLayouts, Resting
<1>3. CASE stage = "subscribed"
  BY <1>3 DEF StageInv, AtSubscribed, Resting, Subscribing
<1>4. CASE stage = "publish"
  BY <1>4 DEF StageInv, AtPublish, Resting
<1>5. CASE stage = "published"
  BY <1>5 DEF StageInv, AtPublished, Resting, Publishing
<1>6. CASE stage = "accept"
  BY <1>6 DEF StageInv, AtAccept, Resting, Accepting
<1>7. CASE stage = "work"
  BY <1>7 DEF StageInv, AtWork, Working
<1> QED
  BY <1>1, <1>2, <1>3, <1>4, <1>5, <1>6, <1>7 DEF Typed, Stages

\* A peer that is asked to read has one negotiation to go.
LEMMA Readers ==
    ASSUME Typed, PairsInv, StageInv, stage # "failed", NEW p \in Peers, peer[p].at = "read"
    PROVE  /\ peer[p].goal = peer[p].count + 1 /\ peer[p].goal = Len(sources) + 1
           /\ stage = "connect" \/ sfu[p].ready
           /\ sfu[p].session \/ sfu[p].told # None
<1>0. peer[p].count \in Nat /\ Len(sources) \in Nat /\ turn \in Nat
  BY DEF Typed, PeerRecords
<1>1. CASE stage = "connect"
  BY <1>0, <1>1 DEF StageInv, AtConnect, Connecting
<1>2. CASE stage = "published" /\ p = Publisher
  BY <1>0, <1>2 DEF StageInv, AtPublished, Publishing, Resting, PairsInv, Link
<1>3. CASE stage = "accept" /\ p # Publisher
  BY <1>0, <1>3 DEF StageInv, AtAccept, Accepting, Resting, PairsInv, Link
<1> QED
  BY <1>1, <1>2, <1>3, WhereAt

\* Peers at work have no offer to answer.
LEMMA AllNegotiated ==
    ASSUME Typed, PairsInv, StageInv, stage = "work", NEW p \in Peers
    PROVE  /\ ~sfu[p].unanswered /\ Len(sources) = Len(Plan)
           /\ sfu[p].told = Len(Plan) /\ peer[p].count = Len(Plan) + 1
           /\ sfu[p].layouts = Layouts(p)
<1>0. sfu[p].told \in Nat \union {None} /\ Len(Plan) \in Nat
  BY PlanFacts DEF Typed, Sessions
<1>1. /\ Len(sources) = Len(Plan) /\ peer[p].count = Len(Plan) + 1
      /\ sfu[p].layouts = Layouts(p)
  BY DEF StageInv, AtWork, Working
<1>2. Link(p)
  BY DEF PairsInv
<1>3. sfu[p].told # None
  BY <1>0, <1>1, <1>2 DEF Link
<1>4. sfu[p].told \in Nat /\ sfu[p].told <= Len(Plan)
  BY <1>0, <1>1, <1>2, <1>3 DEF Link
<1> QED
  BY <1>0, <1>1, <1>2, <1>3, <1>4 DEF Link

-------------------------------------------------------------------------------
(* A peer, its inbox and the server. *)

\* Link is kept when neither the sources, nor what the peer has answered, nor what it was told
\* changes.
LEMMA LinkKept ==
    ASSUME NEW p \in Peers, Link(p), UNCHANGED sources,
           sfu'[p].told = sfu[p].told, sfu'[p].unanswered = sfu[p].unanswered,
           sfu'[p].ready = sfu[p].ready \/ peer[p].count > 0,
           peer'[p].count = peer[p].count, peer'[p].covered = peer[p].covered,
           peer'[p].paths = peer[p].paths
    PROVE  Link(p)'
BY DEF Link, PlannedPaths, Plan

\* Mail is kept when nothing comes, and nothing is read or told.
LEMMA MailKept ==
    ASSUME NEW p \in Peers, Mail(p), inbox'[p] = inbox[p],
           peer[p].at = "error" => peer'[p].at = "error",
           sfu'[p].told = sfu[p].told, sfu'[p].unanswered = sfu[p].unanswered
    PROVE  Mail(p)'
BY DEF Mail, IsOffer

\* A frame that is no offer is read.
LEMMA MailRead ==
    ASSUME NEW p \in Peers, Mail(p), inbox[p] \in Seq(Frames), inbox[p] # << >>,
           inbox'[p] = Tail(inbox[p]), ~IsOffer(Head(inbox[p])),
           peer[p].at = "error" => peer'[p].at = "error",
           sfu'[p].told = sfu[p].told, sfu'[p].unanswered = sfu[p].unanswered
    PROVE  Mail(p)'
<1>1. /\ Len(inbox[p]) \in Nat /\ Len(inbox'[p]) = Len(inbox[p]) - 1
      /\ \A i \in 1 .. Len(inbox'[p]) : inbox'[p][i] = inbox[p][i + 1]
      /\ inbox[p][1] = Head(inbox[p])
  BY HeadTailProperties, EmptySeq
<1>2. \A i \in 1 .. Len(inbox'[p]) : i + 1 \in 1 .. Len(inbox[p])
  BY <1>1
<1>3. ASSUME sfu[p].unanswered, peer[p].at # "error"
      PROVE  \E i \in 1 .. Len(inbox'[p]) : IsOffer(inbox'[p][i])
  <2>1. PICK i \in 1 .. Len(inbox[p]) : IsOffer(inbox[p][i])
    BY <1>3 DEF Mail
  <2>2. i # 1
    BY <1>1, <2>1
  <2>3. i - 1 \in 1 .. Len(inbox'[p]) /\ inbox'[p][i - 1] = inbox[p][i]
    BY <1>1, <2>1, <2>2
  <2> QED
    BY <2>1, <2>3
<1>4. \A i, j \in 1 .. Len(inbox'[p]) : IsOffer(inbox'[p][i]) /\ IsOffer(inbox'[p][j]) => i = j
  <2>1. SUFFICES ASSUME NEW i \in 1 .. Len(inbox'[p]), NEW j \in 1 .. Len(inbox'[p]),
                        IsOffer(inbox'[p][i]), IsOffer(inbox'[p][j])
                 PROVE  i = j
    OBVIOUS
  <2>2. i + 1 = j + 1
    BY <1>1, <1>2, <2>1 DEF Mail
  <2> QED
    BY <2>2
<1>5. \A i \in 1 .. Len(inbox'[p]) : IsOffer(inbox'[p][i]) =>
          /\ sfu'[p].unanswered
          /\ inbox'[p][i].covers = sfu'[p].told
          /\ inbox'[p][i].kind = "offer" => sfu'[p].told = 0
  BY <1>1, <1>2 DEF Mail
<1> QED
  BY <1>3, <1>4, <1>5 DEF Mail, IsOffer

\* The one offer is read, and answered or not.
LEMMA OfferRead ==
    ASSUME NEW p \in Peers, Mail(p), inbox[p] \in Seq(Frames), inbox[p] # << >>,
           inbox'[p] = Tail(inbox[p]), IsOffer(Head(inbox[p])),
           ~sfu'[p].unanswered \/ peer'[p].at = "error"
    PROVE  Mail(p)'
<1>1. inbox[p][1] = Head(inbox[p]) /\ 1 \in 1 .. Len(inbox[p])
  BY EmptySeq
<1>2. ASSUME NEW i \in 1 .. Len(inbox'[p]) PROVE ~IsOffer(inbox'[p][i])
  <2>1. i + 1 \in 1 .. Len(inbox[p]) /\ inbox'[p][i] = inbox[p][i + 1] /\ i + 1 # 1
    BY HeadTailProperties
  <2> QED
    BY <1>1, <2>1 DEF Mail
<1> QED
  BY <1>2 DEF Mail, IsOffer

\* A frame without an offer comes.
LEMMA MailCame ==
    ASSUME NEW p \in Peers, Mail(p), inbox[p] \in Seq(Frames), NEW frame \in Frames,
           inbox'[p] = Append(inbox[p], frame), ~IsOffer(frame),
           peer[p].at = "error" => peer'[p].at = "error",
           sfu'[p].told = sfu[p].told, sfu'[p].unanswered = sfu[p].unanswered
    PROVE  Mail(p)'
<1>1. /\ Len(inbox[p]) \in Nat /\ Len(inbox'[p]) = Len(inbox[p]) + 1
      /\ \A i \in 1 .. Len(inbox[p]) : inbox'[p][i] = inbox[p][i]
      /\ inbox'[p][Len(inbox[p]) + 1] = frame
  BY AppendProperties
<1>2. \A i \in 1 .. Len(inbox'[p]) : IsOffer(inbox'[p][i]) => i \in 1 .. Len(inbox[p])
  BY <1>1
<1>3. \A i \in 1 .. Len(inbox[p]) : i \in 1 .. Len(inbox'[p])
  BY <1>1
<1> QED
  BY <1>1, <1>2, <1>3 DEF Mail, IsOffer

\* The one offer comes.
LEMMA OfferCame ==
    ASSUME NEW p \in Peers, Mail(p), inbox[p] \in Seq(Frames), ~sfu[p].unanswered,
           NEW kind \in {"offer", "renegotiation"}, Len(sources) \in Nat,
           inbox'[p] = Append(inbox[p], [kind |-> kind, covers |-> Len(sources)]),
           kind = "offer" => Len(sources) = 0,
           sfu'[p].told = Len(sources), sfu'[p].unanswered
    PROVE  Mail(p)'
<1> DEFINE frame == [kind |-> kind, covers |-> Len(sources)]
<1>0. frame \in Frames /\ IsOffer(frame) /\ frame.covers = Len(sources) /\ frame.kind = kind
  BY DEF Frames, IsOffer
<1> HIDE DEF frame
<1>1. /\ Len(inbox[p]) \in Nat /\ Len(inbox'[p]) = Len(inbox[p]) + 1
      /\ \A i \in 1 .. Len(inbox[p]) : inbox'[p][i] = inbox[p][i]
      /\ inbox'[p][Len(inbox[p]) + 1] = frame
  BY <1>0, AppendProperties DEF frame
<1>2. \A i \in 1 .. Len(inbox'[p]) : IsOffer(inbox'[p][i]) => i = Len(inbox[p]) + 1
  BY <1>1 DEF Mail
<1>3. Len(inbox[p]) + 1 \in 1 .. Len(inbox'[p])
  BY <1>1
<1> QED
  BY <1>0, <1>1, <1>2, <1>3 DEF Mail, IsOffer

\* What is true of a peer stays true of it while another one acts.
LEMMA Bystanders ==
    ASSUME PairsInv, NEW p \in Peers, Others(p), UNCHANGED sources, Link(p)', Mail(p)'
    PROVE  PairsInv'
<1>1. ASSUME NEW q \in Peers \ {p} PROVE Link(q)' /\ Mail(q)'
  BY LinkKept, MailKept DEF Others, PairsInv
<1> QED
  BY <1>1 DEF PairsInv, Peers

\* The answer to an offer is about the sources that the server had when it made the offer.
LEMMA AnswerLinks ==
    ASSUME Typed, SourcesInv, PairsInv, NEW p \in Peers, Receive(p), IsOffer(Head(inbox[p])),
           Rebind(p, Head(inbox[p])) # None
    PROVE  PairsInv'
<1>0. /\ inbox[p] # << >> /\ inbox[p] \in Seq(Frames) /\ Len(sources) \in Nat
      /\ peer[p] \in PeerRecords /\ sfu[p] \in Sessions
  BY DEF Receive, Typed
<1>1. /\ sfu[p].unanswered /\ sfu[p].told \in Nat /\ sfu[p].told <= Len(sources)
      /\ Head(inbox[p]).covers = sfu[p].told /\ peer[p].count = sfu[p].told
  BY <1>0, AskedPaths
<1>2. /\ Others(p) /\ sfu'[p] = [sfu[p] EXCEPT !.unanswered = FALSE]
      /\ inbox'[p] = Tail(inbox[p]) /\ UNCHANGED sources
      /\ peer'[p].count = sfu[p].told + 1 /\ peer'[p].covered = sfu[p].told
      /\ peer'[p].paths = Paths(p, sfu[p].told)
  <2>1. /\ Others(p) /\ sfu'[p] = [sfu[p] EXCEPT !.unanswered = FALSE]
        /\ inbox'[p] = Tail(inbox[p]) /\ UNCHANGED sources
    BY Answers
  <2>2. peer'[p] = [peer[p] EXCEPT !.at = Reading(p, peer[p].count + 1),
                       !.count = peer[p].count + 1,
                       !.rtc = Rebind(p, Head(inbox[p])),
                       !.covered = Head(inbox[p]).covers,
                       !.paths = Paths(p, Head(inbox[p]).covers)]
    BY Answers
  <2>3. /\ peer'[p].count = peer[p].count + 1 /\ peer'[p].covered = Head(inbox[p]).covers
        /\ peer'[p].paths = Paths(p, Head(inbox[p]).covers)
    BY <1>0, <2>2 DEF PeerRecords
  <2> QED
    BY <1>1, <2>1, <2>3
<1>3. /\ ~sfu'[p].unanswered /\ sfu'[p].told = sfu[p].told /\ sfu'[p].ready = sfu[p].ready
  BY <1>0, <1>2 DEF Sessions
<1>4. Paths(p, sfu[p].told) = PlannedPaths(p, sfu[p].told)
  <2>1. \A i \in 1 .. sfu[p].told : sources[i] = Plan[i]
    BY <1>0, <1>1 DEF SourcesInv
  <2> QED
    BY <2>1 DEF Paths, PlannedPaths
<1>5. Link(p)'
  <2>1. peer'[p].paths = PlannedPaths(p, peer'[p].covered)
    BY <1>2, <1>4
  <2>2. PlannedPaths(p, peer'[p].covered) = PlannedPaths(p, peer[p].covered)'
    BY DEF PlannedPaths, Plan
  <2>3. Link(p)
    BY DEF PairsInv
  <2>4. sfu'[p].told # None /\ sfu[p].told # None
    BY <1>1, <1>3, Constants
  <2>5. Len(sources) <= sfu[p].told + 1
    BY <2>3, <2>4 DEF Link
  <2> QED
    BY <1>1, <1>2, <1>3, <2>1, <2>2, <2>4, <2>5 DEF Link
<1>6. Mail(p)'
  BY <1>0, <1>2, <1>3, OfferRead DEF PairsInv
<1> QED
  BY <1>2, <1>5, <1>6, Bystanders

\* A publication reaches the server when it has told every peer of all others, and every peer
\* has answered.
LEMMA PublicationLinks ==
    ASSUME Typed, SourcesInv, PairsInv, StageInv, NEW p \in Peers, Flush(p), stage = "published"
    PROVE  SourcesInv' /\ PairsInv'
<1>0. /\ Len(sources) \in Nat /\ turn \in Nat /\ sources \in Seq(Publications)
      /\ \A q \in Peers : sfu[q].told \in Nat \union {None} /\ peer[q].count \in Nat
  BY DEF Typed, Sessions, PeerRecords
<1>1. peer[p].at = "flush" /\ p = Publisher
  BY WhereAt DEF Flush
<1>2. /\ "batch" \in peer[p].timers /\ peer[p].batch.sources = <<Plan[turn]>>
      /\ Len(sources) = turn - 1 /\ turn \in 1 .. Len(Plan)
      /\ \A q \in Peers : peer[q].count = turn
  BY <1>1 DEF StageInv, AtPublished, Publishing, Resting
<1>3. /\ Others(p) /\ sources' = sources \o <<Plan[turn]>> /\ inbox' = inbox
      /\ peer'[p].count = peer[p].count /\ peer'[p].covered = peer[p].covered
      /\ peer'[p].paths = peer[p].paths
      /\ sfu'[p].told = sfu[p].told /\ sfu'[p].unanswered = sfu[p].unanswered
      /\ sfu'[p].ready = sfu[p].ready
  BY <1>2, FlushesBatch
<1>4. Plan[turn] \in Publications /\ Len(Plan) \in Nat
  BY <1>2, PlanFacts
<1>5. sources' = Append(sources, Plan[turn])
  BY <1>0, <1>3, <1>4, AppendIsConcat
<1>6. /\ Len(sources') = turn /\ sources'[turn] = Plan[turn]
      /\ \A i \in 1 .. Len(sources) : sources'[i] = sources[i]
  BY <1>0, <1>2, <1>4, <1>5, AppendProperties
<1>7. SourcesInv'
  <2>1. Len(sources') <= Len(Plan) /\ \A i \in 1 .. Len(sources') : sources'[i] = Plan[i]
    BY <1>0, <1>2, <1>4, <1>6 DEF SourcesInv
  <2> QED
    BY <2>1 DEF SourcesInv, Plan
<1>8. ASSUME NEW q \in Peers PROVE Link(q)' /\ Mail(q)'
  <2>1. /\ inbox'[q] = inbox[q] /\ peer'[q].count = peer[q].count
        /\ peer'[q].covered = peer[q].covered /\ peer'[q].paths = peer[q].paths
        /\ sfu'[q].told = sfu[q].told /\ sfu'[q].unanswered = sfu[q].unanswered
        /\ sfu'[q].ready = sfu[q].ready /\ (peer[q].at = "error" => peer'[q].at = "error")
    BY <1>1, <1>3 DEF Others
  <2>2. Link(q) /\ Mail(q)
    BY DEF PairsInv
  <2>3. sfu[q].told # None /\ sfu[q].told \in Nat
    BY <1>0, <1>2, <2>2 DEF Link
  <2>4. ~sfu[q].unanswered /\ sfu[q].told = turn - 1
    BY <1>0, <1>2, <2>2, <2>3 DEF Link
  <2>5. PlannedPaths(q, peer[q].covered)' = PlannedPaths(q, peer[q].covered)
    BY <2>1 DEF PlannedPaths, Plan
  <2>6. Link(q)'
    BY <1>0, <1>2, <1>6, <2>1, <2>2, <2>3, <2>4, <2>5 DEF Link
  <2> QED
    BY <2>1, <2>2, <2>6, MailKept
<1> QED
  BY <1>7, <1>8 DEF PairsInv, Peers

\* The order of the publications is kept when none comes.
LEMMA SourcesKept == SourcesInv /\ UNCHANGED sources => SourcesInv'
BY DEF SourcesInv, Plan

\* The room's task lets a peer send its layouts.
LEMMA Subscribes ==
    ASSUME Typed, turn \in Peers, Subscribe, Layouts(turn) # {}
    PROVE  /\ Typed' /\ Others(turn) /\ stage' = "subscribed"
           /\ peer'[turn].at = "flush" /\ "batch" \in peer'[turn].timers
           /\ peer'[turn].batch = [layouts |-> Layouts(turn), sources |-> peer[turn].batch.sources]
           /\ peer'[turn].count = peer[turn].count /\ peer'[turn].covered = peer[turn].covered
           /\ peer'[turn].paths = peer[turn].paths /\ peer'[turn].rtc = peer[turn].rtc
           /\ UNCHANGED <<turn, task, inbox, sfu, sources>>
<1> DEFINE changed == [peer[turn] EXCEPT !.batch.layouts = Layouts(turn),
                          !.timers = @ \union {"batch"}, !.at = "flush"]
<1>0. peer[turn] \in PeerRecords
  BY DEF Typed
<1>1. Layouts(turn) \in SUBSET Nat
  BY Constants DEF Layouts
<1>2. peer' = [peer EXCEPT ![turn] = changed]
  BY DEF Subscribe, Typed, PeerRecords
<1>3. changed \in PeerRecords
  BY <1>0, <1>1 DEF PeerRecords, PeerStates
<1>4. /\ changed.at = "flush" /\ changed.timers = peer[turn].timers \union {"batch"}
      /\ changed.batch = [layouts |-> Layouts(turn), sources |-> peer[turn].batch.sources]
      /\ changed.count = peer[turn].count /\ changed.covered = peer[turn].covered
      /\ changed.paths = peer[turn].paths /\ changed.rtc = peer[turn].rtc
  BY <1>0 DEF PeerRecords
<1>5. stage' = "subscribed" /\ UNCHANGED <<turn, task, inbox, sfu, sources>>
  BY DEF Subscribe
<1> HIDE DEF changed
<1>6. /\ peer' \in [Peers -> PeerRecords] /\ peer'[turn] = changed
      /\ \A q \in Peers \ {turn} : peer'[q] = peer[q]
  BY <1>2, <1>3, Update
<1> QED
  BY <1>4, <1>5, <1>6 DEF Typed, Others, Stages

\* The room's task lets a peer publish.
LEMMA Publishes ==
    ASSUME Typed, turn \in 1 .. Len(Plan), Publish
    PROVE  /\ Typed' /\ Publisher \in Peers /\ Others(Publisher) /\ stage' = "published"
           /\ peer'[Publisher].at = "flush" /\ "batch" \in peer'[Publisher].timers
           /\ peer'[Publisher].batch
                  = [layouts |-> peer[Publisher].batch.layouts, sources |-> <<Plan[turn]>>]
           /\ peer'[Publisher].count = peer[Publisher].count
           /\ peer'[Publisher].covered = peer[Publisher].covered
           /\ peer'[Publisher].paths = peer[Publisher].paths
           /\ peer'[Publisher].rtc = peer[Publisher].rtc
           /\ UNCHANGED <<turn, task, inbox, sfu, sources>>
<1> DEFINE p == Publisher
           changed == [peer[p] EXCEPT !.batch.sources = <<Plan[turn]>>,
                          !.timers = @ \union {"batch"}, !.at = "flush"]
<1>0. p \in Peers /\ peer[p] \in PeerRecords
  BY PlanFacts DEF Typed, Publisher
<1>1. <<Plan[turn]>> \in Seq(Publications)
  BY PlanFacts
<1>2. peer' = [peer EXCEPT ![p] = changed]
  BY <1>0 DEF Publish, Publisher, Typed, PeerRecords
<1>3. changed \in PeerRecords
  BY <1>0, <1>1 DEF PeerRecords, PeerStates
<1>4. /\ changed.at = "flush" /\ changed.timers = peer[p].timers \union {"batch"}
      /\ changed.batch = [layouts |-> peer[p].batch.layouts, sources |-> <<Plan[turn]>>]
      /\ changed.count = peer[p].count /\ changed.covered = peer[p].covered
      /\ changed.paths = peer[p].paths /\ changed.rtc = peer[p].rtc
  BY <1>0 DEF PeerRecords
<1>5. stage' = "published" /\ UNCHANGED <<turn, task, inbox, sfu, sources>>
  BY DEF Publish
<1> HIDE DEF changed
<1>6. /\ peer' \in [Peers -> PeerRecords] /\ peer'[p] = changed
      /\ \A q \in Peers \ {p} : peer'[q] = peer[q]
  BY <1>0, <1>2, <1>3, Update
<1> QED
  BY <1>0, <1>4, <1>5, <1>6 DEF Typed, Others, Stages

\* The others are to read what follows of a publication.
LEMMA AsksToAccept ==
    ASSUME Typed, StageInv, Published, stage' # "failed"
    PROVE  /\ Typed' /\ Publisher \in Peers /\ stage = "published" /\ stage' = "accept"
           /\ peer[Publisher].at = "idle" /\ peer'[Publisher] = peer[Publisher]
           /\ \A q \in Peers :
                  /\ q # Publisher => peer'[q].at = "read" /\ peer'[q].goal = peer[q].count + 1
                  /\ peer'[q].batch = peer[q].batch /\ peer'[q].count = peer[q].count
                  /\ peer'[q].covered = peer[q].covered /\ peer'[q].paths = peer[q].paths
                  /\ peer'[q].rtc = peer[q].rtc
           /\ UNCHANGED <<turn, task, inbox, sfu, sources>>
<1>1. /\ stage = "published" /\ stage' = "accept" /\ peer[Publisher].at = "idle"
      /\ peer' = [q \in Peers |-> IF q = Publisher THEN peer[q]
                     ELSE [peer[q] EXCEPT !.at = "read", !.goal = peer[q].count + 1]]
      /\ UNCHANGED <<turn, task, inbox, sfu, sources>>
  BY DEF Published, Fail, Settled, Publisher
<1>2. Publisher \in Peers /\ peer'[Publisher] = peer[Publisher]
  <2>1. Publisher \in Peers
    BY <1>1, PlanFacts DEF Publisher, StageInv, AtPublished
  <2> QED
    BY <1>1, <2>1
<1>3. ASSUME NEW q \in Peers
      PROVE  /\ peer'[q] \in PeerRecords
             /\ q # Publisher => peer'[q].at = "read" /\ peer'[q].goal = peer[q].count + 1
             /\ peer'[q].batch = peer[q].batch /\ peer'[q].count = peer[q].count
             /\ peer'[q].covered = peer[q].covered /\ peer'[q].paths = peer[q].paths
             /\ peer'[q].rtc = peer[q].rtc
  <2>0. peer[q] \in PeerRecords
    BY DEF Typed
  <2>1. CASE q = Publisher
    BY <2>0, <2>1, <1>1
  <2>2. CASE q # Publisher
    <3>1. peer'[q] = [peer[q] EXCEPT !.at = "read", !.goal = peer[q].count + 1]
      BY <1>1, <2>2
    <3>2. peer[q].count + 1 \in Nat /\ "read" \in PeerStates
      BY <2>0 DEF PeerRecords, PeerStates
    <3>3. /\ peer'[q].at = "read" /\ peer'[q].goal = peer[q].count + 1
          /\ peer'[q].batch = peer[q].batch /\ peer'[q].count = peer[q].count
          /\ peer'[q].covered = peer[q].covered /\ peer'[q].paths = peer[q].paths
          /\ peer'[q].rtc = peer[q].rtc /\ peer'[q].timers = peer[q].timers
      BY <2>0, <3>1 DEF PeerRecords
    <3>4. DOMAIN peer'[q] = DOMAIN peer[q] /\ peer'[q] = [x \in DOMAIN peer'[q] |-> peer'[q][x]]
      BY <2>0, <3>1 DEF PeerRecords
    <3>5. /\ peer[q].count \in Nat /\ peer[q].rtc \in Nat \union {None} /\ peer[q].covered \in Nat
          /\ peer[q].timers \in SUBSET {"batch", "request"}
          /\ peer[q].batch \in [layouts : SUBSET Nat, sources : Seq(Publications)]
          /\ peer[q].paths \in SUBSET {"audio", "camera"}
      BY <2>0 DEF PeerRecords
    <3>6. peer'[q] \in PeerRecords
      BY <2>0, <3>2, <3>3, <3>4, <3>5, RecordOfFields
    <3> QED
      BY <2>2, <3>3, <3>6
  <2> QED
    BY <2>1, <2>2
<1>4. peer' \in [Peers -> PeerRecords]
  BY <1>1, <1>3
<1> QED
  BY <1>1, <1>2, <1>3, <1>4 DEF Typed, Stages

\* into_load_peer for all peers at once.
LEMMA GoesToWork ==
    ASSUME Typed, IntoLoadPeers, stage' # "failed"
    PROVE  /\ Typed' /\ stage' = "work" /\ stage = "publish" /\ turn > Len(Plan)
           /\ \A q \in Peers :
                  /\ peer'[q].at = "work" /\ peer'[q].count = peer[q].count
                  /\ peer'[q].covered = peer[q].covered /\ peer'[q].paths = peer[q].paths
                  /\ peer'[q].rtc = peer[q].rtc /\ peer[q].rtc # None
           /\ UNCHANGED <<turn, inbox, sfu, sources>>
<1>1. /\ stage = "publish" /\ stage' = "work" /\ turn > Len(Plan)
      /\ \A q \in Peers : peer[q].rtc # None
      /\ peer' = [q \in Peers |-> [peer[q] EXCEPT !.at = "work"]]
      /\ UNCHANGED <<turn, inbox, sfu, sources>>
  BY DEF IntoLoadPeers, Fail
<1>2. ASSUME NEW q \in Peers
      PROVE  /\ peer'[q] \in PeerRecords
             /\ peer'[q].at = "work" /\ peer'[q].count = peer[q].count
             /\ peer'[q].covered = peer[q].covered /\ peer'[q].paths = peer[q].paths
             /\ peer'[q].rtc = peer[q].rtc
  <2>1. peer'[q] = [peer[q] EXCEPT !.at = "work"] /\ peer[q] \in PeerRecords
    BY <1>1 DEF Typed
  <2> QED
    BY <2>1 DEF PeerRecords, PeerStates
<1>3. peer' \in [Peers -> PeerRecords]
  BY <1>1, <1>2
<1> QED
  BY <1>1, <1>2, <1>3 DEF Typed, Stages

\* Every step keeps the variables in their types.
LEMMA TypedStep ==
    ASSUME Typed, PairsInv, StageInv, [Next]_vars
    PROVE  Typed'
<1>1. ASSUME NEW p \in Peers, PeerStep(p) PROVE Typed'
  <2>1. CASE Receive(p)
    BY <2>1, Answers, FailsToAnswer, ReadsOther
  <2>2. CASE Flush(p)
    <3>1. peer[p].at = "flush" /\ stage # "failed"
      BY <1>1, <2>2 DEF PeerStep, Flush
    <3>2. Subscribing(p) \/ Publishing(p)
      BY <3>1, WhereAt DEF StageInv, AtSubscribed, AtPublished
    <3>3. "batch" \in peer[p].timers
      BY <3>1, <3>2 DEF Subscribing, Publishing, Resting
    <3> QED
      BY <2>2, <3>3, FlushesBatch
  <2>3. CASE TimeOut(p) \/ CheckSignaling(p) \/ Close(p) \/ WaitForSignaling(p)
    <3>1. /\ \E at \in PeerStates : peer' = [peer EXCEPT ![p].at = at]
          /\ UNCHANGED <<stage, turn, task, inbox, sfu, sources>>
      BY <2>3 DEF TimeOut, CheckSignaling, Close, WaitForSignaling, PeerStates
    <3> QED
      BY <3>1, MovesOn
  <2>4. CASE TaskCloses(p)
    BY <2>4 DEF TaskCloses, Typed
  <2> QED
    BY <1>1, <2>1, <2>2, <2>3, <2>4 DEF PeerStep
<1>2. ASSUME NEW p \in Peers, PeerEvent(p) PROVE Typed'
  <2>1. CASE Open(p) \/ TransportReady(p) \/ Serve(p)
    BY <2>1, Opens, GetsTransport, Serves
  <2>4. CASE Negotiate(p) \/ Reply(p) \/ Notify(p) \/ Hangup(p)
    BY <2>4, Offers, Replies, OtherFrames
  <2>2. CASE Break(p)
    <3>1. /\ \E at \in PeerStates : peer' = [peer EXCEPT ![p].at = at]
          /\ UNCHANGED <<stage, turn, task, inbox, sfu, sources>>
      BY <2>2 DEF Break, PeerStates
    <3> QED
      BY <3>1, MovesOn
  <2>3. CASE TaskFails(p)
    BY <2>3 DEF TaskFails, Typed
  <2> QED
    BY <1>2, <2>1, <2>2, <2>3, <2>4 DEF PeerEvent
<1>3. CASE Connected \/ Subscribed \/ LayoutsSet \/ Accepted
  BY <1>3 DEF Connected, Subscribed, LayoutsSet, Accepted, Fail, Typed, Stages
<1>4. CASE Subscribe
  <2>1. turn \in Peers
    BY <1>4, Constants DEF Subscribe, StageInv, AtLayouts, Peers
  <2>2. CASE Layouts(turn) = {}
    BY <1>4, <2>2 DEF Subscribe, Typed, Stages
  <2> QED
    BY <1>4, <2>1, <2>2, Subscribes
<1>5. CASE Publish
  <2>1. turn \in 1 .. Len(Plan)
    BY <1>5, PlanFacts DEF Publish, StageInv, AtPublish
  <2> QED
    BY <1>5, <2>1, Publishes
<1>6. CASE Published
  <2>1. CASE stage' = "failed"
    BY <1>6, <2>1 DEF Published, Fail, Typed, Stages
  <2> QED
    BY <1>6, <2>1, AsksToAccept
<1>7. CASE IntoLoadPeers
  <2>1. CASE stage' = "failed"
    BY <1>7, <2>1 DEF IntoLoadPeers, Fail, Typed, Stages
  <2> QED
    BY <1>7, <2>1, GoesToWork
<1>8. CASE UNCHANGED vars
  BY <1>8 DEF vars, Typed
<1> QED
  BY <1>1, <1>2, <1>3, <1>4, <1>5, <1>6, <1>7, <1>8 DEF Next, RoomStep, Over

\* Every step keeps each peer and the server within one negotiation of each other.
LEMMA PairsStep ==
    ASSUME Typed, SourcesInv, PairsInv, StageInv, [Next]_vars
    PROVE  SourcesInv' /\ PairsInv'
<1>0. \A p \in Peers : /\ peer[p] \in PeerRecords /\ sfu[p] \in Sessions
                       /\ inbox[p] \in Seq(Frames) /\ Link(p) /\ Mail(p)
  BY DEF Typed, PairsInv
<1>1. ASSUME NEW p \in Peers, Open(p) PROVE SourcesInv' /\ PairsInv'
  <2>1. /\ Others(p) /\ peer'[p] = [peer[p] EXCEPT !.at = "read", !.goal = 1]
        /\ sfu'[p] = [sfu[p] EXCEPT !.session = TRUE] /\ UNCHANGED <<sources, inbox>>
    BY <1>1, Opens
  <2>2. /\ peer'[p].count = peer[p].count /\ peer'[p].covered = peer[p].covered
        /\ peer'[p].paths = peer[p].paths
        /\ sfu'[p].told = sfu[p].told /\ sfu'[p].unanswered = sfu[p].unanswered
        /\ sfu'[p].ready = sfu[p].ready
    BY <1>0, <2>1 DEF PeerRecords, Sessions
  <2>3. Link(p)' /\ Mail(p)'
    BY <1>0, <1>1, <2>1, <2>2, LinkKept, MailKept DEF Open
  <2> QED
    BY <2>1, <2>3, SourcesKept, Bystanders
<1>2. ASSUME NEW p \in Peers, Receive(p) PROVE SourcesInv' /\ PairsInv'
  <2>1. CASE IsOffer(Head(inbox[p])) /\ Rebind(p, Head(inbox[p])) # None
    BY <1>2, <2>1, AnswerLinks, Answers, SourcesKept
  <2>2. CASE IsOffer(Head(inbox[p])) /\ Rebind(p, Head(inbox[p])) = None
    <3>1. /\ Others(p) /\ peer'[p] = [peer[p] EXCEPT !.at = "error"]
          /\ inbox[p] # << >> /\ inbox'[p] = Tail(inbox[p]) /\ UNCHANGED <<sources, sfu>>
      BY <1>2, <2>2, FailsToAnswer
    <3>2. /\ peer'[p].count = peer[p].count /\ peer'[p].covered = peer[p].covered
          /\ peer'[p].paths = peer[p].paths /\ peer'[p].at = "error"
      BY <1>0, <3>1 DEF PeerRecords
    <3>3. Link(p)' /\ Mail(p)'
      BY <1>0, <2>2, <3>1, <3>2, LinkKept, OfferRead
    <3> QED
      BY <3>1, <3>3, SourcesKept, Bystanders
  <2>3. CASE ~IsOffer(Head(inbox[p]))
    <3>1. /\ Others(p) /\ peer'[p].count = peer[p].count
          /\ peer'[p].covered = peer[p].covered /\ peer'[p].paths = peer[p].paths
          /\ inbox[p] # << >> /\ inbox'[p] = Tail(inbox[p]) /\ UNCHANGED <<sources, sfu>>
      BY <1>2, <2>3, ReadsOther
    <3>2. peer[p].at = "read"
      BY <1>2 DEF Receive
    <3>3. Link(p)' /\ Mail(p)'
      BY <1>0, <2>3, <3>1, <3>2, LinkKept, MailRead
    <3> QED
      BY <3>1, <3>3, SourcesKept, Bystanders
  <2> QED
    BY <2>1, <2>2, <2>3
<1>3. ASSUME NEW p \in Peers, TransportReady(p), stage # "failed"
      PROVE  SourcesInv' /\ PairsInv'
  <2>1. /\ Others(p) /\ peer'[p] = [peer[p] EXCEPT !.at = "idle"]
        /\ sfu'[p] = [sfu[p] EXCEPT !.ready = TRUE] /\ UNCHANGED <<sources, inbox>>
    BY <1>3, GetsTransport
  <2>2. peer[p].count > 0
    BY <1>3, WhereAt DEF TransportReady, StageInv, AtConnect, Connecting
  <2>3. /\ peer'[p].count = peer[p].count /\ peer'[p].covered = peer[p].covered
        /\ peer'[p].paths = peer[p].paths
        /\ sfu'[p].told = sfu[p].told /\ sfu'[p].unanswered = sfu[p].unanswered
    BY <1>0, <2>1 DEF PeerRecords, Sessions
  <2>4. Link(p)' /\ Mail(p)'
    BY <1>0, <1>3, <2>1, <2>2, <2>3, LinkKept, MailKept DEF TransportReady
  <2> QED
    BY <2>1, <2>4, SourcesKept, Bystanders
<1>4. ASSUME NEW p \in Peers, Flush(p), stage # "failed" PROVE SourcesInv' /\ PairsInv'
  <2>1. CASE stage = "published"
    BY <1>4, <2>1, PublicationLinks
  <2>2. CASE stage = "subscribed" /\ p = turn
    <3>1. Subscribing(p) /\ peer[p].at = "flush"
      BY <1>4, <2>2 DEF Flush, StageInv, AtSubscribed
    <3>5. "batch" \in peer[p].timers /\ peer[p].batch.sources = << >>
      BY <3>1 DEF Subscribing, Resting
    <3>2. /\ Others(p) /\ sources' = sources \o << >> /\ inbox' = inbox
          /\ peer'[p].count = peer[p].count /\ peer'[p].covered = peer[p].covered
          /\ peer'[p].paths = peer[p].paths
          /\ sfu'[p].told = sfu[p].told /\ sfu'[p].unanswered = sfu[p].unanswered
          /\ sfu'[p].ready = sfu[p].ready
      BY <1>4, <3>5, FlushesBatch
    <3>3. sources' = sources
      BY <3>2, ConcatEmptySeq DEF Typed
    <3>4. Link(p)' /\ Mail(p)'
      BY <1>0, <3>1, <3>2, <3>3, LinkKept, MailKept
    <3> QED
      BY <3>2, <3>3, <3>4, SourcesKept, Bystanders
  <2> QED
    BY <1>4, <2>1, <2>2, WhereAt DEF Flush
<1>5. ASSUME NEW p \in Peers,
             \/ TimeOut(p) \/ Break(p) \/ CheckSignaling(p) \/ Close(p) \/ WaitForSignaling(p)
      PROVE  SourcesInv' /\ PairsInv'
  <2>1. /\ \E at \in PeerStates : peer' = [peer EXCEPT ![p].at = at]
        /\ UNCHANGED <<stage, turn, inbox, sfu, sources>> /\ peer[p].at # "error"
    BY <1>5 DEF TimeOut, Break, CheckSignaling, Close, WaitForSignaling, PeerStates
  <2>2. UNCHANGED task
    BY <1>5 DEF TimeOut, Break, CheckSignaling, Close, WaitForSignaling
  <2>3. PICK at \in PeerStates : Others(p) /\ peer'[p] = [peer[p] EXCEPT !.at = at]
    BY <2>1, <2>2, MovesOn
  <2>4. /\ peer'[p].count = peer[p].count /\ peer'[p].covered = peer[p].covered
        /\ peer'[p].paths = peer[p].paths
    BY <1>0, <2>3 DEF PeerRecords
  <2>5. Link(p)' /\ Mail(p)'
    BY <1>0, <2>1, <2>4, LinkKept, MailKept
  <2> QED
    BY <2>1, <2>3, <2>5, SourcesKept, Bystanders
<1>6. CASE UNCHANGED <<peer, sfu, inbox, sources>>
  BY <1>0, <1>6, LinkKept, MailKept, SourcesKept DEF PairsInv, Peers
<1>7. ASSUME NEW p \in Peers, Negotiate(p) PROVE SourcesInv' /\ PairsInv'
  <2>1. PICK kind \in {"offer", "renegotiation"} :
            /\ inbox'[p] = Append(inbox[p], [kind |-> kind, covers |-> Len(sources)])
            /\ kind = "offer" => Len(sources) = 0
    BY <1>7, Offers
  <2>2. /\ Others(p) /\ UNCHANGED <<sources, peer>>
        /\ sfu'[p] = [sfu[p] EXCEPT !.told = Len(sources), !.unanswered = TRUE]
        /\ ~sfu[p].unanswered /\ peer[p].count = Len(sources)
    BY <1>7, Offers
  <2>3. /\ sfu'[p].told = Len(sources) /\ sfu'[p].unanswered /\ sfu'[p].ready = sfu[p].ready
        /\ Len(sources) \in Nat /\ Len(sources) # None
    BY <1>0, <2>2, Constants DEF Sessions, Typed
  <2>4. Mail(p)'
    BY <1>0, <2>1, <2>2, <2>3, OfferCame
  <2>5. Link(p)'
    <3>1. PlannedPaths(p, peer[p].covered)' = PlannedPaths(p, peer[p].covered)
      BY <2>2 DEF PlannedPaths, Plan
    <3> QED
      BY <1>0, <2>2, <2>3, <3>1 DEF Link
  <2> QED
    BY <2>2, <2>4, <2>5, SourcesKept, Bystanders
<1>13. ASSUME NEW p \in Peers, Notify(p) \/ Hangup(p) PROVE SourcesInv' /\ PairsInv'
  <2>1. Others(p) /\ UNCHANGED <<sources, peer, sfu>>
    BY <1>13, OtherFrames
  <2>2. PICK kind \in {"event", "close"} : inbox'[p] = Append(inbox[p], [kind |-> kind])
    BY <1>13, OtherFrames
  <2>3. [kind |-> kind] \in Frames /\ ~IsOffer([kind |-> kind])
    BY DEF Frames, IsOffer
  <2>4. Link(p)' /\ Mail(p)'
    BY <1>0, <2>1, <2>2, <2>3, LinkKept, MailCame
  <2> QED
    BY <2>1, <2>4, SourcesKept, Bystanders
<1>8. ASSUME NEW p \in Peers, Reply(p) PROVE SourcesInv' /\ PairsInv'
  <2>1. /\ Others(p) /\ inbox'[p] = Append(inbox[p], [kind |-> "reply"])
        /\ sfu'[p] = [sfu[p] EXCEPT !.requested = FALSE] /\ UNCHANGED <<sources, peer>>
    BY <1>8, Replies
  <2>2. /\ sfu'[p].told = sfu[p].told /\ sfu'[p].unanswered = sfu[p].unanswered
        /\ sfu'[p].ready = sfu[p].ready
    BY <1>0, <2>1 DEF Sessions
  <2>3. [kind |-> "reply"] \in Frames /\ ~IsOffer([kind |-> "reply"])
    BY DEF Frames, IsOffer
  <2>4. Link(p)' /\ Mail(p)'
    BY <1>0, <2>1, <2>2, <2>3, LinkKept, MailCame
  <2> QED
    BY <2>1, <2>4, SourcesKept, Bystanders
<1>9. ASSUME NEW p \in Peers, Serve(p) PROVE SourcesInv' /\ PairsInv'
  <2>1. /\ Others(p) /\ task[p] = "serving" /\ inbox[p] # << >>
        /\ inbox'[p] = Tail(inbox[p]) /\ UNCHANGED <<sources, peer, sfu>>
    BY <1>9, Serves
  <2>2. ~sfu[p].unanswered
    BY <2>1, AllNegotiated DEF StageInv
  <2>3. inbox[p][1] = Head(inbox[p]) /\ 1 \in 1 .. Len(inbox[p])
    BY <1>0, <2>1, EmptySeq
  <2>4. ~IsOffer(Head(inbox[p]))
    BY <1>0, <2>2, <2>3 DEF Mail
  <2>5. Link(p)' /\ Mail(p)'
    BY <1>0, <2>1, <2>4, LinkKept, MailRead
  <2> QED
    BY <2>1, <2>5, SourcesKept, Bystanders
<1>10. ASSUME UNCHANGED <<sfu, inbox, sources>>,
              \A p \in Peers : /\ peer'[p].count = peer[p].count
                               /\ peer'[p].covered = peer[p].covered
                               /\ peer'[p].paths = peer[p].paths
                               /\ peer[p].at = "error" => peer'[p].at = "error"
       PROVE  SourcesInv' /\ PairsInv'
  BY <1>0, <1>10, LinkKept, MailKept, SourcesKept DEF PairsInv, Peers
<1>11. CASE Connected \/ Subscribed \/ LayoutsSet \/ Accepted
  BY <1>10, <1>11 DEF Connected, Subscribed, LayoutsSet, Accepted, Fail
<1>12. CASE Subscribe \/ Publish \/ Published \/ IntoLoadPeers
  <2>1. \A p \in Peers : /\ peer'[p].count = peer[p].count
                         /\ peer'[p].covered = peer[p].covered
                         /\ peer'[p].paths = peer[p].paths
                         /\ peer[p].at = "error" => peer'[p].at = "error"
    <3>1. CASE Subscribe
      <4>1. turn \in Peers
        BY <3>1, Constants DEF Subscribe, StageInv, AtLayouts, Peers
      <4>2. CASE Layouts(turn) = {}
        BY <3>1, <4>2 DEF Subscribe
      <4>3. peer[turn].at = "idle"
        BY <3>1, <4>1 DEF Subscribe, StageInv, AtLayouts, Resting
      <4> QED
        BY <3>1, <4>1, <4>2, <4>3, Subscribes DEF Others
    <3>2. CASE Publish
      <4>1. turn \in 1 .. Len(Plan)
        BY <3>2, PlanFacts DEF Publish, StageInv, AtPublish
      <4>2. \A p \in Peers : peer[p].at = "idle"
        BY <3>2 DEF Publish, StageInv, AtPublish, Resting
      <4> QED
        BY <3>2, <4>1, <4>2, Publishes DEF Others
    <3>3. CASE Published
      <4>1. CASE stage' = "failed"
        BY <3>3, <4>1 DEF Published, Fail
      <4>2. CASE stage' # "failed"
        <5>1. \A p \in Peers : p # Publisher => peer[p].at = "idle"
          BY <3>3 DEF Published, StageInv, AtPublished, Resting
        <5> QED
          BY <3>3, <4>2, <5>1, AsksToAccept
      <4> QED
        BY <4>1, <4>2
    <3>4. CASE IntoLoadPeers
      <4>1. CASE stage' = "failed"
        BY <3>4, <4>1 DEF IntoLoadPeers, Fail
      <4>2. CASE stage' # "failed"
        <5>1. \A p \in Peers : peer[p].at = "idle"
          BY <3>4 DEF IntoLoadPeers, StageInv, AtPublish, Resting
        <5> QED
          BY <3>4, <4>2, <5>1, GoesToWork
      <4> QED
        BY <4>1, <4>2
    <3> QED
      BY <1>12, <3>1, <3>2, <3>3, <3>4
  <2> QED
    BY <1>10, <1>12, <2>1 DEF Subscribe, Publish, Published, IntoLoadPeers
<1> QED
  BY <1>1, <1>2, <1>3, <1>4, <1>5, <1>6, <1>7, <1>8, <1>9, <1>11, <1>12, <1>13
  DEF Next, RoomStep, PeerStep, PeerEvent, Over, vars, TaskFails, TaskCloses

-------------------------------------------------------------------------------
(* Where a step takes the room. *)

\* The server's steps, and the signaling tasks', leave the peers where they are.
LEMMA RoomKept ==
    ASSUME Typed, StageInv, stage # "failed", UNCHANGED <<stage, turn, sources, peer>>,
           \A q \in Peers : /\ sfu'[q].layouts = sfu[q].layouts
                            /\ sfu'[q].ready = sfu[q].ready
                            /\ sfu'[q].session = sfu[q].session
                            /\ sfu'[q].told = sfu[q].told \/ sfu[q].session,
           UNCHANGED task \/ stage = "work"
    PROVE  StageInv'
<1>0. Peers' = Peers /\ Plan' = Plan /\ \A q \in Peers : Layouts(q)' = Layouts(q)
  BY DEF Peers, Plan, Layouts
<1>1. CASE stage = "connect"
  BY <1>0, <1>1 DEF StageInv, AtConnect, Connecting
<1>2. CASE stage = "layouts"
  BY <1>0, <1>2 DEF StageInv, AtLayouts, Resting
<1>3. CASE stage = "subscribed"
  BY <1>0, <1>3 DEF StageInv, AtSubscribed, Resting, Subscribing
<1>4. CASE stage = "publish"
  BY <1>0, <1>4 DEF StageInv, AtPublish, Resting
<1>5. CASE stage = "published"
  BY <1>0, <1>5 DEF StageInv, AtPublished, Resting, Publishing, Publisher
<1>6. CASE stage = "accept"
  BY <1>0, <1>6 DEF StageInv, AtAccept, Resting, Accepting, Publisher
<1>7. CASE stage = "work"
  BY <1>0, <1>7 DEF StageInv, AtWork, Working
<1> QED
  BY <1>1, <1>2, <1>3, <1>4, <1>5, <1>6, <1>7 DEF Typed, Stages

\* One peer acts, in a stage in which it may.
LEMMA OneActs ==
    ASSUME Typed, StageInv, NEW p \in Peers, Others(p), UNCHANGED <<stage, turn, task>>,
           stage \in {"connect", "subscribed", "published", "accept", "work"},
           stage # "published" => sources' = sources,
           stage = "connect" => Connecting(p)',
           stage = "subscribed" => p = turn /\ sfu'[p].ready /\ Subscribing(p)',
           stage = "published" => /\ p = Publisher /\ sfu'[p].ready
                                  /\ sfu'[p].layouts = Layouts(p) /\ Publishing(p)',
           stage = "accept" => /\ p # Publisher /\ sfu'[p].ready
                               /\ sfu'[p].layouts = Layouts(p) /\ Accepting(p)',
           stage = "work" => Working(p)'
    PROVE  StageInv'
<1>0. /\ Peers' = Peers /\ Plan' = Plan /\ \A q \in Peers : Layouts(q)' = Layouts(q)
      /\ Publisher' = Publisher
  BY DEF Peers, Plan, Layouts, Publisher
<1>1. \A q \in Peers \ {p} : peer'[q] = peer[q] /\ sfu'[q] = sfu[q]
  BY DEF Others
<1>2. CASE stage = "connect"
  <2>1. \A q \in Peers \ {p} : Connecting(q)'
    BY <1>1, <1>2 DEF StageInv, AtConnect, Connecting
  <2> QED
    BY <1>0, <1>2, <2>1 DEF StageInv, AtConnect
<1>3. CASE stage = "subscribed"
  BY <1>0, <1>1, <1>3 DEF StageInv, AtSubscribed, Resting
<1>4. CASE stage = "published"
  BY <1>0, <1>1, <1>4 DEF StageInv, AtPublished, Resting
<1>5. CASE stage = "accept"
  <2>1. \A q \in Peers \ {p} : q # Publisher => Accepting(q)'
    BY <1>1, <1>5 DEF StageInv, AtAccept, Accepting, Resting
  <2>2. \A q \in Peers \ {p} : sfu'[q].ready /\ sfu'[q].layouts = Layouts(q)
    BY <1>1, <1>5 DEF StageInv, AtAccept
  <2>3. \A q \in Peers : q = Publisher => Resting(q)' /\ peer'[q].count = turn + 1
    BY <1>1, <1>5 DEF StageInv, AtAccept, Resting
  <2>4. turn \in 1 .. Len(Plan) /\ Len(sources) = turn
    BY <1>5 DEF StageInv, AtAccept
  <2>5. \A q \in Peers : task[q] = "none"
    BY <1>5 DEF StageInv
  <2>6. AtAccept'
    BY <1>0, <1>5, <2>1, <2>2, <2>3, <2>4 DEF AtAccept
  <2> QED
    BY <1>0, <1>5, <2>5, <2>6 DEF StageInv
<1>6. CASE stage = "work"
  <2>1. \A q \in Peers \ {p} : Working(q)'
    BY <1>0, <1>1, <1>6 DEF StageInv, AtWork, Working
  <2> QED
    BY <1>0, <1>6, <2>1 DEF StageInv, AtWork
<1> QED
  BY <1>2, <1>3, <1>4, <1>5, <1>6

\* A peer that is given something to do, or is given up.
LEMMA PeerStageStep ==
    ASSUME Typed, SourcesInv, PairsInv, StageInv, stage # "failed", NEW p \in Peers,
           \/ Open(p) \/ Receive(p) \/ Flush(p) \/ TimeOut(p) \/ Break(p) \/ TransportReady(p)
           \/ CheckSignaling(p) \/ Close(p) \/ WaitForSignaling(p)
    PROVE  StageInv'
<1>0. /\ peer[p] \in PeerRecords /\ sfu[p] \in Sessions /\ turn \in Nat /\ Link(p)
      /\ Len(sources) \in Nat /\ peer[p].count \in Nat
  BY DEF Typed, PairsInv, PeerRecords
<1>1. CASE Open(p)
  <2>1. /\ Others(p) /\ peer'[p] = [peer[p] EXCEPT !.at = "read", !.goal = 1]
        /\ sfu'[p] = [sfu[p] EXCEPT !.session = TRUE]
        /\ UNCHANGED <<stage, turn, sources, task, inbox>>
    BY <1>1, Opens
  <2>2. stage = "connect" /\ peer[p].at = "open"
    BY <1>1, WhereAt DEF Open
  <2>3. Connecting(p)
    BY <2>2 DEF StageInv, AtConnect
  <2>4. peer[p].count = 0
    BY <1>0, <2>2, <2>3 DEF Connecting, Link
  <2>5. /\ peer'[p].at = "read" /\ peer'[p].goal = 1 /\ peer'[p].count = 0
        /\ peer'[p].batch = peer[p].batch /\ sfu'[p].layouts = sfu[p].layouts
        /\ sfu'[p].session
    BY <1>0, <2>1, <2>4 DEF PeerRecords, Sessions
  <2>6. Connecting(p)'
    BY <2>3, <2>5 DEF Connecting, EmptyBatch
  <2> QED
    BY <2>1, <2>2, <2>6, OneActs
<1>2. CASE TransportReady(p)
  <2>1. /\ Others(p) /\ peer'[p] = [peer[p] EXCEPT !.at = "idle"]
        /\ sfu'[p] = [sfu[p] EXCEPT !.ready = TRUE]
        /\ UNCHANGED <<stage, turn, sources, task, inbox>>
    BY <1>2, GetsTransport
  <2>2. stage = "connect" /\ peer[p].at = "transport"
    BY <1>2, WhereAt DEF TransportReady
  <2>3. Connecting(p)
    BY <2>2 DEF StageInv, AtConnect
  <2>4. /\ peer'[p].at = "idle" /\ peer'[p].batch = peer[p].batch
        /\ sfu'[p].layouts = sfu[p].layouts /\ sfu'[p].ready
    BY <1>0, <2>1 DEF PeerRecords, Sessions
  <2>5. Connecting(p)'
    BY <2>3, <2>4 DEF Connecting, EmptyBatch
  <2> QED
    BY <2>1, <2>2, <2>5, OneActs
<1>3. CASE Receive(p)
  <2>1. peer[p].at = "read"
    BY <1>3 DEF Receive
  <2>2. /\ peer[p].goal = peer[p].count + 1
        /\ \/ stage = "connect"
           \/ stage = "published" /\ p = Publisher
           \/ stage = "accept" /\ p # Publisher
    BY <2>1, Readers, WhereAt
  <2>3. CASE IsOffer(Head(inbox[p])) /\ Rebind(p, Head(inbox[p])) # None
    <3>1. /\ Others(p) /\ UNCHANGED <<stage, turn, sources, task>>
          /\ peer'[p] = [peer[p] EXCEPT !.at = Reading(p, peer[p].count + 1),
                            !.count = peer[p].count + 1,
                            !.rtc = Rebind(p, Head(inbox[p])),
                            !.covered = Head(inbox[p]).covers,
                            !.paths = Paths(p, Head(inbox[p]).covers)]
          /\ sfu'[p] = [sfu[p] EXCEPT !.unanswered = FALSE]
      BY <1>3, <2>3, Answers
    <3>2. Reading(p, peer[p].count + 1) = IF stage = "connect" THEN "transport" ELSE "idle"
      BY <1>0, <2>2 DEF Reading
    <3>3. /\ peer'[p].at = IF stage = "connect" THEN "transport" ELSE "idle"
          /\ peer'[p].count = peer[p].count + 1 /\ peer'[p].batch = peer[p].batch
          /\ sfu'[p].layouts = sfu[p].layouts /\ sfu'[p].ready = sfu[p].ready
      BY <1>0, <3>1, <3>2 DEF PeerRecords, Sessions
    <3>4. CASE stage = "connect"
      <4>1. Connecting(p)
        BY <3>4 DEF StageInv, AtConnect
      <4>2. Connecting(p)'
        BY <1>0, <3>3, <3>4, <4>1 DEF Connecting, EmptyBatch
      <4> QED
        BY <3>1, <3>4, <4>2, OneActs
    <3>5. CASE stage = "published" /\ p = Publisher
      <4>1. Publishing(p) /\ sfu[p].ready /\ sfu[p].layouts = Layouts(p)
        BY <3>5 DEF StageInv, AtPublished
      <4>2. peer[p].batch = EmptyBatch /\ Len(sources) = turn /\ peer[p].count = turn
        BY <2>1, <4>1 DEF Publishing, Resting
      <4>3. Publishing(p)'
        BY <3>1, <3>3, <3>5, <4>2 DEF Publishing, Resting, EmptyBatch
      <4> QED
        BY ZenonT(60), <3>1, <3>3, <3>5, <4>1, <4>3, OneActs
    <3>6. CASE stage = "accept" /\ p # Publisher
      <4>1. Accepting(p) /\ sfu[p].ready /\ sfu[p].layouts = Layouts(p)
        BY <3>6 DEF StageInv, AtAccept
      <4>2. peer[p].batch = EmptyBatch /\ peer[p].count = turn
        BY <2>1, <4>1 DEF Accepting, Resting
      <4>3. Accepting(p)'
        BY <3>1, <3>3, <3>6, <4>2 DEF Accepting, Resting, EmptyBatch
      <4> QED
        BY <3>1, <3>3, <3>6, <4>1, <4>3, OneActs
    <3> QED
      BY <2>2, <3>4, <3>5, <3>6
  <2>4. CASE ~IsOffer(Head(inbox[p]))
    <3>1. Others(p) /\ UNCHANGED <<stage, turn, sources, task, sfu>>
      BY <1>3, <2>4, ReadsOther
    <3>2. /\ peer'[p].at = "read" /\ peer'[p].count = peer[p].count
          /\ peer'[p].goal = peer[p].goal /\ peer'[p].batch = peer[p].batch
      BY <1>3, <2>4, ReadsOther
    <3>3. CASE stage = "connect"
      <4>1. Connecting(p)
        BY <3>3 DEF StageInv, AtConnect
      <4>2. Connecting(p)'
        BY <2>1, <3>1, <3>2, <4>1 DEF Connecting, EmptyBatch
      <4> QED
        BY <3>1, <3>3, <4>2, OneActs
    <3>4. CASE stage = "published" /\ p = Publisher
      <4>1. Publishing(p) /\ sfu[p].ready /\ sfu[p].layouts = Layouts(p)
        BY <3>4 DEF StageInv, AtPublished
      <4>2. Publishing(p)'
        BY <2>1, <3>1, <3>2, <4>1 DEF Publishing, Resting, EmptyBatch
      <4> QED
        BY <3>1, <3>4, <4>1, <4>2, OneActs
    <3>5. CASE stage = "accept" /\ p # Publisher
      <4>1. Accepting(p) /\ sfu[p].ready /\ sfu[p].layouts = Layouts(p)
        BY <3>5 DEF StageInv, AtAccept
      <4>2. Accepting(p)'
        BY <2>1, <3>1, <3>2, <4>1 DEF Accepting, Resting, EmptyBatch
      <4> QED
        BY <3>1, <3>5, <4>1, <4>2, OneActs
    <3> QED
      BY <2>2, <3>3, <3>4, <3>5
  <2>5. CASE IsOffer(Head(inbox[p])) /\ Rebind(p, Head(inbox[p])) = None
    <3>1. /\ Others(p) /\ UNCHANGED <<stage, turn, sources, task, sfu>>
          /\ peer'[p] = [peer[p] EXCEPT !.at = "error"]
      BY <1>3, <2>5, FailsToAnswer
    <3>2. peer'[p].at = "error" /\ peer'[p].batch = peer[p].batch
      BY <1>0, <3>1 DEF PeerRecords
    <3>3. stage = "connect" => Connecting(p)'
      BY <2>1, <3>1, <3>2 DEF StageInv, AtConnect, Connecting, EmptyBatch
    <3>4. Publishing(p)' /\ Accepting(p)'
      BY <3>2 DEF Publishing, Accepting
    <3>5. stage # "connect" => sfu[p].ready /\ sfu[p].layouts = Layouts(p)
      BY <2>2 DEF StageInv, AtPublished, AtAccept
    <3> QED
      BY <2>2, <3>1, <3>3, <3>4, <3>5, OneActs
  <2> QED
    BY <2>3, <2>4, <2>5
<1>4. CASE Flush(p)
  <2>1. \/ stage = "subscribed" /\ p = turn
        \/ stage = "published" /\ p = Publisher
    BY <1>4, WhereAt DEF Flush
  <2>2. CASE stage = "subscribed" /\ p = turn
    <3>1. Subscribing(p) /\ sfu[p].ready /\ peer[p].at = "flush"
      BY <1>4, <2>2 DEF StageInv, AtSubscribed, Flush
    <3>2. /\ "batch" \in peer[p].timers /\ sfu[p].layouts = {}
          /\ peer[p].batch.layouts = Layouts(p) /\ peer[p].batch.sources = << >>
      BY <3>1 DEF Subscribing, Resting
    <3>3. /\ Others(p) /\ UNCHANGED <<stage, turn, task>>
          /\ sources' = sources \o << >>
          /\ peer'[p].at = "idle" /\ peer'[p].batch = EmptyBatch
          /\ sfu'[p].layouts = Layouts(p) /\ sfu'[p].ready
      BY ZenonT(60), <1>4, <2>2, <3>1, <3>2, FlushesBatch
    <3>4. sources' = sources
      BY <3>3, ConcatEmptySeq DEF Typed
    <3>5. Subscribing(p)'
      BY <3>3 DEF Subscribing, Resting, EmptyBatch, Layouts
    <3> QED
      BY <2>2, <3>3, <3>4, <3>5, OneActs
  <2>3. CASE stage = "published" /\ p = Publisher
    <3>1. /\ Publishing(p) /\ sfu[p].ready /\ sfu[p].layouts = Layouts(p)
          /\ peer[p].at = "flush" /\ turn \in 1 .. Len(Plan)
      BY <1>4, <2>3 DEF StageInv, AtPublished, Flush
    <3>2. /\ "batch" \in peer[p].timers /\ peer[p].batch.layouts = {}
          /\ peer[p].batch.sources = <<Plan[turn]>>
          /\ Len(sources) = turn - 1 /\ peer[p].count = turn
      BY <3>1 DEF Publishing, Resting
    <3>3. /\ Others(p) /\ UNCHANGED <<stage, turn, task>>
          /\ sources' = sources \o <<Plan[turn]>>
          /\ peer'[p].at = "read" /\ peer'[p].batch = EmptyBatch
          /\ peer'[p].goal = peer[p].count + 1 /\ peer'[p].count = peer[p].count
          /\ sfu'[p].layouts = Layouts(p) /\ sfu'[p].ready
      BY ZenonT(60), <1>4, <2>3, <3>1, <3>2, FlushesBatch
    <3>4. Len(sources') = turn
      <4>1. sources \in Seq(Publications) /\ Plan[turn] \in Publications
        BY <3>1, PlanFacts DEF Typed
      <4>2. sources' = Append(sources, Plan[turn])
        BY <3>3, <4>1, AppendIsConcat
      <4> QED
        BY <1>0, <3>2, <4>1, <4>2, AppendProperties
    <3>5. Publishing(p)'
      BY <3>2, <3>3, <3>4 DEF Publishing, Resting, EmptyBatch
    <3> QED
      BY <2>3, <3>3, <3>5, OneActs
  <2> QED
    BY <2>1, <2>2, <2>3
<1>5. CASE TimeOut(p) \/ Break(p)
  <2>1. /\ peer' = [peer EXCEPT ![p].at = "error"] /\ "error" \in PeerStates
        /\ UNCHANGED <<stage, turn, task, inbox, sfu, sources>>
        /\ peer[p].at \in {"open", "read", "transport", "flush"}
    BY <1>5 DEF TimeOut, Break, PeerStates
  <2>2. Others(p) /\ peer'[p] = [peer[p] EXCEPT !.at = "error"]
    BY <2>1, MovesOn
  <2>3. peer'[p].at = "error" /\ peer'[p].batch = peer[p].batch
    BY <1>0, <2>2 DEF PeerRecords
  <2>4. \/ stage = "connect"
        \/ stage = "subscribed" /\ p = turn
        \/ stage = "published" /\ p = Publisher
        \/ stage = "accept" /\ p # Publisher
    BY <2>1, WhereAt
  <2>5. stage = "connect" => Connecting(p)'
    BY <2>1, <2>3 DEF StageInv, AtConnect, Connecting, EmptyBatch
  <2>6. Subscribing(p)' /\ Publishing(p)' /\ Accepting(p)'
    BY <2>3 DEF Subscribing, Publishing, Accepting
  <2>7. stage # "connect" => sfu[p].ready
    BY <2>4 DEF StageInv, AtSubscribed, AtPublished, AtAccept
  <2>8. stage \in {"published", "accept"} => sfu[p].layouts = Layouts(p)
    BY <2>4 DEF StageInv, AtPublished, AtAccept
  <2> QED
    BY <2>1, <2>2, <2>4, <2>5, <2>6, <2>7, <2>8, OneActs
<1>6. CASE CheckSignaling(p) \/ Close(p) \/ WaitForSignaling(p)
  <2>1. PICK at \in {"close", "done", "error"} :
            /\ peer' = [peer EXCEPT ![p].at = at]
            /\ UNCHANGED <<stage, turn, task, inbox, sfu, sources>>
            /\ peer[p].at \in {"work", "close"}
    BY <1>6 DEF CheckSignaling, Close, WaitForSignaling
  <2>2. at \in PeerStates
    BY DEF PeerStates
  <2>3. Others(p) /\ peer'[p] = [peer[p] EXCEPT !.at = at]
    BY <2>1, <2>2, MovesOn
  <2>4. peer'[p].at = at /\ peer'[p].count = peer[p].count /\ peer'[p].rtc = peer[p].rtc
    BY <1>0, <2>3 DEF PeerRecords
  <2>5. stage = "work"
    BY <2>1, WhereAt
  <2>6. Working(p)
    BY <2>5 DEF StageInv, AtWork
  <2>7. Working(p)'
    BY <2>1, <2>4, <2>6 DEF Working, Plan, Layouts
  <2> QED
    BY <2>1, <2>3, <2>5, <2>7, OneActs
<1> QED
  BY <1>1, <1>2, <1>3, <1>4, <1>5, <1>6

\* The room's task goes on when all peers that it waits for have done what it asked of them.
LEMMA RoomStageStep ==
    ASSUME Typed, SourcesInv, PairsInv, StageInv, RoomStep
    PROVE  StageInv'
<1>0. /\ Peers' = Peers /\ Plan' = Plan /\ \A q \in Peers : Layouts(q)' = Layouts(q)
      /\ EmptyBatch' = EmptyBatch
      /\ turn \in Nat /\ Len(sources) \in Nat /\ PeerCount \in Nat /\ Len(Plan) \in Nat
      /\ \A q \in Peers : peer[q] \in PeerRecords /\ q \in Nat /\ q >= 1 /\ q <= PeerCount
  BY Constants, PlanFacts DEF Peers, Plan, Layouts, EmptyBatch, Typed
<1>1. CASE stage' = "failed"
  <2>1. stage # "work" /\ UNCHANGED task
    BY <1>1 DEF RoomStep, Connected, Subscribe, Subscribed, LayoutsSet, Publish, Published,
                Accepted, IntoLoadPeers, Fail
  <2> QED
    BY <1>0, <1>1, <2>1 DEF StageInv
<1>2. CASE Connected /\ stage' # "failed"
  <2>1. /\ stage = "connect" /\ stage' = "layouts" /\ turn' = 1
        /\ UNCHANGED <<peer, task, inbox, sfu, sources>>
        /\ \A q \in Peers : peer[q].at = "idle"
    BY <1>2 DEF Connected, Fail, Settled
  <2>2. /\ sources = << >> /\ \A q \in Peers : task[q] = "none"
        /\ \A q \in Peers : Connecting(q)
    BY <2>1 DEF StageInv, AtConnect
  <2>3. \A q \in Peers : /\ Resting(q)' /\ sfu'[q].ready /\ sfu'[q].layouts = {}
    BY <2>1, <2>2 DEF Connecting, Resting, EmptyBatch
  <2>4. AtLayouts'
    BY <1>0, <2>1, <2>2, <2>3 DEF AtLayouts
  <2> QED
    BY <1>0, <2>1, <2>2, <2>4 DEF StageInv
<1>3. CASE Subscribe
  <2>1. stage = "layouts" /\ turn <= PeerCount /\ AtLayouts /\ \A q \in Peers : task[q] = "none"
    BY <1>3 DEF Subscribe, StageInv
  <2>2. turn \in Peers /\ turn \in 1 .. PeerCount
    BY <1>0, <2>1 DEF AtLayouts, Peers
  <2>3. CASE Layouts(turn) = {}
    <3>1. stage' = "layouts" /\ turn' = turn + 1 /\ UNCHANGED <<peer, task, inbox, sfu, sources>>
      BY <1>3, <2>1, <2>3 DEF Subscribe
    <3>2. ASSUME NEW q \in Peers
          PROVE  /\ Resting(q)' /\ sfu'[q].ready
                 /\ q < turn' => sfu'[q].layouts = Layouts(q)
                 /\ q >= turn' => sfu'[q].layouts = {}
      <4>1. Resting(q)' /\ sfu'[q].ready
        BY <2>1, <3>1 DEF AtLayouts, Resting, EmptyBatch
      <4>2. CASE q = turn
        <5>1. sfu[q].layouts = {} /\ Layouts(q) = {} /\ ~(q >= turn') /\ sfu' = sfu
          BY <1>0, <2>1, <2>3, <3>1, <4>2 DEF AtLayouts
        <5> QED
          BY <4>1, <5>1
      <4>3. CASE q # turn
        BY <1>0, <2>1, <3>1, <4>1, <4>3 DEF AtLayouts
      <4> QED
        BY <4>2, <4>3
    <3>3. AtLayouts'
      BY <1>0, <2>1, <2>2, <3>1, <3>2 DEF AtLayouts
    <3> QED
      BY <1>0, <2>1, <3>1, <3>3 DEF StageInv
  <2>4. CASE Layouts(turn) # {}
    <3>1. /\ Others(turn) /\ stage' = "subscribed"
          /\ peer'[turn].at = "flush" /\ "batch" \in peer'[turn].timers
          /\ peer'[turn].batch
                 = [layouts |-> Layouts(turn), sources |-> peer[turn].batch.sources]
          /\ UNCHANGED <<turn, task, inbox, sfu, sources>>
      BY <1>3, <2>2, <2>4, Subscribes
    <3>2. Resting(turn) /\ sfu[turn].layouts = {} /\ peer[turn].batch.sources = << >>
      BY <2>1, <2>2 DEF AtLayouts, Resting, EmptyBatch
    <3>3. \A q \in Peers : q = turn => Subscribing(q)'
      BY <1>0, <2>2, <3>1, <3>2 DEF Subscribing
    <3>4. \A q \in Peers : q # turn => Resting(q)'
      BY <2>1, <3>1 DEF AtLayouts, Others, Resting, EmptyBatch
    <3>5. AtSubscribed'
      BY <1>0, <2>1, <2>2, <3>1, <3>3, <3>4 DEF AtSubscribed, AtLayouts
    <3> QED
      BY <1>0, <2>1, <3>1, <3>5 DEF StageInv
  <2> QED
    BY <2>3, <2>4
<1>4. CASE Subscribed /\ stage' # "failed"
  <2>1. /\ stage = "subscribed" /\ stage' = "layouts" /\ turn' = turn + 1
        /\ peer[turn].at = "idle" /\ UNCHANGED <<peer, task, inbox, sfu, sources>>
    BY <1>4 DEF Subscribed, Fail, Settled
  <2>2. AtSubscribed /\ \A q \in Peers : task[q] = "none"
    BY <2>1 DEF StageInv
  <2>3. turn \in 1 .. PeerCount /\ turn \in Peers
    BY <2>2 DEF AtSubscribed, Peers
  <2>4. Resting(turn) /\ sfu[turn].layouts = Layouts(turn)
    BY <2>1, <2>2, <2>3 DEF AtSubscribed, Subscribing
  <2>5. \A q \in Peers : Resting(q)' /\ sfu'[q].ready
    BY <2>1, <2>2, <2>4 DEF AtSubscribed, Resting, EmptyBatch
  <2>6. \A q \in Peers : /\ q < turn + 1 => sfu[q].layouts = Layouts(q)
                         /\ q >= turn + 1 => sfu[q].layouts = {}
    BY <1>0, <2>2, <2>4 DEF AtSubscribed
  <2>7. AtLayouts'
    BY <1>0, <2>1, <2>2, <2>3, <2>5, <2>6 DEF AtLayouts, AtSubscribed
  <2> QED
    BY <1>0, <2>1, <2>2, <2>7 DEF StageInv
<1>5. CASE LayoutsSet
  <2>1. /\ stage = "layouts" /\ stage' = "publish" /\ turn > PeerCount /\ turn' = 1
        /\ UNCHANGED <<peer, task, inbox, sfu, sources>>
    BY <1>5 DEF LayoutsSet
  <2>2. AtLayouts /\ \A q \in Peers : task[q] = "none"
    BY <2>1 DEF StageInv
  <2>3. ASSUME NEW q \in Peers
        PROVE  /\ Resting(q)' /\ peer'[q].count = 1
               /\ sfu'[q].ready /\ sfu'[q].layouts = Layouts(q)
    <3>1. Resting(q) /\ sfu[q].ready /\ sfu[q].layouts = Layouts(q) /\ Len(sources) = 0
      BY <1>0, <2>1, <2>2 DEF AtLayouts
    <3>2. Link(q) /\ peer[q].count \in Nat /\ sfu[q].told \in Nat \union {None}
      BY <1>0 DEF PairsInv, PeerRecords, Typed, Sessions
    <3>3. peer[q].count = 1
      BY <3>1, <3>2 DEF Link
    <3> QED
      BY <2>1, <3>1, <3>3 DEF Resting, EmptyBatch
  <2>4. AtPublish'
    BY <1>0, <2>1, <2>2, <2>3 DEF AtPublish, AtLayouts
  <2> QED
    BY <1>0, <2>1, <2>2, <2>4 DEF StageInv
<1>6. CASE Publish
  <2>1. /\ stage = "publish" /\ turn <= Len(Plan) /\ AtPublish
        /\ \A q \in Peers : task[q] = "none"
    BY <1>6 DEF Publish, StageInv
  <2>2. turn \in 1 .. Len(Plan)
    BY <1>0, <2>1 DEF AtPublish
  <2>3. /\ Publisher \in Peers /\ Others(Publisher) /\ stage' = "published"
        /\ peer'[Publisher].at = "flush" /\ "batch" \in peer'[Publisher].timers
        /\ peer'[Publisher].batch
               = [layouts |-> peer[Publisher].batch.layouts, sources |-> <<Plan[turn]>>]
        /\ peer'[Publisher].count = peer[Publisher].count
        /\ UNCHANGED <<turn, task, inbox, sfu, sources>>
    BY <1>6, <2>2, Publishes
  <2>4. peer[Publisher].batch.layouts = {} /\ peer[Publisher].count = turn
    BY <2>1, <2>3 DEF AtPublish, Resting, EmptyBatch
  <2>5. \A q \in Peers : q = Publisher => Publishing(q)'
    BY <1>0, <2>1, <2>3, <2>4 DEF Publishing, AtPublish
  <2>6. \A q \in Peers : /\ q # Publisher => Resting(q)' /\ peer'[q].count = turn
                         /\ q = Publisher => Publishing(q)'
    BY <2>1, <2>3, <2>5 DEF AtPublish, Others, Resting, EmptyBatch
  <2>7. AtPublished'
    BY <1>0, <2>1, <2>2, <2>3, <2>6 DEF AtPublished, AtPublish, Publisher
  <2> QED
    BY <1>0, <2>1, <2>3, <2>7 DEF StageInv
<1>7. CASE Published /\ stage' # "failed"
  <2>1. /\ stage = "published" /\ stage' = "accept" /\ Publisher \in Peers
        /\ peer[Publisher].at = "idle" /\ peer'[Publisher] = peer[Publisher]
        /\ \A q \in Peers :
               /\ q # Publisher => peer'[q].at = "read" /\ peer'[q].goal = peer[q].count + 1
               /\ peer'[q].batch = peer[q].batch /\ peer'[q].count = peer[q].count
        /\ UNCHANGED <<turn, task, inbox, sfu, sources>>
    BY <1>7, AsksToAccept
  <2>2. AtPublished /\ \A q \in Peers : task[q] = "none"
    BY <2>1 DEF StageInv
  <2>3. Resting(Publisher) /\ Len(sources) = turn /\ peer[Publisher].count = turn + 1
    BY <2>1, <2>2 DEF AtPublished, Publishing
  <2>4. \A q \in Peers : /\ q # Publisher => Accepting(q)'
                         /\ q = Publisher => Resting(q)' /\ peer'[q].count = turn + 1
    BY <2>1, <2>2, <2>3 DEF AtPublished, Accepting, Resting, EmptyBatch
  <2>5. AtAccept'
    BY <1>0, <2>1, <2>2, <2>3, <2>4 DEF AtAccept, AtPublished, Publisher
  <2> QED
    BY <1>0, <2>1, <2>2, <2>5 DEF StageInv
<1>8. CASE Accepted /\ stage' # "failed"
  <2>1. /\ stage = "accept" /\ stage' = "publish" /\ turn' = turn + 1
        /\ \A q \in Peers : peer[q].at = "idle"
        /\ UNCHANGED <<peer, task, inbox, sfu, sources>>
    BY <1>8 DEF Accepted, Fail, Settled
  <2>2. AtAccept /\ \A q \in Peers : task[q] = "none"
    BY <2>1 DEF StageInv
  <2>3. \A q \in Peers : /\ Resting(q)' /\ peer'[q].count = turn + 1
                         /\ sfu'[q].ready /\ sfu'[q].layouts = Layouts(q)
    BY <2>1, <2>2 DEF AtAccept, Accepting, Resting, EmptyBatch
  <2>4. AtPublish'
    BY <1>0, <2>1, <2>2, <2>3 DEF AtPublish, AtAccept
  <2> QED
    BY <1>0, <2>1, <2>2, <2>4 DEF StageInv
<1>9. CASE IntoLoadPeers /\ stage' # "failed"
  <2>1. /\ stage = "publish" /\ stage' = "work" /\ turn > Len(Plan)
        /\ \A q \in Peers : /\ peer'[q].at = "work" /\ peer'[q].count = peer[q].count
                            /\ peer'[q].rtc # None
        /\ UNCHANGED <<turn, inbox, sfu, sources>>
    BY <1>9, GoesToWork
  <2>2. AtPublish
    BY <2>1 DEF StageInv
  <2>3. turn = Len(Plan) + 1 /\ Len(sources) = Len(Plan)
    BY <1>0, <2>1, <2>2 DEF AtPublish
  <2>4. \A q \in Peers : Working(q)'
    BY <1>0, <2>1, <2>2, <2>3 DEF AtPublish, Working
  <2>5. AtWork'
    BY <1>0, <2>1, <2>3, <2>4 DEF AtWork
  <2> QED
    BY <2>1, <2>5 DEF StageInv
<1> QED
  BY <1>1, <1>2, <1>3, <1>4, <1>5, <1>6, <1>7, <1>8, <1>9 DEF RoomStep

\* Every step keeps the peers where the room's stage has them.
LEMMA StageStep ==
    ASSUME Typed, SourcesInv, PairsInv, StageInv, [Next]_vars
    PROVE  StageInv'
<1>0. \A q \in Peers : sfu[q] \in Sessions
  BY DEF Typed
<1>1. CASE RoomStep
  BY <1>1, RoomStageStep
<1>2. ASSUME NEW p \in Peers, PeerStep(p) \/ PeerEvent(p) PROVE StageInv'
  <2>1. stage # "failed"
    BY <1>2 DEF PeerStep, PeerEvent
  <2>2. CASE Negotiate(p)
    <3>1. /\ Others(p) /\ UNCHANGED <<stage, turn, sources, task, peer>>
          /\ sfu'[p] = [sfu[p] EXCEPT !.told = Len(sources), !.unanswered = TRUE]
          /\ sfu[p].session
      BY <2>2, Offers
    <3>2. /\ sfu'[p].layouts = sfu[p].layouts /\ sfu'[p].ready = sfu[p].ready
          /\ sfu'[p].session = sfu[p].session
      BY <1>0, <3>1 DEF Sessions
    <3> QED
      BY <2>1, <3>1, <3>2, RoomKept DEF Others
  <2>3. CASE Reply(p)
    <3>1. /\ Others(p) /\ UNCHANGED <<stage, turn, sources, task, peer>>
          /\ sfu'[p] = [sfu[p] EXCEPT !.requested = FALSE]
      BY <2>3, Replies
    <3>2. /\ sfu'[p].layouts = sfu[p].layouts /\ sfu'[p].ready = sfu[p].ready
          /\ sfu'[p].session = sfu[p].session /\ sfu'[p].told = sfu[p].told
      BY <1>0, <3>1 DEF Sessions
    <3> QED
      BY <2>1, <3>1, <3>2, RoomKept DEF Others
  <2>4. CASE Serve(p) \/ Notify(p) \/ Hangup(p)
    BY <2>1, <2>4, RoomKept DEF Serve, Notify, Hangup
  <2>5. CASE TaskFails(p) \/ TaskCloses(p)
    <3>1. stage = "work" /\ UNCHANGED <<stage, turn, sources, peer, sfu>>
      BY <2>5 DEF TaskFails, TaskCloses, StageInv
    <3> QED
      BY <2>1, <3>1, RoomKept
  <2> QED
    BY <1>2, <2>1, <2>2, <2>3, <2>4, <2>5, PeerStageStep DEF PeerStep, PeerEvent
<1>3. CASE UNCHANGED vars
  <2>1. UNCHANGED <<stage, turn, sources, peer, sfu, task>>
    BY <1>3 DEF vars
  <2>2. CASE stage = "failed"
    BY <2>1, <2>2 DEF StageInv, Peers
  <2> QED
    BY <2>1, <2>2, RoomKept
<1> QED
  BY <1>1, <1>2, <1>3 DEF Next, Over

-------------------------------------------------------------------------------
(* The invariant holds. *)

\* The invariant holds at the start.
LEMMA Start == Init => IInv
<1> SUFFICES ASSUME Init PROVE IInv
  OBVIOUS
<1>1. EmptyBatch \in [layouts : SUBSET Nat, sources : Seq(Publications)]
  BY EmptySeq DEF EmptyBatch
<1>2. NewPeer \in PeerRecords
  BY <1>1 DEF NewPeer, PeerRecords, PeerStates
<1>3. NewSession \in Sessions
  BY DEF NewSession, Sessions
<1>4. Typed
  BY <1>2, <1>3, EmptySeq DEF Init, Typed, Stages
<1>5. Len(sources) = 0 /\ SourcesInv
  BY PlanFacts, EmptySeq DEF Init, SourcesInv
<1>6. \A p \in Peers : Link(p)
  BY <1>5 DEF Init, Link, NewPeer, NewSession
<1>7. \A p \in Peers : Mail(p)
  BY EmptySeq DEF Init, Mail, NewSession
<1>8. StageInv
  BY DEF Init, StageInv, AtConnect, Connecting, NewPeer, NewSession
<1> QED
  BY <1>4, <1>5, <1>6, <1>7, <1>8 DEF IInv, PairsInv

\* Every step keeps it.
LEMMA Preserved == IInv /\ [Next]_vars => IInv'
BY TypedStep, PairsStep, StageStep DEF IInv

\* So it always holds.
LEMMA Invariance == Spec => []IInv
BY Start, Preserved, PTL DEF Spec

-------------------------------------------------------------------------------
(* What the rooms may rely on. *)

\* What a peer has negotiated can be told from how often it has, as accept_next_negotiation
\* presumes: its n-th negotiation was about the first n - 1 publications of the plan.
THEOREM CountsTellContents == Spec => []CountMeansContent
<1>1. IInv => CountMeansContent
  <2> SUFFICES ASSUME IInv PROVE CountMeansContent
    OBVIOUS
  <2>1. /\ sources \in Seq(Publications) /\ Len(sources) \in Nat /\ Len(sources) <= Len(Plan)
        /\ \A i \in 1 .. Len(sources) : sources[i] = Plan[i]
    BY DEF IInv, Typed, SourcesInv
  <2>2. IsPrefix(sources, Plan)
    <3>1. SubSeq(sources, 1, Len(sources)) = [i \in 1 .. Len(sources) |-> sources[i]]
      BY <2>1
    <3>2. SubSeq(Plan, 1, Len(sources)) = [i \in 1 .. Len(sources) |-> Plan[i]]
      BY <2>1, PlanFacts
    <3> QED
      BY <2>1, <3>1, <3>2 DEF IsPrefix
  <2> QED
    BY <2>2 DEF IInv, PairsInv, Link, CountMeansContent
<1> QED
  BY <1>1, Invariance, PTL

\* into_load_peer hands over to a task that answers no offer: by then every peer has negotiated
\* all publications of the room, has a path for each of its own and the RTC peer for them, has
\* set its layouts, and has no offer to answer.
THEOREM HandoverIsComplete == Spec => []LoadPeersAreNegotiated
<1>1. IInv => LoadPeersAreNegotiated
  <2> SUFFICES ASSUME IInv, stage = "work", NEW p \in Peers
               PROVE  /\ peer[p].covered = Len(Plan)
                      /\ peer[p].paths
                             = {Plan[i].kind : i \in {j \in 1 .. Len(Plan) : Plan[j].peer = p}}
                      /\ peer[p].rtc # None
                      /\ sfu[p].layouts = Layouts(p)
                      /\ ~sfu[p].unanswered
    BY DEF LoadPeersAreNegotiated
  <2>1. /\ ~sfu[p].unanswered /\ peer[p].count = Len(Plan) + 1 /\ sfu[p].layouts = Layouts(p)
        /\ Len(Plan) \in Nat
    BY AllNegotiated, PlanFacts DEF IInv
  <2>2. Link(p)
    BY DEF IInv, PairsInv
  <2>3. peer[p].covered = Len(Plan) /\ peer[p].paths = PlannedPaths(p, peer[p].covered)
    BY <2>1, <2>2 DEF Link
  <2>4. peer[p].rtc # None
    BY DEF IInv, StageInv, AtWork, Working
  <2> QED
    BY <2>1, <2>3, <2>4 DEF PlannedPaths
<1> QED
  BY <1>1, Invariance, PTL

\* No peer is made to read for a negotiation that nobody begins: an offer is in its inbox, or
\* the server has one to make.
THEOREM ReadsAreServed == Spec => []EveryWaitIsServed
<1>1. IInv => EveryWaitIsServed
  <2> SUFFICES ASSUME IInv, stage # "failed", NEW p \in Peers, peer[p].at = "read"
               PROVE  \/ \E i \in 1 .. Len(inbox[p]) : IsOffer(inbox[p][i])
                      \/ sfu[p].session /\ sfu[p].told = None
                      \/ sfu[p].ready /\ sfu[p].told < Len(sources)
    BY DEF EveryWaitIsServed
  <2>0. /\ peer[p].count \in Nat /\ Len(sources) \in Nat /\ sfu[p].told \in Nat \union {None}
        /\ Link(p) /\ Mail(p)
    BY DEF IInv, Typed, PeerRecords, Sessions, PairsInv
  <2>1. /\ peer[p].goal = peer[p].count + 1 /\ peer[p].goal = Len(sources) + 1
        /\ stage = "connect" \/ sfu[p].ready
        /\ sfu[p].session \/ sfu[p].told # None
    BY Readers DEF IInv
  <2>2. CASE sfu[p].unanswered
    <3>1. peer[p].at # "error"
      OBVIOUS
    <3> QED
      BY <2>0, <2>2, <3>1 DEF Mail
  <2>3. CASE sfu[p].told = None
    BY <2>1, <2>3
  <2>4. CASE sfu[p].told # None /\ ~sfu[p].unanswered
    <3>1. sfu[p].told \in Nat /\ peer[p].count = sfu[p].told + 1
      BY <2>0, <2>4 DEF Link
    <3>2. sfu[p].told < Len(sources) /\ Len(sources) # 0
      BY <2>0, <2>1, <3>1
    <3>3. stage # "connect"
      BY <3>2, EmptySeq DEF IInv, StageInv, AtConnect
    <3> QED
      BY <2>1, <3>2, <3>3
  <2> QED
    BY <2>2, <2>3, <2>4
<1> QED
  BY <1>1, Invariance, PTL

\* "Only initial offers may replace the RTC peer" (src/client/protocol.rs:180), and none of them
\* comes when a transport is ready: what else may happen to it is that the core has it closed.
THEOREM TransportsAreKept == Spec => TransportIsKept
<1>1. ASSUME IInv, [Next]_vars, NEW p \in Peers, sfu[p].ready
      PROVE  peer'[p].rtc \in {peer[p].rtc, None}
  <2>0. /\ Typed /\ SourcesInv /\ PairsInv /\ StageInv
        /\ \A q \in Peers : peer[q] \in PeerRecords
    BY <1>1 DEF IInv, Typed
  <2>1. ASSUME NEW q \in Peers, Receive(q) PROVE peer'[p].rtc \in {peer[p].rtc, None}
    <3>1. CASE ~IsOffer(Head(inbox[q]))
      BY <2>0, <2>1, <3>1, ReadsOther DEF Others
    <3>2. CASE IsOffer(Head(inbox[q])) /\ Rebind(q, Head(inbox[q])) = None
      <4>1. Others(q) /\ peer'[q] = [peer[q] EXCEPT !.at = "error"]
        BY <2>0, <2>1, <3>2, FailsToAnswer
      <4>2. peer'[q].rtc = peer[q].rtc
        BY <2>0, <4>1 DEF PeerRecords
      <4> QED
        BY <4>1, <4>2 DEF Others
    <3>3. CASE IsOffer(Head(inbox[q])) /\ Rebind(q, Head(inbox[q])) # None
      <4>1. CASE q # p
        <5>1. Others(q)
          BY <2>0, <2>1, <3>3, Answers
        <5> QED
          BY <4>1, <5>1 DEF Others
      <4>2. CASE q = p
        <5>1. /\ sfu[p].unanswered /\ peer[p].count = sfu[p].told
              /\ Head(inbox[p]).kind = "offer" => sfu[p].told = 0
          BY <2>0, <2>1, <3>3, <4>2, AskedPaths DEF Receive
        <5>2. peer[p].count > 0
          BY <1>1, <2>0 DEF PairsInv, Link
        <5>3. Head(inbox[p]).kind # "offer"
          BY <5>1, <5>2
        <5>4. peer'[p] = [peer[p] EXCEPT !.at = Reading(p, peer[p].count + 1),
                             !.count = peer[p].count + 1,
                             !.rtc = Rebind(p, Head(inbox[p])),
                             !.covered = Head(inbox[p]).covers,
                             !.paths = Paths(p, Head(inbox[p]).covers)]
          BY <2>0, <2>1, <3>3, <4>2, Answers
        <5>5. peer'[p].rtc = Rebind(p, Head(inbox[p]))
          BY <2>0, <5>4 DEF PeerRecords
        <5> QED
          BY <5>3, <5>5 DEF Rebind
      <4> QED
        BY <4>1, <4>2
    <3> QED
      BY <3>1, <3>2, <3>3
  <2>2. ASSUME NEW q \in Peers, Open(q) PROVE peer'[p].rtc = peer[p].rtc
    <3>1. Others(q) /\ peer'[q] = [peer[q] EXCEPT !.at = "read", !.goal = 1]
      BY <2>0, <2>2, Opens
    <3>2. peer'[q].rtc = peer[q].rtc
      BY <2>0, <3>1 DEF PeerRecords
    <3> QED
      BY <3>1, <3>2 DEF Others
  <2>3. ASSUME NEW q \in Peers, TransportReady(q) PROVE peer'[p].rtc = peer[p].rtc
    <3>1. Others(q) /\ peer'[q] = [peer[q] EXCEPT !.at = "idle"]
      BY <2>0, <2>3, GetsTransport
    <3>2. peer'[q].rtc = peer[q].rtc
      BY <2>0, <3>1 DEF PeerRecords
    <3> QED
      BY <3>1, <3>2 DEF Others
  <2>4. ASSUME NEW q \in Peers, Flush(q), stage # "failed" PROVE peer'[p].rtc = peer[p].rtc
    <3>1. peer[q].at = "flush"
      BY <2>4 DEF Flush
    <3>2. Subscribing(q) \/ Publishing(q)
      BY <2>0, <2>4, <3>1, WhereAt DEF StageInv, AtSubscribed, AtPublished
    <3>3. "batch" \in peer[q].timers
      BY <3>1, <3>2 DEF Subscribing, Publishing, Resting
    <3>4. Others(q) /\ peer'[q].rtc = peer[q].rtc
      BY <2>0, <2>4, <3>3, FlushesBatch
    <3> QED
      BY <3>4 DEF Others
  <2>5. ASSUME NEW q \in Peers,
               \/ TimeOut(q) \/ Break(q) \/ CheckSignaling(q) \/ Close(q) \/ WaitForSignaling(q)
        PROVE  peer'[p].rtc = peer[p].rtc
    <3>1. /\ \E at \in PeerStates : peer' = [peer EXCEPT ![q].at = at]
          /\ UNCHANGED <<stage, turn, task, inbox, sfu, sources>>
      BY <2>5 DEF TimeOut, Break, CheckSignaling, Close, WaitForSignaling, PeerStates
    <3>2. PICK at \in PeerStates : Others(q) /\ peer'[q] = [peer[q] EXCEPT !.at = at]
      BY <2>0, <3>1, MovesOn
    <3>3. peer'[q].rtc = peer[q].rtc
      BY <2>0, <3>2 DEF PeerRecords
    <3> QED
      BY <3>2, <3>3 DEF Others
  <2>6. CASE UNCHANGED peer
    BY <2>6
  <2>7. CASE Subscribe
    <3>1. CASE Layouts(turn) = {}
      BY <2>7, <3>1 DEF Subscribe
    <3>2. turn \in Peers
      BY <2>0, <2>7, Constants DEF Subscribe, StageInv, AtLayouts, Peers
    <3> QED
      BY <2>0, <2>7, <3>1, <3>2, Subscribes DEF Others
  <2>8. CASE Publish
    <3>1. turn \in 1 .. Len(Plan)
      BY <2>0, <2>8, PlanFacts DEF Publish, StageInv, AtPublish
    <3> QED
      BY <2>0, <2>8, <3>1, Publishes DEF Others
  <2>9. CASE Published
    BY <2>0, <2>9, AsksToAccept DEF Published, Fail
  <2>10. CASE IntoLoadPeers
    <3>1. CASE stage' = "failed"
      BY <2>10, <3>1 DEF IntoLoadPeers, Fail
    <3> QED
      BY <2>0, <2>10, <3>1, GoesToWork
  <2>11. CASE Connected \/ Subscribed \/ LayoutsSet \/ Accepted
    BY <2>6, <2>11 DEF Connected, Subscribed, LayoutsSet, Accepted, Fail
  <2> QED
    BY <1>1, <2>1, <2>2, <2>3, <2>4, <2>5, <2>6, <2>7, <2>8, <2>9, <2>10, <2>11
    DEF Next, RoomStep, PeerStep, PeerEvent, Over, vars, TaskFails, TaskCloses, Negotiate,
        Reply, Notify, Hangup, Serve
<1>2. IInv /\ [Next]_vars
          => [\A p \in Peers : sfu[p].ready => peer'[p].rtc \in {peer[p].rtc, None}]_vars
  BY <1>1
<1> QED
  BY <1>2, Invariance, PTL DEF Spec, TransportIsKept
===============================================================================
