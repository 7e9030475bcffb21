------------------------------- MODULE Signaling -------------------------------
(***************************************************************************)
(* How the peers of one room are brought to the point where media can flow *)
(* (connect_peers, configure_video_layouts and publish_sources of          *)
(* src/client/scenario.rs over ProtocolPeer of src/client/protocol.rs),    *)
(* and what becomes of their signaling afterwards (LoadPeer).              *)
(*                                                                         *)
(* A peer counts the negotiations that it has answered; nothing else tells *)
(* it what a negotiation was about.  The server renegotiates with a peer   *)
(* that has answered its last offer, about all sources at once that the    *)
(* peer has not been offered yet.  Messages to the server arrive in order  *)
(* on one WebSocket and are modelled as received when sent; those to a     *)
(* peer wait in its inbox: offers, replies, events, and what makes the     *)
(* protocol core close the peer connection.  Pings are left out: they do   *)
(* not end a read.                                                         *)
(***************************************************************************)
EXTENDS Integers, Sequences, FiniteSets, SequencesExt

CONSTANTS
    PeerCount,          \* of the room
    AudioPublishers,    \* the first peers of the room publish
    VideoPublishers,
    BatchDelay,         \* of the protocol core's timers, in milliseconds
    RequestTimeout,
    MaxFaults,          \* bound on connections that break and peer connections that are closed
    None

ASSUME SignalingAssumption ==
    /\ PeerCount \in Nat
    /\ AudioPublishers \in 0 .. PeerCount /\ VideoPublishers \in 0 .. PeerCount
    /\ BatchDelay \in Nat /\ RequestTimeout \in Nat /\ BatchDelay < RequestTimeout
    /\ MaxFaults \in Nat
    /\ None \notin Nat

VARIABLES
    stage,      \* where the room's task is
    turn,       \* the peer or the publication that it is at
    peer,       \* ProtocolPeer and, later, LoadPeer
    task,       \* service_signaling of each peer
    inbox,      \* frames on their way to each peer
    sfu,        \* the server's view of each peer
    sources,    \* the publications that the server has received
    faults

vars == <<stage, turn, peer, task, inbox, sfu, sources, faults>>

Peers == 1 .. PeerCount

\* publish_sources, for audio and then for cameras.
Plan == [i \in 1 .. AudioPublishers + VideoPublishers |->
            IF i <= AudioPublishers THEN [peer |-> i, kind |-> "audio"]
            ELSE [peer |-> i - AudioPublishers, kind |-> "camera"]]

\* The cameras whose layout a peer sets.
Layouts(p) == 1 .. VideoPublishers \ {p}

\* The send paths that a peer has once the server has offered it the first n sources.
Paths(p, n) == {sources[i].kind : i \in {j \in 1 .. n : sources[j].peer = p}}

Delay == [batch |-> BatchDelay, request |-> RequestTimeout]

\* A peer's future is done, one way or the other.
Settled(p) == peer[p].at \in {"idle", "error"}

IsOffer(frame) == frame.kind \in {"offer", "renegotiation"}

-------------------------------------------------------------------------------
(* ProtocolPeer. *)

\* Command::Connect of ProtocolPeer::connect, which then reads until the first negotiation.
\* Nothing bounds the time that connect_async takes.
Open(p) ==
    /\ peer[p].at = "open"
    /\ peer' = [peer EXCEPT ![p].at = "read", ![p].goal = 1]
    /\ sfu' = [sfu EXCEPT ![p].session = TRUE]
    /\ UNCHANGED <<stage, turn, task, inbox, sources, faults>>

\* read_until_negotiation returns, to connect or to the room's task.
Reading(p, count) ==
    IF count < peer[p].goal THEN "read" ELSE IF stage = "connect" THEN "transport" ELSE "idle"

\* Mutant: every offer makes a new RTC peer.
RebindAlways(p, frame) == peer[p].count + 1

\* Only initial offers may replace the RTC peer, named for the negotiation that it was bound in.
Rebind(p, frame) == IF frame.kind = "offer" THEN peer[p].count + 1 ELSE peer[p].rtc

\* Command::ApplyNegotiation: answer_offer, submit_negotiation_answer.
ApplyNegotiation(p, frame) ==
    /\ Rebind(p, frame) # None
    /\ peer' = [peer EXCEPT ![p].at = Reading(p, peer[p].count + 1),
                            ![p].count = @ + 1,
                            ![p].rtc = Rebind(p, frame),
                            ![p].covered = frame.covers,
                            ![p].paths = Paths(p, frame.covers)]
    /\ sfu' = [sfu EXCEPT ![p].unanswered = FALSE]

\* A renegotiation when the RTC peer has been closed: there is nobody to answer it.
RtcNotAvailable(p, frame) ==
    /\ Rebind(p, frame) = None
    /\ peer' = [peer EXCEPT ![p].at = "error"]
    /\ UNCHANGED sfu

\* Command::CompletePendingRequest for a reply, Command::ClosePeerConnection, and events.
RunCommands(p, frame) ==
    /\ peer' = [peer EXCEPT ![p].timers = IF frame.kind = "reply" THEN @ \ {"request"} ELSE @,
                            ![p].rtc = IF frame.kind = "close" THEN None ELSE @]
    /\ UNCHANGED sfu

\* One round of read_until_negotiation.
Receive(p) ==
    /\ peer[p].at = "read" /\ inbox[p] # << >>
    /\ LET frame == Head(inbox[p])
       IN  \/ IsOffer(frame) /\ (ApplyNegotiation(p, frame) \/ RtcNotAvailable(p, frame))
           \/ ~IsOffer(frame) /\ RunCommands(p, frame)
    /\ inbox' = [inbox EXCEPT ![p] = Tail(@)]
    /\ UNCHANGED <<stage, turn, task, sources, faults>>

\* wait_until_connected succeeds, and connect ends with on_transport_ready.
TransportReady(p) ==
    /\ peer[p].at = "transport"
    /\ peer' = [peer EXCEPT ![p].at = "idle"]
    /\ sfu' = [sfu EXCEPT ![p].ready = TRUE]
    /\ UNCHANGED <<stage, turn, task, inbox, sources, faults>>

\* Mutant: the timer that was made first.
FirstTimer(p) == IF "request" \in peer[p].timers THEN "request" ELSE "batch"

\* The timer with the least delay, of those that flush_next_timer finds.
NextTimer(p) ==
    CHOOSE timer \in peer[p].timers : \A other \in peer[p].timers : Delay[timer] <= Delay[other]

\* The server gets what the core has gathered in its outbound batch.
ReceiveBatch(p, begun) ==
    /\ sfu' = [sfu EXCEPT ![p].layouts = @ \union peer[p].batch.layouts,
                          ![p].requested = @ \/ begun # {}]
    /\ sources' = sources \o peer[p].batch.sources

EmptyBatch == [layouts |-> {}, sources |-> << >>]

\* flush_next_timer; the batch may be a request, and the core then begins its timeout, one at a
\* time.  publish goes on to read; set_camera_layouts is done.
Flush(p) ==
    /\ peer[p].at = "flush" /\ peer[p].timers # {}
    /\ LET timer == NextTimer(p)
           after == IF stage = "subscribed" THEN "idle" ELSE "read"
       IN  IF timer = "batch"
           THEN \E begun \in SUBSET ({"request"} \ peer[p].timers) :
                   /\ peer' = [peer EXCEPT ![p].timers = (@ \ {"batch"}) \union begun,
                                           ![p].batch = EmptyBatch,
                                           ![p].at = after, ![p].goal = peer[p].count + 1]
                   /\ ReceiveBatch(p, begun)
           ELSE /\ peer' = [peer EXCEPT ![p].timers = @ \ {timer},
                                        ![p].at = after, ![p].goal = peer[p].count + 1]
                /\ UNCHANGED <<sfu, sources>>
    /\ UNCHANGED <<stage, turn, task, inbox, faults>>

\* Mutant: the transport may take as long as it likes.
TimeOutOfReading(p) ==
    /\ peer[p].at = "read"
    /\ peer' = [peer EXCEPT ![p].at = "error"]
    /\ UNCHANGED <<stage, turn, task, inbox, sfu, sources, faults>>

\* Ten seconds without a frame of text, whatever its content, or without a transport.
TimeOut(p) ==
    /\ peer[p].at \in {"read", "transport"}
    /\ peer' = [peer EXCEPT ![p].at = "error"]
    /\ UNCHANGED <<stage, turn, task, inbox, sfu, sources, faults>>

\* A command fails, or its connection, which the core may have closed (CloseWebSocket).
Break(p) ==
    /\ peer[p].at \in {"open", "read", "transport", "flush"}
    /\ faults < MaxFaults /\ faults' = faults + 1
    /\ peer' = [peer EXCEPT ![p].at = "error"]
    /\ UNCHANGED <<stage, turn, task, inbox, sfu, sources>>

-------------------------------------------------------------------------------
(* The server, as far as the peers rely on it. *)

Covering(kind) == [kind |-> kind, covers |-> Len(sources)]

\* A session gets an offer, and later one renegotiation after the other.
Negotiate(p) ==
    /\ sfu[p].session /\ ~sfu[p].unanswered
    /\ \/ /\ sfu[p].told = None
          /\ inbox' = [inbox EXCEPT ![p] = Append(@, Covering("offer"))]
       \/ /\ sfu[p].ready /\ sfu[p].told < Len(sources)
          /\ inbox' = [inbox EXCEPT ![p] = Append(@, Covering("renegotiation"))]
    /\ sfu' = [sfu EXCEPT ![p].told = Len(sources), ![p].unanswered = TRUE]
    /\ UNCHANGED <<stage, turn, peer, task, sources, faults>>

Reply(p) ==
    /\ sfu[p].requested
    /\ inbox' = [inbox EXCEPT ![p] = Append(@, [kind |-> "reply"])]
    /\ sfu' = [sfu EXCEPT ![p].requested = FALSE]
    /\ UNCHANGED <<stage, turn, peer, task, sources, faults>>

\* The number of events that may come is not bounded, only that of those that wait: one in all
\* inboxes.
Notify(p) ==
    /\ sfu[p].session
    /\ \A q \in Peers : \A i \in 1 .. Len(inbox[q]) : inbox[q][i].kind # "event"
    /\ inbox' = [inbox EXCEPT ![p] = Append(@, [kind |-> "event"])]
    /\ UNCHANGED <<stage, turn, peer, task, sfu, sources, faults>>

\* Something on which the core gives up the peer connection.
Hangup(p) ==
    /\ sfu[p].session
    /\ faults < MaxFaults /\ faults' = faults + 1
    /\ inbox' = [inbox EXCEPT ![p] = Append(@, [kind |-> "close"])]
    /\ UNCHANGED <<stage, turn, peer, task, sfu, sources>>

-------------------------------------------------------------------------------
(* The room's task. *)

Fail ==
    /\ stage' = "failed"
    /\ UNCHANGED <<turn, peer>>

\* join_all of connect_peers: one failure fails the room, when all have ended.
Connected ==
    /\ stage = "connect" /\ \A p \in Peers : Settled(p)
    /\ IF \E p \in Peers : peer[p].at = "error" THEN Fail
       ELSE stage' = "layouts" /\ turn' = 1 /\ UNCHANGED peer
    /\ UNCHANGED <<task, inbox, sfu, sources, faults>>

\* Mutant: the layouts wait for the next flush.
SubscribeLater ==
    /\ stage = "layouts" /\ turn <= PeerCount
    /\ peer' = [peer EXCEPT ![turn].batch.layouts = Layouts(turn)]
    /\ turn' = turn + 1 /\ UNCHANGED stage
    /\ UNCHANGED <<task, inbox, sfu, sources, faults>>

\* set_camera_layouts: the core gathers all intents of a peer in one batch.
Subscribe ==
    /\ stage = "layouts" /\ turn <= PeerCount
    /\ IF Layouts(turn) = {} THEN turn' = turn + 1 /\ UNCHANGED <<stage, peer>>
       ELSE /\ peer' = [peer EXCEPT ![turn].batch.layouts = Layouts(turn),
                                    ![turn].timers = @ \union {"batch"},
                                    ![turn].at = "flush"]
            /\ stage' = "subscribed" /\ UNCHANGED turn
    /\ UNCHANGED <<task, inbox, sfu, sources, faults>>

Subscribed ==
    /\ stage = "subscribed" /\ Settled(turn)
    /\ IF peer[turn].at = "error" THEN Fail
       ELSE stage' = "layouts" /\ turn' = turn + 1 /\ UNCHANGED peer
    /\ UNCHANGED <<task, inbox, sfu, sources, faults>>

LayoutsSet ==
    /\ stage = "layouts" /\ turn > PeerCount
    /\ stage' = "publish" /\ turn' = 1
    /\ UNCHANGED <<peer, task, inbox, sfu, sources, faults>>

\* ProtocolPeer::publish of the next source.
Publish ==
    /\ stage = "publish" /\ turn <= Len(Plan)
    /\ LET publisher == Plan[turn].peer
       IN  peer' = [peer EXCEPT ![publisher].batch.sources = <<Plan[turn]>>,
                                ![publisher].timers = @ \union {"batch"},
                                ![publisher].at = "flush"]
    /\ stage' = "published"
    /\ UNCHANGED <<turn, task, inbox, sfu, sources, faults>>

\* The publisher has negotiated; the others are to accept_next_negotiation.
Published ==
    /\ stage = "published"
    /\ LET publisher == Plan[turn].peer
       IN  /\ Settled(publisher)
           /\ IF peer[publisher].at = "error" THEN Fail
              ELSE /\ peer' = [p \in Peers |->
                                  IF p = publisher THEN peer[p]
                                  ELSE [peer[p] EXCEPT !.at = "read", !.goal = peer[p].count + 1]]
                   /\ stage' = "accept" /\ UNCHANGED turn
    /\ UNCHANGED <<task, inbox, sfu, sources, faults>>

\* Mutant: the next publisher does not wait for the others.
AcceptedByOne ==
    /\ stage = "accept" /\ \E p \in Peers : p # Plan[turn].peer /\ peer[p].at = "idle"
    /\ stage' = "publish" /\ turn' = turn + 1
    /\ UNCHANGED <<peer, task, inbox, sfu, sources, faults>>

Accepted ==
    /\ stage = "accept" /\ \A p \in Peers : Settled(p)
    /\ IF \E p \in Peers : peer[p].at = "error" THEN Fail
       ELSE stage' = "publish" /\ turn' = turn + 1 /\ UNCHANGED peer
    /\ UNCHANGED <<task, inbox, sfu, sources, faults>>

\* into_load_peer of all, which takes their RTC peers: from here the signaling task has the
\* WebSocket.
IntoLoadPeers ==
    /\ stage = "publish" /\ turn > Len(Plan)
    /\ IF \E p \in Peers : peer[p].rtc = None THEN Fail /\ UNCHANGED task
       ELSE /\ stage' = "work" /\ UNCHANGED turn
            /\ peer' = [p \in Peers |-> [peer[p] EXCEPT !.at = "work"]]
            /\ task' = [p \in Peers |-> "serving"]
    /\ UNCHANGED <<inbox, sfu, sources, faults>>

-------------------------------------------------------------------------------
(* LoadPeer and service_signaling. *)

\* Text is read and left alone.
Serve(p) ==
    /\ task[p] = "serving" /\ inbox[p] # << >>
    /\ inbox' = [inbox EXCEPT ![p] = Tail(@)]
    /\ UNCHANGED <<stage, turn, peer, task, sfu, sources, faults>>

\* The server closes the WebSocket, or it breaks, also while it is being closed.
TaskFails(p) ==
    /\ task[p] = "serving"
    /\ faults < MaxFaults /\ faults' = faults + 1
    /\ task' = [task EXCEPT ![p] = "failed"]
    /\ UNCHANGED <<stage, turn, peer, inbox, sfu, sources>>

\* The shutdown's sender has sent, or was dropped with the peer.
TaskCloses(p) ==
    /\ task[p] = "serving" /\ peer[p].at \in {"close", "error"}
    /\ task' = [task EXCEPT ![p] = "closed"]
    /\ UNCHANGED <<stage, turn, peer, inbox, sfu, sources, faults>>

\* check_signaling, around each packet sent or read.
CheckSignaling(p) ==
    /\ peer[p].at = "work" /\ task[p] \in {"closed", "failed"}
    /\ peer' = [peer EXCEPT ![p].at = "error"]
    /\ UNCHANGED <<stage, turn, task, inbox, sfu, sources, faults>>

\* LoadPeer::close after the fixed work.
Close(p) ==
    /\ peer[p].at = "work"
    /\ peer' = [peer EXCEPT ![p].at = "close"]
    /\ UNCHANGED <<stage, turn, task, inbox, sfu, sources, faults>>

WaitForSignaling(p) ==
    /\ peer[p].at = "close" /\ task[p] \in {"closed", "failed"}
    /\ peer' = [peer EXCEPT ![p].at = IF task[p] = "closed" THEN "done" ELSE "error"]
    /\ UNCHANGED <<stage, turn, task, inbox, sfu, sources, faults>>

-------------------------------------------------------------------------------
NewPeer ==
    [at |-> "open", goal |-> 0, count |-> 0, rtc |-> None, timers |-> {}, batch |-> EmptyBatch,
     covered |-> 0, paths |-> {}]

NewSession ==
    [session |-> FALSE, ready |-> FALSE, told |-> None, unanswered |-> FALSE,
     requested |-> FALSE, layouts |-> {}]

Init ==
    /\ stage = "connect" /\ turn = 0
    /\ peer = [p \in Peers |-> NewPeer]
    /\ task = [p \in Peers |-> "none"]
    /\ inbox = [p \in Peers |-> << >>]
    /\ sfu = [p \in Peers |-> NewSession]
    /\ sources = << >>
    /\ faults = 0

RoomStep ==
    \/ Connected \/ Subscribe \/ Subscribed \/ LayoutsSet
    \/ Publish \/ Published \/ Accepted \/ IntoLoadPeers

\* What a peer does when it is given time to.
PeerStep(p) ==
    /\ stage # "failed"
    /\ \/ Receive(p) \/ Flush(p) \/ TimeOut(p)
       \/ TaskCloses(p) \/ CheckSignaling(p) \/ Close(p) \/ WaitForSignaling(p)

\* What others may do to it, or not.
PeerEvent(p) ==
    /\ stage # "failed"
    /\ \/ Open(p) \/ TransportReady(p) \/ Break(p)
       \/ Negotiate(p) \/ Reply(p) \/ Notify(p) \/ Hangup(p)
       \/ Serve(p) \/ TaskFails(p)

Ended == stage = "failed" \/ \A p \in Peers : peer[p].at \in {"done", "error"} /\ stage = "work"

Over == Ended /\ UNCHANGED vars

Next ==
    \/ RoomStep
    \/ \E p \in Peers : PeerStep(p) \/ PeerEvent(p)
    \/ Over

Spec == Init /\ [][Next]_vars

\* A peer takes a step when it can: a read goes on with each frame and ends with ten seconds
\* without one, the transport is up after ten seconds or never, a timer fires, and a WebSocket
\* takes what is sent to it, as the few small frames of a peer fit into its connection's buffers.
\* That a connection comes about, or fails to, is not assumed.
Fairness == WF_vars(RoomStep) /\ \A p \in Peers : WF_vars(PeerStep(p))

FairSpec == Spec /\ Fairness

-------------------------------------------------------------------------------
(* Properties. *)

PeerStates ==
    {"open", "read", "transport", "flush", "idle", "error", "work", "close", "done"}

\* Every variable stays within its range; no peer negotiates more often than once for each
\* publication and once to connect.
TypeOK ==
    /\ stage \in {"connect", "layouts", "subscribed", "publish", "published", "accept", "work",
                  "failed"}
    /\ turn \in 0 .. PeerCount + Len(Plan) + 1
    /\ \A p \in Peers :
           /\ peer[p].at \in PeerStates
           /\ peer[p].goal \in 0 .. Len(Plan) + 1 /\ peer[p].count \in 0 .. Len(Plan) + 1
           /\ peer[p].timers \subseteq {"batch", "request"}
           /\ peer[p].covered \in 0 .. Len(sources)
           /\ Len(inbox[p]) <= 3 + MaxFaults
           /\ peer[p].rtc \in {None} \union 1 .. peer[p].count
           /\ sfu[p].told \in {None} \union 0 .. Len(sources)
    /\ task \in [Peers -> {"none", "serving", "closed", "failed"}]
    /\ faults \in 0 .. MaxFaults

\* A peer's count tells what it has negotiated, as accept_next_negotiation presumes: each
\* negotiation after the first was about one source more, the next in the plan.  A server that
\* renegotiates about several sources at once has no occasion to.
CountMeansContent ==
    /\ IsPrefix(sources, Plan)
    /\ \A p \in Peers : peer[p].count > 0 => peer[p].covered = peer[p].count - 1

\* When a ProtocolPeer becomes a LoadPeer, which answers no offer any more, it has negotiated
\* all sources of the room and a path for each of its own over the RTC peer that it hands on, the
\* server has all its layouts, and no offer waits for its answer.
LoadPeersAreNegotiated ==
    stage = "work" => \A p \in Peers :
        /\ peer[p].covered = Len(Plan)
        /\ peer[p].paths = {Plan[i].kind : i \in {j \in 1 .. Len(Plan) : Plan[j].peer = p}}
        /\ peer[p].rtc # None
        /\ sfu[p].layouts = Layouts(p)
        /\ ~sfu[p].unanswered

\* No peer reads for a negotiation that nobody will begin: the ten seconds of a read pass only
\* for a server that is slow.
EveryWaitIsServed ==
    stage # "failed" => \A p \in Peers : peer[p].at = "read" =>
        \/ \E i \in 1 .. Len(inbox[p]) : IsOffer(inbox[p][i])
        \/ sfu[p].session /\ sfu[p].told = None
        \/ sfu[p].ready /\ sfu[p].told < Len(sources)

\* A transport that is ready is kept, or closed for good: "Only initial offers may replace the
\* RTC peer so renegotiation preserves ICE/DTLS" (src/client/protocol.rs:180).
TransportIsKept ==
    [][\A p \in Peers : sfu[p].ready => peer'[p].rtc \in {peer[p].rtc, None}]_vars

\* Every peer's connection comes about or fails, and from some point on no event comes.
ServerSettles ==
    /\ <>(\A p \in Peers : peer[p].at # "open")
    /\ <>[][\A p \in Peers : ~Notify(p)]_vars

\* The room's peers all end, or the room fails, however long the server keeps them waiting for
\* negotiations, replies and transports, and whenever connections break, provided that it settles:
\* connect_async has no timeout, and each frame of text, an event as well, restarts the ten
\* seconds of a read (protocol.rs:127-137, 158-162).
RoomEnds == ServerSettles => <>Ended
===============================================================================
