-------------------------------- MODULE RtcPeer --------------------------------
(***************************************************************************)
(* RtcPeer of src/client/rtc.rs as run_media_peer of scenario.rs uses it:  *)
(* one task that drives a sans-IO RTC state machine between its calls,     *)
(* paces what it sends, and reads what arrives at its socket.              *)
(*                                                                         *)
(* The RTC state machine itself (str0m) is external: fed with a datagram or*)
(* with a timeout it may ask for another timeout, which after a timeout lies*)
(* later; a media datagram becomes one payload, any other none.  Between   *)
(* its calls the peer works, or is parked at a barrier that ScenarioSync   *)
(* models: MaxStall bounds that time and the lateness of timers.  A        *)
(* datagram that finds the socket's buffer full does not arrive.           *)
(*                                                                         *)
(* Neither is the socket its buffer: tokio reads it only while it holds it *)
(* for readable, which it takes from its I/O driver when that is polled,   *)
(* and drops once a read has found nothing.                                *)
(***************************************************************************)
EXTENDS Integers, Sequences, FiniteSets, FiniteSetsExt

CONSTANTS
    Offsets,        \* emitted_at of the packets of one timeline, in the order of the calls
    SettleTime,     \* ROUTE_SETTLE_TIME, as QUIESCENCE_TIMEOUT
    StartLead,      \* MEASURE_START_LEAD
    PacketTimeout,  \* PACKET_TIMEOUT
    DrainLimit,     \* OPPORTUNISTIC_DRAIN_LIMIT
    Target,         \* PeerMedia::target_duration
    MaxPackets,     \* bound on media datagrams, and what the ledger expects
    MaxOther,       \* bound on other datagrams
    MaxStall,       \* bound on time that passes while the peer waits for nothing
    None

\* The calls of RtcPeer, and what is kept of the last packet written.
Calls == [kind : {"send"}, step : {"pace", "apply"}]
             \union [kind : {"poll"}, step : {"apply", "drain"}, had : Nat]
             \union [kind : {"window"}]
Packets == [at : Int, wallclock : Int, offset : Nat, stage : {"warmup", "measured"}]

ASSUME PeerAssumption ==
    /\ Offsets \in Seq(Nat)
    /\ {SettleTime, StartLead, PacketTimeout, Target, MaxPackets, MaxOther, MaxStall} \subseteq Nat
    /\ DrainLimit \in Nat \ {0}
    /\ None \notin Int \union {"asleep", "drain"} \union Calls \union Packets

VARIABLES
    now,        \* Instant::now()
    stalled,    \* of MaxStall
    stage,      \* of run_media_peer
    turn,       \* the next packet of the timeline
    polls,      \* reads left to the pass of drain_pending
    started,    \* measured_at
    deadline,   \* of the stage, if it reads up to one
    origin,     \* send_origin
    call,       \* the call of RtcPeer in progress
    wait,       \* inside wait_for_input
    due,        \* next_timeout
    socket,     \* datagrams that have arrived: the numbers of media packets, 0 for others
    ready,      \* whether tokio holds the socket for readable
    arrived,    \* media packets that have arrived at all
    others,     \* other datagrams that have
    inside,     \* payloads that the RTC state machine has and has not given out
    pending,    \* pending_rtp
    handed,     \* payloads returned to the ledger
    sent,       \* the last packet written: when, with which wall clock, and its place in which stage
    maxLag      \* max_send_lag

clock == <<now, stalled>>
caller == <<stage, turn, polls, started, deadline, maxLag>>
input == <<socket, ready, arrived, others>>
vars == <<clock, caller, origin, call, wait, due, input, inside, pending, handed, sent>>

Never == -1     \* str0m asks for no timeout that the run would see

Idle == call = None

IsDue == due # Never /\ due <= now

Sending == stage \in {"warmup", "measured"}

-------------------------------------------------------------------------------
(* The RTC state machine, fed and drained. *)

\* apply_datagram: a media datagram, up to the drain of the output.
Feed(datagram) == inside' = IF datagram = 0 THEN inside ELSE Append(inside, datagram)

\* drain_output: payloads are queued, and the next timeout is taken over.
Drain(timeouts) ==
    /\ pending' = pending \o inside
    /\ inside' = << >>
    /\ due' \in timeouts

LaterTimeouts == {now + 1, Never}
AnyTimeouts == {now} \union LaterTimeouts

\* Mutant: the due timeout is applied and the next one not taken over.
ForgetTimeout ==
    /\ pending' = pending \o inside
    /\ inside' = << >>
    /\ UNCHANGED due

\* handle_input(Input::Timeout) with the drain after it.
ApplyTimeout == Drain(LaterTimeouts)

-------------------------------------------------------------------------------
(* wait_for_input, by the calls that loop over it until their time comes. *)

\* The instant that a call waits for.
Until == IF call.kind = "send" THEN origin + Offsets[turn] ELSE deadline

Looping ==
    /\ ~Idle /\ wait = None
    /\ call.kind = "window" \/ (call.kind = "send" /\ call.step = "pace")

\* Mutant: a read with a window sleeps past the timeout of the RTC state machine.
WakeAtDeadline == Until

\* wait_until
WakeTime == IF due = Never THEN Until ELSE Min({due, Until})

\* A due timeout is applied in place of sleeping.
WaitOverdue ==
    /\ Looping /\ now < Until /\ IsDue
    /\ pending = << >> \/ call.kind = "send"
    /\ ApplyTimeout
    /\ UNCHANGED <<clock, caller, origin, call, wait, input, handed, sent>>

Sleep ==
    /\ Looping /\ now < Until /\ ~IsDue
    /\ pending = << >> \/ call.kind = "send"
    /\ wait' = "asleep"
    /\ UNCHANGED <<clock, caller, origin, call, due, input, inside, pending, handed, sent>>

\* recv_from returns a datagram, and the RTC state machine takes it.
Receive ==
    /\ wait = "asleep" /\ ready /\ socket # << >>
    /\ Feed(Head(socket))
    /\ socket' = Tail(socket)
    /\ wait' = "drain"
    /\ UNCHANGED <<clock, caller, origin, call, due, ready, arrived, others, pending, handed, sent>>

\* recv_from finds that the socket was not readable, and waits for the I/O driver.
FindNothing ==
    /\ wait = "asleep" /\ ready /\ socket = << >>
    /\ ready' = FALSE
    /\ UNCHANGED <<clock, caller, origin, call, wait, due, socket, arrived, others, inside, pending,
                   handed, sent>>

\* Sending the output of the RTC state machine may wait, too.
DrainReceived ==
    /\ wait = "drain"
    /\ Drain(AnyTimeouts)
    /\ wait' = None
    /\ UNCHANGED <<clock, caller, origin, call, input, handed, sent>>

\* The timeout around recv_from elapses.
Wake ==
    /\ wait = "asleep" /\ now >= WakeTime
    /\ wait' = None
    /\ IF IsDue THEN ApplyTimeout ELSE UNCHANGED <<due, inside, pending>>
    /\ UNCHANGED <<clock, caller, origin, call, input, handed, sent>>

Returns(payloads) ==
    /\ call' = None
    /\ handed' = handed \o payloads
    /\ pending' = SubSeq(pending, Len(payloads) + 1, Len(pending))

-------------------------------------------------------------------------------
(* send_audio_packet and send_video_packet. *)

\* pace_until has come to its end: the clock is read again after every input.
Paced == Looping /\ call.kind = "send" /\ now >= Until

\* pace_until sets the origin so that the first packet of a timeline is due at once.
StartSend ==
    /\ Idle /\ Sending /\ polls = 0 /\ turn <= Len(Offsets)
    /\ origin' = IF origin = None THEN now - Offsets[turn] ELSE origin
    /\ call' = [kind |-> "send", step |-> "pace"]
    /\ UNCHANGED <<clock, caller, wait, due, input, inside, pending, handed, sent>>

\* write_rtp with the drain after it, at the instant of the timeline.
Write ==
    /\ Paced
    /\ sent' = [at |-> now, wallclock |-> Until, offset |-> Offsets[turn], stage |-> stage]
    /\ Drain(AnyTimeouts)
    /\ call' = [call EXCEPT !.step = "apply"]
    /\ UNCHANGED <<clock, caller, origin, wait, input, handed>>

\* apply_due_timeouts, after a packet and before a look at the socket.
ApplyDue ==
    /\ ~Idle /\ call.kind \in {"send", "poll"} /\ call.step = "apply" /\ IsDue
    /\ ApplyTimeout
    /\ UNCHANGED <<clock, caller, origin, call, wait, input, handed, sent>>

\* The call returns, observe_send takes the lag, and a pass of drain_pending begins.
EndSend ==
    /\ ~Idle /\ call.kind = "send" /\ call.step = "apply" /\ ~IsDue
    /\ call' = None
    /\ turn' = turn + 1
    /\ polls' = DrainLimit
    /\ maxLag' = IF stage = "measured" THEN Max({maxLag, now - (started + Offsets[turn])})
                 ELSE maxLag
    /\ UNCHANGED <<clock, stage, started, deadline, origin, wait, due, input, inside, pending, handed, sent>>

-------------------------------------------------------------------------------
(* read_rtp_payload. *)

\* drain_pending calls it with no window, as long as it returns a payload.
StartPoll ==
    /\ Idle /\ Sending /\ polls > 0
    /\ call' = [kind |-> "poll", step |-> "apply", had |-> IF ready THEN arrived ELSE 0]
    /\ UNCHANGED <<clock, caller, origin, wait, due, input, inside, pending, handed, sent>>

PollReturns ==
    /\ ~Idle /\ call.kind = "poll" /\ pending # << >>
    /\ Returns(<<Head(pending)>>)
    /\ polls' = polls - 1
    /\ UNCHANGED <<clock, stage, turn, started, deadline, maxLag, origin, wait, due, input, inside, sent>>

\* try_recv_from finds a datagram; one that is no media does not end the loop.
PollReceives ==
    /\ ~Idle /\ call.kind = "poll" /\ call.step = "apply" /\ pending = << >> /\ ~IsDue
    /\ ready /\ socket # << >>
    /\ Feed(Head(socket))
    /\ socket' = Tail(socket)
    /\ call' = [call EXCEPT !.step = "drain"]
    /\ UNCHANGED <<clock, caller, origin, wait, due, ready, arrived, others, pending, handed, sent>>

PollDrains ==
    /\ ~Idle /\ call.kind = "poll" /\ call.step = "drain"
    /\ Drain(AnyTimeouts)
    /\ call' = [call EXCEPT !.step = "apply"]
    /\ UNCHANGED <<clock, caller, origin, wait, input, handed, sent>>

\* Mutant: a datagram that is no media ends the poll.
PollEmptyAtOther ==
    /\ ~Idle /\ call.kind = "poll" /\ call.step = "apply" /\ pending = << >> /\ ~IsDue
    /\ ~ready \/ \A i \in DOMAIN socket \intersect {1} : socket[i] = 0
    /\ Returns(<< >>)
    /\ polls' = 0
    /\ UNCHANGED <<clock, stage, turn, started, deadline, maxLag, origin, wait, due, input, inside, sent>>

\* WouldBlock, and the pass ends: the socket is empty, or tokio does not know yet that it is not
\* and so does not even look.
PollEmpty ==
    /\ ~Idle /\ call.kind = "poll" /\ call.step = "apply" /\ pending = << >> /\ ~IsDue
    /\ ~ready \/ socket = << >>
    /\ ready' = FALSE
    /\ Returns(<< >>)
    /\ polls' = 0
    /\ UNCHANGED <<clock, stage, turn, started, deadline, maxLag, origin, wait, due, socket, arrived,
                   others, inside, sent>>

\* receive_until_complete and drain_for call it with the rest of their time.
StartWindow ==
    /\ Idle /\ now < deadline
    /\ \/ stage \in {"settle", "quiet"}
       \/ stage = "complete" /\ Len(handed) < MaxPackets
    /\ call' = [kind |-> "window"]
    /\ UNCHANGED <<clock, caller, origin, wait, due, input, inside, pending, handed, sent>>

WindowReturns ==
    /\ ~Idle /\ call.kind = "window" /\ wait = None
    /\ \/ pending # << >> /\ Returns(<<Head(pending)>>)
       \/ pending = << >> /\ now >= deadline /\ Returns(<< >>)
    /\ UNCHANGED <<clock, caller, origin, wait, due, input, inside, sent>>

\* Mutant: what the RTC state machine has not given out is lost with the call.
CancelAndForget ==
    /\ wait # None /\ stage \in {"settle", "quiet"} /\ now >= deadline
    /\ wait' = None /\ call' = None
    /\ inside' = << >>
    /\ UNCHANGED <<clock, caller, origin, due, input, pending, handed, sent>>

\* The timeout of drain_for drops the call, wherever it waits.
Cancel ==
    /\ wait # None /\ stage \in {"settle", "quiet"} /\ now >= deadline
    /\ wait' = None /\ call' = None
    /\ UNCHANGED <<clock, caller, origin, due, input, inside, pending, handed, sent>>

\* The RTC connection disconnects, or the socket fails: the call and the peer's task end.
Fail ==
    /\ ~Idle
    /\ stage' = "failed" /\ call' = None /\ wait' = None
    /\ UNCHANGED <<clock, turn, polls, started, deadline, maxLag, origin, due, input, inside,
                   pending, handed, sent>>

-------------------------------------------------------------------------------
(* run_media_peer between the calls. *)

Parks == <<clock, call, wait, due, input, inside, pending, handed, sent, polls, maxLag>>

TimelineSent == Idle /\ polls = 0 /\ turn > Len(Offsets)

StartSettling ==
    /\ stage = "warmup" /\ TimelineSent
    /\ stage' = "settle"
    /\ deadline' = now + SettleTime
    /\ UNCHANGED <<Parks, turn, started, origin>>

\* reset_timelines and reset_send_pacing, after a barrier.
Reset ==
    /\ stage = "settle" /\ Idle /\ now >= deadline
    /\ stage' = "reset"
    /\ turn' = 1
    /\ origin' = None
    /\ deadline' = now
    /\ UNCHANGED <<Parks, started>>

\* Mutant: the measured timeline begins with the peer's first packet.
SetNoOrigin ==
    /\ stage = "reset"
    /\ \E first \in deadline .. now : started' = first + StartLead
    /\ stage' = "measured"
    /\ deadline' = started' + Target + PacketTimeout
    /\ UNCHANGED <<Parks, turn, origin>>

\* set_send_origin of the instant that the first peer to come has set after the next barrier;
\* then the barrier and the acknowledgement before the measured work.
SetOrigin ==
    /\ stage = "reset"
    /\ \E first \in deadline .. now : started' = first + StartLead
    /\ origin' = started'
    /\ stage' = "measured"
    /\ deadline' = started' + Target + PacketTimeout
    /\ UNCHANGED <<Parks, turn>>

StartCompleting ==
    /\ stage = "measured" /\ TimelineSent
    /\ stage' = "complete"
    /\ UNCHANGED <<Parks, turn, started, deadline, origin>>

\* The ledger is complete or the time is up; then two barriers.
StartQuiet ==
    /\ stage = "complete" /\ Idle
    /\ Len(handed) = MaxPackets \/ now >= deadline
    /\ stage' = "quiet"
    /\ deadline' = now + SettleTime
    /\ UNCHANGED <<Parks, turn, started, origin>>

Close ==
    /\ stage = "quiet" /\ Idle /\ now >= deadline
    /\ stage' = "done"
    /\ UNCHANGED <<Parks, turn, started, deadline, origin>>

-------------------------------------------------------------------------------
(* The environment. *)

Ended == stage \in {"done", "failed"}

Blocked == wait = "asleep" /\ ~ready /\ now < WakeTime

Elapse ==
    /\ ~Ended
    /\ \/ Blocked /\ UNCHANGED stalled
       \/ ~Blocked /\ stalled < MaxStall /\ stalled' = stalled + 1
    /\ now' = now + 1
    /\ UNCHANGED <<caller, origin, call, wait, due, input, inside, pending, handed, sent>>

ArriveMedia ==
    /\ ~Ended /\ arrived < MaxPackets
    /\ arrived' = arrived + 1
    /\ socket' = Append(socket, arrived')
    /\ UNCHANGED <<clock, caller, origin, call, wait, due, ready, others, inside, pending, handed, sent>>

ArriveOther ==
    /\ ~Ended /\ others < MaxOther
    /\ others' = others + 1
    /\ socket' = Append(socket, 0)
    /\ UNCHANGED <<clock, caller, origin, call, wait, due, ready, arrived, inside, pending, handed, sent>>

\* The runtime polls its I/O driver, and learns of the datagrams that have arrived.
Notice ==
    /\ ~Ended /\ ~ready /\ socket # << >>
    /\ ready' = TRUE
    /\ UNCHANGED <<clock, caller, origin, call, wait, due, socket, arrived, others, inside, pending,
                   handed, sent>>

-------------------------------------------------------------------------------
\* LoadPeer as into_load_peer hands it over, with its timers running.
Init ==
    /\ now = 0 /\ stalled = 0
    /\ stage = "warmup" /\ turn = 1 /\ polls = 0 /\ started = None /\ deadline = 0 /\ maxLag = 0
    /\ origin = None /\ call = None /\ wait = None
    /\ due \in AnyTimeouts
    /\ socket = << >> /\ ready \in BOOLEAN /\ arrived = 0 /\ others = 0
    /\ inside = << >> /\ pending = << >> /\ handed = << >>
    /\ sent = None

CallStep ==
    \/ WaitOverdue \/ Sleep \/ Receive \/ FindNothing \/ DrainReceived \/ Wake
    \/ Write \/ ApplyDue \/ EndSend
    \/ PollReturns \/ PollReceives \/ PollDrains \/ PollEmpty
    \/ WindowReturns \/ Cancel

CallerStep ==
    \/ StartSend \/ StartPoll \/ StartWindow
    \/ StartSettling \/ Reset \/ SetOrigin \/ StartCompleting \/ StartQuiet \/ Close

Next == CallStep \/ CallerStep \/ Fail \/ Elapse \/ ArriveMedia \/ ArriveOther \/ Notice

\* The runtime polls the task when it can go on, and time passes.  Whether and when it polls its
\* I/O driver is left open: the peer does not wait for a datagram without a timer.
Fairness == WF_vars(CallStep) /\ WF_vars(CallerStep) /\ WF_vars(Elapse)

Spec == Init /\ [][Next]_vars /\ Fairness

-------------------------------------------------------------------------------
(* Properties. *)

\* What has been read of the socket, in the order in which the ledger gets it.
Read == handed \o pending \o inside

\* What arrives is handed to the ledger in the order of its arrival, each packet once and none
\* lost, whichever of pacing, timers, polls, windows and dropped calls reads it: the first packets
\* have been read in order, and the socket holds the others in order (rtc.rs:206-229, 354-401).
ReadsInOrder ==
    /\ Len(Read) <= arrived /\ \A i \in 1 .. Len(Read) : Read[i] = i
    /\ \A k \in 1 .. Len(socket) : socket[k] \in {0} \union (Len(Read) + 1 .. arrived)
    /\ \A k, l \in 1 .. Len(socket) : k < l /\ socket[l] # 0 => socket[k] < socket[l]
    /\ \A i \in Len(Read) + 1 .. arrived : \E k \in 1 .. Len(socket) : socket[k] = i

\* A packet is never written before its instant, whatever wakes the peer until then; the packets
\* of a stage keep the distances of their timeline, and those of the measured stage are on the
\* timeline that their lag is taken from and that all peers share (rtc.rs:239-250).
PacketsFollowTimeline ==
    [][sent' # sent =>
        /\ sent'.at >= sent'.wallclock
        /\ sent # None /\ sent.stage = sent'.stage =>
               sent'.wallclock - sent.wallclock = sent'.offset - sent.offset
        /\ sent'.stage = "measured" => sent'.wallclock = started + sent'.offset]_vars

\* The timeouts of the RTC state machine are served while the peer waits for a packet's instant
\* or for media: they are late by no more than the time in which it was kept from running or was
\* parked (rtc.rs:300, 361-385).
TimersAreServed == due # Never => now - due <= stalled

\* A pass over the socket that ends early has handed out all that had arrived when its last read
\* began, if tokio held the socket for readable then: neither an overdue timeout nor a datagram of
\* no media hides a packet.  What tokio had not noticed is left to a later read, and a pass may
\* end with it in the socket (rtc.rs:213-219, 388-401).
PollMissesNothing ==
    [][Idle' /\ ~Idle /\ call.kind = "poll" /\ ~(stage' = "failed") /\ handed' = handed
        => Len(handed) >= call.had]_vars

\* Every call ends, and with them the work of the peer, whenever what arrives does so and
\* whatever the RTC state machine asks for, provided that no more than a number of datagrams
\* comes: nothing but their end bounds the loop of a read without a window (rtc.rs:213-219) and
\* the timeouts that each of them may ask for.
PeerEnds == <>Ended
===============================================================================
