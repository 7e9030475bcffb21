----------------------------- MODULE RtcPeerProofs -----------------------------
(***************************************************************************)
(* For every timeline, every number of packets and every bound: a peer     *)
(* hands over what arrives in order and without loss, serves the timers of *)
(* its RTC state machine, writes packets on their timeline, and misses     *)
(* nothing when it polls a socket that is known to be readable.            *)
(***************************************************************************)
EXTENDS RtcPeer, SequenceTheorems, TLAPS

-------------------------------------------------------------------------------
(* The inductive invariant. *)

Stages == {"warmup", "settle", "reset", "measured", "complete", "quiet", "done", "failed"}

ClockOK == now \in Nat /\ stalled \in Nat /\ due \in Int

BuffersOK ==
    /\ socket \in Seq(Nat) /\ ready \in BOOLEAN /\ arrived \in Nat /\ others \in Nat
    /\ inside \in Seq(Nat) /\ pending \in Seq(Nat) /\ handed \in Seq(Nat)

ControlOK ==
    /\ stage \in Stages
    /\ turn \in Nat \ {0}
    /\ polls \in Nat
    /\ started \in Int \union {None} /\ origin \in Int \union {None}
    /\ deadline \in Nat /\ maxLag \in Int
    /\ call \in Calls \union {None}
    /\ wait \in {None, "asleep", "drain"}
    /\ sent \in Packets \union {None}

TypeOK == ClockOK /\ BuffersOK /\ ControlOK

InSend == ~Idle /\ call.kind = "send"
InPoll == ~Idle /\ call.kind = "poll"
InWindow == ~Idle /\ call.kind = "window"

\* Which call is made at which stage, and where it can wait; a poll that began while the socket
\* was held for readable finds it so to its end.
CallInv ==
    /\ Idle => wait = None
    /\ InSend => /\ Sending /\ polls = 0 /\ origin \in Int /\ turn \in 1 .. Len(Offsets)
                 /\ call.step = "apply" => wait = None
    /\ InPoll => /\ Sending /\ polls > 0 /\ wait = None
                 /\ call.had <= arrived /\ (call.had # 0 => ready)
    /\ InWindow => stage \in {"settle", "complete", "quiet"}
    /\ stage \notin {"warmup", "measured", "failed"} => polls = 0

\* A dropped call may leave payloads inside the RTC state machine, but the next packet takes them
\* out, so that none is there when the socket is polled.
InsideInv ==
    /\ InSend /\ call.step = "apply" => inside = << >>
    /\ InPoll /\ call.step = "apply" => inside = << >>
    /\ InPoll /\ call.step = "drain" => pending = << >>
    /\ Idle /\ Sending /\ polls > 0 => inside = << >>

\* The packets of a stage are on the timeline that began with its origin.
TimelineInv ==
    /\ stage = "measured" => origin = started /\ origin \in Int
    /\ sent # None /\ sent.stage = "measured" => stage \notin {"warmup", "settle", "reset"}
    /\ sent # None /\ sent.stage = stage =>
           origin \in Int /\ sent.wallclock = origin + sent.offset

IInv ==
    /\ TypeOK
    /\ CallInv
    /\ InsideInv
    /\ TimelineInv
    /\ ReadsInOrder
    /\ TimersAreServed

-------------------------------------------------------------------------------
(* Constants, calls and the two choices of FiniteSetsExt. *)

\* What the rules for the constants say, one by one.
LEMMA Constants ==
    /\ \A i \in 1 .. Len(Offsets) : Offsets[i] \in Nat
    /\ Len(Offsets) \in Nat
    /\ SettleTime \in Nat /\ StartLead \in Nat /\ PacketTimeout \in Nat /\ Target \in Nat
    /\ MaxPackets \in Nat /\ MaxOther \in Nat /\ MaxStall \in Nat /\ DrainLimit \in Nat
    /\ None \notin Int /\ None \notin Calls /\ None \notin Packets
    /\ None # "asleep" /\ None # "drain"
<1>1. Offsets \in Seq(Nat) /\ DrainLimit \in Nat
  BY PeerAssumption
<1>2. {SettleTime, StartLead, PacketTimeout, Target, MaxPackets, MaxOther, MaxStall} \subseteq Nat
  BY PeerAssumption
<1>3. None \notin Int \union {"asleep", "drain"} \union Calls \union Packets
  BY PeerAssumption
<1> QED
  BY <1>1, <1>2, <1>3, ElementOfSeq, LenProperties

\* A call is of one of three kinds, and each has its own fields.
LEMMA CallShapes ==
    /\ \A c \in Calls : c.kind \in {"send", "poll", "window"}
    /\ \A c \in Calls : c.kind = "send" =>
           /\ c.step \in {"pace", "apply"}
           /\ [c EXCEPT !.step = "apply"] = [kind |-> "send", step |-> "apply"]
    /\ \A c \in Calls : c.kind = "poll" =>
           /\ c.step \in {"apply", "drain"} /\ c.had \in Nat
           /\ \A step : [c EXCEPT !.step = step]
                  = [kind |-> "poll", step |-> step, had |-> c.had]
    /\ \A step \in {"pace", "apply"} : [kind |-> "send", step |-> step] \in Calls
    /\ \A step \in {"apply", "drain"}, had \in Nat :
           [kind |-> "poll", step |-> step, had |-> had] \in Calls
    /\ [kind |-> "window"] \in Calls
BY DEF Calls

\* The earlier of two deadlines.
LEMMA MinOfTwo ==
    ASSUME NEW a \in Int, NEW b \in Int
    PROVE  Min({a, b}) \in Int /\ Min({a, b}) <= a /\ Min({a, b}) <= b
<1>1. \E x \in {a, b} : \A y \in {a, b} : x =< y
  OBVIOUS
<1> QED
  BY <1>1 DEF Min

\* The longer of two lags.
LEMMA MaxOfTwo ==
    ASSUME NEW a \in Int, NEW b \in Int
    PROVE  Max({a, b}) \in Int
<1>1. \E x \in {a, b} : \A y \in {a, b} : x >= y
  OBVIOUS
<1> QED
  BY <1>1 DEF Max

-------------------------------------------------------------------------------
(* What a step does to the payloads. *)

Kept == Read' = Read /\ UNCHANGED <<socket, arrived>>

Fed == /\ socket # << >> /\ socket' = Tail(socket) /\ arrived' = arrived
       /\ Read' = IF Head(socket) = 0 THEN Read ELSE Append(Read, Head(socket))

MediaCame == /\ Read' = Read /\ arrived' = arrived + 1
             /\ socket' = Append(socket, arrived + 1)

OtherCame == Read' = Read /\ arrived' = arrived /\ socket' = Append(socket, 0)

\* Concatenation of payloads is associative.
LEMMA Regrouping == \A r, s, t \in Seq(Nat) : (r \o s) \o t = r \o (s \o t)
BY SMTT(30), ConcatAssociative

\* Payloads that move on keep their order: from the RTC state machine to the queue, from the
\* queue to the ledger.
LEMMA MovingOn ==
    ASSUME NEW h \in Seq(Nat), NEW p \in Seq(Nat), NEW i \in Seq(Nat)
    PROVE  /\ h \o p \o i \in Seq(Nat)
           /\ (h \o (p \o i)) \o << >> = h \o p \o i
           /\ (h \o << >>) \o SubSeq(p, 1, Len(p)) \o i = h \o p \o i
           /\ p # << >> => (h \o <<Head(p)>>) \o SubSeq(p, 2, Len(p)) \o i = h \o p \o i
<1>1. h \o p \in Seq(Nat) /\ p \o i \in Seq(Nat) /\ h \o p \o i \in Seq(Nat)
  BY ConcatProperties
<1>2. (h \o (p \o i)) \o << >> = h \o p \o i
  <2>1. h \o (p \o i) = h \o p \o i
    BY SMTT(30), ConcatAssociative
  <2> QED
    BY <1>1, <2>1, ConcatEmptySeq
<1>3. (h \o << >>) \o SubSeq(p, 1, Len(p)) \o i = h \o p \o i
  BY ConcatEmptySeq, SubSeqFull
<1>4. ASSUME p # << >>
      PROVE  (h \o <<Head(p)>>) \o SubSeq(p, 2, Len(p)) \o i = h \o p \o i
  <2>1. Head(p) \in Nat /\ Tail(p) \in Seq(Nat) /\ Tail(p) = SubSeq(p, 2, Len(p))
    BY <1>4, HeadTailProperties, TailIsSubSeq
  <2> DEFINE first == <<Head(p)>>
  <2>2. first \in Seq(Nat)
    BY <2>1
  <2>3. first \o Tail(p) = p
    <3>1. Len(p) \in 1 .. Len(p) /\ Len(p) \in Nat /\ 1 \in 1 .. Len(p)
      BY <1>4, EmptySeq
    <3>2. SubSeq(p, 1, Len(p)) = <<p[1]>> \o SubSeq(p, 1 + 1, Len(p))
      BY <3>1, SubSeqRecursiveFirst
    <3> QED
      BY <3>2, <2>1, SubSeqFull, <1>4
  <2> DEFINE rest == Tail(p)
  <2>4. rest \in Seq(Nat) /\ first \o rest = p
    BY <2>1, <2>3
  <2> HIDE DEF first, rest
  <2>5. (h \o first) \o rest = h \o (first \o rest)
    BY Zenon, <2>2, <2>4, Regrouping
  <2>6. (h \o first) \o rest = h \o p
    BY <2>4, <2>5
  <2> USE DEF first, rest
  <2> QED
    BY <2>1, <2>6
<1> QED
  BY <1>1, <1>2, <1>3, <1>4

\* A payload that the RTC state machine takes in comes after all others.
LEMMA ComingLast ==
    \A q, i \in Seq(Nat), d \in Nat : q \o Append(i, d) = Append(q \o i, d)
<1>1. SUFFICES ASSUME NEW q \in Seq(Nat), NEW i \in Seq(Nat), NEW d \in Nat
               PROVE  q \o Append(i, d) = Append(q \o i, d)
  OBVIOUS
<1>2. <<d>> \in Seq(Nat) /\ q \o i \in Seq(Nat)
  BY ConcatProperties
<1>3. Append(i, d) = i \o <<d>> /\ Append(q \o i, d) = (q \o i) \o <<d>>
  BY <1>2, AppendIsConcat
<1> QED
  BY <1>2, <1>3, ConcatAssociative

\* What drain_outputs moves from the RTC state machine to the queue has been counted before.
LEMMA Draining ==
    ASSUME TypeOK, NEW timeouts, Drain(timeouts), UNCHANGED <<handed, socket, arrived>>
    PROVE  Kept
BY MovingOn DEF TypeOK, BuffersOK, Drain, Kept, Read

\* What a poll returns, if anything, is the first of the queue.
LEMMA Returning ==
    ASSUME TypeOK, UNCHANGED <<inside, socket, arrived>>,
           Returns(<< >>) \/ (pending # << >> /\ Returns(<<Head(pending)>>))
    PROVE  Kept
<1>0. handed \in Seq(Nat) /\ pending \in Seq(Nat) /\ inside \in Seq(Nat)
  BY DEF TypeOK, BuffersOK
<1>1. CASE Returns(<< >>)
  <2>1. pending' = SubSeq(pending, 1, Len(pending)) /\ handed' = handed \o << >>
    BY <1>1, EmptySeq DEF Returns
  <2> QED
    BY <1>0, <2>1, MovingOn DEF Kept, Read
<1>2. CASE pending # << >> /\ Returns(<<Head(pending)>>)
  <2>1. pending' = SubSeq(pending, 2, Len(pending)) /\ handed' = handed \o <<Head(pending)>>
    BY <1>2 DEF Returns
  <2> QED
    BY <1>0, <1>2, <2>1, MovingOn DEF Kept, Read
<1> QED
  BY <1>1, <1>2

\* A datagram that is fed to the RTC state machine was the first in the socket.
LEMMA Feeding ==
    ASSUME TypeOK, socket # << >>, Feed(Head(socket)), socket' = Tail(socket),
           UNCHANGED <<handed, pending, arrived>>
    PROVE  Fed
<1>0. /\ handed \in Seq(Nat) /\ pending \in Seq(Nat) /\ inside \in Seq(Nat)
      /\ socket \in Seq(Nat)
  BY DEF TypeOK, BuffersOK
<1>1. Head(socket) \in Nat
  BY <1>0, HeadTailProperties
<1>2. CASE Head(socket) = 0
  BY <1>2 DEF Feed, Fed, Read
<1>3. CASE Head(socket) # 0
  <2>1. inside' = Append(inside, Head(socket))
    BY <1>3 DEF Feed
  <2>2. handed \o pending \o Append(inside, Head(socket))
            = Append(handed \o pending \o inside, Head(socket))
    <3>1. handed \o pending \in Seq(Nat)
      BY <1>0, ConcatProperties
    <3> QED
      BY <1>0, <1>1, <3>1, ComingLast
  <2> QED
    BY <1>3, <2>1, <2>2 DEF Fed, Read
<1> QED
  BY <1>2, <1>3

\* Of all steps, only reading the socket and arrivals change what is read and what is to be read.
LEMMA Flow ==
    ASSUME TypeOK, [Next]_vars
    PROVE  Kept \/ Fed \/ MediaCame \/ OtherCame
<1>1. CASE WaitOverdue \/ DrainReceived \/ Write \/ ApplyDue \/ PollDrains
  BY <1>1, Draining
  DEF WaitOverdue, DrainReceived, Write, ApplyDue, PollDrains, ApplyTimeout, input
<1>2. CASE Wake
  <2>1. CASE IsDue
    BY <1>2, <2>1, Draining DEF Wake, ApplyTimeout, input
  <2>2. CASE ~IsDue
    BY <1>2, <2>2 DEF Wake, input, Kept, Read
  <2> QED
    BY <2>1, <2>2
<1>3. CASE Receive
  BY <1>3, Feeding DEF Receive
<1>4. CASE PollReceives
  BY <1>4, Feeding DEF PollReceives
<1>5. CASE PollReturns \/ PollEmpty \/ WindowReturns
  BY <1>5, Returning DEF PollReturns, PollEmpty, WindowReturns, input
<1>6. CASE \/ Sleep \/ Cancel \/ EndSend \/ Fail \/ Elapse \/ StartSend \/ StartPoll \/ StartWindow
           \/ FindNothing \/ Notice
  BY <1>6
  DEF FindNothing, Notice, Sleep, Cancel, EndSend, Fail, Elapse, StartSend, StartPoll, StartWindow, input, Kept,
      Read
<1>7. CASE StartSettling \/ Reset \/ SetOrigin \/ StartCompleting \/ StartQuiet \/ Close
  BY <1>7
  DEF StartSettling, Reset, SetOrigin, StartCompleting, StartQuiet, Close, Parks, input, Kept, Read
<1>8. CASE ArriveMedia
  BY <1>8 DEF ArriveMedia, MediaCame, Read
<1>9. CASE ArriveOther
  BY <1>9 DEF ArriveOther, OtherCame, Read
<1>10. CASE UNCHANGED vars
  BY <1>10 DEF vars, input, Kept, Read
<1> QED
  BY <1>1, <1>2, <1>3, <1>4, <1>5, <1>6, <1>7, <1>8, <1>9, <1>10
  DEF Next, CallStep, CallerStep

\* Neither of them brings a packet out of order, twice, or to nobody.
LEMMA OrderKept ==
    ASSUME TypeOK, ReadsInOrder, [Next]_vars
    PROVE  ReadsInOrder'
<1>0. Read \in Seq(Nat) /\ socket \in Seq(Nat) /\ arrived \in Nat
  BY MovingOn DEF TypeOK, BuffersOK, Read
<1>1. /\ Len(Read) <= arrived /\ Len(Read) \in Nat /\ Len(socket) \in Nat
      /\ \A i \in 1 .. Len(Read) : Read[i] = i
      /\ \A k \in 1 .. Len(socket) : socket[k] \in {0} \union (Len(Read) + 1 .. arrived)
      /\ \A k, l \in 1 .. Len(socket) : k < l /\ socket[l] # 0 => socket[k] < socket[l]
      /\ \A i \in Len(Read) + 1 .. arrived : \E k \in 1 .. Len(socket) : socket[k] = i
  BY <1>0, LenProperties DEF ReadsInOrder
<1>2. CASE Kept
  BY <1>2 DEF Kept, ReadsInOrder
<1>3. CASE Fed
  <2>1. /\ Head(socket) = socket[1] /\ socket' \in Seq(Nat)
        /\ Len(socket') = Len(socket) - 1 /\ Len(socket) > 0
        /\ \A k \in 1 .. Len(socket') : socket'[k] = socket[k + 1]
    BY <1>0, <1>3, EmptySeq, HeadTailProperties DEF Fed
  <2>2. ASSUME NEW k \in 1 .. Len(socket'), NEW l \in 1 .. Len(socket'), k < l, socket'[l] # 0
        PROVE  socket'[k] < socket'[l]
    <3>1. k + 1 \in 1 .. Len(socket) /\ l + 1 \in 1 .. Len(socket) /\ k + 1 < l + 1
      BY <1>1, <2>1, <2>2
    <3>2. socket'[k] = socket[k + 1] /\ socket'[l] = socket[l + 1]
      BY <2>1
    <3> QED
      BY <1>1, <2>2, <3>1, <3>2
  <2>3. CASE Head(socket) = 0
    <3>1. Read' = Read /\ arrived' = arrived
      BY <1>3, <2>3 DEF Fed
    <3>2. ASSUME NEW i \in Len(Read) + 1 .. arrived
          PROVE  \E k \in 1 .. Len(socket') : socket'[k] = i
      <4>1. PICK k \in 1 .. Len(socket) : socket[k] = i
        BY <1>1
      <4>2. k - 1 \in 1 .. Len(socket') /\ socket'[k - 1] = i
        BY <1>1, <2>1, <2>3, <4>1
      <4> QED
        BY <4>2
    <3>3. \A k \in 1 .. Len(socket') : socket'[k] \in {0} \union (Len(Read) + 1 .. arrived)
      BY SMTT(30), <1>1, <2>1
    <3>4. \A k, l \in 1 .. Len(socket') : k < l /\ socket'[l] # 0 => socket'[k] < socket'[l]
      BY <2>2
    <3> QED
      BY <1>1, <3>1, <3>2, <3>3, <3>4 DEF ReadsInOrder
  <2>4. CASE Head(socket) # 0
    <3>1. Head(socket) = Len(Read) + 1 /\ Len(Read) + 1 <= arrived
      <4>1. socket[1] \in Len(Read) + 1 .. arrived
        BY <1>1, <2>1, <2>4
      <4>2. Len(Read) + 1 \in Len(Read) + 1 .. arrived
        BY <1>0, <1>1, <4>1
      <4>3. PICK k \in 1 .. Len(socket) : socket[k] = Len(Read) + 1
        BY <1>1, <4>2
      <4>4. k = 1
        BY <1>1, <4>1, <4>3
      <4> QED
        BY <4>2, <4>3, <4>4, <2>1
    <3>2. /\ Len(Read') = Len(Read) + 1
          /\ \A i \in 1 .. Len(Read) : Read'[i] = Read[i]
          /\ Read'[Len(Read) + 1] = Len(Read) + 1
          /\ arrived' = arrived
      BY <1>0, <1>3, <2>4, <3>1, AppendProperties DEF Fed
    <3>3. \A i \in 1 .. Len(Read') : Read'[i] = i
      BY <1>1, <3>2
    <3>4. \A k \in 1 .. Len(socket') : socket'[k] \in {0} \union (Len(Read) + 2 .. arrived)
      <4>1. SUFFICES ASSUME NEW k \in 1 .. Len(socket')
                     PROVE  socket'[k] \in {0} \union (Len(Read) + 2 .. arrived)
        OBVIOUS
      <4>2. k + 1 \in 1 .. Len(socket) /\ socket'[k] = socket[k + 1] /\ 1 \in 1 .. Len(socket)
        BY <1>1, <2>1
      <4>3. socket[k + 1] \in {0} \union (Len(Read) + 1 .. arrived)
        BY <1>1, <4>2
      <4>4. socket[k + 1] # 0 => socket[1] < socket[k + 1]
        BY <1>1, <4>2
      <4> QED
        BY <1>1, <2>1, <3>1, <4>2, <4>3, <4>4
    <3>5. \A k, l \in 1 .. Len(socket') : k < l /\ socket'[l] # 0 => socket'[k] < socket'[l]
      BY <2>2
    <3>6. ASSUME NEW i \in Len(Read) + 2 .. arrived
          PROVE  \E k \in 1 .. Len(socket') : socket'[k] = i
      <4>1. PICK k \in 1 .. Len(socket) : socket[k] = i
        BY <1>1
      <4>2. k - 1 \in 1 .. Len(socket') /\ socket'[k - 1] = i
        BY <1>1, <2>1, <3>1, <4>1
      <4> QED
        BY <4>2
    <3> QED
      BY <1>1, <3>1, <3>2, <3>3, <3>4, <3>5, <3>6 DEF ReadsInOrder
  <2> QED
    BY <2>3, <2>4
<1>4. ASSUME NEW d \in Nat, socket' = Append(socket, d)
      PROVE  /\ Len(socket') = Len(socket) + 1 /\ socket'[Len(socket) + 1] = d
             /\ \A k \in 1 .. Len(socket) : socket'[k] = socket[k]
  BY <1>0, <1>4, AppendProperties
<1>5. CASE MediaCame
  <2>1. /\ Len(socket') = Len(socket) + 1 /\ socket'[Len(socket) + 1] = arrived + 1
        /\ \A k \in 1 .. Len(socket) : socket'[k] = socket[k]
        /\ Read' = Read /\ arrived' = arrived + 1
    BY <1>0, <1>4, <1>5 DEF MediaCame
  <2>2. ASSUME NEW k \in 1 .. Len(socket')
        PROVE  socket'[k] \in {0} \union (Len(Read) + 1 .. arrived + 1)
    <3>1. CASE k = Len(socket) + 1
      BY <1>0, <1>1, <2>1, <3>1
    <3>2. CASE k \in 1 .. Len(socket)
      <4>1. socket[k] \in {0} \union (Len(Read) + 1 .. arrived)
        BY <1>1, <3>2
      <4> QED
        BY <1>0, <1>1, <2>1, <3>2, <4>1
    <3> QED
      BY <1>1, <2>1, <3>1, <3>2
  <2>3. ASSUME NEW k \in 1 .. Len(socket'), NEW l \in 1 .. Len(socket'), k < l, socket'[l] # 0
        PROVE  socket'[k] < socket'[l]
    <3>0. k \in 1 .. Len(socket) /\ socket'[k] = socket[k]
      BY <1>1, <2>1, <2>3
    <3>1. CASE l = Len(socket) + 1
      <4>1. socket[k] \in {0} \union (Len(Read) + 1 .. arrived)
        BY <1>1, <3>0
      <4> QED
        BY <1>0, <1>1, <2>1, <3>0, <3>1, <4>1
    <3>2. CASE l \in 1 .. Len(socket)
      BY <1>1, <2>1, <2>3, <3>0, <3>2
    <3> QED
      BY <1>1, <2>1, <3>1, <3>2
  <2>4. \A i \in Len(Read) + 1 .. arrived + 1 : \E k \in 1 .. Len(socket') : socket'[k] = i
    BY <1>0, <1>1, <2>1
  <2> QED
    BY <1>0, <1>1, <2>1, <2>2, <2>3, <2>4 DEF ReadsInOrder
<1>6. CASE OtherCame
  <2>1. /\ Len(socket') = Len(socket) + 1 /\ socket'[Len(socket) + 1] = 0
        /\ \A k \in 1 .. Len(socket) : socket'[k] = socket[k]
        /\ Read' = Read /\ arrived' = arrived
    BY <1>0, <1>4, <1>6 DEF OtherCame
  <2>2. ASSUME NEW k \in 1 .. Len(socket')
        PROVE  socket'[k] \in {0} \union (Len(Read) + 1 .. arrived)
    <3>1. k = Len(socket) + 1 \/ k \in 1 .. Len(socket)
      BY <1>1, <2>1
    <3> QED
      BY <1>1, <2>1, <3>1
  <2>3. ASSUME NEW k \in 1 .. Len(socket'), NEW l \in 1 .. Len(socket'), k < l, socket'[l] # 0
        PROVE  socket'[k] < socket'[l]
    <3>1. k \in 1 .. Len(socket) /\ l \in 1 .. Len(socket)
      BY <1>1, <2>1, <2>3
    <3> QED
      BY <1>1, <2>1, <2>3, <3>1
  <2>4. \A i \in Len(Read) + 1 .. arrived : \E k \in 1 .. Len(socket') : socket'[k] = i
    BY <1>0, <1>1, <2>1
  <2> QED
    BY <1>0, <1>1, <2>1, <2>2, <2>3, <2>4 DEF ReadsInOrder
<1> QED
  BY Flow, <1>2, <1>3, <1>5, <1>6

-------------------------------------------------------------------------------
(* Types. *)

\* The three kinds of calls, with what the peer is at while it makes them.
LEMMA InCall ==
    ASSUME TypeOK, CallInv, ~Idle
    PROVE  /\ call \in Calls /\ call.kind \in {"send", "poll", "window"}
           /\ Until \in Int \/ InPoll
           /\ wait # None => ~InPoll
<1>1. call \in Calls /\ call.kind \in {"send", "poll", "window"}
  BY CallShapes DEF TypeOK, ControlOK, Idle
<1>2. InSend => Until \in Int
  BY Constants DEF Until, InSend, CallInv
<1>3. InWindow => Until \in Int
  BY DEF Until, InWindow, TypeOK, ControlOK
<1> QED
  BY <1>1, <1>2, <1>3 DEF InSend, InPoll, InWindow, CallInv

\* Every step keeps the buffers sequences of payloads.
LEMMA BuffersStep ==
    ASSUME TypeOK, [Next]_vars
    PROVE  BuffersOK'
<1>0. /\ socket \in Seq(Nat) /\ ready \in BOOLEAN /\ arrived \in Nat /\ others \in Nat
      /\ inside \in Seq(Nat) /\ pending \in Seq(Nat) /\ handed \in Seq(Nat)
  BY DEF TypeOK, BuffersOK
<1>1. ASSUME NEW timeouts, Drain(timeouts) PROVE inside' \in Seq(Nat) /\ pending' \in Seq(Nat)
  BY <1>0, <1>1, ConcatProperties DEF Drain
<1>2. ASSUME Returns(<< >>) \/ (pending # << >> /\ Returns(<<Head(pending)>>))
      PROVE  handed' \in Seq(Nat) /\ pending' \in Seq(Nat)
  <2>1. CASE Returns(<< >>)
    <3>1. pending' = SubSeq(pending, 1, Len(pending)) /\ handed' = handed \o << >>
      BY <2>1, EmptySeq DEF Returns
    <3> QED
      BY <1>0, <3>1, ConcatEmptySeq, SubSeqFull
  <2>2. CASE pending # << >> /\ Returns(<<Head(pending)>>)
    <3>1. pending' = SubSeq(pending, 2, Len(pending)) /\ handed' = handed \o <<Head(pending)>>
      BY <2>2 DEF Returns
    <3>2. Head(pending) \in Nat /\ Tail(pending) \in Seq(Nat) /\ pending' = Tail(pending)
      BY <1>0, <2>2, <3>1, HeadTailProperties, TailIsSubSeq
    <3>3. handed' = Append(handed, Head(pending))
      BY <1>0, <3>1, <3>2, AppendIsConcat
    <3> QED
      BY <1>0, <3>2, <3>3, AppendProperties
  <2> QED
    BY <1>2, <2>1, <2>2
<1>3. ASSUME socket # << >>, Feed(Head(socket)) PROVE inside' \in Seq(Nat)
  <2>1. Head(socket) \in Nat
    BY <1>0, <1>3, HeadTailProperties
  <2>2. Append(inside, Head(socket)) \in Seq(Nat)
    BY <1>0, <2>1, AppendProperties
  <2> QED
    BY <1>0, <1>3, <2>2 DEF Feed
<1>4. CASE WaitOverdue \/ DrainReceived \/ Write \/ ApplyDue \/ PollDrains
  BY <1>0, <1>1, <1>4
  DEF WaitOverdue, DrainReceived, Write, ApplyDue, PollDrains, ApplyTimeout, input, BuffersOK
<1>5. CASE Wake
  <2>1. CASE IsDue
    BY <1>0, <1>1, <1>5, <2>1 DEF Wake, ApplyTimeout, input, BuffersOK
  <2>2. CASE ~IsDue
    BY <1>0, <1>5, <2>2 DEF Wake, input, BuffersOK
  <2> QED
    BY <2>1, <2>2
<1>6. CASE Receive \/ PollReceives
  <2>1. inside' \in Seq(Nat) /\ socket' = Tail(socket) /\ socket # << >>
    BY <1>3, <1>6 DEF Receive, PollReceives
  <2>2. socket' \in Seq(Nat)
    BY <1>0, <2>1, HeadTailProperties
  <2> QED
    BY <1>0, <1>6, <2>1, <2>2 DEF Receive, PollReceives, BuffersOK
<1>7. CASE PollReturns \/ PollEmpty \/ WindowReturns
  BY <1>0, <1>2, <1>7 DEF PollReturns, PollEmpty, WindowReturns, input, BuffersOK
<1>8. CASE \/ Sleep \/ Cancel \/ EndSend \/ Fail \/ Elapse \/ StartSend \/ StartPoll \/ StartWindow
           \/ FindNothing \/ Notice
  BY <1>0, <1>8
  DEF FindNothing, Notice, Sleep, Cancel, EndSend, Fail, Elapse, StartSend, StartPoll, StartWindow,
      input, BuffersOK
<1>9. CASE StartSettling \/ Reset \/ SetOrigin \/ StartCompleting \/ StartQuiet \/ Close
  BY <1>0, <1>9
  DEF StartSettling, Reset, SetOrigin, StartCompleting, StartQuiet, Close, Parks, input, BuffersOK
<1>10. CASE ArriveMedia \/ ArriveOther
  <2>1. Append(socket, arrived + 1) \in Seq(Nat) /\ Append(socket, 0) \in Seq(Nat)
    BY <1>0, AppendProperties
  <2>2. CASE ArriveMedia
    <3>1. arrived' = arrived + 1 /\ socket' = Append(socket, arrived + 1)
      BY <2>2 DEF ArriveMedia
    <3> QED
      BY <1>0, <2>1, <2>2, <3>1 DEF ArriveMedia, BuffersOK
  <2>3. CASE ArriveOther
    BY <1>0, <2>1, <2>3 DEF ArriveOther, BuffersOK
  <2> QED
    BY <1>10, <2>2, <2>3
<1>11. CASE UNCHANGED vars
  BY <1>0, <1>11 DEF vars, input, BuffersOK
<1> QED
  BY <1>4, <1>5, <1>6, <1>7, <1>8, <1>9, <1>10, <1>11 DEF Next, CallStep, CallerStep

\* A timeout that is asked for is not yet late; one that is kept becomes late only while the
\* peer does not wait for it.
LEMMA ClockStep ==
    ASSUME TypeOK, CallInv, TimersAreServed, [Next]_vars
    PROVE  ClockOK' /\ TimersAreServed'
<1>0. /\ now \in Nat /\ stalled \in Nat /\ due \in Int
      /\ due # Never => now - due <= stalled
  BY DEF TypeOK, ClockOK, TimersAreServed
<1>1. CASE WaitOverdue \/ DrainReceived \/ Write \/ ApplyDue \/ PollDrains \/ (Wake /\ IsDue)
  <2>1. due' \in {now, now + 1, Never} /\ UNCHANGED clock
    BY <1>1 DEF WaitOverdue, DrainReceived, Write, ApplyDue, PollDrains, Wake, ApplyTimeout,
                Drain, LaterTimeouts, AnyTimeouts
  <2>2. now' = now /\ stalled' = stalled
    BY <2>1 DEF clock
  <2>a. Never \in Int
    BY DEF Never
  <2>b. now + 1 \in Int /\ now - now = 0 /\ now - (now + 1) <= 0
    BY <1>0
  <2>c. due' \in Int
    BY <1>0, <2>1, <2>a, <2>b
  <2>3. due' # Never => now - due' <= 0
    <3>1. CASE due' = now
      BY <1>0, <3>1
    <3>2. CASE due' = now + 1
      BY <1>0, <3>2
    <3> QED
      BY <2>1, <3>1, <3>2
  <2> QED
    <3>0. ASSUME NEW d \in Int, now - d <= 0 PROVE now - d <= stalled
      BY <1>0, <3>0
    <3>1. due' # Never => now' - due' <= stalled'
      BY <2>2, <2>3, <2>c, <3>0
    <3>2. ClockOK'
      BY <1>0, <2>2, <2>c DEF ClockOK
    <3> QED
      BY <3>1, <3>2 DEF TimersAreServed, Never
<1>2. CASE Elapse
  <2>1. now' = now + 1 /\ due' = due
    BY <1>2 DEF Elapse
  <2>2. CASE Blocked /\ UNCHANGED stalled
    <3>1. wait # None /\ now < WakeTime
      BY <2>2, Constants DEF Blocked
    <3>2. Until \in Int
      BY <3>1, InCall DEF CallInv, InPoll
    <3>3. due # Never => WakeTime \in Int /\ WakeTime <= due
      BY <1>0, <3>2, MinOfTwo DEF WakeTime
    <3>4. due # Never => now' - due' <= 0
      BY <1>0, <2>1, <3>1, <3>3
    <3> QED
      BY <1>0, <2>1, <2>2, <3>4 DEF ClockOK, TimersAreServed
  <2>3. CASE stalled' = stalled + 1
    BY <1>0, <2>1, <2>3 DEF ClockOK, TimersAreServed
  <2> QED
    BY <1>2, <2>2, <2>3 DEF Elapse
<1>3. CASE UNCHANGED <<clock, due>>
  BY <1>0, <1>3 DEF clock, ClockOK, TimersAreServed
<1>4. CASE Wake /\ ~IsDue
  BY <1>3, <1>4 DEF Wake
<1>5. CASE \/ Receive \/ PollReceives \/ PollReturns \/ PollEmpty \/ WindowReturns
           \/ Sleep \/ Cancel \/ EndSend \/ Fail \/ StartSend \/ StartPoll \/ StartWindow
           \/ ArriveMedia \/ ArriveOther \/ FindNothing \/ Notice
  BY <1>3, <1>5
  DEF FindNothing, Notice, Receive, PollReceives, PollReturns, PollEmpty, WindowReturns, Sleep, Cancel, EndSend, Fail,
      StartSend, StartPoll, StartWindow, ArriveMedia, ArriveOther
<1>6. CASE StartSettling \/ Reset \/ SetOrigin \/ StartCompleting \/ StartQuiet \/ Close
  BY <1>3, <1>6
  DEF StartSettling, Reset, SetOrigin, StartCompleting, StartQuiet, Close, Parks
<1>7. CASE UNCHANGED vars
  BY <1>3, <1>7 DEF vars
<1> QED
  BY <1>1, <1>2, <1>4, <1>5, <1>6, <1>7 DEF Next, CallStep, CallerStep

-------------------------------------------------------------------------------
(* Which call is made when. *)

\* Every step keeps the call's record in its shape, and the waits inside it.
LEMMA ControlStep ==
    ASSUME TypeOK, CallInv, TimelineInv, [Next]_vars
    PROVE  ControlOK' /\ CallInv'
<1>0. /\ now \in Nat /\ arrived \in Nat /\ Len(Offsets) \in Nat
      /\ stage \in Stages /\ turn \in Nat \ {0} /\ polls \in Nat
      /\ started \in Int \union {None} /\ origin \in Int \union {None}
      /\ deadline \in Nat /\ maxLag \in Int
      /\ call \in Calls \union {None} /\ wait \in {None, "asleep", "drain"}
      /\ sent \in Packets \union {None}
  BY Constants DEF TypeOK, ClockOK, BuffersOK, ControlOK
<1>1. CASE \/ WaitOverdue \/ ApplyDue \/ Elapse \/ ArriveMedia \/ ArriveOther \/ Notice
           \/ UNCHANGED vars
  <2>1. /\ UNCHANGED <<caller, origin, call, wait, sent>>
        /\ arrived' \in {arrived, arrived + 1} /\ (ready => ready')
    BY <1>1 DEF WaitOverdue, ApplyDue, Elapse, ArriveMedia, ArriveOther, Notice, vars, input
  <2>2. \A n : n <= arrived /\ n \in Nat => n <= arrived'
    BY <1>0, <2>1
  <2>3. InPoll => call.had \in Nat
    BY <1>0, CallShapes DEF InPoll, Idle
  <2> QED
    BY <1>0, <2>1, <2>2, <2>3
    DEF caller, ControlOK, CallInv, InSend, InPoll, InWindow, Idle, Sending
<1>2. CASE Sleep \/ Receive \/ FindNothing \/ DrainReceived \/ Wake
  <2>1. ~Idle /\ ~InPoll /\ (InSend => call.step = "pace")
    BY <1>0, <1>2, Constants, InCall, CallShapes
    DEF Sleep, Looping, Receive, FindNothing, DrainReceived, Wake, CallInv, InSend, InPoll
  <2>2. wait' \in {None, "asleep", "drain"} /\ UNCHANGED <<caller, origin, call, sent, arrived>>
    BY <1>2 DEF Sleep, Receive, FindNothing, DrainReceived, Wake, input
  <2> QED
    BY <1>0, <2>1, <2>2
    DEF caller, ControlOK, CallInv, InSend, InPoll, InWindow, Idle, Sending
<1>3. CASE Write
  <2>1. InSend /\ Until \in Int /\ wait = None /\ Until = origin + Offsets[turn]
    BY <1>3, InCall DEF Write, Paced, Looping, InSend, InPoll, Until
  <2>2. Offsets[turn] \in Nat /\ stage \in {"warmup", "measured"}
    BY <2>1, Constants DEF CallInv, Sending
  <2>3. sent' \in Packets
    BY <1>0, <1>3, <2>1, <2>2 DEF Write, Packets
  <2>4. call' = [kind |-> "send", step |-> "apply"] /\ call' \in Calls
    BY <1>0, <1>3, <2>1, CallShapes DEF Write, InSend, Idle
  <2>5. UNCHANGED <<caller, origin, wait, arrived>>
    BY <1>3 DEF Write, input
  <2> QED
    BY <1>0, <2>1, <2>3, <2>4, <2>5, Constants
    DEF caller, ControlOK, CallInv, InSend, InPoll, InWindow, Idle, Sending
<1>4. CASE EndSend
  <2>1. /\ InSend /\ wait = None /\ turn \in 1 .. Len(Offsets) /\ origin \in Int
        /\ stage \in {"warmup", "measured"}
    BY <1>4 DEF EndSend, InSend, CallInv, Sending
  <2>2. maxLag' \in Int
    <3>1. stage = "measured" => started \in Int
      BY DEF TimelineInv
    <3>2. Offsets[turn] \in Nat
      BY <2>1, Constants
    <3> QED
      BY <1>0, <1>4, <3>1, <3>2, MaxOfTwo DEF EndSend
  <2>3. /\ call' = None /\ turn' = turn + 1 /\ polls' = DrainLimit
        /\ UNCHANGED <<stage, started, deadline, origin, wait, sent>>
    BY <1>4 DEF EndSend
  <2> QED
    BY <1>0, <2>1, <2>2, <2>3, Constants
    DEF ControlOK, CallInv, InSend, InPoll, InWindow, Idle, Sending
<1>5. CASE PollReturns \/ PollEmpty
  <2>1. InPoll
    BY <1>5 DEF PollReturns, PollEmpty, InPoll
  <2>2. wait = None /\ stage \in {"warmup", "measured"} /\ polls > 0
    BY <2>1 DEF CallInv, Sending
  <2>3. polls' \in Nat /\ call' = None
    BY <1>0, <1>5, <2>2 DEF PollReturns, PollEmpty, Returns
  <2>4. UNCHANGED <<stage, turn, started, deadline, maxLag, origin, wait, sent>>
    BY <1>5 DEF PollReturns, PollEmpty
  <2> QED
    BY <1>0, <2>2, <2>3, <2>4
    DEF ControlOK, CallInv, InSend, InPoll, InWindow, Idle, Sending
<1>6. CASE PollReceives \/ PollDrains
  <2>1. InPoll /\ call \in Calls
    BY <1>0, <1>6 DEF PollReceives, PollDrains, InPoll, Idle
  <2>2. \E step \in {"apply", "drain"} :
            call' = [kind |-> "poll", step |-> step, had |-> call.had] /\ call' \in Calls
    <3>1. call.kind = "poll" /\ call.had \in Nat
      BY <2>1, CallShapes DEF InPoll
    <3>2. CASE call' = [call EXCEPT !.step = "drain"]
      <4>1. call' = [kind |-> "poll", step |-> "drain", had |-> call.had]
        BY <2>1, <3>1, <3>2, CallShapes
      <4> QED
        BY <3>1, <4>1, CallShapes
    <3>3. CASE call' = [call EXCEPT !.step = "apply"]
      <4>1. call' = [kind |-> "poll", step |-> "apply", had |-> call.had]
        BY <2>1, <3>1, <3>3, CallShapes
      <4> QED
        BY <3>1, <4>1, CallShapes
    <3> QED
      BY <1>6, <3>2, <3>3 DEF PollReceives, PollDrains
  <2>3. UNCHANGED <<caller, origin, wait, sent, arrived, ready>>
    BY <1>6 DEF PollReceives, PollDrains, input
  <2> QED
    BY <1>0, <2>1, <2>2, <2>3, Constants
    DEF caller, ControlOK, CallInv, InSend, InPoll, InWindow, Idle, Sending
<1>7. CASE WindowReturns \/ Cancel
  <2>1. InWindow
    BY <1>7, Constants, InCall
    DEF WindowReturns, Cancel, CallInv, InWindow, InSend, InPoll, Sending
  <2>2. stage \in {"settle", "complete", "quiet"}
    BY <2>1 DEF CallInv
  <2>3. call' = None /\ wait' = None /\ UNCHANGED <<caller, origin, sent>>
    BY <1>7 DEF WindowReturns, Cancel, Returns
  <2> QED
    BY <1>0, <2>2, <2>3
    DEF caller, ControlOK, CallInv, InSend, InPoll, InWindow, Idle, Sending
<1>8. CASE Fail
  <2>1. /\ stage' = "failed" /\ call' = None /\ wait' = None
        /\ UNCHANGED <<turn, polls, started, deadline, maxLag, origin, sent>>
    BY <1>8 DEF Fail
  <2> QED
    BY <1>0, <2>1
    DEF ControlOK, CallInv, InSend, InPoll, InWindow, Idle, Sending, Stages
<1>9. CASE StartSend
  <2>1. /\ Sending /\ polls = 0 /\ turn \in 1 .. Len(Offsets) /\ wait = None
        /\ call' = [kind |-> "send", step |-> "pace"] /\ call' \in Calls
    BY <1>0, <1>9, CallShapes DEF StartSend, CallInv
  <2>2. origin' \in Int
    <3>1. Offsets[turn] \in Nat
      BY <2>1, Constants
    <3>2. now - Offsets[turn] \in Int
      BY <1>0, <3>1
    <3> QED
      BY <1>0, <1>9, <3>2 DEF StartSend
  <2>3. UNCHANGED <<caller, wait, sent>>
    BY <1>9 DEF StartSend
  <2> QED
    BY <1>0, <2>1, <2>2, <2>3, Constants
    DEF caller, ControlOK, CallInv, InSend, InPoll, InWindow, Idle, Sending
<1>10. CASE StartPoll
  <2>1. /\ Sending /\ polls > 0 /\ wait = None
        /\ call' = [kind |-> "poll", step |-> "apply", had |-> IF ready THEN arrived ELSE 0]
        /\ call' \in Calls
    BY <1>0, <1>10, CallShapes DEF StartPoll, CallInv
  <2>2. UNCHANGED <<caller, origin, wait, sent, arrived, ready>>
    BY <1>10 DEF StartPoll, input
  <2> QED
    BY <1>0, <2>1, <2>2, Constants
    DEF caller, ControlOK, CallInv, InSend, InPoll, InWindow, Idle, Sending
<1>11. CASE StartWindow
  <2>1. /\ stage \in {"settle", "complete", "quiet"} /\ wait = None
        /\ call' = [kind |-> "window"] /\ call' \in Calls
    BY <1>0, <1>11, CallShapes DEF StartWindow, CallInv
  <2>2. UNCHANGED <<caller, origin, wait, sent>>
    BY <1>11 DEF StartWindow
  <2> QED
    BY <1>0, <2>1, <2>2, Constants
    DEF caller, ControlOK, CallInv, InSend, InPoll, InWindow, Idle, Sending
<1>12. CASE StartSettling \/ Reset \/ StartCompleting \/ StartQuiet \/ Close
  <2>1. /\ Idle /\ polls = 0 /\ wait = None
    BY <1>12
    DEF StartSettling, Reset, StartCompleting, StartQuiet, Close, TimelineSent, CallInv
  <2>2. /\ stage' \in {"settle", "reset", "complete", "quiet", "done"}
        /\ deadline' \in {deadline, now, now + SettleTime}
        /\ turn' \in {turn, 1} /\ origin' \in {origin, None}
        /\ UNCHANGED <<call, wait, polls, maxLag, sent, started>>
    BY <1>12 DEF StartSettling, Reset, StartCompleting, StartQuiet, Close, Parks
  <2>3. deadline' \in Nat
    BY <1>0, <2>2, Constants
  <2> QED
    BY <1>0, <2>1, <2>2, <2>3
    DEF ControlOK, CallInv, InSend, InPoll, InWindow, Idle, Sending, Stages
<1>13. CASE SetOrigin
  <2>1. PICK first \in deadline .. now : started' = first + StartLead
    BY <1>13 DEF SetOrigin
  <2>2. started' \in Nat
    BY <1>0, <2>1, Constants
  <2>3. /\ stage' = "measured" /\ origin' = started'
        /\ deadline' = started' + Target + PacketTimeout
        /\ UNCHANGED <<call, wait, polls, maxLag, sent, turn>>
    BY <1>13 DEF SetOrigin, Parks
  <2>4. deadline' \in Nat
    <3>1. Target \in Nat /\ PacketTimeout \in Nat
      BY Constants
    <3>2. ASSUME NEW s \in Nat PROVE s + Target + PacketTimeout \in Nat
      BY <3>1
    <3> QED
      BY <2>2, <2>3, <3>2
  <2>5. Idle /\ wait = None /\ polls = 0
    BY <1>0, <1>13, InCall DEF SetOrigin, CallInv, Sending, InSend, InPoll, InWindow
  <2> QED
    BY <1>0, <2>2, <2>3, <2>4, <2>5
    DEF ControlOK, CallInv, InSend, InPoll, InWindow, Idle, Sending, Stages
<1> QED
  BY <1>1, <1>2, <1>3, <1>4, <1>5, <1>6, <1>7, <1>8, <1>9, <1>10, <1>11, <1>12, <1>13
  DEF Next, CallStep, CallerStep

\* What a dropped call leaves inside is out again before the socket is polled.
LEMMA InsideStep ==
    ASSUME TypeOK, CallInv, InsideInv, [Next]_vars
    PROVE  InsideInv'
<1>0. call \in Calls \union {None} /\ polls \in Nat /\ pending \in Seq(Nat)
  BY DEF TypeOK, ControlOK, BuffersOK
<1>1. CASE \/ Elapse \/ ArriveMedia \/ ArriveOther \/ Sleep \/ FindNothing \/ Notice
           \/ UNCHANGED vars
  <2>1. UNCHANGED <<call, stage, polls, inside, pending>>
    BY <1>1 DEF Elapse, ArriveMedia, ArriveOther, Sleep, FindNothing, Notice, vars, caller
  <2> QED
    BY <2>1 DEF InsideInv, InSend, InPoll, Idle, Sending
<1>2. CASE WaitOverdue \/ Receive \/ DrainReceived \/ Wake
  <2>1. ~Idle /\ ~InPoll /\ (InSend => call.step = "pace")
    BY <1>0, <1>2, Constants, InCall, CallShapes
    DEF WaitOverdue, Looping, Receive, DrainReceived, Wake, CallInv, InSend, InPoll
  <2>2. UNCHANGED call
    BY <1>2 DEF WaitOverdue, Receive, DrainReceived, Wake
  <2> QED
    BY <2>1, <2>2 DEF InsideInv, InSend, InPoll, Idle
<1>3. CASE Write
  <2>1. call' = [kind |-> "send", step |-> "apply"] /\ inside' = << >> /\ call' \in Calls
    BY <1>0, <1>3, CallShapes DEF Write, Paced, Looping, Drain, Idle
  <2> QED
    BY <2>1, Constants DEF InsideInv, InSend, InPoll, Idle
<1>4. CASE ApplyDue
  <2>1. /\ inside' = << >> /\ UNCHANGED <<call, stage, polls>>
        /\ InPoll => call.step = "apply"
    BY <1>4 DEF ApplyDue, ApplyTimeout, Drain, caller, InPoll
  <2> QED
    BY <2>1 DEF InsideInv, InSend, InPoll, Idle, Sending
<1>5. CASE EndSend
  BY <1>5 DEF EndSend, InsideInv, InSend, InPoll, Idle
<1>6. CASE PollReturns
  <2>1. InPoll /\ call.step \in {"apply", "drain"} /\ pending # << >>
    BY <1>0, <1>6, CallShapes DEF PollReturns, InPoll, Idle
  <2>2. inside = << >> /\ inside' = inside /\ call' = None
    BY <1>6, <2>1 DEF PollReturns, Returns, InsideInv
  <2> QED
    BY <2>2 DEF InsideInv, InSend, InPoll, Idle
<1>7. CASE PollReceives
  <2>1. call.kind = "poll" /\ call \in Calls
    BY <1>0, <1>7 DEF PollReceives, Idle
  <2>2. call' = [kind |-> "poll", step |-> "drain", had |-> call.had] /\ call.had \in Nat
    BY <1>7, <2>1, CallShapes DEF PollReceives
  <2>3. call' \in Calls /\ pending' = << >>
    BY <1>7, <2>2, CallShapes DEF PollReceives
  <2> QED
    BY <2>2, <2>3, Constants DEF InsideInv, InSend, InPoll, Idle
<1>8. CASE PollDrains
  <2>1. call.kind = "poll" /\ call \in Calls
    BY <1>0, <1>8 DEF PollDrains, Idle
  <2>2. call' = [kind |-> "poll", step |-> "apply", had |-> call.had] /\ call.had \in Nat
    BY <1>8, <2>1, CallShapes DEF PollDrains
  <2>3. call' \in Calls /\ inside' = << >>
    BY <1>8, <2>2, CallShapes DEF PollDrains, Drain
  <2> QED
    BY <2>2, <2>3, Constants DEF InsideInv, InSend, InPoll, Idle
<1>9. CASE PollEmpty
  BY <1>9 DEF PollEmpty, Returns, InsideInv, InSend, InPoll, Idle
<1>10. CASE WindowReturns \/ Cancel
  <2>1. InWindow
    BY <1>10, Constants, InCall
    DEF WindowReturns, Cancel, CallInv, InWindow, InSend, InPoll, Sending
  <2>2. stage' \notin {"warmup", "measured"} /\ call' = None
    BY <1>10, <2>1 DEF WindowReturns, Cancel, Returns, CallInv, caller
  <2> QED
    BY <2>2 DEF InsideInv, InSend, InPoll, Idle, Sending
<1>11. CASE Fail
  BY <1>11 DEF Fail, InsideInv, InSend, InPoll, Idle, Sending
<1>12. CASE StartSend
  <2>1. call' = [kind |-> "send", step |-> "pace"] /\ call' \in Calls
    BY <1>12, CallShapes DEF StartSend
  <2> QED
    BY <2>1, Constants DEF InsideInv, InSend, InPoll, Idle
<1>13. CASE StartPoll
  <2>1. inside' = << >> /\ call'.step = "apply" /\ call'.kind = "poll" /\ call' # None
    <3>1. /\ call' = [kind |-> "poll", step |-> "apply", had |-> IF ready THEN arrived ELSE 0]
          /\ call' \in Calls
      BY <1>13, CallShapes DEF StartPoll, TypeOK, BuffersOK
    <3> QED
      BY <1>13, <3>1, Constants DEF StartPoll, InsideInv
  <2> QED
    BY <2>1 DEF InsideInv, InSend, InPoll, Idle
<1>14. CASE StartWindow
  <2>1. call'.kind = "window" /\ call' # None
    BY <1>14, CallShapes, Constants DEF StartWindow
  <2> QED
    BY <2>1 DEF InsideInv, InSend, InPoll, Idle
<1>15. CASE StartSettling \/ Reset \/ StartCompleting \/ StartQuiet \/ Close
  <2>1. stage' \notin {"warmup", "measured"} /\ call' = None
    BY <1>15
    DEF StartSettling, Reset, StartCompleting, StartQuiet, Close, Parks, TimelineSent, Idle
  <2> QED
    BY <2>1 DEF InsideInv, InSend, InPoll, Idle, Sending
<1>16. CASE SetOrigin
  <2>1. Idle /\ polls = 0
    BY <1>0, <1>16, InCall DEF SetOrigin, CallInv, Sending, InSend, InPoll, InWindow
  <2>2. call' = None /\ polls' = 0
    BY <1>16, <2>1 DEF SetOrigin, Parks, Idle
  <2> QED
    BY <2>2 DEF InsideInv, InSend, InPoll, Idle
<1> QED
  BY <1>1, <1>2, <1>3, <1>4, <1>5, <1>6, <1>7, <1>8, <1>9, <1>10, <1>11, <1>12, <1>13,
     <1>14, <1>15, <1>16 DEF Next, CallStep, CallerStep

\* The origin stays what it is while packets are written, and a stage does not come again.
LEMMA TimelineStep ==
    ASSUME TypeOK, CallInv, TimelineInv, [Next]_vars
    PROVE  TimelineInv'
<1>0. /\ origin \in Int \union {None} /\ started \in Int \union {None} /\ deadline \in Nat
      /\ now \in Nat /\ sent \in Packets \union {None}
  BY DEF TypeOK, ControlOK, ClockOK
<1>1. sent # None => sent.stage \in {"warmup", "measured"}
  BY <1>0 DEF Packets
<1>2. CASE UNCHANGED <<stage, origin, started, sent>>
  BY <1>2 DEF TimelineInv
<1>3. CASE \/ WaitOverdue \/ Sleep \/ Receive \/ DrainReceived \/ Wake \/ ApplyDue \/ EndSend
           \/ PollReturns \/ PollReceives \/ PollDrains \/ PollEmpty \/ WindowReturns \/ Cancel
           \/ StartPoll \/ StartWindow \/ Elapse \/ ArriveMedia \/ ArriveOther \/ FindNothing \/ Notice
           \/ UNCHANGED vars
  BY <1>2, <1>3
  DEF FindNothing, Notice, WaitOverdue, Sleep, Receive, DrainReceived, Wake, ApplyDue, EndSend, PollReturns,
      PollReceives, PollDrains, PollEmpty, WindowReturns, Cancel, StartPoll, StartWindow, Elapse,
      ArriveMedia, ArriveOther, vars, caller
<1>4. CASE Write
  <2>1. InSend /\ Until = origin + Offsets[turn]
    BY <1>4 DEF Write, Paced, Looping, InSend, Until
  <2>2. origin \in Int /\ stage \in {"warmup", "measured"}
    BY <2>1 DEF CallInv, Sending
  <2>3. /\ sent'.wallclock = origin + sent'.offset /\ sent'.stage = stage
        /\ UNCHANGED <<stage, started, origin>>
    BY <1>4, <2>1 DEF Write, caller
  <2> QED
    BY <2>2, <2>3 DEF TimelineInv
<1>5. CASE StartSend
  <2>1. UNCHANGED <<stage, started, sent>> /\ (origin \in Int => origin' = origin)
    BY <1>5, Constants DEF StartSend, caller
  <2> QED
    BY <2>1 DEF TimelineInv
<1>6. CASE Fail \/ StartSettling \/ Reset \/ StartCompleting \/ StartQuiet \/ Close
  <2>1. /\ stage' \notin {"warmup", "measured"} /\ UNCHANGED sent
        /\ stage' \in {"settle", "reset"} => stage \in {"warmup", "settle"}
    BY <1>6 DEF Fail, StartSettling, Reset, StartCompleting, StartQuiet, Close, Parks
  <2> QED
    BY <1>1, <2>1 DEF TimelineInv
<1>7. CASE SetOrigin
  <2>1. PICK first \in deadline .. now : started' = first + StartLead
    BY <1>7 DEF SetOrigin
  <2>2. started' \in Int
    BY <1>0, <2>1, Constants
  <2>3. /\ stage = "reset" /\ stage' = "measured" /\ origin' = started' /\ sent' = sent
    BY <1>7 DEF SetOrigin, Parks
  <2> QED
    BY <1>1, <2>2, <2>3 DEF TimelineInv
<1> QED
  BY <1>3, <1>4, <1>5, <1>6, <1>7 DEF Next, CallStep, CallerStep

-------------------------------------------------------------------------------
(* The invariant, and what follows from it. *)

\* The invariant holds at the start.
LEMMA Start == Init => IInv
<1>1. SUFFICES ASSUME Init PROVE IInv
  OBVIOUS
<1>2. due \in {0, 1, -1}
  BY <1>1 DEF Init, AnyTimeouts, LaterTimeouts, Never
<1>3. Read = << >>
  BY <1>1, ConcatEmptySeq, EmptySeq DEF Init, Read
<1>4. TypeOK
  BY <1>1, <1>2 DEF Init, TypeOK, ClockOK, BuffersOK, ControlOK, Stages
<1>5. ReadsInOrder
  BY <1>1, <1>3 DEF Init, ReadsInOrder
<1>6. CallInv /\ InsideInv /\ TimelineInv
  BY <1>1 DEF Init, CallInv, InsideInv, TimelineInv, InSend, InPoll, InWindow, Idle
<1>7. TimersAreServed
  BY <1>1, <1>2 DEF Init, TimersAreServed, Never
<1> QED
  BY <1>4, <1>5, <1>6, <1>7 DEF IInv

\* Every step keeps it.
LEMMA Preserved == IInv /\ [Next]_vars => IInv'
<1>1. SUFFICES ASSUME IInv, [Next]_vars PROVE IInv'
  OBVIOUS
<1>2. TypeOK /\ CallInv /\ InsideInv /\ TimelineInv /\ ReadsInOrder /\ TimersAreServed
  BY <1>1 DEF IInv
<1>3. BuffersOK' /\ ClockOK' /\ TimersAreServed' /\ ControlOK' /\ CallInv'
  BY <1>1, <1>2, BuffersStep, ClockStep, ControlStep
<1>4. InsideInv' /\ TimelineInv' /\ ReadsInOrder'
  BY <1>1, <1>2, InsideStep, TimelineStep, OrderKept
<1> QED
  BY <1>3, <1>4 DEF IInv, TypeOK

\* So it always holds.
LEMMA Invariance == Spec => []IInv
BY Start, Preserved, PTL DEF Spec

\* Whatever reads the socket, and wherever a call is dropped or fails, the ledger gets the
\* packets in the order of their arrival, each of them once (rtc.rs:206-229, 354-401).
THEOREM PacketsReadInOrder == Spec => []ReadsInOrder
<1>1. IInv => ReadsInOrder
  BY DEF IInv
<1> QED
  BY Invariance, <1>1, PTL

\* No wait of the peer makes a timeout of its RTC state machine late: all lateness is time in
\* which the peer did not wait (rtc.rs:300, 361-385).
THEOREM TimersNeverSlip == Spec => []TimersAreServed
<1>1. IInv => TimersAreServed
  BY DEF IInv
<1> QED
  BY Invariance, <1>1, PTL

\* Packets leave no earlier than the shared timeline has them, and keep its distances whatever
\* wakes the peer in between (rtc.rs:239-250).
THEOREM PacketsKeepTheirInstants == Spec => PacketsFollowTimeline
<1> DEFINE OnTimeline ==
      sent' # sent =>
        /\ sent'.at >= sent'.wallclock
        /\ sent # None /\ sent.stage = sent'.stage =>
               sent'.wallclock - sent.wallclock = sent'.offset - sent.offset
        /\ sent'.stage = "measured" => sent'.wallclock = started + sent'.offset
<1>1. IInv /\ [Next]_vars => [OnTimeline]_vars
  <2>1. SUFFICES ASSUME IInv, [Next]_vars, sent' # sent PROVE OnTimeline
    OBVIOUS
  <2>2. TypeOK /\ CallInv /\ TimelineInv
    BY <2>1 DEF IInv
  <2>3. Write
    BY <2>1
    DEF Next, CallStep, CallerStep, vars, WaitOverdue, Sleep, Receive, DrainReceived, Wake,
        ApplyDue, EndSend, PollReturns, PollReceives, PollDrains, PollEmpty, WindowReturns,
        Cancel, StartSend, StartPoll, StartWindow, StartSettling, Reset, SetOrigin,
        StartCompleting, StartQuiet, Close, Parks, Fail, Elapse, ArriveMedia, ArriveOther,
        FindNothing, Notice
  <2>4. InSend /\ now >= Until /\ Until = origin + Offsets[turn]
    BY <2>3 DEF Write, Paced, Looping, InSend, Until
  <2>5. origin \in Int /\ Offsets[turn] \in Nat
    BY <2>2, <2>4, Constants DEF CallInv
  <2>6. /\ sent'.at = now /\ sent'.wallclock = origin + Offsets[turn]
        /\ sent'.offset = Offsets[turn] /\ sent'.stage = stage
    BY <2>3, <2>4 DEF Write
  <2>7. ASSUME sent # None, sent.stage = sent'.stage
        PROVE  sent'.wallclock - sent.wallclock = sent'.offset - sent.offset
    <3>1. sent.wallclock = origin + sent.offset
      BY <2>2, <2>6, <2>7 DEF TimelineInv
    <3>2. sent.offset \in Nat
      BY <2>2, <2>7 DEF TypeOK, ControlOK, Packets
    <3> QED
      BY <2>5, <2>6, <3>1, <3>2
  <2>8. sent'.stage = "measured" => sent'.wallclock = started + sent'.offset
    BY <2>2, <2>6 DEF TimelineInv
  <2> QED
    BY <2>4, <2>6, <2>7, <2>8
<1> QED
  BY Invariance, <1>1, PTL DEF Spec, PacketsFollowTimeline

\* A poll that returns nothing leaves nothing behind that had come before it began, inside the
\* RTC state machine or in the socket, unless tokio did not know then that the socket could be
\* read (rtc.rs:213-219, 388-401).
THEOREM PollsAreComplete == Spec => PollMissesNothing
<1> DEFINE Complete ==
      Idle' /\ ~Idle /\ call.kind = "poll" /\ ~(stage' = "failed") /\ handed' = handed
          => Len(handed) >= call.had
<1>1. IInv /\ [Next]_vars => [Complete]_vars
  <2>1. SUFFICES ASSUME IInv, [Next]_vars, InPoll, call' = None, stage' # "failed",
                        handed' = handed
                 PROVE  Len(handed) >= call.had
    BY DEF Idle, InPoll
  <2>2. /\ TypeOK /\ CallInv /\ InsideInv /\ ReadsInOrder
        /\ wait = None /\ call.had <= arrived /\ (call.had # 0 => ready) /\ call # None
    BY <2>1 DEF IInv, CallInv, InPoll, Idle
  <2>3. /\ handed \in Seq(Nat) /\ pending \in Seq(Nat) /\ arrived \in Nat
        /\ call \in Calls /\ call.had \in Nat
    BY <2>1, <2>2, CallShapes DEF TypeOK, BuffersOK, ControlOK, InPoll
  <2>4. ~PollReturns
    <3>1. SUFFICES ASSUME PollReturns PROVE FALSE
      OBVIOUS
    <3>2. pending # << >> /\ handed' = handed \o <<Head(pending)>>
      BY <3>1 DEF PollReturns, Returns
    <3>3. Head(pending) \in Nat
      BY <2>3, <3>2, HeadTailProperties
    <3>4. handed' = Append(handed, Head(pending))
      BY <2>3, <3>2, <3>3, AppendIsConcat
    <3> QED
      BY <2>1, <2>3, <3>3, <3>4, AppendProperties
  <2>5. ~(PollReceives \/ PollDrains)
    <3>1. ASSUME NEW step \in {"apply", "drain"} PROVE [call EXCEPT !.step = step] \in Calls
      <4>1. [call EXCEPT !.step = step] = [kind |-> "poll", step |-> step, had |-> call.had]
        BY <2>1, <2>3, CallShapes DEF InPoll
      <4> QED
        BY <2>3, <4>1, CallShapes
    <3> QED
      BY <2>1, <3>1, Constants DEF PollReceives, PollDrains
  <2>6. PollEmpty
    BY <2>1, <2>2, <2>4, <2>5
    DEF Next, CallStep, CallerStep, vars, WaitOverdue, Sleep, Looping, Receive, DrainReceived,
        Wake, Write, Paced, ApplyDue, EndSend, WindowReturns, Cancel, StartSend, StartPoll,
        StartWindow, StartSettling, Reset, SetOrigin, StartCompleting, StartQuiet, Close, Parks,
        TimelineSent, Fail, Elapse, ArriveMedia, ArriveOther, FindNothing, Notice, InPoll, Idle
  <2>7. pending = << >> /\ inside = << >> /\ (ready => socket = << >>)
    BY <2>1, <2>2, <2>6 DEF PollEmpty, InsideInv
  <2>8. Read = handed
    BY <2>3, <2>7, ConcatEmptySeq DEF Read
  <2>9. ASSUME socket = << >> PROVE ~(Len(handed) < arrived)
    <3>1. Len(handed) \in Nat /\ Len(socket) = 0
      BY <2>3, <2>9, LenProperties
    <3> QED
      BY <2>2, <2>3, <2>8, <3>1 DEF ReadsInOrder
  <2>10. Len(handed) \in Nat
    BY <2>3, LenProperties
  <2> QED
    BY <2>2, <2>3, <2>7, <2>9, <2>10
<1> QED
  BY Invariance, <1>1, PTL DEF Spec, PollMissesNothing
===============================================================================
