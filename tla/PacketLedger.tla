----------------------------- MODULE PacketLedger -----------------------------
(***************************************************************************)
(* The accounting of one receiving peer (src/src/client/scenario.rs,       *)
(* PacketLedger), the receive loops that feed it and the network in        *)
(* between.  The publishers and the forwarding server are the environment: *)
(* a server may lose, delay, reorder, repeat, damage or misroute packets,  *)
(* and the ledger exists to tell.  `inflight' is the set of datagrams on   *)
(* their way to this peer; a repeated datagram is one that is delivered    *)
(* and stays in flight.  MaxFaults bounds what the network repeats,        *)
(* damages and misroutes; losses and reordering are unbounded.             *)
(*                                                                         *)
(* Payload bytes are counted along with packets and are not modelled; the  *)
(* saturating u64 counters cannot saturate in a run that ends.             *)
(***************************************************************************)
EXTENDS Naturals, Sequences, FiniteSets

CONSTANTS
    Streams,    \* identities (source, kind, layer) this peer subscribes to
    Foreign,    \* identities it does not subscribe to: other rooms, its own
    Packets,    \* Packets[s]: measured packets expected on stream s
    Warmup,     \* warm-up packets each publisher sends on a stream
    MaxFaults   \* bound on repeated, damaged and misrouted datagrams

ASSUME StreamsAssumption ==
    /\ IsFiniteSet(Streams)
    /\ Foreign \cap Streams = {}
    /\ Packets \in [Streams -> Nat \ {0}]       \* ExpectedStream::new ensures
    /\ Warmup \in Nat
    /\ MaxFaults \in Nat

VARIABLES
    inflight,       \* datagrams the network still holds for this peer
    sent,           \* sent[s]: measured packets the publisher of s has sent
    faults,         \* faults the network has used
    stage,          \* where the peer is in run_media_peer
    seen,           \* seen[s]: ordinals marked in ExpectedStream.seen
    next_ordinal,   \* next_ordinal[s]: ExpectedStream.next_ordinal
    delivered_packets,
    correctness,    \* CorrectnessSummary
    heard, foul     \* history: what reached the ledger, as DeliveryAudit hears it

networkVars == <<inflight, sent, faults>>
ledgerVars  == <<seen, next_ordinal, delivered_packets, correctness>>
vars == <<networkVars, stage, ledgerVars, heard, foul>>

Ordinals(s) == 0 .. (Packets[s] - 1)

Bodies == {"intact", "damaged", "unreadable"}

Datagram == [stream  : Streams \cup Foreign,
             phase   : {"warmup", "measured"},
             ordinal : Nat,
             body    : Bodies]

Packet(s, phase, o) ==
    [stream |-> s, phase |-> phase, ordinal |-> o, body |-> "intact"]

\* Every packet this peer is owed: one slot for each entry of the `seen' vectors.
Slots == UNION { {s} \X Ordinals(s) : s \in Streams }

Unseen == { slot \in Slots : slot[2] \notin seen[slot[1]] }

-------------------------------------------------------------------------------
(* The ledger. *)

\* The fields of CorrectnessSummary.
Discrepancies == {"missing", "duplicate", "out_of_order", "unexpected", "mismatch"}

NoDiscrepancy == [k \in Discrepancies |-> 0]

\* The summary is perfect; the five counters cannot saturate.
Clean == \A k \in Discrepancies : correctness[k] = 0

\* One more discrepancy of every kind in K.
Charge(K) == [k \in Discrepancies |-> correctness[k] + (IF k \in K THEN 1 ELSE 0)]

Identified(d) == d.body # "unreadable"

\* A slot of the `seen' vectors answers for this datagram.
Expected(d) == /\ Identified(d)
               /\ d.phase = "measured"
               /\ d.stream \in Streams
               /\ d.ordinal \in Ordinals(d.stream)

\* Mutant: the cursor moves one step per packet, not over every seen ordinal.
AdvanceOnce(s, S, from) == IF from \in S THEN from + 1 ELSE from

\* The first ordinal of stream s, at or after `from', that is not in S: where
\* the loop at the end of observe leaves next_ordinal.
Advance(s, S, from) ==
    CHOOSE o \in from .. Packets[s] :
        /\ o \notin S
        /\ \A k \in from .. (o - 1) : k \in S

\* Unreadable, of no expected stream, or beyond the stream's last ordinal.
ObserveUnexpected(d) ==
    /\ ~Identified(d) \/ (d.phase = "measured" /\ ~Expected(d))
    /\ correctness' = Charge({"unexpected"})
    /\ foul' = TRUE
    /\ UNCHANGED <<seen, next_ordinal, delivered_packets, heard>>

\* A warm-up packet counts for nothing, whatever its stream or body.
ObserveWarmup(d) ==
    /\ Identified(d)
    /\ d.phase = "warmup"
    /\ UNCHANGED <<ledgerVars, heard, foul>>

\* Mutant: a repeat is dropped in silence.
IgnoreDuplicate(d) ==
    /\ Expected(d)
    /\ d.ordinal \in seen[d.stream]
    /\ heard' = [heard EXCEPT ![d.stream] = Append(@, d.ordinal)]
    /\ foul' = (foul \/ d.body = "damaged")
    /\ UNCHANGED ledgerVars

\* A repeated ordinal is a duplicate; its body is not looked at.
ObserveDuplicate(d) ==
    /\ Expected(d)
    /\ d.ordinal \in seen[d.stream]
    /\ correctness' = Charge({"duplicate"})
    /\ heard' = [heard EXCEPT ![d.stream] = Append(@, d.ordinal)]
    /\ foul' = (foul \/ d.body = "damaged")
    /\ UNCHANGED <<seen, next_ordinal, delivered_packets>>

\* Mutant: only a packet behind the cursor is out of order.
DeliverBehindOnly(d) ==
    LET s == d.stream IN
    /\ Expected(d)
    /\ d.ordinal \notin seen[s]
    /\ correctness' = Charge(
            { k \in {"mismatch"} : d.body = "damaged" } \cup
            { k \in {"out_of_order"} : d.ordinal < next_ordinal[s] })
    /\ seen' = [seen EXCEPT ![s] = @ \cup {d.ordinal}]
    /\ delivered_packets' = delivered_packets + 1
    /\ next_ordinal' = [next_ordinal EXCEPT ![s] = Advance(s, seen'[s], @)]
    /\ heard' = [heard EXCEPT ![s] = Append(@, d.ordinal)]
    /\ foul' = (foul \/ d.body = "damaged")

\* The first packet of its ordinal is delivered, damaged or late as it may be.
ObserveDelivery(d) ==
    LET s == d.stream IN
    /\ Expected(d)
    /\ d.ordinal \notin seen[s]
    /\ correctness' = Charge(
            { k \in {"mismatch"} : d.body = "damaged" } \cup
            { k \in {"out_of_order"} : d.ordinal # next_ordinal[s] })
    /\ seen' = [seen EXCEPT ![s] = @ \cup {d.ordinal}]
    /\ delivered_packets' = delivered_packets + 1
    /\ next_ordinal' = [next_ordinal EXCEPT ![s] = Advance(s, seen'[s], @)]
    /\ heard' = [heard EXCEPT ![s] = Append(@, d.ordinal)]
    /\ foul' = (foul \/ d.body = "damaged")

observe(d) == \/ ObserveUnexpected(d)
              \/ ObserveWarmup(d)
              \/ ObserveDuplicate(d)
              \/ ObserveDelivery(d)

is_complete == \A s \in Streams : next_ordinal[s] = Packets[s]

-------------------------------------------------------------------------------
(* The publishers and the network. *)

MeasuredStages == {"receiving", "barrier"}

\* Measured packets of a stream leave in the order of their ordinals, and only
\* once every peer is past the measured barrier; next_packet and next_frame.
Publish(s) ==
    /\ stage \in MeasuredStages
    /\ sent[s] < Packets[s]
    /\ inflight' = inflight \cup {Packet(s, "measured", sent[s])}
    /\ sent' = [sent EXCEPT ![s] = @ + 1]
    /\ UNCHANGED <<faults, stage, ledgerVars, heard, foul>>

Lose(d) ==
    /\ d \in inflight
    /\ inflight' = inflight \ {d}
    /\ UNCHANGED <<sent, faults, stage, ledgerVars, heard, foul>>

Damage(d, body) ==
    /\ d \in inflight
    /\ faults < MaxFaults
    /\ faults' = faults + 1
    /\ inflight' = (inflight \ {d}) \cup {[d EXCEPT !.body = body]}
    /\ UNCHANGED <<sent, stage, ledgerVars, heard, foul>>

\* A packet nobody owes this peer: of a foreign stream, or one ordinal too many.
Misroute(s) ==
    /\ stage \in MeasuredStages
    /\ faults < MaxFaults
    /\ faults' = faults + 1
    /\ inflight' = inflight \cup
            {Packet(s, "measured", IF s \in Streams THEN Packets[s] ELSE 0)}
    /\ UNCHANGED <<sent, stage, ledgerVars, heard, foul>>

-------------------------------------------------------------------------------
(* The peer. *)

\* The peer reads while it sends, while it drains and while it waits for the
\* last packets; it does not read while it waits at a barrier.
Reading == {"warmup", "receiving", "draining"}

Receive(d) ==
    /\ stage \in Reading
    /\ d \in inflight
    /\ observe(d)
    /\ \/ inflight' = inflight \ {d} /\ UNCHANGED faults
       \/ /\ faults < MaxFaults             \* the network repeats the datagram
          /\ faults' = faults + 1
          /\ UNCHANGED inflight
    /\ UNCHANGED <<sent, stage>>

\* The warm-up settles for a fixed time; stragglers may still be in flight.
BeginMeasured ==
    /\ stage = "warmup"
    /\ stage' = "receiving"
    /\ UNCHANGED <<networkVars, ledgerVars, heard, foul>>

\* receive_until_complete returns early: every expected packet is in.
ReceivedAll ==
    /\ stage = "receiving"
    /\ is_complete
    /\ stage' = "barrier"
    /\ UNCHANGED <<networkVars, ledgerVars, heard, foul>>

\* receive_until_complete gives up PACKET_TIMEOUT after the publication.
ReceiveDeadline ==
    /\ stage = "receiving"
    /\ ~is_complete
    /\ stage' = "barrier"
    /\ UNCHANGED <<networkVars, ledgerVars, heard, foul>>

\* The drain barrier opens when every publisher has sent everything.
BeginDrain ==
    /\ stage = "barrier"
    /\ \A s \in Streams : sent[s] = Packets[s]
    /\ stage' = "draining"
    /\ UNCHANGED <<networkVars, ledgerVars, heard, foul>>

\* Mutant: everything from the cursor on is reported missing.
FinishAtCursor ==
    /\ stage = "draining"
    /\ stage' = "finished"
    /\ correctness' = [correctness EXCEPT !["missing"] =
            Cardinality({ slot \in Slots : slot[2] >= next_ordinal[slot[1]] })]
    /\ UNCHANGED <<networkVars, seen, next_ordinal, delivered_packets, heard, foul>>

\* QUIESCENCE_TIMEOUT ends the drain, whatever is still in flight.
Finish ==
    /\ stage = "draining"
    /\ stage' = "finished"
    /\ correctness' = [correctness EXCEPT !["missing"] = Cardinality(Unseen)]
    /\ UNCHANGED <<networkVars, seen, next_ordinal, delivered_packets, heard, foul>>

-------------------------------------------------------------------------------

Init ==
    /\ inflight = { Packet(s, "warmup", o) :
                        s \in Streams \cup Foreign, o \in 0 .. (Warmup - 1) }
    /\ sent = [s \in Streams |-> 0]
    /\ faults = 0
    /\ stage = "warmup"
    /\ seen = [s \in Streams |-> {}]
    /\ next_ordinal = [s \in Streams |-> 0]
    /\ delivered_packets = 0
    /\ correctness = NoDiscrepancy
    /\ heard = [s \in Streams |-> << >>]
    /\ foul = FALSE

Environment ==
    \/ \E s \in Streams : Publish(s)
    \/ \E d \in inflight : Lose(d)
    \/ \E d \in inflight, body \in {"damaged", "unreadable"} : Damage(d, body)
    \/ \E s \in Streams \cup Foreign : Misroute(s)

Peer ==
    \/ \E d \in inflight : Receive(d)
    \/ BeginMeasured
    \/ ReceivedAll
    \/ ReceiveDeadline
    \/ BeginDrain
    \/ Finish

Next == Environment \/ Peer

Spec == Init /\ [][Next]_vars

-------------------------------------------------------------------------------
(* Properties. *)

\* Type invariant: counters are naturals, and no ordinal outside its stream's
\* `seen' vector is ever marked.
TypeOK ==
    /\ inflight \in SUBSET Datagram
    /\ sent \in [Streams -> Nat]
    /\ faults \in 0 .. MaxFaults
    /\ stage \in {"warmup", "receiving", "barrier", "draining", "finished"}
    /\ seen \in [Streams -> SUBSET Nat]
    /\ \A s \in Streams : seen[s] \subseteq Ordinals(s)
    /\ next_ordinal \in [Streams -> Nat]
    /\ delivered_packets \in Nat
    /\ correctness \in [Discrepancies -> Nat]
    /\ heard \in [Streams -> Seq(Nat)]
    /\ foul \in BOOLEAN

\* The cheap completeness test of receive_until_complete (one cursor per
\* stream) means what it says: the cursor is the least ordinal not yet seen,
\* through any order of arrivals, so it reaches the end exactly when the
\* stream has no hole.
CursorIsLeastUnseen ==
    \A s \in Streams :
        /\ next_ordinal[s] \in 0 .. Packets[s]
        /\ next_ordinal[s] \notin seen[s]
        /\ \A o \in 0 .. (next_ordinal[s] - 1) : o \in seen[s]

\* Conservation: every owed packet is counted once, as delivered or, when the
\* ledger is finished, as missing; repeats and strays change neither count.
Conservation ==
    /\ delivered_packets = Cardinality(Slots \ Unseen)
    /\ stage = "finished" =>
            delivered_packets + correctness["missing"] = Cardinality(Slots)

\* The positions at which an ordinal of stream s came first.
FirstArrivals(s) ==
    { i \in 1 .. Len(heard[s]) : \A j \in 1 .. (i - 1) : heard[s][j] # heard[s][i] }

\* The first arrival at position i overtook an ordinal that was still due.
Overtook(s, i) ==
    \E o \in 0 .. (heard[s][i] - 1) : \A j \in 1 .. (i - 1) : heard[s][j] # o

\* The counters agree with what the whole history of arrivals says: repeats
\* are duplicates, and a first arrival is out of order exactly when a lower
\* ordinal of its stream had not come before it (so one lost packet charges
\* every later packet of the stream).
CountersMatchHistory ==
    LET arrivals == UNION { {s} \X (1 .. Len(heard[s])) : s \in Streams }
        repeats == { a \in arrivals : a[2] \notin FirstArrivals(a[1]) }
        late == { a \in arrivals \ repeats : Overtook(a[1], a[2]) }
    IN /\ correctness["duplicate"] = Cardinality(repeats)
       /\ correctness["out_of_order"] = Cardinality(late)

\* The account is an implementation of DeliveryAudit: a finished ledger has
\* no discrepancy exactly when every stream was heard once, completely, in
\* order and intact, and nothing else was heard.
Audit == INSTANCE DeliveryAudit WITH
    verdict <- IF stage # "finished" THEN "open"
               ELSE IF Clean THEN "clean" ELSE "dirty"

ImplementsAudit == Audit!AuditSpec
===============================================================================
