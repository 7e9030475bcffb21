-------------------------- MODULE PacketLedgerProofs --------------------------
(***************************************************************************)
(* For every set of streams and every number of packets: the ledger is     *)
(* type correct, its cursors are exact, no packet is counted twice or      *)
(* forgotten, its counters tell the history of arrivals, and it implements *)
(* DeliveryAudit.                                                          *)
(***************************************************************************)
EXTENDS PacketLedger, FiniteSetTheorems, WellFoundedInduction, TLAPS

-------------------------------------------------------------------------------
(* The cursor. *)

\* A nonempty set of naturals has a least element.
LEMMA LeastElement ==
  ASSUME NEW T \in SUBSET Nat, T # {}
  PROVE  \E x \in T : \A y \in T : x <= y
<1>1. PICK x \in T : \A y \in T : ~ (<<y, x>> \in OpToRel(<, Nat))
  BY NatLessThanWellFounded, WFMin
<1>2. ASSUME NEW y \in T PROVE ~ (y < x)
  <2>1. y \in Nat /\ x \in Nat /\ ~ (<<y, x>> \in OpToRel(<, Nat))
    BY <1>1
  <2> QED
    BY <2>1 DEF OpToRel
<1> QED
  BY <1>2

\* Advance returns the first unmarked ordinal at or after `from', or the length
\* of the stream: the while loop at the end of PacketLedger::observe.
LEMMA AdvanceIsLeast ==
  ASSUME NEW s \in Streams, NEW S, S \subseteq Ordinals(s),
         NEW from \in 0 .. Packets[s]
  PROVE  /\ Advance(s, S, from) \in from .. Packets[s]
         /\ Advance(s, S, from) \notin S
         /\ \A k \in from .. (Advance(s, S, from) - 1) : k \in S
<1> DEFINE T == { o \in from .. Packets[s] : o \notin S }
<1>1. Packets[s] \in Nat
  BY StreamsAssumption
<1>2. T \in SUBSET Nat /\ Packets[s] \in T
  BY <1>1 DEF Ordinals
<1>3. PICK x \in T : \A y \in T : x <= y
  BY <1>2, LeastElement
<1>4. \A k \in from .. (x - 1) : k \in S
  BY <1>1, <1>3
<1> QED
  BY <1>3, <1>4 DEF Advance

-------------------------------------------------------------------------------
(* The slots. *)

\* A ledger expects finitely many packets.
LEMMA SlotsAreFinite == IsFiniteSet(Slots)
<1> DEFINE F == { {s} \X Ordinals(s) : s \in Streams }
<1>1. IsFiniteSet(Streams) /\ Packets \in [Streams -> Nat \ {0}]
  BY StreamsAssumption
<1>2. IsFiniteSet(F)
  <2> DEFINE f == [s \in Streams |-> {s} \X Ordinals(s)]
  <2>1. f \in Surjection(Streams, F)
    BY DEF Surjection
  <2> QED
    BY <1>1, <2>1, FS_Surjection DEF ExistsSurjection
<1>3. ASSUME NEW s \in Streams PROVE IsFiniteSet({s} \X Ordinals(s))
  <2>1. 0 \in Int /\ Packets[s] - 1 \in Int
    BY <1>1
  <2>2. IsFiniteSet(Ordinals(s))
    BY <2>1, FS_Interval DEF Ordinals
  <2>3. IsFiniteSet({s})
    BY FS_Singleton
  <2> QED
    BY <2>2, <2>3, FS_Product
<1> QED
  BY <1>2, <1>3, FS_UNION DEF Slots

\* Hence finitely many are missing.
LEMMA UnseenIsFinite == IsFiniteSet(Unseen)
  BY SlotsAreFinite, FS_Subset DEF Unseen

-------------------------------------------------------------------------------
(* Type correctness. *)

\* Every field of the ledger keeps its type, and marks stay inside the `seen'
\* vectors, together with the cursor property Advance needs.
CursorInv == TypeOK /\ CursorIsLeastUnseen

\* One arrival keeps the types and the cursor (PacketLedger::observe).
LEMMA ObserveKeepsCursor ==
  ASSUME CursorInv, NEW d \in Datagram, observe(d)
  PROVE  /\ seen' \in [Streams -> SUBSET Nat]
         /\ \A s \in Streams : seen'[s] \subseteq Ordinals(s)
         /\ next_ordinal' \in [Streams -> Nat]
         /\ delivered_packets' \in Nat
         /\ correctness' \in [Discrepancies -> Nat]
         /\ heard' \in [Streams -> Seq(Nat)]
         /\ foul' \in BOOLEAN
         /\ CursorIsLeastUnseen'
<1>1. CASE ObserveUnexpected(d)
  BY <1>1 DEF CursorInv, TypeOK, CursorIsLeastUnseen, ObserveUnexpected, Charge
<1>2. CASE ObserveWarmup(d)
  BY <1>2 DEF CursorInv, TypeOK, CursorIsLeastUnseen, ObserveWarmup, ledgerVars
<1>3. CASE ObserveDuplicate(d)
  <2>1. d.ordinal \in Nat /\ d.stream \in Streams
    BY <1>3 DEF ObserveDuplicate, Expected, Datagram
  <2> QED
    BY <1>3, <2>1 DEF CursorInv, TypeOK, CursorIsLeastUnseen, ObserveDuplicate, Charge
<1>4. CASE ObserveDelivery(d)
  <2> DEFINE s == d.stream
             S == seen[s] \cup {d.ordinal}
  <2>1. s \in Streams /\ d.ordinal \in Ordinals(s) /\ d.ordinal \in Nat
    BY <1>4 DEF ObserveDelivery, Expected, Datagram
  <2>2. Packets \in [Streams -> Nat \ {0}]
    BY StreamsAssumption
  <2>3. /\ next_ordinal[s] \in 0 .. Packets[s]
        /\ \A o \in 0 .. (next_ordinal[s] - 1) : o \in S
        /\ S \subseteq Ordinals(s) /\ S \subseteq Nat
    BY <2>1 DEF CursorInv, TypeOK, CursorIsLeastUnseen
  <2>4. /\ seen' = [seen EXCEPT ![s] = S]
        /\ seen'[s] = S
        /\ next_ordinal' = [next_ordinal EXCEPT ![s] = Advance(s, S, next_ordinal[s])]
    BY <1>4, <2>1 DEF ObserveDelivery, CursorInv, TypeOK
  <2>5. /\ Advance(s, S, next_ordinal[s]) \in next_ordinal[s] .. Packets[s]
        /\ Advance(s, S, next_ordinal[s]) \notin S
        /\ \A k \in next_ordinal[s] .. (Advance(s, S, next_ordinal[s]) - 1) : k \in S
    <3> HIDE DEF S
    <3> QED
      BY <2>1, <2>3, AdvanceIsLeast
  <2>6. CursorIsLeastUnseen'
    <3> SUFFICES ASSUME NEW q \in Streams
                 PROVE  /\ next_ordinal'[q] \in 0 .. Packets[q]
                        /\ next_ordinal'[q] \notin seen'[q]
                        /\ \A o \in 0 .. (next_ordinal'[q] - 1) : o \in seen'[q]
      BY DEF CursorIsLeastUnseen
    <3>1. CASE q = s
      <4> HIDE DEF S
      <4>1. next_ordinal'[q] = Advance(s, S, next_ordinal[s]) /\ seen'[q] = S
        BY <3>1, <2>1, <2>4 DEF CursorInv, TypeOK
      <4> QED
        BY <3>1, <4>1, <2>2, <2>3, <2>5
    <3>2. CASE q # s
      BY <3>2, <2>1, <2>4 DEF CursorInv, TypeOK, CursorIsLeastUnseen
    <3> QED
      BY <3>1, <3>2
  <2>7. /\ seen' \in [Streams -> SUBSET Nat]
        /\ \A q \in Streams : seen'[q] \subseteq Ordinals(q)
    <3> HIDE DEF S
    <3> QED
      BY <2>1, <2>3, <2>4 DEF CursorInv, TypeOK
  <2>8. next_ordinal' \in [Streams -> Nat]
    <3> HIDE DEF S
    <3>1. Advance(s, S, next_ordinal[s]) \in Nat
      BY <2>1, <2>2, <2>3, <2>5
    <3> QED
      BY <2>1, <2>4, <3>1 DEF CursorInv, TypeOK
  <2>9. /\ delivered_packets' \in Nat
        /\ foul' \in BOOLEAN
        /\ heard' \in [Streams -> Seq(Nat)]
    BY <1>4, <2>1 DEF ObserveDelivery, CursorInv, TypeOK
  <2>10. correctness' \in [Discrepancies -> Nat]
    BY <1>4 DEF ObserveDelivery, CursorInv, TypeOK, Charge
  <2> QED
    BY <2>6, <2>7, <2>8, <2>9, <2>10
<1> QED
  BY <1>1, <1>2, <1>3, <1>4 DEF observe

\* A new ledger has its cursors at the first packet.
LEMMA InitCursor == Init => CursorInv
<1> SUFFICES ASSUME Init PROVE CursorInv
  OBVIOUS
<1>1. Packets \in [Streams -> Nat \ {0}] /\ Warmup \in Nat /\ MaxFaults \in Nat
  BY StreamsAssumption
<1>2. inflight \in SUBSET Datagram
  BY <1>1 DEF Init, Packet, Datagram, Bodies
<1>3. TypeOK
  <2>1. correctness \in [Discrepancies -> Nat] /\ heard \in [Streams -> Seq(Nat)]
    BY DEF Init, NoDiscrepancy
  <2>2. seen \in [Streams -> SUBSET Nat] /\ next_ordinal \in [Streams -> Nat]
    BY DEF Init
  <2>3. sent \in [Streams -> Nat] /\ faults \in 0 .. MaxFaults
    BY <1>1 DEF Init
  <2> QED
    BY <1>2, <2>1, <2>2, <2>3 DEF Init, TypeOK
<1>4. CursorIsLeastUnseen
  BY <1>1 DEF Init, CursorIsLeastUnseen
<1> QED
  BY <1>3, <1>4 DEF CursorInv

\* Every step keeps types and cursors.
LEMMA NextCursor == CursorInv /\ [Next]_vars => CursorInv'
<1> SUFFICES ASSUME CursorInv, [Next]_vars PROVE CursorInv'
  OBVIOUS
<1> USE DEF CursorInv
<1>0. /\ Packets \in [Streams -> Nat \ {0}]
      /\ MaxFaults \in Nat
  BY StreamsAssumption
<1>1. CASE UNCHANGED vars
  BY <1>1 DEF TypeOK, CursorIsLeastUnseen, vars, networkVars, ledgerVars
<1>2. ASSUME NEW s \in Streams, Publish(s) PROVE CursorInv'
  <2>1. Packet(s, "measured", sent[s]) \in Datagram
    BY <1>2 DEF TypeOK, Packet, Datagram, Bodies
  <2> QED
    BY <1>2, <2>1 DEF Publish, TypeOK, CursorIsLeastUnseen, ledgerVars
<1>3. ASSUME NEW d \in inflight, Lose(d) PROVE CursorInv'
  BY <1>3 DEF Lose, TypeOK, CursorIsLeastUnseen, ledgerVars
<1>4. ASSUME NEW d \in inflight, NEW body \in {"damaged", "unreadable"},
             Damage(d, body)
      PROVE  CursorInv'
  <2>1. [d EXCEPT !.body = body] \in Datagram
    BY DEF TypeOK, Datagram, Bodies
  <2>2. faults' \in 0 .. MaxFaults
    BY <1>0, <1>4 DEF Damage, TypeOK
  <2> QED
    BY <1>4, <2>1, <2>2 DEF Damage, TypeOK, CursorIsLeastUnseen, ledgerVars
<1>5. ASSUME NEW s \in Streams \cup Foreign, Misroute(s) PROVE CursorInv'
  <2>1. Packet(s, "measured", IF s \in Streams THEN Packets[s] ELSE 0) \in Datagram
    BY <1>0 DEF Packet, Datagram, Bodies
  <2>2. faults' \in 0 .. MaxFaults
    BY <1>0, <1>5 DEF Misroute, TypeOK
  <2> QED
    BY <1>5, <2>1, <2>2 DEF Misroute, TypeOK, CursorIsLeastUnseen, ledgerVars
<1>6. ASSUME NEW d \in inflight, Receive(d) PROVE CursorInv'
  <2>1. d \in Datagram /\ observe(d)
    BY <1>6 DEF Receive, TypeOK
  <2>2. /\ inflight' \in SUBSET Datagram
        /\ faults' \in 0 .. MaxFaults
        /\ sent' = sent /\ stage' = stage
    BY <1>0, <1>6 DEF Receive, TypeOK
  <2> QED
    BY <2>1, <2>2, ObserveKeepsCursor DEF TypeOK
<1>7. CASE BeginMeasured \/ ReceivedAll \/ ReceiveDeadline \/ BeginDrain
  BY <1>7 DEF BeginMeasured, ReceivedAll, ReceiveDeadline, BeginDrain, TypeOK,
     CursorIsLeastUnseen, networkVars, ledgerVars
<1>8. CASE Finish
  <2>1. Cardinality(Unseen) \in Nat
    BY FS_CardinalityType, UnseenIsFinite
  <2> QED
    BY <1>8, <2>1 DEF Finish, TypeOK, CursorIsLeastUnseen, networkVars, Discrepancies
<1> QED
  BY <1>1, <1>2, <1>3, <1>4, <1>5, <1>6, <1>7, <1>8 DEF Next, Environment, Peer

\* The ledger is type correct in every run, and its completeness cursor is the
\* least ordinal not yet seen: PacketLedger::observe and ExpectedStream.
THEOREM TypeCorrect == Spec => []TypeOK
<1>1. Spec => []CursorInv
  BY InitCursor, NextCursor, PTL DEF Spec
<1> QED
  BY <1>1, PTL DEF CursorInv

\* is_complete is as good as scanning every `seen' vector.
THEOREM CursorsAreExact == Spec => []CursorIsLeastUnseen
<1>1. Spec => []CursorInv
  BY InitCursor, NextCursor, PTL DEF Spec
<1> QED
  BY <1>1, PTL DEF CursorInv

-------------------------------------------------------------------------------
(* No packet is counted twice or forgotten. *)

\* The marks grow by the delivered slot alone.
LEMMA DeliveryFillsOneSlot ==
  ASSUME TypeOK, NEW d \in Datagram, ObserveDelivery(d)
  PROVE  /\ Unseen' = Unseen \ {<<d.stream, d.ordinal>>}
         /\ <<d.stream, d.ordinal>> \in Unseen
<1> DEFINE s == d.stream
<1>1. /\ s \in Streams /\ d.ordinal \in Ordinals(s) /\ d.ordinal \notin seen[s]
      /\ seen' = [seen EXCEPT ![s] = @ \cup {d.ordinal}]
  BY DEF ObserveDelivery, Expected
<1>2. <<s, d.ordinal>> \in Slots
  BY <1>1 DEF Slots
<1>3. ASSUME NEW slot \in Slots
      PROVE  slot[2] \notin seen'[slot[1]] <=>
                slot[2] \notin seen[slot[1]] /\ slot # <<s, d.ordinal>>
  <2>1. PICK q \in Streams : slot \in {q} \X Ordinals(q)
    BY DEF Slots
  <2>2. slot = <<slot[1], slot[2]>> /\ slot[1] \in Streams
    BY <2>1
  <2> QED
    BY <1>1, <2>2 DEF TypeOK
<1> QED
  BY <1>1, <1>2, <1>3 DEF Unseen

ConservationInv ==
    /\ TypeOK
    /\ delivered_packets + Cardinality(Unseen) = Cardinality(Slots)
    /\ stage = "finished" => correctness["missing"] = Cardinality(Unseen)

\* The packets that are marked are those that are not missing.
LEMMA SeenIsTheRest ==
  Cardinality(Slots \ Unseen) = Cardinality(Slots) - Cardinality(Unseen)
<1>1. Slots \cap Unseen = Unseen
  BY DEF Unseen
<1> QED
  BY <1>1, SlotsAreFinite, FS_Difference

\* Every step keeps the count of deliveries in step with the marks.
LEMMA NextConserves == ConservationInv /\ TypeOK' /\ [Next]_vars => ConservationInv'
<1> SUFFICES ASSUME ConservationInv, TypeOK', [Next]_vars PROVE ConservationInv'
  OBVIOUS
<1> USE DEF ConservationInv
<1>1. ASSUME UNCHANGED <<seen, delivered_packets, stage, correctness>>
      PROVE  ConservationInv'
  <2>1. Unseen' = Unseen
    BY <1>1 DEF Unseen
  <2> QED
    BY <1>1, <2>1
<1>2. ASSUME UNCHANGED <<seen, delivered_packets>>, stage' # "finished"
      PROVE  ConservationInv'
  <2>1. Unseen' = Unseen
    BY <1>2 DEF Unseen
  <2> QED
    BY <1>2, <2>1
<1>3. CASE UNCHANGED vars
  BY <1>1, <1>3 DEF vars, ledgerVars
<1>4. CASE Environment
  BY <1>1, <1>4 DEF Environment, Publish, Lose, Damage, Misroute, ledgerVars
<1>5. ASSUME NEW d \in inflight, Receive(d) PROVE ConservationInv'
  <2>1. stage' = stage /\ stage' # "finished" /\ observe(d) /\ d \in Datagram
    BY <1>5 DEF Receive, Reading, TypeOK
  <2>2. CASE ObserveDelivery(d)
    <3>1. Unseen' = Unseen \ {<<d.stream, d.ordinal>>} /\ <<d.stream, d.ordinal>> \in Unseen
      BY <2>1, <2>2, DeliveryFillsOneSlot
    <3>2. Cardinality(Unseen') = Cardinality(Unseen) - 1 /\ Cardinality(Unseen) \in Nat
      BY <3>1, UnseenIsFinite, FS_RemoveElement, FS_CardinalityType
    <3>3. delivered_packets' = delivered_packets + 1 /\ delivered_packets \in Nat
      BY <2>2 DEF ObserveDelivery, TypeOK
    <3> QED
      BY <2>1, <3>2, <3>3
  <2>3. CASE ObserveUnexpected(d) \/ ObserveWarmup(d) \/ ObserveDuplicate(d)
    BY <1>2, <2>1, <2>3
       DEF ObserveUnexpected, ObserveWarmup, ObserveDuplicate, ledgerVars
  <2> QED
    BY <2>1, <2>2, <2>3 DEF observe
<1>6. CASE BeginMeasured \/ ReceivedAll \/ ReceiveDeadline \/ BeginDrain
  BY <1>2, <1>6 DEF BeginMeasured, ReceivedAll, ReceiveDeadline, BeginDrain, ledgerVars
<1>7. CASE Finish
  <2>1. Unseen' = Unseen
    BY <1>7 DEF Finish, Unseen
  <2>2. correctness'["missing"] = Cardinality(Unseen)
    BY <1>7 DEF Finish, TypeOK, Discrepancies
  <2> QED
    BY <1>7, <2>1, <2>2 DEF Finish
<1> QED
  BY <1>3, <1>4, <1>5, <1>6, <1>7 DEF Next, Peer

\* A new ledger has delivered nothing and misses everything.
LEMMA InitConserves == Init => ConservationInv
<1> SUFFICES ASSUME Init PROVE ConservationInv
  OBVIOUS
<1>1. TypeOK
  BY InitCursor DEF CursorInv
<1>2. \A slot \in Slots : slot[2] \notin seen[slot[1]]
  BY DEF Init, Slots
<1>3. Unseen = Slots
  BY <1>2 DEF Unseen
<1>4. Cardinality(Slots) \in Nat
  BY SlotsAreFinite, FS_CardinalityType
<1> QED
  BY <1>1, <1>3, <1>4 DEF ConservationInv, Init

\* Every packet a peer is owed is counted once: as delivered, or as missing
\* when PacketLedger::finish closes the account.
THEOREM PacketsAreConserved == Spec => []Conservation
<1>1. ConservationInv => Conservation
  <2> SUFFICES ASSUME ConservationInv PROVE Conservation
    OBVIOUS
  <2>1. /\ Cardinality(Slots) \in Nat /\ Cardinality(Unseen) \in Nat
        /\ delivered_packets \in Nat
    BY SlotsAreFinite, UnseenIsFinite, FS_CardinalityType DEF ConservationInv, TypeOK
  <2> QED
    BY <2>1, SeenIsTheRest DEF ConservationInv, Conservation
<1>2. Spec => []ConservationInv
  BY InitConserves, NextConserves, TypeCorrect, PTL DEF Spec
<1> QED
  BY <1>1, <1>2, PTL

-------------------------------------------------------------------------------
(* The verdict. *)

\* Nothing charged so far, and nothing but each stream's ordinals in order.
NothingCharged ==
    \A k \in Discrepancies \ {"missing"} : correctness[k] = 0

ExactSoFar ==
    /\ ~foul
    /\ \A s \in Streams : \A i \in 1 .. Len(heard[s]) : heard[s][i] = i - 1

\* While the arrivals are exact the cursor counts them, and the marks below it
\* are all there are.
MarksMatch ==
    \A s \in Streams : /\ next_ordinal[s] = Len(heard[s])
                       /\ seen[s] = 0 .. (Len(heard[s]) - 1)

VerdictInv ==
    /\ CursorInv
    /\ NothingCharged <=> ExactSoFar
    /\ ExactSoFar => MarksMatch
    /\ stage = "finished" => correctness["missing"] = Cardinality(Unseen)

\* Steps that leave the ledger alone keep the verdict.
LEMMA VerdictIgnoresTheRest ==
  ASSUME VerdictInv, CursorInv', stage' # "finished",
         UNCHANGED <<ledgerVars, heard, foul>>
  PROVE  VerdictInv'
BY DEF VerdictInv, NothingCharged, ExactSoFar, MarksMatch, ledgerVars

\* One arrival keeps the counters and the history in step.
LEMMA ObserveKeepsVerdict ==
  ASSUME VerdictInv, CursorInv', NEW d \in Datagram, observe(d)
  PROVE  /\ NothingCharged' <=> ExactSoFar'
         /\ ExactSoFar' => MarksMatch'
<1> USE DEF VerdictInv, CursorInv
<1>1. CASE ObserveUnexpected(d)
  <2>1. correctness'["unexpected"] # 0
    BY <1>1 DEF ObserveUnexpected, Charge, TypeOK, Discrepancies
  <2>2. ~NothingCharged'
    BY <2>1 DEF NothingCharged, Discrepancies
  <2>3. ~ExactSoFar'
    BY <1>1 DEF ObserveUnexpected, ExactSoFar
  <2> QED
    BY <2>2, <2>3
<1>2. CASE ObserveWarmup(d)
  BY <1>2 DEF ObserveWarmup, ledgerVars, NothingCharged, ExactSoFar, MarksMatch
<1>3. CASE Expected(d) /\ (ObserveDuplicate(d) \/ ObserveDelivery(d))
  <2> DEFINE s == d.stream
             n == Len(heard[s])
             late == d.ordinal # next_ordinal[s]
  <2>1. /\ s \in Streams /\ d.ordinal \in Ordinals(s) /\ d.ordinal \in Nat
        /\ heard[s] \in Seq(Nat) /\ n \in Nat
        /\ next_ordinal[s] \in Nat
    BY <1>3 DEF Expected, Datagram, TypeOK
  <2>2. /\ heard' = [heard EXCEPT ![s] = Append(@, d.ordinal)]
        /\ foul' = (foul \/ d.body = "damaged")
    BY <1>3 DEF ObserveDuplicate, ObserveDelivery
  <2>3. /\ Len(heard'[s]) = n + 1
        /\ heard'[s][n + 1] = d.ordinal
        /\ \A i \in 1 .. n : heard'[s][i] = heard[s][i]
        /\ \A q \in Streams \ {s} : heard'[q] = heard[q]
    BY <2>1, <2>2 DEF TypeOK
  <2>4. ExactSoFar' <=> ExactSoFar /\ d.body # "damaged" /\ d.ordinal = n
    <3>1. ASSUME ExactSoFar'
          PROVE  ExactSoFar /\ d.body # "damaged" /\ d.ordinal = n
      <4>1. heard'[s][n + 1] = (n + 1) - 1
        BY <2>1, <2>3, <3>1 DEF ExactSoFar
      <4>2. ASSUME NEW q \in Streams, NEW i \in 1 .. Len(heard[q])
            PROVE  heard[q][i] = i - 1
        <5>1. CASE q = s
          <6>1. i \in 1 .. n /\ i \in 1 .. Len(heard'[s])
            BY <5>1, <2>1, <2>3
          <6>2. heard'[s][i] = i - 1
            BY <6>1, <2>1, <3>1 DEF ExactSoFar
          <6> QED
            BY <5>1, <6>1, <6>2, <2>3
        <5>2. CASE q # s
          BY <5>2, <2>3, <3>1 DEF ExactSoFar
        <5> QED
          BY <5>1, <5>2
      <4>3. ~foul /\ d.body # "damaged"
        BY <2>2, <3>1 DEF ExactSoFar
      <4> QED
        BY <2>1, <2>3, <4>1, <4>2, <4>3 DEF ExactSoFar
    <3>2. ASSUME ExactSoFar, d.body # "damaged", d.ordinal = n
          PROVE  ExactSoFar'
      <4>1. ASSUME NEW q \in Streams, NEW i \in 1 .. Len(heard'[q])
            PROVE  heard'[q][i] = i - 1
        <5>1. CASE q = s /\ i \in 1 .. n
          BY <5>1, <2>3, <3>2 DEF ExactSoFar
        <5>2. CASE q = s /\ i = n + 1
          BY <5>2, <2>1, <2>3, <3>2
        <5>3. CASE q # s
          BY <5>3, <2>3, <3>2 DEF ExactSoFar
        <5>4. q = s => i \in 1 .. n \/ i = n + 1
          BY <2>1, <2>3
        <5> QED
          BY <5>1, <5>2, <5>3, <5>4
      <4>2. ~foul'
        BY <2>2, <3>2 DEF ExactSoFar
      <4> QED
        BY <4>1, <4>2 DEF ExactSoFar
    <3> QED
      BY <3>1, <3>2
  <2>5. CASE ObserveDuplicate(d)
    <3>1. correctness'["duplicate"] # 0
      BY <2>5 DEF ObserveDuplicate, Charge, TypeOK, Discrepancies
    <3>2. ~NothingCharged'
      BY <3>1 DEF NothingCharged, Discrepancies
    <3>3. ASSUME ExactSoFar PROVE d.ordinal # n
      BY <2>1, <2>5, <3>3 DEF ObserveDuplicate, MarksMatch
    <3> QED
      BY <2>4, <3>2, <3>3
  <2>6. CASE ObserveDelivery(d)
    <3>1. /\ correctness'["mismatch"] =
                correctness["mismatch"] + (IF d.body = "damaged" THEN 1 ELSE 0)
          /\ correctness'["out_of_order"] =
                correctness["out_of_order"] + (IF late THEN 1 ELSE 0)
          /\ correctness'["duplicate"] = correctness["duplicate"]
          /\ correctness'["unexpected"] = correctness["unexpected"]
      BY <2>6 DEF ObserveDelivery, Charge, TypeOK, Discrepancies
    <3>2. NothingCharged' <=> NothingCharged /\ d.body # "damaged" /\ ~late
      <4>1. /\ correctness["mismatch"] \in Nat /\ correctness["out_of_order"] \in Nat
        BY DEF TypeOK, Discrepancies
      <4>2. /\ NothingCharged  <=> /\ correctness["mismatch"] = 0
                                  /\ correctness["out_of_order"] = 0
                                  /\ correctness["duplicate"] = 0
                                  /\ correctness["unexpected"] = 0
            /\ NothingCharged' <=> /\ correctness'["mismatch"] = 0
                                  /\ correctness'["out_of_order"] = 0
                                  /\ correctness'["duplicate"] = 0
                                  /\ correctness'["unexpected"] = 0
        BY DEF NothingCharged, Discrepancies
      <4> QED
        BY <3>1, <4>1, <4>2
    <3>3. ASSUME ExactSoFar PROVE late <=> d.ordinal # n
      BY <2>1, <3>3 DEF MarksMatch
    <3>4. NothingCharged' <=> ExactSoFar'
      BY <2>4, <3>2, <3>3
    <3>5. ASSUME ExactSoFar' PROVE MarksMatch'
      <4>1. ExactSoFar /\ MarksMatch /\ d.ordinal = n
        BY <2>4, <3>5
      <4>2. /\ seen'[s] = seen[s] \cup {n}
            /\ \A q \in Streams \ {s} : seen'[q] = seen[q] /\ next_ordinal'[q] = next_ordinal[q]
        BY <2>1, <2>6, <4>1 DEF ObserveDelivery, TypeOK
      <4>3. seen'[s] = 0 .. n
        BY <2>1, <4>1, <4>2 DEF MarksMatch
      <4>4. next_ordinal'[s] = n + 1
        <5>1. /\ next_ordinal'[s] \in Nat /\ next_ordinal'[s] \notin 0 .. n
              /\ \A o \in 0 .. (next_ordinal'[s] - 1) : o \in 0 .. n
          BY <2>1, <4>3 DEF CursorIsLeastUnseen, TypeOK
        <5>2. ~(next_ordinal'[s] > n + 1)
          <6> SUFFICES ASSUME next_ordinal'[s] > n + 1 PROVE FALSE
            OBVIOUS
          <6>1. n + 1 \in 0 .. (next_ordinal'[s] - 1)
            BY <2>1, <5>1
          <6> QED
            BY <2>1, <5>1, <6>1
        <5> QED
          BY <2>1, <5>1, <5>2
      <4>5. ASSUME NEW q \in Streams
            PROVE  /\ next_ordinal'[q] = Len(heard'[q])
                   /\ seen'[q] = 0 .. (Len(heard'[q]) - 1)
        <5>1. CASE q = s
          BY <5>1, <2>1, <2>3, <4>3, <4>4
        <5>2. CASE q # s
          BY <5>2, <2>3, <4>1, <4>2 DEF MarksMatch
        <5> QED
          BY <5>1, <5>2
      <4> QED
        BY <4>5 DEF MarksMatch
    <3> QED
      BY <3>4, <3>5
  <2> QED
    BY <1>3, <2>5, <2>6
<1> QED
  BY <1>1, <1>2, <1>3 DEF observe, ObserveDuplicate, ObserveDelivery

\* Every step keeps the counters and the history in step.
LEMMA NextKeepsVerdict == VerdictInv /\ CursorInv' /\ [Next]_vars => VerdictInv'
<1> SUFFICES ASSUME VerdictInv, CursorInv', [Next]_vars PROVE VerdictInv'
  OBVIOUS
<1>1. CASE UNCHANGED vars
  BY <1>1 DEF vars, networkVars, ledgerVars, VerdictInv, NothingCharged, ExactSoFar,
     MarksMatch, Unseen
<1>2. CASE Environment
  <2>1. UNCHANGED <<stage, ledgerVars, heard, foul>>
    BY <1>2 DEF Environment, Publish, Lose, Damage, Misroute
  <2> QED
    BY <2>1 DEF ledgerVars, VerdictInv, NothingCharged, ExactSoFar, MarksMatch, Unseen
<1>3. ASSUME NEW d \in inflight, Receive(d) PROVE VerdictInv'
  <2>1. d \in Datagram /\ observe(d) /\ stage' = stage /\ stage # "finished"
    BY <1>3 DEF Receive, Reading, VerdictInv, CursorInv, TypeOK
  <2> QED
    BY <2>1, ObserveKeepsVerdict DEF VerdictInv
<1>4. CASE BeginMeasured \/ ReceivedAll \/ ReceiveDeadline \/ BeginDrain
  <2>1. stage' # "finished" /\ UNCHANGED <<ledgerVars, heard, foul>>
    BY <1>4 DEF BeginMeasured, ReceivedAll, ReceiveDeadline, BeginDrain
  <2> QED
    BY <2>1, VerdictIgnoresTheRest
<1>5. CASE Finish
  <2>1. Unseen' = Unseen
    BY <1>5 DEF Finish, Unseen
  <2>2. /\ correctness'["missing"] = Cardinality(Unseen)
        /\ \A k \in Discrepancies \ {"missing"} : correctness'[k] = correctness[k]
    BY <1>5 DEF Finish, VerdictInv, CursorInv, TypeOK, Discrepancies
  <2>3. NothingCharged' <=> NothingCharged
    BY <2>2 DEF NothingCharged
  <2> QED
    BY <1>5, <2>1, <2>2, <2>3 DEF Finish, VerdictInv, ExactSoFar, MarksMatch
<1> QED
  BY <1>1, <1>2, <1>3, <1>4, <1>5 DEF Next, Peer

\* A new ledger has charged nothing, and nothing was foul.
LEMMA InitVerdict == Init => VerdictInv
<1> SUFFICES ASSUME Init PROVE VerdictInv
  OBVIOUS
<1>1. CursorInv
  BY InitCursor
<1>2. NothingCharged
  BY DEF Init, NoDiscrepancy, NothingCharged
<1>3. ExactSoFar /\ MarksMatch
  BY DEF Init, ExactSoFar, MarksMatch
<1> QED
  BY <1>1, <1>2, <1>3 DEF VerdictInv, Init

\* A closed account without discrepancy is an exact delivery, and conversely.
LEMMA FinishIsExact ==
  ASSUME VerdictInv, Finish, VerdictInv'
  PROVE  Clean' <=> Audit!Exact
<1> USE DEF VerdictInv, CursorInv
<1>1. /\ Packets \in [Streams -> Nat \ {0}] /\ heard \in [Streams -> Seq(Nat)]
      /\ UNCHANGED <<seen, next_ordinal, heard, foul>>
  BY StreamsAssumption DEF Finish, TypeOK
<1>2. Unseen' = Unseen /\ IsFiniteSet(Unseen)
  BY <1>1, UnseenIsFinite DEF Unseen
<1>3. Clean' <=> NothingCharged' /\ Unseen = {}
  <2>1. correctness'["missing"] = Cardinality(Unseen)
    BY <1>2 DEF Finish
  <2>2. correctness'["missing"] = 0 <=> Unseen = {}
    BY <1>2, <2>1, FS_EmptySet
  <2> QED
    BY <2>2 DEF Clean, NothingCharged, Discrepancies
<1>4. NothingCharged' <=> ExactSoFar
  BY <1>1 DEF ExactSoFar
<1>5. ASSUME ExactSoFar, Unseen = {} PROVE Audit!Exact
  <2>1. MarksMatch
    BY <1>5
  <2>2. ASSUME NEW s \in Streams PROVE heard[s] = Audit!InOrder(s)
    <3>1. Len(heard[s]) \in Nat /\ Packets[s] \in Nat \ {0}
      BY <1>1
    <3>2. Len(heard[s]) <= Packets[s]
      BY <2>1, <3>1 DEF MarksMatch, CursorIsLeastUnseen
    <3>3. ~(Len(heard[s]) < Packets[s])
      <4> SUFFICES ASSUME Len(heard[s]) < Packets[s] PROVE FALSE
        OBVIOUS
      <4>1. Len(heard[s]) \in Ordinals(s) /\ Len(heard[s]) \notin seen[s]
        BY <2>1, <3>1 DEF MarksMatch, Ordinals
      <4>2. <<s, Len(heard[s])>> \in Unseen
        BY <4>1 DEF Unseen, Slots
      <4> QED
        BY <1>5, <4>2
    <3>4. Len(heard[s]) = Packets[s]
      BY <3>1, <3>2, <3>3
    <3>5. heard[s] = [i \in 1 .. Packets[s] |-> heard[s][i]]
      BY <1>1, <3>4
    <3>6. \A i \in 1 .. Packets[s] : heard[s][i] = i - 1
      BY <1>5, <3>4 DEF ExactSoFar
    <3> QED
      BY <3>5, <3>6 DEF Audit!InOrder
  <2> QED
    BY <1>5, <2>2 DEF Audit!Exact, ExactSoFar
<1>6. ASSUME Audit!Exact PROVE ExactSoFar /\ Unseen = {}
  <2>1. ASSUME NEW s \in Streams
        PROVE  /\ Len(heard[s]) = Packets[s]
               /\ \A i \in 1 .. Len(heard[s]) : heard[s][i] = i - 1
    <3>1. heard[s] = [i \in 1 .. Packets[s] |-> i - 1]
      BY <1>6 DEF Audit!Exact, Audit!InOrder
    <3>2. heard[s] \in Seq(Nat) /\ Packets[s] \in Nat
      BY <1>1
    <3>3. Len(heard[s]) = Packets[s]
      BY <3>1, <3>2
    <3> QED
      BY <3>1, <3>3
  <2>2. ExactSoFar
    BY <1>6, <2>1 DEF Audit!Exact, ExactSoFar
  <2>3. MarksMatch
    BY <2>2
  <2>4. ASSUME NEW slot \in Slots PROVE slot[2] \in seen[slot[1]]
    <3>1. PICK s \in Streams : slot \in {s} \X Ordinals(s)
      BY DEF Slots
    <3>2. slot[1] = s /\ slot[2] \in Ordinals(s)
      BY <3>1
    <3> QED
      BY <2>1, <2>3, <3>2 DEF MarksMatch, Ordinals
  <2> QED
    BY <2>2, <2>4 DEF Unseen
<1> QED
  BY <1>3, <1>4, <1>5, <1>6

\* The ledger implements DeliveryAudit: scenario.rs finds a peer without
\* discrepancy exactly when every stream it subscribes to was heard once,
\* completely, in order and intact, and nothing else was heard.
THEOREM LedgerImplementsAudit == Spec => ImplementsAudit
<1> DEFINE verdict == IF stage # "finished" THEN "open"
                      ELSE IF Clean THEN "clean" ELSE "dirty"
<1>1. Init => Audit!AuditInit
  BY DEF Init, Audit!AuditInit
<1>2. VerdictInv /\ VerdictInv' /\ [Next]_vars => [Audit!AuditNext]_(Audit!auditVars)
  <2> SUFFICES ASSUME VerdictInv, VerdictInv', [Next]_vars
               PROVE  Audit!AuditNext \/ UNCHANGED <<heard, foul, verdict>>
    BY DEF Audit!auditVars
  <2>1. CASE UNCHANGED <<heard, foul, stage, correctness>>
    BY <2>1 DEF Clean
  <2>2. CASE UNCHANGED vars
    BY <2>1, <2>2 DEF vars, ledgerVars
  <2>3. CASE Environment
    BY <2>1, <2>3 DEF Environment, Publish, Lose, Damage, Misroute, ledgerVars
  <2>4. ASSUME NEW d \in inflight, Receive(d)
        PROVE  Audit!AuditNext \/ UNCHANGED <<heard, foul, verdict>>
    <3>1. d \in Datagram /\ stage # "finished" /\ stage' = stage /\ observe(d)
      BY <2>4 DEF Receive, Reading, VerdictInv, CursorInv, TypeOK
    <3>2. verdict = "open" /\ verdict' = verdict
      BY <3>1
    <3>3. CASE ObserveUnexpected(d)
      <4>1. Audit!HearStray
        BY <3>2, <3>3 DEF ObserveUnexpected, Audit!HearStray
      <4> QED
        BY <4>1 DEF Audit!AuditNext
    <3>4. CASE ObserveWarmup(d)
      BY <3>2, <3>4 DEF ObserveWarmup
    <3>5. CASE ObserveDuplicate(d) \/ ObserveDelivery(d)
      <4>1. d.stream \in Streams /\ d.ordinal \in Audit!Ordinals(d.stream)
        BY <3>5 DEF ObserveDuplicate, ObserveDelivery, Expected, Ordinals, Audit!Ordinals
      <4>2. Audit!Hear(d.stream, d.ordinal, d.body = "damaged")
        BY <3>2, <3>5 DEF ObserveDuplicate, ObserveDelivery, Audit!Hear
      <4> QED
        BY <4>1, <4>2 DEF Audit!AuditNext
    <3> QED
      BY <3>1, <3>3, <3>4, <3>5 DEF observe
  <2>5. CASE BeginMeasured \/ ReceivedAll \/ ReceiveDeadline \/ BeginDrain
    BY <2>5 DEF BeginMeasured, ReceivedAll, ReceiveDeadline, BeginDrain
  <2>6. CASE Finish
    <3>1. Clean' <=> Audit!Exact
      BY <2>6, FinishIsExact
    <3>2. Audit!Close
      BY <2>6, <3>1 DEF Finish, Audit!Close
    <3> QED
      BY <3>2 DEF Audit!AuditNext
  <2> QED
    BY <2>2, <2>3, <2>4, <2>5, <2>6 DEF Next, Peer
<1>3. Spec => []CursorInv
  BY InitCursor, NextCursor, PTL DEF Spec
<1>4. Spec => []VerdictInv
  BY <1>3, InitVerdict, NextKeepsVerdict, PTL DEF Spec
<1> QED
  BY <1>1, <1>2, <1>4, PTL DEF Spec, ImplementsAudit, Audit!AuditSpec

-------------------------------------------------------------------------------
(* The history. *)

Arrivals == UNION { {s} \X (1 .. Len(heard[s])) : s \in Streams }

Repeats == { a \in Arrivals : a[2] \notin FirstArrivals(a[1]) }

Late == { a \in Arrivals \ Repeats : Overtook(a[1], a[2]) }

\* An ordinal is marked when it has been heard; the counters count the arrivals of the history.
HistoryInv ==
    /\ \A s \in Streams : \A o \in Nat :
           o \in seen[s] <=> \E j \in 1 .. Len(heard[s]) : heard[s][j] = o
    /\ IsFiniteSet(Repeats) /\ correctness["duplicate"] = Cardinality(Repeats)
    /\ IsFiniteSet(Late) /\ correctness["out_of_order"] = Cardinality(Late)

\* An arrival is repeated, or late, whatever comes after it.
LEMMA PastIsSettled ==
  ASSUME TypeOK, NEW s \in Streams, NEW o \in Nat,
         heard' = [heard EXCEPT ![s] = Append(@, o)]
  PROVE  /\ Arrivals' = Arrivals \cup {<<s, Len(heard[s]) + 1>>}
         /\ <<s, Len(heard[s]) + 1>> \notin Arrivals
         /\ \A a \in Arrivals : /\ a \in Repeats' <=> a \in Repeats
                                /\ a \in Late' <=> a \in Late
<1> DEFINE n == Len(heard[s])
<1>1. /\ n \in Nat /\ Len(heard'[s]) = n + 1 /\ heard'[s][n + 1] = o
      /\ \A i \in 1 .. n : heard'[s][i] = heard[s][i]
      /\ \A q \in Streams \ {s} : heard'[q] = heard[q]
  BY DEF TypeOK
<1>2. \A q \in Streams : Len(heard[q]) \in Nat /\ heard[q] \in Seq(Nat)
  BY DEF TypeOK
<1>3. \A a : a \in Arrivals <=> \E q \in Streams : \E i \in 1 .. Len(heard[q]) : a = <<q, i>>
  BY DEF Arrivals
<1>4. \A a : a \in Arrivals' <=> \E q \in Streams : \E i \in 1 .. Len(heard'[q]) : a = <<q, i>>
  BY DEF Arrivals
<1>5. \A i : i \in 1 .. n + 1 <=> i \in 1 .. n \/ i = n + 1
  BY <1>1
<1>6. ~(n + 1 \in 1 .. n)
  BY <1>1
<1>7. <<s, n + 1>> \notin Arrivals
  BY <1>3, <1>6
<1>8. Arrivals' = Arrivals \cup {<<s, n + 1>>}
  <2>1. ASSUME NEW a \in Arrivals' PROVE a \in Arrivals \/ a = <<s, n + 1>>
    <3>1. PICK q \in Streams : \E i \in 1 .. Len(heard'[q]) : a = <<q, i>>
      BY <1>4
    <3> QED
      BY <1>1, <1>3, <1>5, <3>1
  <2>2. ASSUME NEW a \in Arrivals PROVE a \in Arrivals'
    <3>1. PICK q \in Streams : \E i \in 1 .. Len(heard[q]) : a = <<q, i>>
      BY <1>3
    <3> QED
      BY <1>1, <1>4, <1>5, <3>1
  <2>3. <<s, n + 1>> \in Arrivals'
    BY <1>1, <1>4, <1>5
  <2> QED
    BY <2>1, <2>2, <2>3
<1>9. ASSUME NEW a \in Arrivals
      PROVE  /\ a \in Repeats' <=> a \in Repeats
             /\ a \in Late' <=> a \in Late
  <2>0. PICK q \in Streams : \E i \in 1 .. Len(heard[q]) : a = <<q, i>>
    BY <1>3
  <2>1. PICK i \in 1 .. Len(heard[q]) : a = <<q, i>>
    BY <2>0
  <2>2. /\ i \in 1 .. Len(heard'[q]) /\ heard'[q][i] = heard[q][i] /\ i \in Nat
        /\ \A j \in 1 .. i - 1 : heard'[q][j] = heard[q][j]
    <3>1. CASE q = s
      BY <1>1, <1>5, <2>1, <3>1
    <3>2. CASE q # s
      BY <1>1, <1>2, <2>1, <3>2
    <3> QED
      BY <3>1, <3>2
  <2>3. i \in FirstArrivals(q)' <=> i \in FirstArrivals(q)
    BY <2>1, <2>2 DEF FirstArrivals
  <2>4. Overtook(q, i)' <=> Overtook(q, i)
    BY <2>2 DEF Overtook
  <2>5. a[1] = q /\ a[2] = i /\ a \in Arrivals'
    BY <2>1, <1>8
  <2>6. a \in Repeats <=> i \notin FirstArrivals(q)
    BY <2>5 DEF Repeats
  <2>7. a \in Repeats' <=> i \notin FirstArrivals(q)'
    BY <2>5 DEF Repeats
  <2>8. a \in Late <=> a \notin Repeats /\ Overtook(q, i)
    BY <2>5 DEF Late
  <2>9. a \in Late' <=> a \notin Repeats' /\ Overtook(q, i)'
    BY <2>5 DEF Late
  <2> QED
    BY <2>3, <2>4, <2>6, <2>7, <2>8, <2>9
<1> QED
  BY <1>7, <1>8, <1>9

\* The last arrival is a repeat if its ordinal was marked, and otherwise late if it is not the
\* one under the cursor.
LEMMA LastArrival ==
  ASSUME CursorInv, HistoryInv, NEW s \in Streams, NEW o \in Nat,
         heard' = [heard EXCEPT ![s] = Append(@, o)]
  PROVE  /\ <<s, Len(heard[s]) + 1>> \in Repeats' <=> o \in seen[s]
         /\ <<s, Len(heard[s]) + 1>> \in Late' <=> o \notin seen[s] /\ o # next_ordinal[s]
<1> DEFINE n == Len(heard[s])
<1>0. PICK m : m = n + 1
  OBVIOUS
<1>1. /\ n \in Nat /\ m \in Nat /\ m - 1 = n
      /\ m \in 1 .. Len(heard'[s]) /\ heard'[s][m] = o
      /\ \A i \in 1 .. n : heard'[s][i] = heard[s][i]
  BY <1>0 DEF CursorInv, TypeOK
<1>2. <<s, m>> \in Arrivals'
  BY <1>0, PastIsSettled DEF CursorInv
<1>3. m \in FirstArrivals(s)' <=> o \notin seen[s]
  <2>1. m \in FirstArrivals(s)' <=> \A j \in 1 .. n : heard'[s][j] # heard'[s][m]
    BY <1>1 DEF FirstArrivals
  <2> QED
    BY <1>1, <2>1 DEF HistoryInv
<1>4. Overtook(s, m)' <=> \E k \in 0 .. (o - 1) : k \notin seen[s]
  <2>1. Overtook(s, m)' <=> \E k \in 0 .. (o - 1) : \A j \in 1 .. n : heard'[s][j] # k
    BY <1>1 DEF Overtook
  <2>2. \A k \in 0 .. (o - 1) : k \in Nat
    OBVIOUS
  <2> QED
    BY SMTT(30), <1>1, <2>1, <2>2 DEF HistoryInv
<1>5. ASSUME o \notin seen[s]
      PROVE  (\E k \in 0 .. (o - 1) : k \notin seen[s]) <=> o # next_ordinal[s]
  <2>1. /\ next_ordinal[s] \in Nat /\ next_ordinal[s] \notin seen[s]
        /\ \A k \in 0 .. (next_ordinal[s] - 1) : k \in seen[s]
    BY DEF CursorInv, TypeOK, CursorIsLeastUnseen
  <2>2. ~(o < next_ordinal[s])
    BY <1>5, <2>1
  <2>3. CASE o = next_ordinal[s]
    BY <2>1, <2>3
  <2>4. CASE o > next_ordinal[s]
    <3>1. next_ordinal[s] \in 0 .. (o - 1)
      BY <2>1, <2>4
    <3> QED
      BY <2>1, <2>4, <3>1
  <2> QED
    BY <2>1, <2>2, <2>3, <2>4
<1>6. <<s, m>> \in Repeats' <=> o \in seen[s]
  BY <1>2, <1>3 DEF Repeats
<1>7. <<s, m>> \in Late' <=> <<s, m>> \notin Repeats' /\ Overtook(s, m)'
  BY <1>2 DEF Late
<1> QED
  BY <1>0, <1>4, <1>5, <1>6, <1>7

\* A step that hears nothing, or something that is no stream's, keeps the history.
LEMMA NothingHeard ==
  ASSUME HistoryInv, UNCHANGED <<seen, heard>>,
         correctness'["duplicate"] = correctness["duplicate"],
         correctness'["out_of_order"] = correctness["out_of_order"]
  PROVE  HistoryInv'
<1>1. Repeats' = Repeats /\ Late' = Late
  BY DEF Late, Repeats, Arrivals, FirstArrivals, Overtook
<1> QED
  BY <1>1 DEF HistoryInv

\* One arrival is counted as what it is.
LEMMA ObserveKeepsHistory ==
  ASSUME CursorInv, HistoryInv, NEW d \in Datagram, observe(d)
  PROVE  HistoryInv'
<1>0. /\ correctness \in [Discrepancies -> Nat]
      /\ \A q \in Streams : seen[q] \in SUBSET Nat /\ heard[q] \in Seq(Nat)
      /\ seen \in [Streams -> SUBSET Nat] /\ heard \in [Streams -> Seq(Nat)]
  BY DEF CursorInv, TypeOK
<1>2. CASE ObserveUnexpected(d)
  <2>1. /\ UNCHANGED <<seen, heard>>
        /\ correctness'["duplicate"] = correctness["duplicate"]
        /\ correctness'["out_of_order"] = correctness["out_of_order"]
    BY <1>0, <1>2 DEF ObserveUnexpected, Charge, Discrepancies
  <2> QED
    BY <2>1, NothingHeard
<1>3. CASE ObserveWarmup(d)
  BY <1>3, NothingHeard DEF ObserveWarmup, ledgerVars
<1>4. CASE ObserveDuplicate(d) \/ ObserveDelivery(d)
  <2> DEFINE s == d.stream
             o == d.ordinal
  <2>0. PICK last : last = <<s, Len(heard[s]) + 1>>
    OBVIOUS
  <2>1. s \in Streams /\ o \in Nat
    BY <1>4 DEF ObserveDuplicate, ObserveDelivery, Expected, Datagram
  <2>2. heard' = [heard EXCEPT ![s] = Append(@, o)]
    BY <1>4 DEF ObserveDuplicate, ObserveDelivery
  <2>3. /\ Arrivals' = Arrivals \cup {last} /\ last \notin Arrivals
        /\ \A a \in Arrivals : /\ a \in Repeats' <=> a \in Repeats
                               /\ a \in Late' <=> a \in Late
    BY <2>0, <2>1, <2>2, PastIsSettled DEF CursorInv
  <2>4. /\ last \in Repeats' <=> o \in seen[s]
        /\ last \in Late' <=> o \notin seen[s] /\ o # next_ordinal[s]
    BY <2>0, <2>1, <2>2, LastArrival
  <2>5. Repeats \subseteq Arrivals /\ Late \subseteq Arrivals
    BY DEF Repeats, Late
  <2>6. /\ last \notin Repeats /\ last \notin Late
        /\ Repeats' = IF o \in seen[s] THEN Repeats \cup {last} ELSE Repeats
        /\ Late' = IF o \notin seen[s] /\ o # next_ordinal[s] THEN Late \cup {last} ELSE Late
    <3>1. Repeats' \subseteq Arrivals \cup {last} /\ Late' \subseteq Arrivals \cup {last}
      BY <2>3 DEF Repeats, Late
    <3>2. /\ last \notin Repeats
          /\ last \in Repeats' => Repeats' = Repeats \cup {last}
          /\ last \notin Repeats' => Repeats' = Repeats
      BY <2>3, <2>5, <3>1
    <3>3. /\ last \notin Late
          /\ last \in Late' => Late' = Late \cup {last}
          /\ last \notin Late' => Late' = Late
      BY <2>3, <2>5, <3>1
    <3> QED
      BY <2>4, <3>2, <3>3
  <2>7. /\ Len(heard[s]) \in Nat /\ Len(heard'[s]) = Len(heard[s]) + 1
        /\ heard'[s][Len(heard[s]) + 1] = o
        /\ \A i \in 1 .. Len(heard[s]) : heard'[s][i] = heard[s][i]
        /\ \A q \in Streams \ {s} : heard'[q] = heard[q]
    BY <1>0, <2>1, <2>2
  <2>8. \A i : i \in 1 .. Len(heard'[s]) <=>
                   i \in 1 .. Len(heard[s]) \/ i = Len(heard[s]) + 1
    BY <2>7
  <2>9. ASSUME seen'[s] = seen[s] \cup {o}, \A q \in Streams \ {s} : seen'[q] = seen[q]
        PROVE  \A q \in Streams : \A k \in Nat :
                   k \in seen'[q] <=> \E j \in 1 .. Len(heard'[q]) : heard'[q][j] = k
    <3> SUFFICES ASSUME NEW q \in Streams, NEW k \in Nat
                 PROVE  k \in seen'[q] <=> \E j \in 1 .. Len(heard'[q]) : heard'[q][j] = k
      OBVIOUS
    <3>1. k \in seen[q] <=> \E j \in 1 .. Len(heard[q]) : heard[q][j] = k
      BY DEF HistoryInv
    <3>2. CASE q # s
      BY <2>7, <2>9, <3>1, <3>2
    <3>3. CASE q = s
      BY <2>7, <2>8, <2>9, <3>1, <3>3
    <3> QED
      BY <3>2, <3>3
  <2>10. CASE ObserveDuplicate(d)
    <3>1. o \in seen[s] /\ seen' = seen /\ correctness' = Charge({"duplicate"})
      BY <2>10 DEF ObserveDuplicate
    <3>2. /\ correctness'["duplicate"] = correctness["duplicate"] + 1
          /\ correctness'["out_of_order"] = correctness["out_of_order"]
      BY <1>0, <3>1 DEF Charge, Discrepancies
    <3>3. Repeats' = Repeats \cup {last} /\ Late' = Late /\ last \notin Repeats
      BY <2>6, <3>1
    <3>4. /\ IsFiniteSet(Repeats') /\ Cardinality(Repeats') = Cardinality(Repeats) + 1
      BY <3>3, FS_AddElement DEF HistoryInv
    <3>5. seen'[s] = seen[s] \cup {o} /\ \A q \in Streams \ {s} : seen'[q] = seen[q]
      BY <3>1
    <3> QED
      BY <2>9, <3>2, <3>3, <3>4, <3>5 DEF HistoryInv
  <2>11. CASE ObserveDelivery(d)
    <3>1. /\ o \notin seen[s] /\ seen' = [seen EXCEPT ![s] = @ \cup {o}]
          /\ correctness' = Charge({ k \in {"mismatch"} : d.body = "damaged" } \cup
                                   { k \in {"out_of_order"} : o # next_ordinal[s] })
      BY <2>11 DEF ObserveDelivery
    <3>2. /\ correctness'["duplicate"] = correctness["duplicate"]
          /\ o # next_ordinal[s] =>
                 correctness'["out_of_order"] = correctness["out_of_order"] + 1
          /\ o = next_ordinal[s] =>
                 correctness'["out_of_order"] = correctness["out_of_order"]
      BY <1>0, <3>1 DEF Charge, Discrepancies
    <3>3. seen'[s] = seen[s] \cup {o} /\ \A q \in Streams \ {s} : seen'[q] = seen[q]
      BY <1>0, <2>1, <3>1
    <3>4. Repeats' = Repeats /\ last \notin Late
      BY <2>6, <3>1
    <3>5. CASE o = next_ordinal[s]
      <4>1. Late' = Late
        BY <2>6, <3>5
      <4> QED
        BY <2>9, <3>2, <3>3, <3>4, <3>5, <4>1 DEF HistoryInv
    <3>6. CASE o # next_ordinal[s]
      <4>1. Late' = Late \cup {last}
        BY <2>6, <3>1, <3>6
      <4>2. IsFiniteSet(Late') /\ Cardinality(Late') = Cardinality(Late) + 1
        BY <3>4, <4>1, FS_AddElement DEF HistoryInv
      <4> QED
        BY <2>9, <3>2, <3>3, <3>4, <3>6, <4>2 DEF HistoryInv
    <3> QED
      BY <3>5, <3>6
  <2> QED
    BY <1>4, <2>10, <2>11
<1> QED
  BY <1>2, <1>3, <1>4 DEF observe

\* The counters tell what the receiver was sent: a repeat is a duplicate, and a first arrival is
\* out of order exactly when a lower ordinal of its stream had not come before it
\* (PacketLedger::observe), so that one lost packet charges all that follow it.
THEOREM CountersTellTheHistory == Spec => []CountersMatchHistory
<1>1. CursorInv /\ HistoryInv /\ [Next]_vars => HistoryInv'
  <2> SUFFICES ASSUME CursorInv, HistoryInv, [Next]_vars PROVE HistoryInv'
    OBVIOUS
  <2>2. CASE Finish
    <3>1. /\ correctness'["duplicate"] = correctness["duplicate"]
          /\ correctness'["out_of_order"] = correctness["out_of_order"]
          /\ UNCHANGED <<seen, heard>>
      BY <2>2 DEF Finish, CursorInv, TypeOK, Discrepancies
    <3> QED
      BY <3>1, NothingHeard
  <2>3. ASSUME NEW d \in inflight, Receive(d) PROVE HistoryInv'
    BY <2>3, ObserveKeepsHistory DEF Receive, CursorInv, TypeOK
  <2>4. CASE Environment \/ BeginMeasured \/ ReceivedAll \/ ReceiveDeadline \/ BeginDrain
    BY <2>4, NothingHeard
    DEF Environment, Publish, Lose, Damage, Misroute, BeginMeasured, ReceivedAll,
        ReceiveDeadline, BeginDrain, ledgerVars
  <2>5. CASE UNCHANGED vars
    BY <2>5, NothingHeard DEF vars, ledgerVars
  <2> QED
    BY <2>2, <2>3, <2>4, <2>5 DEF Next, Peer
<1>2. Init => HistoryInv
  <2> SUFFICES ASSUME Init PROVE HistoryInv
    OBVIOUS
  <2>1. \A s \in Streams : heard[s] = << >> /\ seen[s] = {}
    BY DEF Init
  <2>2. Arrivals = {}
    BY <2>1 DEF Arrivals
  <2>3. Repeats = {} /\ Late = {}
    BY <2>2 DEF Repeats, Late
  <2>4. correctness["duplicate"] = 0 /\ correctness["out_of_order"] = 0
    BY DEF Init, NoDiscrepancy, Discrepancies
  <2> QED
    BY <2>1, <2>3, <2>4, FS_EmptySet DEF HistoryInv
<1>3. HistoryInv => CountersMatchHistory
  BY DEF HistoryInv, CountersMatchHistory, Late, Repeats, Arrivals
<1>4. Spec => []CursorInv
  BY InitCursor, NextCursor, PTL DEF Spec
<1>5. Spec => []HistoryInv
  BY <1>1, <1>2, <1>4, PTL DEF Spec
<1> QED
  BY <1>3, <1>5, PTL
===============================================================================
