---------------------------- MODULE ArtifactProofs ----------------------------
(***************************************************************************)
(* Proofs about what a run leaves in its output directory and what is read *)
(* of it, for every clock, number of samples, runs and failures: the       *)
(* telemetry log (TelemetryWindow) and its smoothed panels (Dashboard), the*)
(* files of a profile (ProfilePreparation) and its counts (FoldedProfile). *)
(***************************************************************************)
EXTENDS Dashboard, ProfilePreparation, SumTheorems, SequenceTheorems

-------------------------------------------------------------------------------
(* The invariant of TelemetryWindow. *)

Uses == [ticks : Nat \union {None}, percent : Int \union {None}]
SampleRecords == [kind : {"sample"}, at : Nat, final : BOOLEAN, server : Uses, rtc : Uses]
ErrorRecords == [kind : {"error"}, at : Nat, final : BOOLEAN]
Markers == [at : Nat, phase : {Ordered[k] : k \in 1 .. 4}]
Bases == [at : Nat, ticks : Nat]

WindowTypeOK ==
    /\ now \in Nat
    /\ ticks \in [Processes -> Nat]
    /\ rtc \in BOOLEAN /\ event \in BOOLEAN /\ ended \in BOOLEAN
    /\ mark # None => mark \in Markers
    /\ queue \in Seq(Markers)
    /\ scrape # None => scrape \in [at : Nat, final : BOOLEAN]
    /\ previous \in [Processes -> Bases \union {None}]
    /\ samples \in Seq(SampleRecords \union ErrorRecords)
    /\ markers \in Seq(Markers)

\* The times of the samples grow, except that the final one may fall into the millisecond of
\* the last.
ClockInv ==
    /\ scrape # None => scrape.at <= now
    /\ \A i \in 1 .. Len(samples) :
           /\ samples[i].at <= now
           /\ scrape # None => /\ samples[i].at <= scrape.at
                               /\ ~scrape.final => samples[i].at < scrape.at
           /\ samples[i].final => i = Len(samples) /\ ended
    /\ \A i, j \in 1 .. Len(samples) :
           i < j => /\ samples[i].at <= samples[j].at
                    /\ ~samples[j].final => samples[i].at < samples[j].at
    /\ ended => scrape = None /\ samples # << >>

\* A marker on its way is the next of its sequence and the youngest.
NextMarker(marker) ==
    /\ samples # << >> /\ Len(markers) < 4
    /\ marker.phase = Ordered[Len(markers) + 1]
    /\ marker.at <= now /\ samples[1].at <= marker.at
    /\ \A i \in 1 .. Len(markers) : markers[i].at <= marker.at

\* One event is on its way at a time, none when the final sample is taken.
MarkerInv ==
    /\ event => mark = None /\ queue = << >> /\ samples # << >> /\ Len(markers) < 4
    /\ mark # None => queue = << >> /\ NextMarker(mark)
    /\ Len(queue) <= 1
    /\ queue # << >> => NextMarker(queue[1])
    /\ Len(markers) <= 4
    /\ \A i \in 1 .. Len(markers) :
           /\ markers[i].phase = Ordered[i]
           /\ markers[i].at <= now
           /\ samples # << >> /\ samples[1].at <= markers[i].at
    /\ \A i, j \in 1 .. Len(markers) : i < j => markers[i].at <= markers[j].at
    /\ ended \/ (scrape # None /\ scrape.final) =>
           /\ ~rtc /\ ~event /\ mark = None /\ queue = << >>
    /\ scrape # None /\ scrape.final => \A i \in 1 .. Len(markers) : markers[i].at <= scrape.at
    /\ ended => \A i \in 1 .. Len(markers) : markers[i].at <= samples[Len(samples)].at

\* Good samples with none between them.
Adjacent(i, j) ==
    /\ i \in Good /\ j \in Good /\ i < j
    /\ \A k \in Good : ~(i < k /\ k < j)

\* A percentage is that of the ticks since the good sample before.
Link(process, i, j) ==
    LET used == samples[j][process].ticks - samples[i][process].ticks
        elapsed == samples[j].at - samples[i].at
    IN  /\ samples[i][process].ticks \in Nat /\ samples[j][process].ticks \in Nat /\ used >= 0
        /\ samples[j][process].percent = IF elapsed = 0 THEN None ELSE Milli(used, elapsed)

BaseInv ==
    \A process \in Processes :
        /\ Good = {} => previous[process] = None
        /\ \A i \in Good : (\A j \in Good : j <= i) /\ ~ended =>
               /\ samples[i][process].ticks \in Nat
               /\ samples[i][process].ticks <= ticks[process]
               /\ previous[process] = [at |-> samples[i].at, ticks |-> samples[i][process].ticks]
        /\ \A i \in Good : (\A j \in Good : i <= j) => samples[i][process].percent = None
        /\ \A i, j \in Good :
               Adjacent(i, j) /\ (process = "server" \/ ~samples[j].final) => Link(process, i, j)
        /\ \A i \in Good : samples[i].server.ticks \in Nat

WindowInv == WindowTypeOK /\ ClockInv /\ MarkerInv /\ BaseInv

-------------------------------------------------------------------------------
(* The steps of the sampler and of the phases. *)

\* There are four phases.
LEMMA FourPhases == Len(Ordered) = 4
BY DEF Ordered

\* The greatest of the good samples.
LEMMA LastGood ==
    ASSUME WindowTypeOK, Good # {}
    PROVE  \E i \in Good : \A j \in Good : j <= i
<1>1. Good \in SUBSET (1 .. Len(samples)) /\ Len(samples) \in Nat
  BY DEF Good, WindowTypeOK
<1> QED
  BY <1>1, GreatestExists

\* The base of the next percentage is older than a scrape in progress.
LEMMA BaseIsOlder ==
    ASSUME WindowInv, scrape # None, NEW process \in Processes, previous[process] # None
    PROVE  /\ previous[process] \in Bases
           /\ previous[process].at <= scrape.at
           /\ ~scrape.final => previous[process].at < scrape.at
           /\ previous[process].ticks <= ticks[process]
<1>1. Good # {}
  BY DEF WindowInv, BaseInv
<1>2. PICK i \in Good : \A j \in Good : j <= i
  BY <1>1, LastGood DEF WindowInv
<1>3. ~ended /\ i \in 1 .. Len(samples)
  BY DEF WindowInv, ClockInv, Good
<1>4. /\ samples[i][process].ticks \in Nat
      /\ samples[i][process].ticks <= ticks[process]
      /\ previous[process] = [at |-> samples[i].at, ticks |-> samples[i][process].ticks]
  BY <1>2, <1>3 DEF WindowInv, BaseInv
<1>5. samples[i].at <= scrape.at /\ (~scrape.final => samples[i].at < scrape.at)
  BY <1>3 DEF WindowInv, ClockInv
<1>6. previous[process] \in Bases
  BY DEF WindowInv, WindowTypeOK
<1> QED
  BY <1>4, <1>5, <1>6

\* A percentage is a number.
LEMMA MilliIsTyped ==
    ASSUME NEW used \in Nat, NEW elapsed \in Nat \ {0}
    PROVE  Milli(used, elapsed) \in Nat
<1>1. TicksPerSecond * elapsed \in Nat \ {0}
  BY WindowAssumption
<1>2. used * 100000000 \in Nat
  OBVIOUS
<1> QED
  BY <1>1, <1>2 DEF Milli

\* What a process is found to use.
LEMMA UsageIsTyped ==
    ASSUME WindowInv, scrape # None, NEW process \in Processes
    PROVE  Usage(process, scrape.at) \in Uses
<1>1. ticks[process] \in Nat /\ scrape.at \in Nat
  BY DEF WindowInv, WindowTypeOK
<1>2. CpuPercent(process, scrape.at) \in Int \union {None}
  <2> DEFINE last == previous[process]
  <2>1. CASE last = None \/ scrape.at = last.at
    BY <2>1 DEF CpuPercent
  <2>2. CASE ~(last = None \/ scrape.at = last.at)
    <3>1. /\ last \in Bases /\ last.at <= scrape.at /\ last.ticks <= ticks[process]
      BY <2>2, BaseIsOlder
    <3>2. ticks[process] - last.ticks \in Nat /\ scrape.at - last.at \in Nat \ {0}
      BY <1>1, <2>2, <3>1 DEF Bases
    <3>3. Milli(ticks[process] - last.ticks, scrape.at - last.at) \in Nat
      BY <3>2, MilliIsTyped
    <3> QED
      BY <2>2, <3>3 DEF CpuPercent
  <2> QED
    BY <2>1, <2>2
<1> QED
  BY <1>1, <1>2 DEF Usage, Uses

\* What EndScrape writes.
LEMMA EndScrapeFacts ==
    ASSUME WindowInv, EndScrape
    PROVE  /\ scrape # None /\ scrape.at \in Nat /\ scrape.final \in BOOLEAN /\ ~ended
           /\ \E record \in SampleRecords \union ErrorRecords :
                  /\ record.at = scrape.at /\ record.final = scrape.final
                  /\ samples' \in Seq(SampleRecords \union ErrorRecords)
                  /\ Len(samples') = Len(samples) + 1
                  /\ \A i \in 1 .. Len(samples) : samples'[i] = samples[i]
                  /\ samples'[Len(samples) + 1] = record
                  /\ \/ record.kind = "sample" /\ Scraped(TRUE) /\ (rtc \/ scrape.final)
                        /\ record = SampleRecord(scrape.at, scrape.final)
                     \/ record.kind = "error" /\ Scraped(FALSE)
<1>1. scrape # None /\ ~ended /\ scrape.at \in Nat /\ scrape.final \in BOOLEAN
  BY DEF EndScrape, WindowInv, ClockInv, WindowTypeOK
<1>2. samples \in Seq(SampleRecords \union ErrorRecords)
  BY DEF WindowInv, WindowTypeOK
<1>3. SampleRecord(scrape.at, scrape.final) \in SampleRecords
  <2>1. "server" \in Processes /\ "rtc" \in Processes
    BY DEF Processes
  <2>2. Usage("server", scrape.at) \in Uses /\ Usage("rtc", scrape.at) \in Uses
    BY <1>1, <2>1, UsageIsTyped
  <2> QED
    BY <1>1, <2>2 DEF SampleRecord, SampleRecords
<1>4. ErrorRecord(scrape.at, scrape.final) \in ErrorRecords
  BY <1>1 DEF ErrorRecord, ErrorRecords
<1>5. CASE /\ rtc \/ scrape.final
           /\ samples' = Append(samples, SampleRecord(scrape.at, scrape.final))
           /\ Scraped(TRUE)
  <2> DEFINE record == SampleRecord(scrape.at, scrape.final)
  <2>1. record.at = scrape.at /\ record.final = scrape.final /\ record.kind = "sample"
    BY DEF SampleRecord
  <2>2. record \in SampleRecords \union ErrorRecords
    BY <1>3
  <2> HIDE DEF record
  <2>3. samples' = Append(samples, record)
    BY <1>5 DEF record
  <2>4. /\ samples' \in Seq(SampleRecords \union ErrorRecords)
        /\ Len(samples') = Len(samples) + 1
        /\ \A i \in 1 .. Len(samples) : samples'[i] = samples[i]
        /\ samples'[Len(samples) + 1] = record
    BY <1>2, <2>2, <2>3, AppendProperties
  <2>5. record = SampleRecord(scrape.at, scrape.final)
    BY DEF record
  <2> QED
    BY <1>1, <1>5, <2>1, <2>2, <2>4, <2>5, Zenon
<1>6. CASE samples' = Append(samples, ErrorRecord(scrape.at, scrape.final)) /\ Scraped(FALSE)
  <2> DEFINE record == ErrorRecord(scrape.at, scrape.final)
  <2>1. record.at = scrape.at /\ record.final = scrape.final /\ record.kind = "error"
    BY DEF ErrorRecord
  <2>2. record \in SampleRecords \union ErrorRecords
    BY <1>4
  <2> HIDE DEF record
  <2>3. samples' = Append(samples, record)
    BY <1>6 DEF record
  <2>4. /\ samples' \in Seq(SampleRecords \union ErrorRecords)
        /\ Len(samples') = Len(samples) + 1
        /\ \A i \in 1 .. Len(samples) : samples'[i] = samples[i]
        /\ samples'[Len(samples) + 1] = record
    BY <1>2, <2>2, <2>3, AppendProperties
  <2> QED
    BY <1>1, <1>6, <2>1, <2>2, <2>4, Zenon
<1> QED
  BY <1>5, <1>6 DEF EndScrape

\* The other steps of the sampler change no more than the scrape and the markers.
LEMMA TypeStep == WindowInv /\ [Next]_vars => WindowTypeOK'
<1> SUFFICES ASSUME WindowInv, [Next]_vars PROVE WindowTypeOK'
  OBVIOUS
<1>0. WindowTypeOK
  BY DEF WindowInv
<1>1. CASE Elapse
  BY <1>0, <1>1 DEF Elapse, WindowTypeOK, Processes
<1>2. CASE BeginScrape
  BY <1>0, <1>2 DEF BeginScrape, WindowTypeOK
<1>3. CASE EndScrape
  <2>1. samples' \in Seq(SampleRecords \union ErrorRecords)
    BY <1>3, EndScrapeFacts
  <2>2. previous' \in [Processes -> Bases \union {None}]
    <3>1. scrape.at \in Nat /\ \A ok \in BOOLEAN : Scraped(ok) =>
              previous' = [process \in Processes |-> Latest(process, scrape.at)] \/ previous' = previous
      BY <1>3, EndScrapeFacts DEF Scraped
    <3>2. \A process \in Processes : Latest(process, scrape.at) \in Bases \union {None}
      BY <1>0, <3>1 DEF Latest, WindowTypeOK, Bases
    <3> QED
      BY <1>0, <1>3, <3>1, <3>2 DEF EndScrape, WindowTypeOK
  <2>3. scrape' = None /\ ended' \in BOOLEAN /\ UNCHANGED <<now, ticks, rtc, event, mark, queue, markers>>
    BY <1>3, EndScrapeFacts DEF EndScrape
  <2> QED
    BY <1>0, <2>1, <2>2, <2>3 DEF WindowTypeOK
<1>4. CASE RecordPhase
  <2>1. Head(queue) \in Markers /\ Tail(queue) \in Seq(Markers)
    BY <1>0, <1>4, HeadTailProperties DEF RecordPhase, WindowTypeOK
  <2>2. Append(markers, Head(queue)) \in Seq(Markers)
    BY <1>0, <2>1, AppendProperties DEF WindowTypeOK
  <2> QED
    BY <1>0, <1>4, <2>1, <2>2 DEF RecordPhase, WindowTypeOK
<1>5. CASE Finish
  BY <1>0, <1>5 DEF Finish, WindowTypeOK
<1>6. CASE Announce
  BY <1>0, <1>6 DEF Announce, WindowTypeOK
<1>7. CASE Mark
  <2>1. Len(markers) \in Nat /\ Len(markers) < 4
    BY <1>0, <1>7 DEF Mark, WindowInv, MarkerInv, WindowTypeOK
  <2>2. Ordered[Len(markers) + 1] \in {Ordered[k] : k \in 1 .. 4}
    BY <2>1
  <2>3. mark' \in Markers
    BY <1>0, <1>7, <2>2 DEF Mark, PhaseRecord, Marked, Markers, WindowTypeOK
  <2> QED
    BY <1>0, <1>7, <2>3 DEF Mark, WindowTypeOK
<1>8. CASE SendMark
  <2>1. Append(queue, mark) \in Seq(Markers)
    BY <1>0, <1>8, AppendProperties DEF SendMark, WindowTypeOK
  <2> QED
    BY <1>0, <1>8, <2>1 DEF SendMark, WindowTypeOK
<1>9. CASE RtcExits
  BY <1>0, <1>9 DEF RtcExits, WindowTypeOK
<1>10. CASE UNCHANGED vars
  BY <1>0, <1>10 DEF vars, WindowTypeOK
<1> QED
  BY <1>1, <1>2, <1>3, <1>4, <1>5, <1>6, <1>7, <1>8, <1>9, <1>10 DEF Next

\* A scrape begins after all samples before it.
LEMMA ClockStep == WindowInv /\ [Next]_vars => ClockInv'
<1> SUFFICES ASSUME WindowInv, [Next]_vars PROVE ClockInv'
  OBVIOUS
<1>0. now \in Nat /\ Len(samples) \in Nat /\ ClockInv
  BY DEF WindowInv, WindowTypeOK
<1>00. \A i \in 1 .. Len(samples) : samples[i].at \in Nat
  <2> SUFFICES ASSUME NEW i \in 1 .. Len(samples) PROVE samples[i].at \in Nat
    OBVIOUS
  <2>1. samples[i] \in SampleRecords \union ErrorRecords
    BY ElementOfSeq DEF WindowInv, WindowTypeOK
  <2> QED
    BY <2>1 DEF SampleRecords, ErrorRecords
<1>1. CASE Elapse
  <2>1. now' = now + 1 /\ UNCHANGED <<scrape, samples, ended>>
    BY <1>1 DEF Elapse
  <2>2. scrape # None => scrape.at \in Nat
    BY DEF WindowInv, WindowTypeOK
  <2> QED
    BY <1>0, <1>00, <2>1, <2>2 DEF ClockInv
<1>2. CASE BeginScrape
  <2>1. /\ ~ended /\ scrape = None /\ scrape' = [at |-> now, final |-> FALSE]
        /\ UNCHANGED <<now, samples, ended>>
        /\ \A i \in 1 .. Len(samples) : samples[i].at < now
    BY <1>2 DEF BeginScrape, Started
  <2> QED
    BY <1>0, <1>00, <2>1 DEF ClockInv
<1>3. CASE Finish
  <2>1. /\ ~ended /\ scrape = None /\ scrape' = [at |-> now, final |-> TRUE]
        /\ UNCHANGED <<now, samples, ended>>
    BY <1>3 DEF Finish
  <2> QED
    BY <1>0, <1>00, <2>1 DEF ClockInv
<1>4. CASE EndScrape
  <2>1. PICK record \in SampleRecords \union ErrorRecords :
            /\ record.at = scrape.at /\ record.final = scrape.final
            /\ samples' \in Seq(SampleRecords \union ErrorRecords)
            /\ Len(samples') = Len(samples) + 1
            /\ \A i \in 1 .. Len(samples) : samples'[i] = samples[i]
            /\ samples'[Len(samples) + 1] = record
    BY <1>4, EndScrapeFacts
  <2>2. /\ scrape # None /\ ~ended /\ scrape.at \in Nat /\ scrape.final \in BOOLEAN
        /\ scrape' = None /\ ended' = scrape.final /\ now' = now
    BY <1>4, EndScrapeFacts DEF EndScrape
  <2> DEFINE n == Len(samples)
  <2>3. /\ scrape.at <= now
        /\ \A i \in 1 .. n : /\ samples[i].at <= scrape.at
                             /\ ~scrape.final => samples[i].at < scrape.at
                             /\ samples[i].at <= now
                             /\ ~samples[i].final
    BY <1>0, <2>2 DEF ClockInv
  <2>4. \A i, j \in 1 .. n :
           i < j => /\ samples[i].at <= samples[j].at
                    /\ ~samples[j].final => samples[i].at < samples[j].at
    BY <1>0 DEF ClockInv
  <2>5. /\ n \in Nat /\ Len(samples') = n + 1
        /\ \A i \in 1 .. n : samples'[i] = samples[i]
        /\ samples'[n + 1].at = scrape.at /\ samples'[n + 1].final = scrape.final
    BY <1>0, <2>1
  <2>6. \A i \in 1 .. n + 1 : i \in 1 .. n \/ i = n + 1
    BY <2>5
  <2>7. \A i \in 1 .. n + 1 : /\ samples'[i].at <= now
                              /\ samples'[i].final => i = n + 1 /\ scrape.final
    BY <2>3, <2>5, <2>6
  <2>8. \A i, j \in 1 .. n + 1 :
           i < j => /\ samples'[i].at <= samples'[j].at
                    /\ ~samples'[j].final => samples'[i].at < samples'[j].at
    <3> SUFFICES ASSUME NEW i \in 1 .. n + 1, NEW j \in 1 .. n + 1, i < j
                 PROVE  /\ samples'[i].at <= samples'[j].at
                        /\ ~samples'[j].final => samples'[i].at < samples'[j].at
      OBVIOUS
    <3>1. i \in 1 .. n
      BY <2>5
    <3>2. CASE j \in 1 .. n
      BY <2>4, <2>5, <3>1, <3>2
    <3>3. CASE j = n + 1
      BY <2>3, <2>5, <3>1, <3>3
    <3> QED
      BY <2>6, <3>2, <3>3
  <2>9. samples' # << >>
    BY <2>5
  <2> HIDE DEF n
  <2> QED
    BY <2>2, <2>5, <2>7, <2>8, <2>9 DEF ClockInv
<1>5. CASE RecordPhase \/ Announce \/ Mark \/ SendMark \/ RtcExits \/ UNCHANGED vars
  <2>1. UNCHANGED <<now, scrape, samples, ended>>
    BY <1>5 DEF RecordPhase, Announce, Mark, SendMark, RtcExits, vars
  <2> QED
    BY <1>0, <2>1 DEF ClockInv
<1> QED
  BY <1>1, <1>2, <1>3, <1>4, <1>5 DEF Next

\* Phases are marked one after the other, each after the samples' begin and before the final one.
LEMMA MarkerStep == WindowInv /\ [Next]_vars => MarkerInv'
<1> SUFFICES ASSUME WindowInv, [Next]_vars PROVE MarkerInv'
  OBVIOUS
<1>0. /\ now \in Nat /\ Len(samples) \in Nat /\ Len(markers) \in Nat /\ Len(queue) \in Nat
      /\ queue \in Seq(Markers) /\ markers \in Seq(Markers)
      /\ MarkerInv /\ ClockInv
  BY DEF WindowInv, WindowTypeOK
<1>00. \A i \in 1 .. Len(markers) : markers[i].at \in Nat
  <2>1. \A i \in 1 .. Len(markers) : markers[i] \in Markers
    BY <1>0, ElementOfSeq
  <2>2. \A m \in Markers : m.at \in Nat
    BY DEF Markers
  <2> QED
    BY <2>1, <2>2
<1>01. queue # << >> => queue[1].at \in Nat /\ Len(queue) = 1 /\ Head(queue) = queue[1]
  <2> SUFFICES ASSUME queue # << >>
               PROVE  queue[1].at \in Nat /\ Len(queue) = 1 /\ Head(queue) = queue[1]
    OBVIOUS
  <2>1. Len(queue) # 0 /\ Len(queue) <= 1
    BY <1>0, EmptySeq DEF MarkerInv
  <2>6. Len(queue) \in Nat
    BY <1>0
  <2>7. \A length \in Nat : length # 0 /\ length <= 1 => length = 1
    OBVIOUS
  <2>5. Len(queue) = 1 /\ 1 \in 1 .. 1
    BY <2>1, <2>6, <2>7
  <2>2. queue[1] \in Markers /\ Len(queue) = 1
    BY <1>0, <2>5, ElementOfSeq
  <2>3. queue[1].at \in Nat
    BY <2>2 DEF Markers
  <2>4. Head(queue) = queue[1]
    BY <1>0, <2>2
  <2> QED
    BY <2>2, <2>3, <2>4
<1>1. CASE Elapse
  <2>1. /\ now' = now + 1 /\ ~ended
        /\ UNCHANGED <<rtc, event, mark, queue, scrape, samples, markers, ended>>
    BY <1>1 DEF Elapse
  <2>2. ASSUME NEW m, m.at \in Nat, NextMarker(m) PROVE NextMarker(m)'
    BY <1>0, <2>1, <2>2 DEF NextMarker
  <2>3. mark # None => mark.at \in Nat /\ NextMarker(mark)
    BY <1>0 DEF WindowInv, WindowTypeOK, Markers, MarkerInv
  <2>4. queue # << >> => NextMarker(queue[1])
    BY <1>0 DEF MarkerInv
  <2>5. /\ mark' # None => NextMarker(mark)'
        /\ queue' # << >> => NextMarker(queue[1])'
    BY <1>01, <2>1, <2>2, <2>3, <2>4
  <2> QED
    BY <1>0, <1>00, <2>1, <2>5 DEF MarkerInv
<1>2. CASE BeginScrape
  <2>1. /\ ~ended /\ scrape' = [at |-> now, final |-> FALSE]
        /\ UNCHANGED <<now, rtc, event, mark, queue, samples, markers, ended>>
    BY <1>2 DEF BeginScrape
  <2> QED
    BY <1>0, <2>1 DEF MarkerInv, NextMarker
<1>3. CASE Finish
  <2>1. /\ ~rtc /\ queue = << >> /\ ~ended
        /\ scrape' = [at |-> now, final |-> TRUE]
        /\ event' = FALSE /\ mark' = None
        /\ UNCHANGED <<now, rtc, queue, samples, markers, ended>>
    BY <1>3 DEF Finish
  <2> QED
    BY <1>0, <2>1 DEF MarkerInv
<1>4. CASE EndScrape
  <2>1. /\ Len(samples') = Len(samples) + 1
        /\ \A i \in 1 .. Len(samples) : samples'[i] = samples[i]
        /\ samples'[Len(samples) + 1].at = scrape.at
        /\ scrape # None /\ ~ended
    BY <1>4, EndScrapeFacts
  <2>2. /\ scrape' = None /\ ended' = scrape.final
        /\ UNCHANGED <<now, rtc, event, mark, queue, markers>>
    BY <1>4 DEF EndScrape
  <2>3. samples' # << >> /\ (samples # << >> => samples'[1] = samples[1])
    <3>1. samples # << >> => 1 \in 1 .. Len(samples)
      BY <1>0, EmptySeq DEF WindowInv, WindowTypeOK
    <3> QED
      BY <1>0, <2>1, <3>1
  <2>4. ASSUME NEW m, NextMarker(m) PROVE NextMarker(m)'
    BY <2>2, <2>3, <2>4 DEF NextMarker
  <2>5. /\ mark' # None => NextMarker(mark)'
        /\ queue' # << >> => NextMarker(queue[1])'
    BY <1>0, <2>2, <2>4 DEF MarkerInv
  <2>6. ended' => \A i \in 1 .. Len(markers') : markers'[i].at <= samples'[Len(samples')].at
    BY <1>0, <2>1, <2>2 DEF MarkerInv
  <2> QED
    BY <1>0, <2>1, <2>2, <2>3, <2>5, <2>6 DEF MarkerInv
<1>5. CASE RecordPhase
  <2>1. /\ queue # << >> /\ scrape = None /\ ~ended
        /\ UNCHANGED <<now, rtc, event, mark, scrape, samples, ended>>
    BY <1>0, <1>5 DEF RecordPhase, MarkerInv
  <2>2. Head(queue) = queue[1] /\ queue' = << >>
    <3>1. Tail(queue) \in Seq(Markers) /\ Len(Tail(queue)) = 0
      BY <1>0, <1>01, <2>1, HeadTailProperties
    <3> QED
      BY <1>01, <1>5, <2>1, <3>1, EmptySeq DEF RecordPhase
  <2>3. /\ Len(markers') = Len(markers) + 1
        /\ \A i \in 1 .. Len(markers) : markers'[i] = markers[i]
        /\ markers'[Len(markers) + 1] = queue[1]
    <3>1. queue[1] \in Markers
      BY <1>0, <1>01, <2>1, ElementOfSeq
    <3>2. markers' = Append(markers, queue[1])
      BY <1>5, <2>2 DEF RecordPhase
    <3> QED
      BY <1>0, <3>1, <3>2, AppendProperties
  <2>4. NextMarker(queue[1]) /\ mark = None /\ ~event
    BY <1>0, <2>1 DEF MarkerInv
  <2>5. \A i \in 1 .. Len(markers) + 1 : i \in 1 .. Len(markers) \/ i = Len(markers) + 1
    BY <1>0
  <2>6. /\ Len(markers') <= 4
        /\ \A i \in 1 .. Len(markers') :
               /\ markers'[i].phase = Ordered[i] /\ markers'[i].at <= now
               /\ samples # << >> /\ samples[1].at <= markers'[i].at
    BY <1>0, <2>3, <2>4, <2>5 DEF MarkerInv, NextMarker
  <2>7. ASSUME NEW i \in 1 .. Len(markers'), NEW j \in 1 .. Len(markers'), i < j
        PROVE  markers'[i].at <= markers'[j].at
    <3>1. i \in 1 .. Len(markers)
      BY <1>0, <2>3, <2>7
    <3>2. CASE j \in 1 .. Len(markers)
      BY <1>0, <2>3, <2>7, <3>1, <3>2 DEF MarkerInv
    <3>3. CASE j = Len(markers) + 1
      BY <2>3, <2>4, <3>1, <3>3 DEF NextMarker
    <3> QED
      BY <2>3, <2>5, <3>2, <3>3
  <2> QED
    BY <1>0, <2>1, <2>2, <2>4, <2>6, <2>7 DEF MarkerInv
<1>6. CASE Announce
  <2>1. /\ samples # << >> /\ rtc /\ ~event /\ mark = None /\ queue = << >> /\ Len(markers) < 4
        /\ UNCHANGED <<now, rtc, mark, queue, scrape, samples, markers, ended>>
    BY <1>6, FourPhases DEF Announce, Started, Marked
  <2> QED
    BY <1>0, <2>1 DEF MarkerInv, NextMarker
<1>7. CASE Mark
  <2>1. /\ event /\ event' = FALSE
        /\ mark' = [at |-> now, phase |-> Ordered[Len(markers) + 1]]
        /\ UNCHANGED <<now, rtc, queue, scrape, samples, markers, ended>>
    BY <1>7 DEF Mark, PhaseRecord, Marked
  <2>2. /\ queue = << >> /\ samples # << >> /\ Len(markers) < 4
        /\ \A i \in 1 .. Len(markers) : markers[i].at <= now
        /\ ~ended /\ ~(scrape # None /\ scrape.final)
    BY <1>0, <2>1 DEF MarkerInv
  <2>3. samples[1].at <= now
    <3>1. 1 \in 1 .. Len(samples)
      BY <1>0, <2>2, EmptySeq DEF WindowInv, WindowTypeOK
    <3> QED
      BY <1>0, <3>1 DEF ClockInv
  <2>4. NextMarker(mark)'
    BY <1>0, <2>1, <2>2, <2>3 DEF NextMarker
  <2> QED
    BY <1>0, <2>1, <2>2, <2>4 DEF MarkerInv
<1>8. CASE SendMark
  <2>1. /\ mark # None /\ queue' = Append(queue, mark) /\ mark' = None
        /\ UNCHANGED <<now, rtc, event, scrape, samples, markers, ended>>
    BY <1>8 DEF SendMark
  <2>2. queue = << >> /\ NextMarker(mark) /\ ~event /\ ~ended /\ ~(scrape # None /\ scrape.final)
    BY <1>0, <2>1 DEF MarkerInv
  <2>3. queue' = <<mark>>
    BY <2>1, <2>2
  <2>4. Len(queue') = 1 /\ queue'[1] = mark
    BY <2>3
  <2>5. NextMarker(queue[1])'
    BY <2>1, <2>2, <2>4 DEF NextMarker
  <2> QED
    BY <1>0, <2>1, <2>2, <2>4, <2>5 DEF MarkerInv
<1>9. CASE RtcExits
  <2>1. rtc' = FALSE /\ UNCHANGED <<now, event, mark, queue, scrape, samples, markers, ended>>
    BY <1>9 DEF RtcExits
  <2> QED
    BY <1>0, <2>1 DEF MarkerInv, NextMarker
<1>10. CASE UNCHANGED vars
  BY <1>0, <1>10 DEF vars, MarkerInv, NextMarker
<1> QED
  BY <1>1, <1>2, <1>3, <1>4, <1>5, <1>6, <1>7, <1>8, <1>9, <1>10 DEF Next

\* A step that writes no sample leaves the good ones as they are, and their links.
LEMMA BaseStays ==
    ASSUME WindowInv, UNCHANGED <<samples, previous, ended>>,
           \A process \in Processes : ticks'[process] \in Nat /\ ticks[process] <= ticks'[process]
    PROVE  BaseInv'
<1>1. Good' = Good
  BY DEF Good, IsGap
<1>2. \A process \in Processes : ticks[process] \in Nat
  BY DEF WindowInv, WindowTypeOK
<1>3. ASSUME NEW process \in Processes
      PROVE  /\ Good' = {} => previous'[process] = None
             /\ \A i \in Good' : (\A j \in Good' : j <= i) /\ ~ended' =>
                    /\ samples'[i][process].ticks \in Nat
                    /\ samples'[i][process].ticks <= ticks'[process]
                    /\ previous'[process] = [at |-> samples'[i].at, ticks |-> samples'[i][process].ticks]
             /\ \A i \in Good' : (\A j \in Good' : i <= j) => samples'[i][process].percent = None
             /\ \A i, j \in Good' :
                    Adjacent(i, j)' /\ (process = "server" \/ ~samples'[j].final) => Link(process, i, j)'
             /\ \A i \in Good' : samples'[i].server.ticks \in Nat
  BY <1>1, <1>2, <1>3 DEF WindowInv, BaseInv, Adjacent, Link
<1> QED
  BY <1>3 DEF BaseInv

\* What EndScrape does to the good samples: an error adds none.
LEMMA GoodAfter ==
    ASSUME WindowInv, EndScrape
    PROVE  /\ Len(samples) + 1 \notin Good
           /\ Good' = Good \/ Good' = Good \union {Len(samples) + 1}
           /\ \A i \in Good : samples'[i] = samples[i] /\ i \in 1 .. Len(samples)
           /\ Len(samples) + 1 \in Good' <=> samples'[Len(samples) + 1].kind = "sample"
<1>1. PICK record \in SampleRecords \union ErrorRecords :
          /\ Len(samples') = Len(samples) + 1
          /\ \A i \in 1 .. Len(samples) : samples'[i] = samples[i]
          /\ samples'[Len(samples) + 1] = record
  BY EndScrapeFacts
<1>2. Len(samples) \in Nat
  BY DEF WindowInv, WindowTypeOK
<1>3. record.kind = "sample" \/ record.kind = "error"
  BY DEF SampleRecords, ErrorRecords
<1>4. \A i \in 1 .. Len(samples) + 1 : i \in 1 .. Len(samples) \/ i = Len(samples) + 1
  BY <1>2
<1>5. \A i : i \in Good' <=> (i \in Good \/ (i = Len(samples) + 1 /\ record.kind = "sample"))
  BY <1>1, <1>2, <1>3, <1>4 DEF Good, IsGap
<1>6. Len(samples) + 1 \notin Good /\ \A i \in Good : i \in 1 .. Len(samples)
  BY <1>2 DEF Good
<1>7. CASE record.kind = "sample"
  <2>1. Good' = Good \union {Len(samples) + 1}
    BY <1>5, <1>7
  <2> QED
    BY <1>1, <1>6, <1>7, <2>1
<1>8. CASE record.kind = "error"
  <2>1. \A i : i \in Good' <=> i \in Good
    BY <1>5, <1>8
  <2>2. Good' = Good
    BY <2>1, Zenon
  <2> QED
    BY <1>1, <1>6, <1>8, <2>2
<1> QED
  BY <1>3, <1>7, <1>8

\* A percentage is taken against the good sample before, across all errors between them.
LEMMA BaseStep == WindowInv /\ [Next]_vars => BaseInv'
<1> SUFFICES ASSUME WindowInv, [Next]_vars PROVE BaseInv'
  OBVIOUS
<1>0. /\ \A process \in Processes : ticks[process] \in Nat
      /\ Len(samples) \in Nat
  BY DEF WindowInv, WindowTypeOK
<1>1. CASE Elapse
  <2>1. \A process \in Processes : ticks'[process] \in Nat /\ ticks[process] <= ticks'[process]
    BY <1>0, <1>1 DEF Elapse, Processes
  <2> QED
    BY <1>1, <2>1, BaseStays DEF Elapse
<1>2. CASE BeginScrape \/ Finish \/ RecordPhase \/ Announce \/ Mark \/ SendMark \/ RtcExits
           \/ UNCHANGED vars
  <2>1. UNCHANGED <<samples, previous, ended, ticks>>
    BY <1>2 DEF BeginScrape, Finish, RecordPhase, Announce, Mark, SendMark, RtcExits, vars
  <2> QED
    BY <1>0, <2>1, BaseStays
<1>3. CASE EndScrape
  <2> DEFINE n == Len(samples) + 1
  <2>1. /\ scrape # None /\ ~ended /\ scrape.at \in Nat /\ scrape.final \in BOOLEAN
        /\ samples'[n].at = scrape.at /\ samples'[n].final = scrape.final
        /\ ended' = scrape.final /\ ticks' = ticks /\ rtc' = rtc
        /\ \/ samples'[n].kind = "sample" /\ Scraped(TRUE) /\ (rtc \/ scrape.final)
              /\ samples'[n] = SampleRecord(scrape.at, scrape.final)
           \/ samples'[n].kind = "error" /\ Scraped(FALSE)
    BY <1>3, EndScrapeFacts DEF EndScrape
  <2>2. /\ n \notin Good
        /\ Good' = Good \/ Good' = Good \union {n}
        /\ \A i \in Good : samples'[i] = samples[i] /\ i \in 1 .. Len(samples)
        /\ n \in Good' <=> samples'[n].kind = "sample"
    BY <1>3, GoodAfter
  <2>3. \A i \in Good : i < n /\ i \in Nat
    BY <1>0, <2>2
  <2>4. CASE samples'[n].kind = "error" /\ Scraped(FALSE)
    <3>1. Good' = Good /\ previous' = previous
      BY <2>2, <2>4 DEF Scraped
    <3> SUFFICES ASSUME NEW process \in Processes
                 PROVE  /\ Good' = {} => previous'[process] = None
                        /\ \A i \in Good' : (\A j \in Good' : j <= i) /\ ~ended' =>
                               /\ samples'[i][process].ticks \in Nat
                               /\ samples'[i][process].ticks <= ticks'[process]
                               /\ previous'[process] =
                                      [at |-> samples'[i].at, ticks |-> samples'[i][process].ticks]
                        /\ \A i \in Good' :
                               (\A j \in Good' : i <= j) => samples'[i][process].percent = None
                        /\ \A i, j \in Good' :
                               Adjacent(i, j)' /\ (process = "server" \/ ~samples'[j].final) =>
                                   Link(process, i, j)'
                        /\ \A i \in Good' : samples'[i].server.ticks \in Nat
      BY DEF BaseInv
    <3>2. \A i \in Good : samples'[i] = samples[i]
      BY <2>2
    <3>3. \A i, j \in Good : /\ Adjacent(i, j)' <=> Adjacent(i, j)
                             /\ Link(process, i, j)' <=> Link(process, i, j)
      BY <3>1, <3>2 DEF Adjacent, Link
    <3>4. /\ Good = {} => previous[process] = None
          /\ \A i \in Good : (\A j \in Good : j <= i) /\ ~ended =>
                 /\ samples[i][process].ticks \in Nat
                 /\ samples[i][process].ticks <= ticks[process]
                 /\ previous[process] = [at |-> samples[i].at, ticks |-> samples[i][process].ticks]
          /\ \A i \in Good : (\A j \in Good : i <= j) => samples[i][process].percent = None
          /\ \A i, j \in Good :
                 Adjacent(i, j) /\ (process = "server" \/ ~samples[j].final) => Link(process, i, j)
          /\ \A i \in Good : samples[i].server.ticks \in Nat
      BY DEF WindowInv, BaseInv
    <3>5. \A i \in Good' : (\A j \in Good' : j <= i) /\ ~ended' =>
              /\ samples'[i][process].ticks \in Nat
              /\ samples'[i][process].ticks <= ticks'[process]
              /\ previous'[process] = [at |-> samples'[i].at, ticks |-> samples'[i][process].ticks]
      BY <2>1, <3>1, <3>2, <3>4
    <3>6. \A i, j \in Good' :
              Adjacent(i, j)' /\ (process = "server" \/ ~samples'[j].final) => Link(process, i, j)'
      BY <3>1, <3>2, <3>3, <3>4
    <3>7. \A i \in Good' : (\A j \in Good' : i <= j) => samples'[i][process].percent = None
      BY <3>1, <3>2, <3>4
    <3> QED
      BY <3>1, <3>2, <3>4, <3>5, <3>6, <3>7
  <2>5. CASE /\ samples'[n].kind = "sample" /\ Scraped(TRUE) /\ (rtc \/ scrape.final)
             /\ samples'[n] = SampleRecord(scrape.at, scrape.final)
    <3>1. Good' = Good \union {n}
      BY <2>2, <2>5
    <3>2. previous' = [process \in Processes |-> Latest(process, scrape.at)]
      BY <2>5 DEF Scraped
    <3> SUFFICES ASSUME NEW process \in Processes
                 PROVE  /\ Good' = {} => previous'[process] = None
                        /\ \A i \in Good' : (\A j \in Good' : j <= i) /\ ~ended' =>
                               /\ samples'[i][process].ticks \in Nat
                               /\ samples'[i][process].ticks <= ticks'[process]
                               /\ previous'[process] =
                                      [at |-> samples'[i].at, ticks |-> samples'[i][process].ticks]
                        /\ \A i \in Good' :
                               (\A j \in Good' : i <= j) => samples'[i][process].percent = None
                        /\ \A i, j \in Good' :
                               Adjacent(i, j)' /\ (process = "server" \/ ~samples'[j].final) =>
                                   Link(process, i, j)'
                        /\ \A i \in Good' : samples'[i].server.ticks \in Nat
      BY DEF BaseInv
    <3> DEFINE last == previous[process]
    <3>3. samples'[n][process] = Usage(process, scrape.at)
          /\ samples'[n].server = Usage("server", scrape.at)
      BY <2>5 DEF SampleRecord, Processes
    <3>4. Present(process) \/ (process = "rtc" /\ scrape.final)
      BY <2>5 DEF Present, Processes
    <3>5. Present("server") /\ "server" \in Processes
      BY DEF Present, Processes
    <3>6. samples'[n].server.ticks \in Nat
      BY <1>0, <3>3, <3>5 DEF Usage
    <3>7. last # None => /\ last \in Bases /\ last.at <= scrape.at
                         /\ ~scrape.final => last.at < scrape.at
                         /\ last.ticks <= ticks[process]
      BY <2>1, BaseIsOlder
    <3>8. \A i \in Good' : (\A j \in Good' : j <= i) /\ ~ended' =>
              /\ samples'[i][process].ticks \in Nat
              /\ samples'[i][process].ticks <= ticks'[process]
              /\ previous'[process] = [at |-> samples'[i].at, ticks |-> samples'[i][process].ticks]
      <4> SUFFICES ASSUME ~ended'
                   PROVE  /\ samples'[n][process].ticks \in Nat
                          /\ samples'[n][process].ticks <= ticks'[process]
                          /\ previous'[process] = [at |-> samples'[n].at,
                                                   ticks |-> samples'[n][process].ticks]
        BY <2>3, <3>1
      <4>1. Present(process) /\ ~scrape.final
        BY <2>1, <3>4
      <4>2. samples'[n][process].ticks = ticks[process]
        BY <3>3, <4>1 DEF Usage
      <4>3. Latest(process, scrape.at) = [at |-> scrape.at, ticks |-> ticks[process]]
        BY <2>1, <3>7, <4>1 DEF Latest, Bases
      <4> QED
        BY <1>0, <2>1, <3>2, <4>2, <4>3
    <3>9. \A i \in Good' : (\A j \in Good' : i <= j) => samples'[i][process].percent = None
      <4> SUFFICES ASSUME NEW i \in Good', \A j \in Good' : i <= j
                   PROVE  samples'[i][process].percent = None
        OBVIOUS
      <4>1. CASE i \in Good
        BY <2>2, <3>1, <4>1 DEF WindowInv, BaseInv
      <4>2. CASE i = n
        <5>1. Good = {}
          BY <2>3, <3>1, <4>2
        <5>2. last = None
          BY <5>1 DEF WindowInv, BaseInv
        <5> QED
          BY <3>3, <4>2, <5>2 DEF Usage, CpuPercent
      <4> QED
        BY <3>1, <4>1, <4>2
    <3>10. ASSUME NEW i \in Good', NEW j \in Good', Adjacent(i, j)',
                  process = "server" \/ ~samples'[j].final
           PROVE  Link(process, i, j)'
      <4>1. CASE j \in Good
        <5>1. i \in Good /\ Adjacent(i, j)
          BY <2>3, <3>1, <3>10, <4>1 DEF Adjacent
        <5>2. samples'[i] = samples[i] /\ samples'[j] = samples[j]
          BY <2>2, <4>1, <5>1
        <5>3. Link(process, i, j)
          BY <3>10, <4>1, <5>1, <5>2 DEF WindowInv, BaseInv
        <5> QED
          BY <5>2, <5>3 DEF Link
      <4>2. CASE j = n
        <5>1. i \in Good /\ \A k \in Good : k <= i
          <6>1. i \in Good' /\ i < n /\ \A k \in Good' : ~(i < k /\ k < n)
            BY <3>10, <4>2 DEF Adjacent
          <6>2. i \in Good
            BY <1>0, <3>1, <6>1
          <6>3. \A k \in Good : k \in Nat /\ k < n /\ ~(i < k /\ k < n)
            BY <2>3, <3>1, <6>1
          <6> QED
            BY <2>3, <6>2, <6>3
        <5>2. samples'[i] = samples[i]
          BY <2>2, <5>1
        <5>3. /\ samples[i][process].ticks \in Nat
              /\ samples[i][process].ticks <= ticks[process]
              /\ last = [at |-> samples[i].at, ticks |-> samples[i][process].ticks]
          BY <2>1, <5>1 DEF WindowInv, BaseInv
        <5>4. last # None
          <6>1. samples[i].at \in Nat
            <7>1. samples[i] \in SampleRecords \union ErrorRecords
              BY <2>2, <5>1, ElementOfSeq DEF WindowInv, WindowTypeOK
            <7> QED
              BY <7>1 DEF SampleRecords, ErrorRecords
          <6> QED
            BY <5>3, <6>1, WindowAssumption
        <5>5. Present(process)
          BY <2>1, <3>4, <3>10, <4>2
        <5>6. /\ samples'[n][process].ticks = ticks[process]
              /\ samples'[n][process].percent =
                     IF scrape.at = last.at THEN None
                     ELSE Milli(ticks[process] - last.ticks, scrape.at - last.at)
          BY <3>3, <5>4, <5>5 DEF Usage, CpuPercent
        <5>7. /\ last.at = samples[i].at /\ last.ticks = samples[i][process].ticks
              /\ last.at \in Nat
          BY <3>7, <5>3, <5>4 DEF Bases
        <5>8. scrape.at - last.at = 0 <=> scrape.at = last.at
          BY <2>1, <5>7
        <5> QED
          BY <1>0, <2>1, <4>2, <5>2, <5>3, <5>6, <5>7, <5>8 DEF Link
      <4> QED
        BY <3>1, <4>1, <4>2
    <3>11. \A i \in Good' : samples'[i].server.ticks \in Nat
      BY <2>2, <3>1, <3>6 DEF WindowInv, BaseInv
    <3> QED
      BY <3>1, <3>8, <3>9, <3>10, <3>11
  <2> QED
    BY <2>1, <2>4, <2>5
<1> QED
  BY <1>1, <1>2, <1>3 DEF Next

\* The invariant holds in every reachable state.
LEMMA WindowInvariance == Spec => []WindowInv
<1>1. Init => WindowInv
  <2> SUFFICES ASSUME Init PROVE WindowInv
    OBVIOUS
  <2>1. samples = << >> /\ markers = << >> /\ queue = << >> /\ Good = {}
    BY DEF Init, Good
  <2>5. << >> \in Seq(Markers) /\ << >> \in Seq(SampleRecords \union ErrorRecords)
    BY EmptySeq
  <2>6. now = 0 /\ ticks \in [Processes -> Nat] /\ previous \in [Processes -> Bases \union {None}]
    BY DEF Init
  <2>7. /\ queue \in Seq(Markers) /\ markers \in Seq(Markers)
        /\ samples \in Seq(SampleRecords \union ErrorRecords)
    BY <2>1, <2>5
  <2>8. /\ rtc \in BOOLEAN /\ event \in BOOLEAN /\ ended \in BOOLEAN
        /\ mark = None /\ scrape = None
    BY DEF Init
  <2>2. WindowTypeOK
    BY <2>6, <2>7, <2>8 DEF WindowTypeOK
  <2>3. ClockInv /\ MarkerInv
    BY <2>1 DEF Init, ClockInv, MarkerInv
  <2>4. BaseInv
    BY <2>1 DEF Init, BaseInv
  <2> QED
    BY <2>2, <2>3, <2>4 DEF WindowInv
<1>2. WindowInv /\ [Next]_vars => WindowInv'
  BY TypeStep, ClockStep, MarkerStep, BaseStep DEF WindowInv
<1> QED
  BY <1>1, <1>2, PTL DEF Spec

-------------------------------------------------------------------------------
(* What the reader takes. *)

\* As many numbers as they are counted.
LEMMA Numbered ==
    ASSUME NEW n \in Nat
    PROVE  IsFiniteSet(1 .. n) /\ Cardinality(1 .. n) = n
BY FS_Interval

\* The reader refuses no marker.
LEMMA AllPhasesAreAccepted ==
    ASSUME WindowInv
    PROVE  Phases = 1 .. Len(markers)
<1>1. /\ Len(markers) \in Nat /\ Len(markers) <= 4
      /\ \A i \in 1 .. Len(markers) : markers[i].phase = Ordered[i]
      /\ \A i, j \in 1 .. Len(markers) : i < j => markers[i].at <= markers[j].at
  BY DEF WindowInv, WindowTypeOK, MarkerInv
<1>2. \A i \in 1 .. Len(markers) : markers[i].at \in Nat
  <2>1. \A i \in 1 .. Len(markers) : markers[i] \in Markers
    BY ElementOfSeq DEF WindowInv, WindowTypeOK
  <2>2. \A m \in Markers : m.at \in Nat
    BY DEF Markers
  <2> QED
    BY <2>1, <2>2
<1>3. ASSUME NEW i \in 1 .. Len(markers) PROVE Accepted(i)
  <2>1. i <= Len(Ordered)
    BY <1>1, FourPhases
  <2>2. NotBefore(i)
    <3>1. CASE i > 1
      <4>1. i - 1 \in 1 .. Len(markers) /\ i - 1 < i
        BY <1>1, <3>1
      <4> QED
        BY <1>1, <1>2, <4>1 DEF NotBefore
    <3> QED
      BY <3>1 DEF NotBefore
  <2> QED
    BY <1>1, <2>1, <2>2 DEF Accepted
<1>4. \A i \in 1 .. Len(markers) : \A j \in 1 .. i : j \in 1 .. Len(markers)
  BY <1>1
<1> QED
  BY <1>3, <1>4 DEF Phases

-------------------------------------------------------------------------------
(* The average of the window. *)

\* A quotient, from below and above.
LEMMA Quotient ==
    ASSUME NEW a \in Int, NEW b \in Nat \ {0}
    PROVE  /\ a \div b \in Int
           /\ (a \div b) * b <= a /\ a < (a \div b) * b + b
BY Z3

\* Products keep the order.
LEMMA Products ==
    ASSUME NEW a \in Int, NEW b \in Int, NEW c \in Nat \ {0}
    PROVE  a * c < b * c <=> a < b
BY Z3

\* Quotients whose dividends differ by less than a divisor differ by one.
LEMMA CloseQuotients ==
    ASSUME NEW T \in Nat \ {0}, NEW W \in Nat \ {0}, NEW A \in Int, NEW U \in Int,
           A * T <= U, U <= A * T + W * T
    PROVE  A \div W \in {U \div (T * W) - 1, U \div (T * W)}
<1> DEFINE a == A \div W
           e == U \div (T * W)
<1>1. T * W \in Nat \ {0}
  OBVIOUS
<1>2. a \in Int /\ a * W <= A /\ A < a * W + W
  BY Quotient
<1>3. e \in Int /\ e * (T * W) <= U /\ U < e * (T * W) + T * W
  BY <1>1, Quotient
<1> HIDE DEF a, e
<1>4. /\ e * (T * W) = (e * W) * T /\ e * (T * W) + T * W = (e * W + W) * T
      /\ A * T + W * T = (A + W) * T
  BY <1>2, <1>3
<1>5. e * W \in Int /\ a * W \in Int
  BY <1>2, <1>3
<1>6. A * T < (e * W + W) * T
  BY <1>3, <1>4, <1>5
<1>7. A < e * W + W
  BY <1>5, <1>6, Products
<1>8. (e * W) * T < (A + W + 1) * T
  BY <1>3, <1>4, <1>5
<1>9. e * W < A + W + 1
  BY <1>5, <1>8, Products
<1>10. a * W < (e + 1) * W
  BY <1>2, <1>3, <1>7
<1>11. a < e + 1
  BY <1>2, <1>3, <1>10, Products
<1>12. e * W < (a + 2) * W
  BY <1>2, <1>3, <1>5, <1>9
<1>13. e < a + 2
  BY <1>2, <1>3, <1>12, Products
<1>14. a \in {e - 1, e}
  BY <1>2, <1>3, <1>11, <1>13
<1> QED
  BY <1>14 DEF a, e

\* The invariant PhasesReachTheReport of the run TelemetryWindow: every phase that was recorded
\* lies in the window, in its order, and the reader takes it.
THEOREM RecordedPhasesAreRead == Spec => []PhasesReachTheReport
<1>1. WindowInv => PhasesReachTheReport
  <2> SUFFICES ASSUME WindowInv PROVE PhasesReachTheReport
    OBVIOUS
  <2>1. Len(samples) \in Nat /\ Len(markers) \in Nat /\ ClockInv /\ MarkerInv
    BY DEF WindowInv, WindowTypeOK
  <2>2. \A i, j \in 1 .. Len(samples) : i < j => samples[i].at <= samples[j].at
    BY <2>1 DEF ClockInv
  <2>3. ASSUME HasWindow
        PROVE  \A i \in 1 .. Len(markers) :
                   markers[i].at >= First.at /\ markers[i].at <= Final.at
    <3>1. samples # << >> /\ Final.final
      BY <2>3 DEF HasWindow
    <3>2. Len(samples) # 0
      BY <3>1, EmptySeq DEF WindowInv, WindowTypeOK
    <3>3. Len(samples) \in 1 .. Len(samples)
      BY <2>1, <3>2
    <3>4. ended
      BY <2>1, <3>1, <3>3 DEF ClockInv, Final
    <3>5. \A i \in 1 .. Len(markers) : /\ samples[1].at <= markers[i].at
                                       /\ markers[i].at <= samples[Len(samples)].at
      BY <2>1, <3>4 DEF MarkerInv
    <3>6. First.at \in Nat
      <4>0. 1 \in 1 .. Len(samples)
        BY <2>1, <3>2
      <4>1. samples[1] \in SampleRecords \union ErrorRecords
        BY <4>0, ElementOfSeq DEF WindowInv, WindowTypeOK
      <4> QED
        BY <4>1 DEF SampleRecords, ErrorRecords, First
    <3>7. \A i \in 1 .. Len(markers) : markers[i].at \in Nat
      <4>1. \A i \in 1 .. Len(markers) : markers[i] \in Markers
        BY ElementOfSeq DEF WindowInv, WindowTypeOK
      <4>2. \A m \in Markers : m.at \in Nat
        BY DEF Markers
      <4> QED
        BY <4>1, <4>2
    <3> QED
      BY <3>5, <3>6, <3>7 DEF First, Final
  <2>4. Phases = 1 .. Len(markers)
    BY AllPhasesAreAccepted
  <2>6. Cardinality(1 .. Len(markers)) = Len(markers)
    BY <2>1, Numbered
  <2>5. Cardinality(Phases) = Len(markers)
    BY <2>1, <2>4, <2>6
  <2> QED
    BY <2>2, <2>3, <2>5 DEF PhasesReachTheReport
<1> QED
  BY <1>1, WindowInvariance, PTL

\* What an average of the window is made of: the good samples after the first, each weighed
\* against the good one before.
LEMMA WindowParts ==
    ASSUME WindowInv, Average("server") # None
    PROVE  /\ Len(samples) \in Nat /\ Len(samples) > 1
           /\ 1 \in Good /\ Len(samples) \in Good /\ Good \in SUBSET (1 .. Len(samples))
           /\ Window \in Nat \ {0}
           /\ \A i \in Good : samples[i].at \in Nat /\ samples[i].server.ticks \in Nat
           /\ \A i \in Good \ {1} :
                  LET before == Max({j \in Good : j < i})
                      used == samples[i].server.ticks - samples[before].server.ticks
                  IN  /\ before \in Good
                      /\ Weight(i) = samples[i].at - samples[before].at
                      /\ Weight(i) \in Nat \ {0} /\ used \in Nat
                      /\ samples[i].server.percent = Milli(used, Weight(i))
           /\ Weighed("server") = Good \ {1}
<1> DEFINE n == Len(samples)
<1>1. /\ samples # << >> /\ ~IsGap(First) /\ ~First.final
      /\ ~IsGap(Final) /\ Final.final /\ Final.at > First.at
      /\ Final["server"].percent # None
  BY DEF Average, HasWindow
<1>2. n \in Nat /\ n # 0 /\ samples \in Seq(SampleRecords \union ErrorRecords)
  BY <1>1, EmptySeq DEF WindowInv, WindowTypeOK
<1>3. n # 1
  BY <1>1 DEF First, Final
<1>4. n > 1
  <2>1. n \in Nat /\ n # 0
    BY <1>2
  <2> HIDE DEF n
  <2> QED
    BY <1>3, <2>1
<1>5. 1 \in Good /\ n \in Good /\ Good \in SUBSET (1 .. n)
  <2>1. 1 \in 1 .. n /\ n \in 1 .. n
    BY <1>2, <1>4
  <2>2. ~IsGap(samples[1]) /\ ~IsGap(samples[n])
    BY <1>1 DEF First, Final
  <2>3. Good = {i \in 1 .. n : ~IsGap(samples[i])}
    BY DEF Good
  <2> QED
    BY <2>1, <2>2, <2>3, Zenon
<1>6. \A i \in Good : samples[i].at \in Nat /\ samples[i].server.ticks \in Nat
  <2>1. "server" \in Processes
    BY DEF Processes
  <2> SUFFICES ASSUME NEW i \in Good
               PROVE  samples[i].at \in Nat /\ samples[i].server.ticks \in Nat
    OBVIOUS
  <2>2. samples[i] \in SampleRecords \union ErrorRecords
    BY <1>2, <1>5, ElementOfSeq
  <2>3. samples[i].at \in Nat
    BY <2>2 DEF SampleRecords, ErrorRecords
  <2> QED
    BY <2>1, <2>3 DEF WindowInv, BaseInv
<1>7. Window \in Nat \ {0}
  <2>1. samples[n].at \in Nat /\ samples[1].at \in Nat
    BY <1>5, <1>6
  <2> QED
    BY <1>1, <2>1 DEF Window, First, Final
<1>8. ASSUME NEW i \in Good \ {1}
      PROVE  LET before == Max({j \in Good : j < i})
                 used == samples[i].server.ticks - samples[before].server.ticks
             IN  /\ before \in Good
                 /\ Weight(i) = samples[i].at - samples[before].at
                 /\ Weight(i) \in Nat \ {0} /\ used \in Nat
                 /\ samples[i].server.percent = Milli(used, Weight(i))
  <2> DEFINE S == {j \in Good : j < i}
             before == Max(S)
             used == samples[i].server.ticks - samples[before].server.ticks
  <2>0. i \in Good /\ i \in 1 .. n /\ 1 < i
    <3>1. i \in Good /\ i \in 1 .. n /\ i # 1
      BY <1>5
    <3> QED
      BY <1>2, <3>1
  <2>1. S \in SUBSET (1 .. n) /\ 1 \in S
    BY <1>5, <2>0
  <2>2. before \in S /\ \A x \in S : x <= before
    BY <1>2, <2>1, GreatestExists
  <2>3. Weight(i) = samples[i].at - samples[before].at
    BY DEF Weight
  <2> HIDE DEF before
  <2>4. /\ before \in Good /\ before < i /\ before \in 1 .. n /\ i \in 1 .. n
        /\ \A k \in Good : k < i => k <= before
    BY <1>5, <2>2
  <2>5. \A k \in Good : ~(before < k /\ k < i)
    BY <1>5, <2>4
  <2>6. Adjacent(before, i)
    BY <2>4, <2>5 DEF Adjacent
  <2>7. Link("server", before, i)
    BY <2>6, <2>4 DEF WindowInv, BaseInv, Processes
  <2>8. /\ used >= 0 /\ used \in Int
        /\ samples[i].server.percent =
               IF Weight(i) = 0 THEN None ELSE Milli(used, Weight(i))
    BY <1>6, <2>3, <2>4, <2>7 DEF Link
  <2>9. Weight(i) \in Nat
    BY <1>6, <2>3, <2>4 DEF WindowInv, ClockInv
  <2>10. Weight(i) # 0
    <3>1. CASE samples[i].final
      <4>1. i = n
        BY <2>4, <3>1 DEF WindowInv, ClockInv
      <4> QED
        BY <1>1, <2>8, <4>1 DEF Final
    <3>2. CASE ~samples[i].final
      <4>1. samples[before].at < samples[i].at
        BY <2>4, <3>2 DEF WindowInv, ClockInv
      <4> QED
        BY <1>6, <2>3, <2>4, <4>1
    <3> QED
      BY <3>1, <3>2
  <2> HIDE DEF used
  <2>11. /\ before \in Good
         /\ Weight(i) = samples[i].at - samples[before].at
         /\ Weight(i) \in Nat \ {0} /\ used \in Nat
         /\ samples[i].server.percent = Milli(used, Weight(i))
    BY <2>3, <2>4, <2>8, <2>9, <2>10
  <2> QED
    BY <2>11 DEF before, used
<1>9. Weighed("server") = Good \ {1}
  <2>1. \A i \in Good \ {1} : samples[i].server.percent # None
    <3> SUFFICES ASSUME NEW i \in Good \ {1} PROVE samples[i].server.percent # None
      OBVIOUS
    <3> DEFINE used == samples[i].server.ticks - samples[Max({j \in Good : j < i})].server.ticks
    <3>1. /\ used \in Nat /\ Weight(i) \in Nat \ {0}
          /\ samples[i].server.percent = Milli(used, Weight(i))
      BY <1>8
    <3> HIDE DEF used
    <3>2. Milli(used, Weight(i)) \in Nat
      BY <3>1, MilliIsTyped
    <3> QED
      BY <3>1, <3>2, WindowAssumption
  <2> QED
    BY <2>1 DEF Weighed
<1> QED
  BY <1>2, <1>4, <1>5, <1>6, <1>7, <1>8, <1>9

\* The invariant AverageIsWholeWindow of the run TelemetryWindow: the weighed percentages add up
\* to the CPU use of the whole window, whatever failed between them.
THEOREM AverageCoversTheWindow == Spec => []AverageIsWholeWindow
<1>1. WindowInv => AverageIsWholeWindow
  <2> SUFFICES ASSUME WindowInv, Average("server") # None
               PROVE  LET exact == Milli(Final["server"].ticks - First["server"].ticks, Window)
                      IN  Average("server") \in {exact - 1, exact}
    BY DEF AverageIsWholeWindow
  <2> DEFINE n == Len(samples)
             W == Good \ {1}
             Before(i) == Max({j \in Good : j < i})
             Used(i) == samples[i].server.ticks - samples[Before(i)].server.ticks
             at == [i \in Good |-> samples[i].at]
             total == [i \in Good |-> samples[i].server.ticks]
             weight == [i \in W |-> Weight(i)]
             used == [i \in W |-> Used(i)]
             part == [i \in W |-> samples[i].server.percent * Weight(i)]
             T == TicksPerSecond
             C == 100000000
             U == samples[n].server.ticks - samples[1].server.ticks
             A == SumFunctionOnSet(part, W)
  <2>1. /\ n \in Nat /\ n > 1 /\ 1 \in Good /\ n \in Good /\ Good \in SUBSET (1 .. n)
        /\ Window \in Nat \ {0}
        /\ \A i \in Good : samples[i].at \in Nat /\ samples[i].server.ticks \in Nat
        /\ \A i \in W : /\ Before(i) \in Good
                        /\ Weight(i) = samples[i].at - samples[Before(i)].at
                        /\ Weight(i) \in Nat \ {0} /\ Used(i) \in Nat
                        /\ samples[i].server.percent = Milli(Used(i), Weight(i))
        /\ Weighed("server") = W
    BY WindowParts
  <2>2. IsFiniteSet(W)
    <3>1. IsFiniteSet(1 .. n)
      BY <2>1, Numbered
    <3>2. IsFiniteSet(Good)
      BY <2>1, <3>1, FS_Subset
    <3> QED
      BY <3>2, FS_Subset
  <2>3. Average("server") = A \div Window
    <3>1. Average("server") = SumFunction(part) \div Window
      BY <2>1 DEF Average
    <3>2. DOMAIN part = W
      OBVIOUS
    <3>3. SumFunction(part) = SumFunctionOnSet(part, W)
      BY <3>2 DEF SumFunction
    <3> QED
      BY <3>1, <3>3
  <2>4. T \in Nat \ {0}
    BY WindowAssumption
  <2> HIDE DEF n
  <2>5. SumFunctionOnSet(weight, W) = Window
    <3>5. \A i \in Good : samples[i].at \in Nat
      BY <2>1
    <3>1. \A i \in Good : at[i] \in Int
      BY <3>5
    <3>2. \A i \in Good \ {1} : weight[i] = at[i] - at[Max({j \in Good : j < i})]
      BY <2>1
    <3> HIDE DEF at, weight
    <3>4. n \in Nat /\ Good \in SUBSET (1 .. n) /\ 1 \in Good /\ n \in Good
      BY <2>1
    <3>3. SumFunctionOnSet(weight, Good \ {1}) = at[n] - at[1]
      BY <3>1, <3>2, <3>4, SumTelescopes
    <3> QED
      BY <2>1, <3>3 DEF at, Window, First, Final, n
  <2>6. SumFunctionOnSet(used, W) = U
    <3>5. \A i \in Good : samples[i].server.ticks \in Nat
      BY <2>1
    <3>1. \A i \in Good : total[i] \in Int
      BY <3>5
    <3>2. \A i \in Good \ {1} : used[i] = total[i] - total[Max({j \in Good : j < i})]
      BY <2>1
    <3> HIDE DEF total, used
    <3>4. n \in Nat /\ Good \in SUBSET (1 .. n) /\ 1 \in Good /\ n \in Good
      BY <2>1
    <3>3. SumFunctionOnSet(used, Good \ {1}) = total[n] - total[1]
      BY <3>1, <3>2, <3>4, SumTelescopes
    <3> QED
      BY <2>1, <3>3 DEF total
  <2>7. \A i \in W : /\ weight[i] \in Nat \ {0} /\ used[i] \in Nat /\ part[i] \in Int
                     /\ part[i] * T <= used[i] * C
                     /\ used[i] * C <= part[i] * T + weight[i] * T
    <3> SUFFICES ASSUME NEW i \in W
                 PROVE  /\ weight[i] \in Nat \ {0} /\ used[i] \in Nat /\ part[i] \in Int
                        /\ part[i] * T <= used[i] * C
                        /\ used[i] * C <= part[i] * T + weight[i] * T
      OBVIOUS
    <3> DEFINE p == samples[i].server.percent
               w == Weight(i)
               u == Used(i)
    <3>1. w \in Nat \ {0} /\ u \in Nat /\ p = (u * C) \div (T * w)
      BY <2>1 DEF Milli
    <3>2. weight[i] = w /\ used[i] = u /\ part[i] = p * w
      OBVIOUS
    <3> HIDE DEF p, w, u, weight, used, part, C, T
    <3>3. T * w \in Nat \ {0} /\ u * C \in Int
      BY <2>4, <3>1 DEF C
    <3>4. p \in Int /\ p * (T * w) <= u * C /\ u * C < p * (T * w) + T * w
      BY <3>1, <3>3, Quotient
    <3>5. p * w \in Int /\ p * (T * w) = (p * w) * T /\ T * w = w * T
      BY <2>4, <3>1, <3>4
    <3> QED
      BY <2>4, <3>1, <3>2, <3>3, <3>4, <3>5
  <2> HIDE DEF W, weight, used, part, at, total, T, C, U, A
  <2>8. C \in Int /\ T \in Int
    BY <2>4 DEF C
  <2> DEFINE low == [i \in W |-> part[i] * T]
             mid == [i \in W |-> used[i] * C]
             slack == [i \in W |-> weight[i] * T]
             high == [i \in W |-> low[i] + slack[i]]
  <2>9. \A i \in W : /\ low[i] \in Int /\ mid[i] \in Int /\ slack[i] \in Int /\ high[i] \in Int
                     /\ low[i] = part[i] * T /\ mid[i] = used[i] * C /\ slack[i] = weight[i] * T
                     /\ high[i] = low[i] + slack[i]
                     /\ low[i] <= mid[i] /\ mid[i] <= high[i]
    <3>1. \A i \in W : part[i] * T \in Int /\ used[i] * C \in Int /\ weight[i] * T \in Int
      BY <2>7, <2>8
    <3> QED
      BY <2>7, <3>1
  <2> HIDE DEF low, mid, slack, high
  <2>10. SumFunctionOnSet(low, W) = A * T
    BY <2>2, <2>7, <2>8, <2>9, SumTimes DEF A
  <2>11. SumFunctionOnSet(mid, W) = U * C
    BY <2>2, <2>6, <2>7, <2>8, <2>9, SumTimes
  <2>12. SumFunctionOnSet(slack, W) = Window * T
    BY <2>2, <2>5, <2>7, <2>8, <2>9, SumTimes
  <2>13. SumFunctionOnSet(high, W) = A * T + Window * T
    BY <2>2, <2>9, <2>10, <2>12, SumPlus
  <2>14. A * T <= U * C /\ U * C <= A * T + Window * T
    BY <2>2, <2>9, <2>10, <2>11, <2>13, SumMonotone
  <2>15. A \in Int
    BY <2>2, <2>7, SumInt DEF A
  <2>16. U * C \in Int
    <3>1. U \in Int
      BY <2>1 DEF U
    <3> QED
      BY <2>8, <3>1
  <2>17. A \div Window \in {(U * C) \div (T * Window) - 1, (U * C) \div (T * Window)}
    BY <2>1, <2>4, <2>14, <2>15, <2>16, CloseQuotients
  <2>18. Milli(Final["server"].ticks - First["server"].ticks, Window) = (U * C) \div (T * Window)
    BY DEF Milli, Final, First, U, C, T, n
  <2> QED
    BY <2>3, <2>17, <2>18
<1> QED
  BY <1>1, WindowInvariance, PTL

-------------------------------------------------------------------------------
(* The smoothed series. *)

Begins == {markers[m] : m \in 1 .. Len(markers)}

\* Two samples in the same phase have no begin of a phase between them.
LEMMA BegunSame ==
    ASSUME WindowInv, NEW p \in Indices, NEW i \in Indices, p < i
    PROVE  PhasesBegun[p] = PhasesBegun[i]
               <=> \A b \in Begins : ~(At(p) < b.at /\ b.at <= At(i))
<1> DEFINE Until(k) == {b \in Begins : b.at <= At(k)}
<1>1. /\ PhasesBegun[p] = Cardinality(Until(p)) /\ PhasesBegun[i] = Cardinality(Until(i))
  BY DEF PhasesBegun, Begins
<1>2. IsFiniteSet(Begins)
  <2>1. markers \in Seq(Markers) /\ Len(markers) \in Nat
    BY DEF WindowInv, WindowTypeOK
  <2>2. IsFiniteSet(1 .. Len(markers))
    BY <2>1, Numbered
  <2>3. markers \in Surjection(1 .. Len(markers), Begins)
    BY <2>1 DEF Surjection, Begins
  <2> QED
    BY <2>2, <2>3, FS_Surjection DEF ExistsSurjection
<1>3. At(p) \in Nat /\ At(i) \in Nat /\ At(p) <= At(i)
  <2>1. samples[p] \in SampleRecords \union ErrorRecords
        /\ samples[i] \in SampleRecords \union ErrorRecords
    BY ElementOfSeq DEF WindowInv, WindowTypeOK, Indices
  <2>2. samples[p].at \in Nat /\ samples[i].at \in Nat
    BY <2>1 DEF SampleRecords, ErrorRecords
  <2>3. samples[p].at <= samples[i].at
    BY DEF WindowInv, ClockInv, Indices
  <2> QED
    BY <2>2, <2>3 DEF At
<1>4. \A b \in Begins : b.at \in Nat
  <2>1. \A m \in 1 .. Len(markers) : markers[m] \in Markers
    BY ElementOfSeq DEF WindowInv, WindowTypeOK
  <2>2. \A m \in Markers : m.at \in Nat
    BY DEF Markers
  <2> QED
    BY <2>1, <2>2 DEF Begins
<1>5. Until(p) \in SUBSET Until(i) /\ Until(i) \in SUBSET Begins
  BY <1>3, <1>4
<1> HIDE DEF Until
<1>6. IsFiniteSet(Until(i))
  BY <1>2, <1>5, FS_Subset
<1>7. Cardinality(Until(p)) = Cardinality(Until(i)) <=> Until(p) = Until(i)
  BY <1>5, <1>6, FS_Subset
<1>8. Until(p) = Until(i) <=> \A b \in Begins : ~(At(p) < b.at /\ b.at <= At(i))
  <2>1. \A b \in Begins : /\ b \in Until(p) <=> b.at <= At(p)
                          /\ b \in Until(i) <=> b.at <= At(i)
    BY DEF Until
  <2>2. \A b \in Begins : (b \in Until(i) /\ b \notin Until(p)) <=> (At(p) < b.at /\ b.at <= At(i))
    BY <1>3, <1>4, <2>1
  <2>3. Until(p) = Until(i) <=> \A b \in Begins : ~(b \in Until(i) /\ b \notin Until(p))
    BY <1>5
  <2> QED
    BY <2>2, <2>3
<1> QED
  BY <1>1, <1>7, <1>8

\* The good sample before another.
LEMMA LastBefore ==
    ASSUME WindowInv, NEW i \in Indices, GoodBefore(i) # {}
    PROVE  /\ Max(GoodBefore(i)) \in Good /\ Max(GoodBefore(i)) < i
           /\ Max(GoodBefore(i)) \in Indices
           /\ \A k \in Good : k < i => k <= Max(GoodBefore(i))
<1>1. Len(samples) \in Nat /\ GoodBefore(i) \in SUBSET (1 .. Len(samples))
  BY DEF WindowInv, WindowTypeOK, GoodBefore, Good
<1>2. Max(GoodBefore(i)) \in GoodBefore(i) /\ \A x \in GoodBefore(i) : x <= Max(GoodBefore(i))
  BY <1>1, GreatestExists
<1> QED
  BY <1>1, <1>2 DEF GoodBefore, Indices

\* A value that was observed since the good sample before.
FromGood(series, i) == GoodBefore(i) # {} /\ series.starts[i] = At(Max(GoodBefore(i)))

\* What the series of a smoothed panel have in common.
IsSeries(series) ==
    /\ DOMAIN series.starts = Indices
    /\ \A i \in Indices : series.values[i] # None =>
           /\ i \in Good /\ series.values[i] \in Int
           /\ FromGood(series, i) \/ (series.starts[i] = None /\ IsFirst(series, i))

\* What is kept of a series.
LEMMA KeptOfSeries ==
    ASSUME WindowInv, NEW series, IsSeries(series), NEW i \in Indices
    PROVE  /\ Gapped(series)[i] # None => /\ series.values[i] # None
                                          /\ Gapped(series)[i] \in Int
                                          /\ FromGood(series, i) => i \in Pure
           /\ series.values[i] # None /\ i \in Pure => Gapped(series)[i] # None
<1> DEFINE begins == {markers[m].at : m \in Phases}
           crosses == \E begin \in begins : series.starts[i] < begin /\ begin <= At(i)
<1>1. Gapped(series)[i] =
          IF series.values[i] # None /\ series.starts[i] # None /\ crosses
          THEN None ELSE series.values[i]
  BY DEF Gapped, IsSeries
<1>2. begins = {b.at : b \in Begins}
  BY AllPhasesAreAccepted DEF Begins
<1>3. i \in Pure <=> GoodBefore(i) # {} /\ PhasesBegun[Max(GoodBefore(i))] = PhasesBegun[i]
  BY DEF Pure
<1>4. ASSUME FromGood(series, i)
      PROVE  /\ i \in Pure <=> ~crosses
             /\ series.starts[i] # None
  <2>1. /\ GoodBefore(i) # {} /\ series.starts[i] = At(Max(GoodBefore(i)))
        /\ Max(GoodBefore(i)) \in Indices /\ Max(GoodBefore(i)) < i
    BY <1>4, LastBefore DEF FromGood
  <2>2. PhasesBegun[Max(GoodBefore(i))] = PhasesBegun[i]
            <=> \A b \in Begins : ~(series.starts[i] < b.at /\ b.at <= At(i))
    BY <2>1, BegunSame
  <2>3. series.starts[i] # None
    <3>1. samples[Max(GoodBefore(i))] \in SampleRecords \union ErrorRecords
      BY <2>1, ElementOfSeq DEF WindowInv, WindowTypeOK, Indices
    <3>2. series.starts[i] \in Nat
      BY <2>1, <3>1 DEF SampleRecords, ErrorRecords, At
    <3> QED
      BY <3>2, WindowAssumption
  <2> QED
    BY <1>2, <1>3, <2>1, <2>2, <2>3
<1> HIDE DEF crosses
<1>5. series.values[i] # None => /\ series.values[i] \in Int
                                 /\ FromGood(series, i) \/ series.starts[i] = None
  BY DEF IsSeries
<1> QED
  BY <1>1, <1>4, <1>5

\* Two values side by side are of one phase: the second was observed since the first.
LEMMA NeighboursShareAPhase ==
    ASSUME WindowInv, NEW series, IsSeries(series), NEW k \in Indices, k + 1 \in Indices,
           Gapped(series)[k] # None, Gapped(series)[k + 1] # None
    PROVE  PhasesBegun[k] = PhasesBegun[k + 1]
<1>1. k \in Nat /\ k \in 1 .. (k + 1) - 1
  BY DEF WindowInv, WindowTypeOK, Indices
<1>2. series.values[k] # None /\ series.values[k + 1] # None /\ k \in Good
  BY KeptOfSeries DEF IsSeries
<1>3. ~IsFirst(series, k + 1)
  BY <1>1, <1>2 DEF IsFirst
<1>4. FromGood(series, k + 1)
  BY <1>2, <1>3 DEF IsSeries
<1>5. k + 1 \in Pure
  BY <1>4, KeptOfSeries
<1>6. Max(GoodBefore(k + 1)) = k
  <2>1. k \in GoodBefore(k + 1)
    BY <1>1, <1>2 DEF GoodBefore
  <2>2. /\ Max(GoodBefore(k + 1)) < k + 1 /\ Max(GoodBefore(k + 1)) \in Indices
        /\ k <= Max(GoodBefore(k + 1))
    BY <1>1, <1>2, <2>1, LastBefore
  <2>3. Max(GoodBefore(k + 1)) \in Nat
    BY <2>2 DEF WindowInv, WindowTypeOK, Indices
  <2> QED
    BY <1>1, <2>2, <2>3
<1> QED
  BY <1>5, <1>6 DEF Pure

\* All that are averaged together are of one phase.
LEMMA WindowSharesAPhase ==
    ASSUME WindowInv, NEW series, IsSeries(series), NEW i \in Indices,
           NEW j \in Window5(Gapped(series), i)
    PROVE  PhasesBegun[j] = PhasesBegun[i] /\ j \in Indices /\ Gapped(series)[j] # None
<1>1. /\ j \in Indices /\ j >= i - 2 /\ j <= i + 2
      /\ \A k \in Indices : (i <= k /\ k <= j) \/ (j <= k /\ k <= i) => Gapped(series)[k] # None
  BY DEF Window5, Radius
<1>2. i \in Nat /\ j \in Nat /\ \A k \in Int : (i <= k /\ k <= j) \/ (j <= k /\ k <= i) => k \in Indices
  BY <1>1 DEF WindowInv, WindowTypeOK, Indices
<1>3. \A k \in Int : /\ (i <= k /\ k + 1 <= j) \/ (j <= k /\ k + 1 <= i)
                     => PhasesBegun[k] = PhasesBegun[k + 1]
  <2> SUFFICES ASSUME NEW k \in Int, (i <= k /\ k + 1 <= j) \/ (j <= k /\ k + 1 <= i)
               PROVE  PhasesBegun[k] = PhasesBegun[k + 1]
    OBVIOUS
  <2>1. /\ (i <= k /\ k <= j) \/ (j <= k /\ k <= i)
        /\ (i <= k + 1 /\ k + 1 <= j) \/ (j <= k + 1 /\ k + 1 <= i)
        /\ k + 1 \in Int
    BY <1>2
  <2>2. /\ k \in Indices /\ k + 1 \in Indices
        /\ Gapped(series)[k] # None /\ Gapped(series)[k + 1] # None
    BY <1>1, <1>2, <2>1
  <2> QED
    BY <2>2, NeighboursShareAPhase
<1>4. j = i \/ j = i + 1 \/ j = i + 2 \/ j = i - 1 \/ j = i - 2
  BY <1>1, <1>2
<1>5. ASSUME j = i + 1 PROVE PhasesBegun[j] = PhasesBegun[i]
  BY <1>2, <1>3, <1>5
<1>6. ASSUME j = i + 2 PROVE PhasesBegun[j] = PhasesBegun[i]
  <2>1. PhasesBegun[i] = PhasesBegun[i + 1]
    BY <1>2, <1>3, <1>6
  <2>2. PhasesBegun[i + 1] = PhasesBegun[(i + 1) + 1] /\ (i + 1) + 1 = j
    BY <1>2, <1>3, <1>6
  <2> QED
    BY <2>1, <2>2
<1>7. ASSUME j = i - 1 PROVE PhasesBegun[j] = PhasesBegun[i]
  <2>1. PhasesBegun[j] = PhasesBegun[j + 1] /\ j + 1 = i
    BY <1>2, <1>3, <1>7
  <2> QED
    BY <2>1
<1>8. ASSUME j = i - 2 PROVE PhasesBegun[j] = PhasesBegun[i]
  <2>1. PhasesBegun[j] = PhasesBegun[j + 1]
    BY <1>2, <1>3, <1>8
  <2>2. PhasesBegun[j + 1] = PhasesBegun[(j + 1) + 1] /\ (j + 1) + 1 = i
    BY <1>2, <1>3, <1>8
  <2> QED
    BY <2>1, <2>2
<1>9. Gapped(series)[j] # None
  BY <1>1, <1>2
<1> QED
  BY <1>1, <1>4, <1>5, <1>6, <1>7, <1>8, <1>9

\* A value that is kept is drawn.
LEMMA KeptIsDrawn ==
    ASSUME WindowInv, NEW series, IsSeries(series), NEW i \in Indices
    PROVE  Smoothed(series)[i] # None <=> Gapped(series)[i] # None
<1> DEFINE kept == Gapped(series)
           window == Window5(kept, i)
<1>1. Smoothed(series)[i] =
          IF kept[i] = None THEN None
          ELSE SumFunctionOnSet(kept, window) \div Cardinality(window)
  BY DEF Smoothed
<1>2. ASSUME kept[i] # None
      PROVE  SumFunctionOnSet(kept, window) \div Cardinality(window) \in Int
  <2>1. IsFiniteSet(window)
    <3>1. Len(samples) \in Nat
      BY DEF WindowInv, WindowTypeOK
    <3>2. IsFiniteSet(Indices)
      BY <3>1, Numbered DEF Indices
    <3>3. window \in SUBSET Indices
      BY DEF Window5
    <3> QED
      BY <3>2, <3>3, FS_Subset
  <2>2. i \in window
    <3>1. i \in Nat
      BY DEF WindowInv, WindowTypeOK, Indices
    <3>2. \A k \in Indices : k \in Nat
      BY DEF WindowInv, WindowTypeOK, Indices
    <3>3. \A k \in Indices : (i <= k /\ k <= i) => k = i
      BY <3>1, <3>2
    <3> HIDE DEF kept
    <3> QED
      BY <1>2, <3>1, <3>3 DEF Window5, Radius
  <2>3. \A j \in window : kept[j] \in Int
    BY WindowSharesAPhase, KeptOfSeries
  <2> HIDE DEF kept, window
  <2>4. SumFunctionOnSet(kept, window) \in Int
    BY <2>1, <2>3, SumInt
  <2>5. Cardinality(window) \in Nat /\ Cardinality(window) # 0
    BY <2>1, <2>2, FS_CardinalityType, FS_EmptySet
  <2> QED
    BY <2>4, <2>5, Quotient
<1> QED
  BY <1>1, <1>2, WindowAssumption

\* A gauge without a hole between its values: the value before is that of the good sample before.
LEMMA GaugeIsSeries ==
    ASSUME WindowInv, NEW values,
           \A i \in Indices : values[i] # None => i \in Good /\ values[i] \in Int,
           \A i, j, k \in Indices :
               i < j /\ j < k /\ values[i] # None /\ values[k] # None /\ j \in Good
                   => values[j] # None
    PROVE  IsSeries(FromPreviousValue(values))
<1> DEFINE series == FromPreviousValue(values)
<1>1. /\ series.values = values
      /\ series.starts = PreviousValueStarts(values)
      /\ DOMAIN series.starts = Indices
  BY DEF FromPreviousValue, PreviousValueStarts
<1>2. ASSUME NEW i \in Indices, values[i] # None
      PROVE  FromGood(series, i) \/ (series.starts[i] = None /\ IsFirst(series, i))
  <2> DEFINE before == {j \in 1 .. i - 1 : values[j] # None}
  <2>0. Len(samples) \in Nat /\ i \in 1 .. Len(samples)
    BY DEF WindowInv, WindowTypeOK, Indices
  <2>1. series.starts[i] = IF before = {} THEN None ELSE At(Max(before))
    BY <1>1, <1>2 DEF PreviousValueStarts
  <2>2. CASE before = {}
    BY <1>1, <2>1, <2>2 DEF IsFirst
  <2>3. CASE before # {}
    <3>1. before \in SUBSET (1 .. Len(samples))
      BY <2>0
    <3>2. Max(before) \in before /\ \A x \in before : x <= Max(before)
      BY <2>0, <2>3, <3>1, GreatestExists
    <3> DEFINE b == Max(before)
    <3>3. b \in Indices /\ b < i /\ values[b] # None /\ b \in Good
      BY <1>2, <2>0, <3>2 DEF Indices
    <3> HIDE DEF b
    <3>4. GoodBefore(i) # {}
      BY <3>3 DEF GoodBefore
    <3> DEFINE p == Max(GoodBefore(i))
    <3>5. p \in Good /\ p < i /\ p \in Indices /\ b <= p
      BY <3>3, <3>4, LastBefore
    <3> HIDE DEF p
    <3>6. b \in Nat /\ p \in Nat
      BY <2>0, <3>3, <3>5 DEF Indices
    <3>7. values[p] # None
      <4>1. CASE b = p
        BY <3>3, <4>1
      <4>2. CASE b # p
        <5>1. b < p
          BY <3>5, <3>6, <4>2
        <5> QED
          BY <1>2, <3>3, <3>5, <5>1
      <4> QED
        BY <4>1, <4>2
    <3>8. p \in before
      BY <2>0, <3>5, <3>6, <3>7 DEF Indices
    <3>9. p = b
      <4>1. p <= b
        BY <3>2, <3>8 DEF b
      <4> QED
        BY <3>5, <3>6, <4>1
    <3>10. series.starts[i] = At(p)
      BY <2>1, <2>3, <3>9 DEF b
    <3> QED
      BY <3>4, <3>10 DEF FromGood, p
  <2> QED
    BY <2>2, <2>3
<1>3. \A i \in Indices : values[i] # None => i \in Good /\ values[i] \in Int
  OBVIOUS
<1> HIDE DEF series
<1>4. IsSeries(series)
  BY <1>1, <1>2, <1>3 DEF IsSeries
<1> QED
  BY <1>4 DEF series

\* The times of a sample and what a good one tells.
LEMMA SampleFacts ==
    ASSUME WindowInv, NEW i \in Indices
    PROVE  /\ Len(samples) \in Nat /\ i \in 1 .. Len(samples) /\ At(i) \in Nat
           /\ i \in Good <=> ~IsGap(samples[i])
           /\ i \in Good => /\ samples[i].server.ticks \in Nat
                            /\ \A process \in Processes :
                                   samples[i][process].percent \in Int \union {None}
<1>1. Len(samples) \in Nat /\ i \in 1 .. Len(samples)
  BY DEF WindowInv, WindowTypeOK, Indices
<1>2. samples[i] \in SampleRecords \union ErrorRecords
  BY <1>1, ElementOfSeq DEF WindowInv, WindowTypeOK
<1>3. At(i) \in Nat
  BY <1>2 DEF SampleRecords, ErrorRecords, At
<1>4. i \in Good <=> ~IsGap(samples[i])
  BY <1>1 DEF Good
<1>5. i \in Good => samples[i].server.ticks \in Nat
  BY DEF WindowInv, BaseInv, Processes
<1>6. ASSUME i \in Good, NEW process \in Processes
      PROVE  samples[i][process].percent \in Int \union {None}
  <2>1. samples[i] \in SampleRecords
    BY <1>2, <1>4, <1>6 DEF ErrorRecords, IsGap
  <2>2. samples[i][process] \in Uses
    BY <2>1 DEF SampleRecords, Processes
  <2> QED
    BY <2>2 DEF Uses
<1> QED
  BY <1>1, <1>3, <1>4, <1>5, <1>6

\* Every good sample between two others has a percentage.
LEMMA CpuIsSeries ==
    ASSUME WindowInv, NEW process \in Processes
    PROVE  IsSeries(Cpu(process))
<1> DEFINE values == [i \in Indices |->
                         IF IsGap(samples[i]) THEN None ELSE samples[i][process].percent]
<1>1. \A i \in Indices : values[i] # None => i \in Good /\ values[i] \in Int
  BY SampleFacts
<1>2. ASSUME NEW i \in Indices, NEW j \in Indices, NEW k \in Indices,
             i < j, j < k, values[i] # None, values[k] # None, j \in Good
      PROVE  values[j] # None
  <2>1. i \in Good /\ k \in Good
    BY <1>1, <1>2
  <2> HIDE DEF values
  <2>2. GoodBefore(j) # {}
    BY <1>2, <2>1 DEF GoodBefore
  <2> DEFINE p == Max(GoodBefore(j))
  <2>3. p \in Good /\ p < j /\ p \in Indices /\ \A m \in Good : m < j => m <= p
    BY <2>2, LastBefore
  <2> HIDE DEF p
  <2>4. \A m \in Good : m \in Nat
    BY DEF Good
  <2>5. Adjacent(p, j)
    BY <1>2, <2>3, <2>4 DEF Adjacent
  <2>6. ~samples[j].final
    <3>1. /\ Len(samples) \in Nat /\ j \in 1 .. Len(samples) /\ k \in 1 .. Len(samples)
      BY SampleFacts
    <3>2. j # Len(samples)
      BY <1>2, <3>1
    <3> QED
      BY <3>1, <3>2 DEF WindowInv, ClockInv
  <2>7. Link(process, p, j)
    BY <1>2, <2>3, <2>5, <2>6 DEF WindowInv, BaseInv
  <2>8. samples[p].at < samples[j].at /\ samples[p].at \in Nat /\ samples[j].at \in Nat
    <3>1. p \in 1 .. Len(samples) /\ j \in 1 .. Len(samples)
      BY <2>3, SampleFacts
    <3>2. samples[p].at < samples[j].at
      BY <2>3, <2>6, <3>1 DEF WindowInv, ClockInv
    <3> QED
      BY <2>3, <3>2, SampleFacts DEF At
  <2> DEFINE used == samples[j][process].ticks - samples[p][process].ticks
             elapsed == samples[j].at - samples[p].at
  <2>9. used \in Nat /\ elapsed \in Nat \ {0}
    BY <2>7, <2>8 DEF Link
  <2>10. samples[j][process].percent = Milli(used, elapsed)
    BY <2>7, <2>9 DEF Link
  <2> HIDE DEF used, elapsed
  <2>11. samples[j][process].percent # None
    BY <2>9, <2>10, MilliIsTyped, WindowAssumption
  <2> QED
    BY <1>2, <2>11, SampleFacts DEF values
<1> HIDE DEF values
<1>3. IsSeries(FromPreviousValue(values))
  BY <1>1, <1>2, GaugeIsSeries
<1> QED
  BY <1>3 DEF Cpu, values

\* Worker bitrates have a value wherever the sample is good.
LEMMA BitrateIsSeries ==
    ASSUME WindowInv
    PROVE  IsSeries(WorkerBitrate)
<1> DEFINE values == [i \in Indices |-> IF i \in Good THEN 0 ELSE None]
<1>1. \A i \in Indices : values[i] # None => i \in Good /\ values[i] \in Int
  OBVIOUS
<1>2. \A i, j, k \in Indices :
          i < j /\ j < k /\ values[i] # None /\ values[k] # None /\ j \in Good
              => values[j] # None
  BY WindowAssumption
<1> HIDE DEF values
<1>3. IsSeries(FromPreviousValue(values))
  BY <1>1, <1>2, GaugeIsSeries
<1> QED
  BY <1>3 DEF WorkerBitrate, values

\* A rate is of two good samples side by side.
LEMMA PacketRateIsSeries ==
    ASSUME WindowInv
    PROVE  /\ IsSeries(PacketRate)
           /\ \A i \in Indices : PacketRate.values[i] # None => FromGood(PacketRate, i)
<1>1. ASSUME NEW i \in Indices, PacketRate.values[i] # None
      PROVE  /\ i \in Good /\ PacketRate.values[i] \in Int /\ FromGood(PacketRate, i)
  <2>1. /\ PacketRate.values[i] = Rate(i)
        /\ PacketRate.starts[i] = At(i - 1)
    BY <1>1 DEF PacketRate
  <2>2. /\ i # 1 /\ Counter(i - 1) # None /\ Counter(i) # None /\ At(i) # At(i - 1)
        /\ Rate(i) = ((Counter(i) - Counter(i - 1)) * 1000) \div (At(i) - At(i - 1))
    BY <1>1, <2>1 DEF Rate
  <2>3. Len(samples) \in Nat /\ i \in 1 .. Len(samples)
    BY SampleFacts
  <2>4. i - 1 \in Indices /\ i - 1 \in Nat
    BY <2>2, <2>3 DEF Indices
  <2>5. /\ i \in Good /\ Counter(i) \in Nat /\ At(i) \in Nat
        /\ i - 1 \in Good /\ Counter(i - 1) \in Nat /\ At(i - 1) \in Nat
    BY <2>2, <2>4, SampleFacts DEF Counter
  <2>6. At(i - 1) <= At(i)
    BY <2>3, <2>4 DEF WindowInv, ClockInv, Indices, At
  <2>7. At(i) - At(i - 1) \in Nat \ {0} /\ (Counter(i) - Counter(i - 1)) * 1000 \in Int
    BY <2>2, <2>5, <2>6
  <2>8. Rate(i) \in Int
    BY <2>2, <2>7, Quotient
  <2>9. Max(GoodBefore(i)) = i - 1 /\ GoodBefore(i) # {}
    <3>1. i - 1 \in GoodBefore(i)
      BY <2>3, <2>5 DEF GoodBefore
    <3>2. /\ Max(GoodBefore(i)) < i /\ Max(GoodBefore(i)) \in Indices
          /\ i - 1 <= Max(GoodBefore(i))
      BY <2>3, <2>5, <3>1, LastBefore
    <3> QED
      BY <2>3, <2>4, <3>1, <3>2 DEF Indices
  <2> QED
    BY <2>1, <2>5, <2>8, <2>9 DEF FromGood
<1>2. DOMAIN PacketRate.starts = Indices
  BY DEF PacketRate
<1> QED
  BY <1>1, <1>2 DEF IsSeries

\* The invariant SmoothedWithinPhase of the run TelemetryWindow: an average of the panels for CPU,
\* packets and worker bitrates stays in one phase, and nothing but the values over the begin of a
\* phase is left out of it.
THEOREM AveragesStayInTheirPhase == Spec => []SmoothedWithinPhase
<1>1. WindowInv => SmoothedWithinPhase
  <2> SUFFICES ASSUME WindowInv,
                      NEW series \in {Cpu("server"), Cpu("rtc"), WorkerBitrate, PacketRate},
                      NEW i \in Indices
               PROVE  /\ series.values[i] # None /\ i \in Pure => Smoothed(series)[i] # None
                      /\ Smoothed(series)[i] # None =>
                             \A j \in Window5(Gapped(series), i) :
                                 /\ PhasesBegun[j] = PhasesBegun[i]
                                 /\ j \in Pure \/ (series # PacketRate /\ IsFirst(series, j))
    BY DEF SmoothedWithinPhase
  <2>1. IsSeries(series)
    BY CpuIsSeries, BitrateIsSeries, PacketRateIsSeries DEF Processes
  <2>2. series.values[i] # None /\ i \in Pure => Smoothed(series)[i] # None
    BY <2>1, KeptOfSeries, KeptIsDrawn
  <2>3. ASSUME NEW j \in Window5(Gapped(series), i)
        PROVE  /\ PhasesBegun[j] = PhasesBegun[i]
               /\ j \in Pure \/ (series # PacketRate /\ IsFirst(series, j))
    <3>1. PhasesBegun[j] = PhasesBegun[i] /\ j \in Indices /\ Gapped(series)[j] # None
      BY <2>1, WindowSharesAPhase
    <3>2. series.values[j] # None /\ (FromGood(series, j) => j \in Pure)
      BY <2>1, <3>1, KeptOfSeries
    <3>3. FromGood(series, j) \/ IsFirst(series, j)
      BY <2>1, <3>1, <3>2 DEF IsSeries
    <3>4. series = PacketRate => FromGood(series, j)
      BY <3>1, <3>2, PacketRateIsSeries
    <3> QED
      BY <3>1, <3>2, <3>3, <3>4
  <2> QED
    BY <2>2, <2>3
<1> QED
  BY <1>1, WindowInvariance, PTL

-------------------------------------------------------------------------------
(* The changes of files that the commands of ProfilePreparation make. *)

States == {"absent", "empty", "part", "whole"}

\* What a change is written as.
LEMMA WrittenIs ==
    ASSUME NEW name
    PROVE  /\ Len(Written(name)) = 3
           /\ Written(name)[1] = Change(name, "empty")
           /\ Written(name)[2] = Change(name, "part")
           /\ Written(name)[3] = Change(name, "whole")
BY DEF Written

AllChanges == [name : Files, state : States]

\* Sequences of changes one after the other.
LEMMA Joined ==
    ASSUME NEW s \in Seq(AllChanges), NEW t \in Seq(AllChanges)
    PROVE  /\ s \o t \in Seq(AllChanges) /\ Len(s \o t) = Len(s) + Len(t)
           /\ \A i \in 1 .. Len(s) : (s \o t)[i] = s[i]
           /\ \A i \in 1 .. Len(t) : (s \o t)[Len(s) + i] = t[i]
<1>1. Len(s) \in Nat /\ Len(t) \in Nat
  OBVIOUS
<1>2. /\ s \o t \in Seq(AllChanges) /\ Len(s \o t) = Len(s) + Len(t)
      /\ \A i \in 1 .. Len(s) + Len(t) :
             (s \o t)[i] = IF i <= Len(s) THEN s[i] ELSE t[i - Len(s)]
  BY ConcatProperties
<1> QED
  BY <1>1, <1>2

\* The changes of a capture that ends.
LEMMA FinishIs ==
    /\ FinishProfiler \in Seq(AllChanges) /\ Len(FinishProfiler) = 4
    /\ FinishProfiler[1] = Change("perf.data", "whole")
    /\ FinishProfiler[2] = Change("profile.json", "empty")
    /\ FinishProfiler[3] = Change("profile.json", "part")
    /\ FinishProfiler[4] = Change("profile.json", "whole")
<1> DEFINE s == <<Change("perf.data", "whole")>>
           t == Written("profile.json")
<1>1. s \in Seq(AllChanges) /\ Len(s) = 1 /\ s[1] = Change("perf.data", "whole")
  BY DEF Change, AllChanges, Files, States
<1>2. t \in Seq(AllChanges)
  BY DEF Written, Change, AllChanges, Files, States
<1>3. /\ Len(t) = 3 /\ t[1] = Change("profile.json", "empty")
      /\ t[2] = Change("profile.json", "part") /\ t[3] = Change("profile.json", "whole")
  BY WrittenIs
<1> HIDE DEF s, t
<1>4. /\ s \o t \in Seq(AllChanges) /\ Len(s \o t) = Len(s) + Len(t)
      /\ \A i \in 1 .. Len(s) : (s \o t)[i] = s[i]
      /\ \A i \in 1 .. Len(t) : (s \o t)[Len(s) + i] = t[i]
  BY <1>1, <1>2, Joined
<1>5. /\ Len(s \o t) = 4 /\ (s \o t)[1] = s[1]
      /\ (s \o t)[2] = t[1] /\ (s \o t)[3] = t[2] /\ (s \o t)[4] = t[3]
  BY <1>1, <1>3, <1>4
<1>6. FinishProfiler = s \o t
  BY DEF FinishProfiler, s, t
<1> QED
  BY <1>1, <1>3, <1>4, <1>5, <1>6

\* The changes of a run without profiler.
LEMMA PlainRunIs ==
    /\ RunChanges(FALSE) \in Seq(AllChanges) /\ Len(RunChanges(FALSE)) = 4
    /\ RunChanges(FALSE)[1] = Removed("result.json")
    /\ RunChanges(FALSE)[2] = Change("result.json", "empty")
    /\ RunChanges(FALSE)[3] = Change("result.json", "part")
    /\ RunChanges(FALSE)[4] = Change("result.json", "whole")
<1> DEFINE s == <<Removed("result.json")>>
           t == Written("result.json")
<1>1. s \in Seq(AllChanges) /\ Len(s) = 1 /\ s[1] = Removed("result.json")
  BY DEF Removed, Change, AllChanges, Files, States
<1>2. t \in Seq(AllChanges)
  BY DEF Written, Change, AllChanges, Files, States
<1>3. /\ Len(t) = 3 /\ t[1] = Change("result.json", "empty")
      /\ t[2] = Change("result.json", "part") /\ t[3] = Change("result.json", "whole")
  BY WrittenIs
<1> HIDE DEF s, t
<1>4. /\ s \o t \in Seq(AllChanges) /\ Len(s \o t) = Len(s) + Len(t)
      /\ \A i \in 1 .. Len(s) : (s \o t)[i] = s[i]
      /\ \A i \in 1 .. Len(t) : (s \o t)[Len(s) + i] = t[i]
  BY <1>1, <1>2, Joined
<1>5. /\ Len(s \o t) = 4 /\ (s \o t)[1] = s[1]
      /\ (s \o t)[2] = t[1] /\ (s \o t)[3] = t[2] /\ (s \o t)[4] = t[3]
  BY <1>1, <1>3, <1>4
<1>6. RunChanges(FALSE) = s \o t
  <2>1. RunChanges(FALSE) = ((s \o << >>) \o t) \o << >>
    BY DEF RunChanges, s, t
  <2>2. s \o << >> = s /\ (s \o t) \o << >> = s \o t
    BY <1>1, <1>4, ConcatEmptySeq
  <2> QED
    BY <2>1, <2>2
<1> QED
  BY <1>1, <1>3, <1>4, <1>5, <1>6

\* The changes of a run with profiler.
LEMMA ProfiledRunIs ==
    LET changes == RunChanges(TRUE)
    IN  /\ changes \in Seq(AllChanges) /\ Len(changes) = 13
        /\ changes[1] = Removed("result.json")
        /\ changes[2] = Removed(Ready)
        /\ changes[3] = Removed("perf.data")
        /\ changes[4] = Removed("profile.json")
        /\ changes[5] = Change("perf.data", "empty")
        /\ changes[6] = Change("perf.data", "part")
        /\ changes[7] = Change("result.json", "empty")
        /\ changes[8] = Change("result.json", "part")
        /\ changes[9] = Change("result.json", "whole")
        /\ changes[10] = Change("perf.data", "whole")
        /\ changes[11] = Change("profile.json", "empty")
        /\ changes[12] = Change("profile.json", "part")
        /\ changes[13] = Change("profile.json", "whole")
<1> DEFINE s == <<Removed("result.json")>>
           t == StartProfiler
           u == Written("result.json")
           v == FinishProfiler
<1>1. s \in Seq(AllChanges) /\ Len(s) = 1 /\ s[1] = Removed("result.json")
  BY DEF Removed, Change, AllChanges, Files, States
<1>2. t \in Seq(AllChanges)
  BY DEF StartProfiler, Removed, Change, AllChanges, Files, States
<1>3. /\ Len(t) = 5 /\ t[1] = Removed(Ready) /\ t[2] = Removed("perf.data")
      /\ t[3] = Removed("profile.json") /\ t[4] = Change("perf.data", "empty")
      /\ t[5] = Change("perf.data", "part")
  BY DEF StartProfiler
<1>4. u \in Seq(AllChanges)
  BY DEF Written, Change, AllChanges, Files, States
<1>5. /\ Len(u) = 3 /\ u[1] = Change("result.json", "empty")
      /\ u[2] = Change("result.json", "part") /\ u[3] = Change("result.json", "whole")
  BY WrittenIs
<1>6. /\ v \in Seq(AllChanges) /\ Len(v) = 4
      /\ v[1] = Change("perf.data", "whole") /\ v[2] = Change("profile.json", "empty")
      /\ v[3] = Change("profile.json", "part") /\ v[4] = Change("profile.json", "whole")
  BY FinishIs
<1> HIDE DEF s, t, u, v
<1> DEFINE st == s \o t
           stu == st \o u
           all == stu \o v
<1>7. /\ st \in Seq(AllChanges) /\ Len(st) = Len(s) + Len(t)
      /\ \A i \in 1 .. Len(s) : st[i] = s[i]
      /\ \A i \in 1 .. Len(t) : st[Len(s) + i] = t[i]
  BY <1>1, <1>2, Joined
<1> HIDE DEF st
<1>8. Len(st) = 6 /\ st[1] = s[1] /\ st[2] = t[1] /\ st[3] = t[2] /\ st[4] = t[3] /\ st[5] = t[4]
      /\ st[6] = t[5]
  BY <1>1, <1>3, <1>7
<1>9. /\ stu \in Seq(AllChanges) /\ Len(stu) = Len(st) + Len(u)
      /\ \A i \in 1 .. Len(st) : stu[i] = st[i]
      /\ \A i \in 1 .. Len(u) : stu[Len(st) + i] = u[i]
  BY <1>4, <1>7, Joined
<1> HIDE DEF stu
<1>10. /\ Len(stu) = 9 /\ \A i \in 1 .. 6 : stu[i] = st[i]
       /\ stu[7] = u[1] /\ stu[8] = u[2] /\ stu[9] = u[3]
  BY <1>5, <1>8, <1>9
<1>11. /\ all \in Seq(AllChanges) /\ Len(all) = Len(stu) + Len(v)
       /\ \A i \in 1 .. Len(stu) : all[i] = stu[i]
       /\ \A i \in 1 .. Len(v) : all[Len(stu) + i] = v[i]
  BY <1>6, <1>9, Joined
<1> HIDE DEF all
<1>12. /\ Len(all) = 13 /\ \A i \in 1 .. 9 : all[i] = stu[i]
       /\ all[10] = v[1] /\ all[11] = v[2] /\ all[12] = v[3] /\ all[13] = v[4]
  <2>1. Len(all) = 13
    BY <1>6, <1>10, <1>11
  <2>2. \A i \in 1 .. 9 : all[i] = stu[i]
    BY <1>10, <1>11
  <2>3. \A i \in 1 .. 4 : all[9 + i] = v[i]
    BY <1>6, <1>10, <1>11
  <2>4. all[9 + 1] = v[1] /\ all[9 + 2] = v[2] /\ all[9 + 3] = v[3] /\ all[9 + 4] = v[4]
    BY <2>3
  <2> QED
    BY <2>1, <2>2, <2>4
<1>13. /\ all[1] = s[1] /\ all[2] = t[1] /\ all[3] = t[2] /\ all[4] = t[3] /\ all[5] = t[4]
       /\ all[6] = t[5] /\ all[7] = u[1] /\ all[8] = u[2] /\ all[9] = u[3]
  BY <1>8, <1>10, <1>12
<1>14. RunChanges(TRUE) = all
  BY DEF RunChanges, s, t, u, v, st, stu, all
<1> QED
  BY <1>1, <1>3, <1>5, <1>6, <1>11, <1>12, <1>13, <1>14

\* The names of the reports.
LEMMA ReportNames ==
    /\ Len(Reports) = 8
    /\ Reports[1] = "perf.script" /\ Reports[2] = "perf.folded" /\ Reports[3] = "flamegraph.svg"
    /\ \A k \in 4 .. 8 : Reports[k] \notin {"perf.script", "perf.folded", "flamegraph.svg"}
    /\ \A k \in 1 .. 8 :
           /\ Reports[k] \in Files
           /\ Reports[k] \notin {"result.json", "perf.data", "profile.json", Ready}
    /\ \A k, l \in 1 .. 8 : Reports[k] = Reports[l] => k = l
    /\ ToSet(Reports) = {Reports[k] : k \in 1 .. 8}
<1>1. /\ Len(Reports) = 8
      /\ Reports[1] = "perf.script" /\ Reports[2] = "perf.folded" /\ Reports[3] = "flamegraph.svg"
      /\ Reports[4] = "perf-header.txt" /\ Reports[5] = "hotspots-self.txt"
      /\ Reports[6] = "hotspots-inclusive.txt" /\ Reports[7] = "threads.txt"
      /\ Reports[8] = "environment.json"
  BY DEF Reports
<1>2. DOMAIN Reports = 1 .. 8
  BY DEF Reports
<1>3. ToSet(Reports) = {Reports[k] : k \in 1 .. 8}
  BY <1>2 DEF ToSet
<1>4. \A k \in 1 .. 8 : \/ k = 1 \/ k = 2 \/ k = 3 \/ k = 4 \/ k = 5 \/ k = 6 \/ k = 7 \/ k = 8
  OBVIOUS
<1>5. \A k \in 4 .. 8 : Reports[k] \notin {"perf.script", "perf.folded", "flamegraph.svg"}
  BY <1>1, <1>4
<1>6. \A k \in 1 .. 8 : /\ Reports[k] \in Files
                        /\ Reports[k] \notin {"result.json", "perf.data", "profile.json", Ready}
  BY <1>1, <1>3, <1>4 DEF Files, Ready
<1>7. \A k, l \in 1 .. 8 : Reports[k] = Reports[l] => k = l
  BY <1>1, <1>4
<1> QED
  BY <1>1, <1>3, <1>5, <1>6, <1>7

\* The changes of a preparation that begins.
LEMMA ClearIs ==
    /\ Len(ClearChanges) = 9
    /\ ClearChanges[1] = Removed(Ready)
    /\ \A k \in 1 .. 8 : ClearChanges[k + 1] = Removed(Reports[k])
<1> DEFINE s == <<Ready>>
<1>1. s \in Seq(Files) /\ Len(s) = 1 /\ s[1] = Ready
  BY DEF Files
<1>2. Reports \in Seq(Files) /\ Len(Reports) = 8
  BY ReportNames DEF Reports, Files
<1> HIDE DEF s
<1> DEFINE all == s \o Reports
<1>3. /\ Len(all) = Len(s) + Len(Reports)
      /\ \A i \in 1 .. Len(s) + Len(Reports) :
             all[i] = IF i <= Len(s) THEN s[i] ELSE Reports[i - Len(s)]
  BY <1>1, <1>2, ConcatProperties
<1>4. PreparedFiles = all
  BY DEF PreparedFiles, s
<1> HIDE DEF all
<1>6. /\ Len(PreparedFiles) = 9
      /\ \A i \in 1 .. 9 : PreparedFiles[i] = IF i <= 1 THEN s[i] ELSE Reports[i - 1]
  BY <1>1, <1>2, <1>3, <1>4
<1>7. ASSUME NEW k \in 1 .. 8 PROVE PreparedFiles[k + 1] = Reports[k]
  <2>1. k + 1 \in 1 .. 9 /\ ~(k + 1 <= 1) /\ (k + 1) - 1 = k
    OBVIOUS
  <2> QED
    BY <1>6, <2>1
<1>5. Len(PreparedFiles) = 9 /\ PreparedFiles[1] = Ready
      /\ \A k \in 1 .. 8 : PreparedFiles[k + 1] = Reports[k]
  BY <1>1, <1>6, <1>7
<1> QED
  BY <1>5 DEF ClearChanges

\* The changes of a preparation that goes on.
LEMMA PrepareIs ==
    /\ Len(PrepareChanges) = 26
    /\ \A k \in 1 .. 8 : /\ PrepareChanges[3 * k - 2] = Change(Reports[k], "empty")
                         /\ PrepareChanges[3 * k - 1] = Change(Reports[k], "part")
                         /\ PrepareChanges[3 * k] = Change(Reports[k], "whole")
    /\ PrepareChanges[25] = Change(Ready, "empty")
    /\ PrepareChanges[26] = Change(Ready, "whole")
<1>1. PrepareChanges =
          [i \in 1 .. 26 |->
              IF i <= 24 THEN Written(Reports[(i + 2) \div 3])[((i - 1) % 3) + 1]
              ELSE Change(Ready, IF i = 25 THEN "empty" ELSE "whole")]
  BY ReportNames DEF PrepareChanges, ReportsToPrepare
<1>2. ASSUME NEW k \in 1 .. 8
      PROVE  /\ PrepareChanges[3 * k - 2] = Change(Reports[k], "empty")
             /\ PrepareChanges[3 * k - 1] = Change(Reports[k], "part")
             /\ PrepareChanges[3 * k] = Change(Reports[k], "whole")
  <2>1. /\ 3 * k - 2 \in 1 .. 24 /\ ((3 * k - 2) + 2) \div 3 = k /\ ((3 * k - 2) - 1) % 3 = 0
        /\ 3 * k - 1 \in 1 .. 24 /\ ((3 * k - 1) + 2) \div 3 = k /\ ((3 * k - 1) - 1) % 3 = 1
        /\ 3 * k \in 1 .. 24 /\ (3 * k + 2) \div 3 = k /\ (3 * k - 1) % 3 = 2
    OBVIOUS
  <2>2. /\ PrepareChanges[3 * k - 2] = Written(Reports[k])[1]
        /\ PrepareChanges[3 * k - 1] = Written(Reports[k])[2]
        /\ PrepareChanges[3 * k] = Written(Reports[k])[3]
    BY <1>1, <2>1
  <2> QED
    BY <2>2, WrittenIs
<1>3. Len(PrepareChanges) = 26
  BY <1>1
<1> QED
  BY <1>1, <1>2, <1>3

-------------------------------------------------------------------------------
(* The invariant of ProfilePreparation. *)

Kinds == {"none", "run", "failed", "clear", "prepare"}

ProfileTypeOK ==
    /\ files \in [Files -> [run : Nat, state : States]]
    /\ runs \in Seq(BOOLEAN)
    /\ \A name \in Files : files[name].run <= Run
    /\ command \in [kind : Kinds, profiled : BOOLEAN, made : Nat]
    /\ command.made <= Len(Changes)
    /\ command.kind = "run" => Run >= 1
    /\ captured \in BOOLEAN /\ prepared \in BOOLEAN
    /\ lines \in Foldings \union {<< >>}

There(name) == files[name].state # "absent"

IsWhole(name, run) == files[name] = [run |-> run, state |-> "whole"]

Capture == files["perf.data"].run

\* What a preparation works on.
CaptureIsWhole == IsWhole("perf.data", Capture) /\ IsWhole("profile.json", Capture)

\* Metadata are only beside their capture, the marker beside all that was prepared of it, and
\* neither the result nor a profiler of a later run beside an older capture.
FilesInv ==
    /\ There("profile.json") /\ There("perf.data") =>
           IsWhole("perf.data", files["profile.json"].run)
    /\ There(Ready) => /\ CaptureIsWhole /\ HasSamples
                       /\ \A k \in 1 .. 8 : IsWhole(Reports[k], Capture)
    /\ There("perf.data") => \A run \in Capture + 1 .. Run : ~runs[run]
    /\ There("result.json") /\ There("perf.data") => files["result.json"].run >= Capture

\* How far a run with profiler has come.
ProfiledInv ==
    command.kind = "run" /\ command.profiled =>
        LET made == command.made
        IN  /\ made >= 1 /\ made <= 6 => ~There("result.json")
            /\ made >= 2 => ~There(Ready)
            /\ made >= 3 /\ made <= 4 => ~There("perf.data")
            /\ made >= 4 /\ made <= 10 => ~There("profile.json")
            /\ made >= 5 => There("perf.data") /\ Capture = Run
            /\ made >= 7 => files["result.json"].run = Run
            /\ made >= 9 => IsWhole("result.json", Run)
            /\ made >= 10 => IsWhole("perf.data", Run)
            /\ made >= 13 => IsWhole("profile.json", Run)

PlainInv ==
    command.kind = "run" /\ ~command.profiled /\ command.made = 1 => ~There("result.json")

FailedInv ==
    command.kind = "failed" /\ command.profiled =>
        /\ ~There(Ready) /\ ~There("result.json") /\ There("perf.data") /\ Capture = Run
        /\ command.made <= 1 => ~There("profile.json")
        /\ command.made >= 1 => IsWhole("perf.data", Run)

ClearInv == command.kind = "clear" /\ command.made >= 1 => ~There(Ready)

PrepareInv ==
    command.kind = "prepare" =>
        /\ CaptureIsWhole /\ files["result.json"].state = "whole"
        /\ command.made <= 24 => ~There(Ready)
        /\ \A k \in 1 .. 8 : 3 * k <= command.made => IsWhole(Reports[k], Capture)
        /\ command.made >= 7 => HasSamples
        /\ command.made >= 26 => files[Ready].state = "whole"

\* What the last command that ended well has left.
OutcomeInv ==
    /\ captured => /\ command.kind \in {"none", "clear", "prepare"}
                   /\ IsWhole("perf.data", Run) /\ IsWhole("profile.json", Run)
                   /\ IsWhole("result.json", Run)
    /\ prepared => Idle /\ Accepts

PathInv == ProfiledInv /\ PlainInv /\ FailedInv /\ ClearInv /\ PrepareInv

PreparationInv == ProfileTypeOK /\ FilesInv /\ PathInv /\ OutcomeInv

-------------------------------------------------------------------------------
(* A change of a file. *)

\* The names that a run knows of.
LEMMA FileNames ==
    /\ "result.json" \in Files /\ "perf.data" \in Files /\ "profile.json" \in Files
    /\ Ready \in Files
    /\ "perf.script" \in Files /\ "perf.folded" \in Files
    /\ Ready \notin {"result.json", "perf.data", "profile.json", "perf.folded", "flamegraph.svg"}
BY ReportNames DEF Files, Ready

\* No file is made of a run that has not begun.
LEMMA OriginIsRun ==
    ASSUME ProfileTypeOK, NEW name
    PROVE  Origin(name) \in Nat /\ Origin(name) <= Run
<1>1. Run \in Nat
  BY DEF ProfileTypeOK, Run
<1>2. \A file \in Files : files[file].run \in Nat /\ files[file].run <= Run
  BY DEF ProfileTypeOK
<1> QED
  BY <1>1, <1>2, FileNames DEF Origin

\* What a change leaves alone.
LEMMA ChangeFacts ==
    ASSUME PreparationInv, MakeChange,
           NEW name \in Files, NEW state \in States, NextChange = Change(name, state)
    PROVE  /\ command.kind # "none" /\ command.made + 1 <= Len(Changes)
           /\ command' = [command EXCEPT !.made = command.made + 1]
           /\ command'.kind = command.kind /\ command'.profiled = command.profiled
           /\ command'.made = command.made + 1
           /\ files'[name].state = state
           /\ state # "absent" => files'[name] = [run |-> Origin(name), state |-> state]
           /\ \A other \in Files : other # name => files'[other] = files[other]
           /\ Run' = Run
           /\ name # "perf.data" \/ command.kind # "run" => runs' = runs
           /\ name # "perf.folded" => HasSamples' = HasSamples
           /\ name = "flamegraph.svg" /\ command.kind = "prepare" => HasSamples
           /\ captured' = captured /\ prepared' = prepared
           /\ ProfileTypeOK'
<1>0. ProfileTypeOK /\ Run \in Nat
  BY DEF PreparationInv, ProfileTypeOK, Run
<1>1. NextChange.name = name /\ NextChange.state = state
  BY DEF Change
<1>2. /\ command.kind # "none" /\ command.made # Len(Changes)
      /\ command' = [command EXCEPT !.made = command.made + 1]
      /\ captured' = captured /\ prepared' = prepared
      /\ name = "flamegraph.svg" /\ command.kind = "prepare" => HasSamples
      /\ files' = [files EXCEPT ![name] = IF state = "absent" THEN [run |-> 0, state |-> "absent"]
                                          ELSE [run |-> Origin(name), state |-> state]]
      /\ name # "perf.folded" => lines' = lines
      /\ lines' = lines \/ lines' \in Foldings \/ lines' = << >>
      /\ runs' = IF command.kind = "run" /\ name = "perf.data" THEN [runs EXCEPT ![Run] = TRUE]
                 ELSE runs
  BY <1>1 DEF MakeChange, Idle, Made
<1>3. /\ command \in [kind : Kinds, profiled : BOOLEAN, made : Nat]
      /\ command.made <= Len(Changes)
      /\ command.kind = "run" => Run >= 1
  BY <1>0 DEF ProfileTypeOK
<1>4. /\ command'.kind = command.kind /\ command'.profiled = command.profiled
      /\ command'.made = command.made + 1
      /\ command' \in [kind : Kinds, profiled : BOOLEAN, made : Nat]
  BY <1>2, <1>3
<1>5. Changes' = Changes
  BY <1>4 DEF Changes
<1>6. Len(Changes) \in Nat
  <2>1. command.kind \in Kinds /\ command.profiled \in BOOLEAN
    BY <1>3
  <2>2. Len(<< >>) = 0
    OBVIOUS
  <2>3. Len(RunChanges(command.profiled)) \in Nat
    BY <2>1, ProfiledRunIs, PlainRunIs
  <2>4. Len(Changes) \in {Len(RunChanges(command.profiled)), Len(FinishProfiler), Len(<< >>),
                          Len(ClearChanges), Len(PrepareChanges)}
    BY DEF Changes
  <2> QED
    BY <2>2, <2>3, <2>4, FinishIs, ClearIs, PrepareIs
<1>7. command.made + 1 <= Len(Changes)
  BY <1>2, <1>3, <1>6
<1>8. /\ runs' \in Seq(BOOLEAN) /\ Len(runs') = Len(runs)
  <2>1. runs \in Seq(BOOLEAN) /\ Run = Len(runs)
    BY <1>0 DEF ProfileTypeOK, Run
  <2>2. CASE command.kind = "run" /\ name = "perf.data"
    <3>1. Run \in 1 .. Len(runs)
      BY <1>0, <2>1, <2>2 DEF ProfileTypeOK
    <3>2. TRUE \in BOOLEAN
      OBVIOUS
    <3>3. /\ [runs EXCEPT ![Run] = TRUE] \in Seq(BOOLEAN)
          /\ Len([runs EXCEPT ![Run] = TRUE]) = Len(runs)
      BY <2>1, <3>1, <3>2, ExceptSeq
    <3> QED
      BY <1>2, <2>2, <3>3
  <2>3. CASE ~(command.kind = "run" /\ name = "perf.data")
    BY <1>2, <2>1, <2>3
  <2> QED
    BY <2>2, <2>3
<1>9. Run' = Run
  BY <1>8 DEF Run
<1>10. /\ files \in [Files -> [run : Nat, state : States]]
       /\ \A file \in Files : files[file].run <= Run
  BY <1>0 DEF ProfileTypeOK
<1>11. Origin(name) \in Nat /\ Origin(name) <= Run
  BY <1>0, OriginIsRun
<1>12. /\ files' \in [Files -> [run : Nat, state : States]]
       /\ files'[name] = IF state = "absent" THEN [run |-> 0, state |-> "absent"]
                         ELSE [run |-> Origin(name), state |-> state]
       /\ \A other \in Files : other # name => files'[other] = files[other]
  BY <1>2, <1>10, <1>11
<1>13. \A file \in Files : files'[file].run <= Run'
  BY <1>0, <1>9, <1>10, <1>11, <1>12
<1>14. lines' \in Foldings \union {<< >>}
  BY <1>0, <1>2 DEF ProfileTypeOK
<1>15. ProfileTypeOK'
  BY <1>0, <1>2, <1>3, <1>4, <1>5, <1>7, <1>8, <1>9, <1>12, <1>13, <1>14 DEF ProfileTypeOK
<1>16. name # "perf.folded" => HasSamples' = HasSamples
  BY <1>2 DEF HasSamples
<1> QED
  BY <1>2, <1>4, <1>7, <1>9, <1>12, <1>15, <1>16

\* Which changes keep the files of one directory together.
LEMMA FilesStay ==
    ASSUME PreparationInv, MakeChange,
           NEW name \in Files, NEW state \in States, NextChange = Change(name, state),
           \/ name = "result.json" /\ (state = "absent" \/ Origin(name) = Run)
           \/ name = Ready /\ state = "absent"
           \/ /\ name = "perf.data" /\ ~There(Ready)
              /\ \/ state = "absent"
                 \/ /\ Origin(name) = Run /\ ~There("profile.json")
                    /\ There("result.json") => files["result.json"].run = Run
           \/ /\ name = "profile.json" /\ ~There(Ready)
              /\ state = "absent" \/ (Origin(name) = Run /\ IsWhole("perf.data", Run))
           \/ ~There(Ready) /\ \E k \in 1 .. 8 : name = Reports[k]
    PROVE  FilesInv'
<1>1. /\ files'[name].state = state
      /\ state # "absent" => files'[name] = [run |-> Origin(name), state |-> state]
      /\ \A other \in Files : other # name => files'[other] = files[other]
      /\ Run' = Run
      /\ name # "perf.data" \/ command.kind # "run" => runs' = runs
      /\ name # "perf.folded" => HasSamples' = HasSamples
  BY ChangeFacts
<1>2. FilesInv
  BY DEF PreparationInv
<1>3. /\ Run \in Nat
      /\ \A file \in Files : files[file].run \in Nat /\ files[file].run <= Run
  BY DEF PreparationInv, ProfileTypeOK, Run
<1>4. CASE name = "result.json"
  <2>1. /\ \A other \in {"perf.data", "profile.json", Ready} : files'[other] = files[other]
        /\ \A k \in 1 .. 8 : files'[Reports[k]] = files[Reports[k]]
    BY <1>1, <1>4, FileNames, ReportNames
  <2>2. runs' = runs /\ HasSamples' = HasSamples
    BY <1>1, <1>4, FileNames
  <2>3. state = "absent" \/ files'["result.json"].run = Run
    <3>1. state = "absent" \/ Origin(name) = Run
      BY <1>4, FileNames, ReportNames
    <3> QED
      BY <1>1, <1>4, <3>1
  <2>4. There("result.json")' /\ There("perf.data")' => files'["result.json"].run >= Capture'
    BY <1>1, <1>3, <1>4, <2>1, <2>3, FileNames DEF There, Capture
  <2> QED
    BY <1>1, <1>2, <2>1, <2>2, <2>4
    DEF FilesInv, There, Capture, CaptureIsWhole, IsWhole
<1>5. CASE name = Ready /\ state = "absent"
  <2>1. \A other \in {"perf.data", "profile.json", "result.json"} : files'[other] = files[other]
    BY <1>1, <1>5, FileNames
  <2>2. runs' = runs /\ ~There(Ready)'
    BY <1>1, <1>5, FileNames DEF There
  <2> QED
    BY <1>1, <1>2, <2>1, <2>2 DEF FilesInv, There, Capture, IsWhole
<1>6. CASE /\ name = "perf.data" /\ ~There(Ready)
           /\ \/ state = "absent"
              \/ /\ Origin(name) = Run /\ ~There("profile.json")
                 /\ There("result.json") => files["result.json"].run = Run
  <2>1. \A other \in {Ready, "profile.json", "result.json"} : files'[other] = files[other]
    BY <1>1, <1>6, FileNames
  <2>2. ~There(Ready)'
    BY <1>6, <2>1 DEF There
  <2>3. CASE state = "absent"
    BY <1>1, <1>6, <2>2, <2>3 DEF FilesInv, There
  <2>4. CASE state # "absent"
    <3>1. Capture' = Run /\ Run' = Run
      BY <1>1, <1>6, <2>4 DEF Capture
    <3>2. Capture' + 1 .. Run' = {}
      BY <1>3, <3>1
    <3>3. ~There("profile.json")'
      BY <1>6, <2>1, <2>4 DEF There
    <3>4. There("result.json")' => files'["result.json"].run >= Capture'
      BY <1>3, <1>6, <2>1, <2>4, <3>1 DEF There
    <3> QED
      BY <2>2, <3>2, <3>3, <3>4 DEF FilesInv
  <2> QED
    BY <2>3, <2>4
<1>7. CASE /\ name = "profile.json" /\ ~There(Ready)
           /\ state = "absent" \/ (Origin(name) = Run /\ IsWhole("perf.data", Run))
  <2>1. \A other \in {Ready, "perf.data", "result.json"} : files'[other] = files[other]
    BY <1>1, <1>7, FileNames
  <2>2. ~There(Ready)' /\ runs' = runs
    BY <1>1, <1>7, <2>1 DEF There
  <2>3. There("profile.json")' /\ There("perf.data")' =>
            IsWhole("perf.data", files["profile.json"].run)'
    BY <1>1, <1>7, <2>1 DEF There, IsWhole
  <2> QED
    BY <1>1, <1>2, <2>1, <2>2, <2>3 DEF FilesInv, There, Capture
<1>8. CASE ~There(Ready) /\ \E k \in 1 .. 8 : name = Reports[k]
  <2>1. \A other \in {Ready, "perf.data", "result.json", "profile.json"} :
            files'[other] = files[other]
    BY <1>1, <1>8, FileNames, ReportNames
  <2>2. ~There(Ready)' /\ runs' = runs
    BY <1>1, <1>8, <2>1, ReportNames DEF There
  <2> QED
    BY <1>1, <1>2, <2>1, <2>2 DEF FilesInv, There, Capture, IsWhole
<1> QED
  BY <1>4, <1>5, <1>6, <1>7, <1>8

\* A run's changes are not of what a command before has left.
LEMMA OutcomeOfRun ==
    ASSUME PreparationInv, MakeChange, command.kind \in {"run", "failed"},
           NEW name \in Files, NEW state \in States, NextChange = Change(name, state)
    PROVE  OutcomeInv'
<1>1. ~captured /\ ~prepared
  BY DEF PreparationInv, OutcomeInv, Idle
<1>2. captured' = captured /\ prepared' = prepared
  BY ChangeFacts
<1> QED
  BY <1>1, <1>2 DEF OutcomeInv

\* A change that a run without profiler makes.
LEMMA PlainChange ==
    ASSUME PreparationInv, MakeChange, command.kind = "run", ~command.profiled
    PROVE  PreparationInv'
<1> DEFINE made == command.made
           name == NextChange.name
           state == NextChange.state
<1>0. command.profiled = FALSE /\ made \in Nat /\ made <= Len(Changes) /\ made # Len(Changes)
  BY DEF PreparationInv, ProfileTypeOK, MakeChange, Made
<1>1. Changes = RunChanges(FALSE)
  BY <1>0 DEF Changes
<1> DEFINE changes == RunChanges(FALSE)
<1>9. /\ Len(changes) = 4
      /\ changes[1] = Change("result.json", "absent") /\ changes[2] = Change("result.json", "empty")
      /\ changes[3] = Change("result.json", "part") /\ changes[4] = Change("result.json", "whole")
  BY PlainRunIs DEF Removed
<1> HIDE DEF changes
<1>2. made \in 0 .. 3
  <2>1. Len(Changes) = 4
    BY <1>1, <1>9 DEF changes
  <2> QED
    BY <1>0, <2>1
<1>10. NextChange = changes[made + 1]
  BY <1>1 DEF NextChange, changes
<1>3. /\ made = 0 => NextChange = Change("result.json", "absent")
      /\ made = 1 => NextChange = Change("result.json", "empty")
      /\ made = 2 => NextChange = Change("result.json", "part")
      /\ made = 3 => NextChange = Change("result.json", "whole")
  BY <1>9, <1>10
<1>4. /\ name = "result.json" /\ state \in States /\ NextChange = Change(name, state)
      /\ made = 0 => state = "absent"
  BY <1>2, <1>3 DEF Change, States
<1>5. name \in Files /\ Origin(name) = Run
  BY <1>4, FileNames DEF Origin
<1> HIDE DEF name, state
<1>6. FilesInv' /\ OutcomeInv'
  BY <1>4, <1>5, FilesStay, OutcomeOfRun
<1>7. /\ ProfileTypeOK' /\ command'.kind = "run" /\ command'.profiled = FALSE
      /\ command'.made = made + 1 /\ files'[name].state = state
  BY <1>0, <1>4, <1>5, ChangeFacts
<1>8. PathInv'
  <2>1. command'.made = 1 => ~There("result.json")'
    BY <1>0, <1>4, <1>7 DEF There
  <2> QED
    BY <1>7, <2>1 DEF PathInv, ProfiledInv, PlainInv, FailedInv, ClearInv, PrepareInv
<1> QED
  BY <1>6, <1>7, <1>8 DEF PreparationInv

\* A change that a run makes when its worker has failed: only the profiler's are left.
LEMMA FailedChange ==
    ASSUME PreparationInv, MakeChange, command.kind = "failed"
    PROVE  PreparationInv'
<1> DEFINE made == command.made
           name == NextChange.name
           state == NextChange.state
           changes == FinishProfiler
<1>0. /\ made \in Nat /\ made <= Len(Changes) /\ made # Len(Changes)
      /\ Run \in Nat
  BY DEF PreparationInv, ProfileTypeOK, MakeChange, Made, Run
<1>1. command.profiled /\ Changes = changes
  <2>1. Changes = IF command.profiled THEN changes ELSE << >>
    BY DEF Changes
  <2>2. ASSUME ~command.profiled PROVE FALSE
    <3>1. Changes = << >>
      BY <2>1, <2>2
    <3>2. Len(Changes) = 0
      BY <3>1
    <3> QED
      BY <1>0, <3>2
  <2> QED
    BY <2>1, <2>2
<1>2. /\ Len(changes) = 4
      /\ changes[1] = Change("perf.data", "whole") /\ changes[2] = Change("profile.json", "empty")
      /\ changes[3] = Change("profile.json", "part")
      /\ changes[4] = Change("profile.json", "whole")
  BY FinishIs
<1> HIDE DEF changes
<1>3. made \in 0 .. 3 /\ NextChange = changes[made + 1]
  BY <1>0, <1>1, <1>2 DEF NextChange
<1>4. /\ made = 0 => name = "perf.data" /\ state = "whole"
      /\ made # 0 => name = "profile.json" /\ state \in {"empty", "part", "whole"}
      /\ NextChange = Change(name, state)
  BY <1>2, <1>3 DEF Change
<1>5. name \in Files /\ state \in States /\ Origin(name) = Run
  BY <1>3, <1>4, FileNames DEF Origin, States
<1> HIDE DEF name, state
<1>6. /\ ~There(Ready) /\ ~There("result.json") /\ There("perf.data") /\ Capture = Run
      /\ made <= 1 => ~There("profile.json")
      /\ made >= 1 => IsWhole("perf.data", Run)
  BY <1>1 DEF PreparationInv, PathInv, FailedInv
<1>7. FilesInv' /\ OutcomeInv'
  <2>1. OutcomeInv'
    BY <1>4, <1>5, OutcomeOfRun
  <2>2. CASE made = 0
    BY <1>4, <1>5, <1>6, <2>1, <2>2, FilesStay
  <2>3. CASE made # 0
    <3>1. IsWhole("perf.data", Run)
      BY <1>0, <1>6, <2>3
    <3> QED
      BY <1>4, <1>5, <1>6, <2>1, <2>3, <3>1, FilesStay
  <2> QED
    BY <2>1, <2>2, <2>3
<1>8. /\ ProfileTypeOK' /\ command'.kind = "failed" /\ command'.profiled = command.profiled
      /\ command'.made = made + 1
      /\ files'[name] = [run |-> Run, state |-> state] /\ Run' = Run
      /\ \A other \in Files : other # name => files'[other] = files[other]
  <2>1. state # "absent"
    BY <1>3, <1>4
  <2> QED
    BY <1>4, <1>5, <2>1, ChangeFacts
<1>9. FailedInv'
  <2>1. ~There(Ready)' /\ ~There("result.json")'
    BY <1>3, <1>4, <1>6, <1>8, FileNames DEF There
  <2>2. IsWhole("perf.data", Run)'
    BY <1>0, <1>3, <1>4, <1>6, <1>8, FileNames DEF IsWhole
  <2>3. command'.made <= 1 => ~There("profile.json")'
    BY <1>3, <1>4, <1>6, <1>8, FileNames DEF There
  <2> QED
    BY <2>1, <2>2, <2>3 DEF FailedInv, IsWhole, There, Capture
<1>10. PathInv'
  BY <1>8, <1>9 DEF PathInv, ProfiledInv, PlainInv, ClearInv, PrepareInv
<1> QED
  BY <1>7, <1>8, <1>10 DEF PreparationInv

\* A change that a run with profiler makes.
LEMMA ProfiledChange ==
    ASSUME PreparationInv, MakeChange, command.kind = "run", command.profiled
    PROVE  PreparationInv'
<1> DEFINE made == command.made
           name == NextChange.name
           state == NextChange.state
           changes == RunChanges(TRUE)
<1>0. /\ command.profiled = TRUE /\ made \in Nat /\ made <= Len(Changes) /\ made # Len(Changes)
      /\ Run \in Nat
  BY DEF PreparationInv, ProfileTypeOK, MakeChange, Made, Run
<1>1. Changes = changes
  BY <1>0 DEF Changes
<1>2. /\ Len(changes) = 13
      /\ changes[1] = Change("result.json", "absent") /\ changes[2] = Change(Ready, "absent")
      /\ changes[3] = Change("perf.data", "absent") /\ changes[4] = Change("profile.json", "absent")
      /\ changes[5] = Change("perf.data", "empty") /\ changes[6] = Change("perf.data", "part")
      /\ changes[7] = Change("result.json", "empty") /\ changes[8] = Change("result.json", "part")
      /\ changes[9] = Change("result.json", "whole") /\ changes[10] = Change("perf.data", "whole")
      /\ changes[11] = Change("profile.json", "empty")
      /\ changes[12] = Change("profile.json", "part")
      /\ changes[13] = Change("profile.json", "whole")
  BY ProfiledRunIs DEF Removed
<1> HIDE DEF changes
<1>3. made \in 0 .. 12 /\ NextChange = changes[made + 1]
  BY <1>0, <1>1, <1>2 DEF NextChange
<1>4. /\ made = 0 => name = "result.json" /\ state = "absent"
      /\ made = 1 => name = Ready /\ state = "absent"
      /\ made = 2 => name = "perf.data" /\ state = "absent"
      /\ made = 3 => name = "profile.json" /\ state = "absent"
      /\ made \in {4, 5} => name = "perf.data" /\ state \in {"empty", "part"}
      /\ made \in {6, 7} => name = "result.json" /\ state \in {"empty", "part"}
      /\ made = 8 => name = "result.json" /\ state = "whole"
      /\ made = 9 => name = "perf.data" /\ state = "whole"
      /\ made \in {10, 11} => name = "profile.json" /\ state \in {"empty", "part"}
      /\ made = 12 => name = "profile.json" /\ state = "whole"
      /\ NextChange = Change(name, state)
  BY <1>2, <1>3 DEF Change
<1>5. name \in {Ready, "result.json", "perf.data", "profile.json"} /\ state \in States
  BY <1>3, <1>4 DEF States
<1>6. name \in Files
  BY <1>5, FileNames
<1> HIDE DEF name, state
<1>7. state # "absent" => Origin(name) = Run /\ made >= 4
  BY <1>3, <1>4, FileNames DEF Origin
<1>8. /\ made >= 1 /\ made <= 6 => ~There("result.json")
      /\ made >= 2 => ~There(Ready)
      /\ made >= 3 /\ made <= 4 => ~There("perf.data")
      /\ made >= 4 /\ made <= 10 => ~There("profile.json")
      /\ made >= 5 => There("perf.data") /\ Capture = Run
      /\ made >= 7 => files["result.json"].run = Run
      /\ made >= 9 => IsWhole("result.json", Run)
      /\ made >= 10 => IsWhole("perf.data", Run)
      /\ made >= 13 => IsWhole("profile.json", Run)
  BY DEF PreparationInv, PathInv, ProfiledInv
<1>9. OutcomeInv'
  BY <1>4, <1>5, <1>6, OutcomeOfRun
<1>10. FilesInv'
  <2>1. CASE made \in {0, 1, 6, 7, 8}
    BY <1>4, <1>5, <1>6, <1>7, <2>1, FilesStay
  <2>2. CASE made \in {2, 3}
    <3>1. ~There(Ready)
      BY <1>8, <2>2
    <3> QED
      BY <1>4, <1>5, <1>6, <2>2, <3>1, FilesStay
  <2>3. CASE made \in {4, 5, 9}
    <3>1. /\ ~There(Ready) /\ ~There("profile.json") /\ Origin(name) = Run
          /\ There("result.json") => files["result.json"].run = Run
          /\ name = "perf.data"
      BY <1>4, <1>7, <1>8, <2>3
    <3> QED
      BY <1>4, <1>5, <1>6, <3>1, FilesStay
  <2>4. CASE made \in {10, 11, 12}
    <3>1. /\ ~There(Ready) /\ IsWhole("perf.data", Run) /\ Origin(name) = Run
          /\ name = "profile.json"
      BY <1>4, <1>7, <1>8, <2>4
    <3> QED
      BY <1>4, <1>5, <1>6, <3>1, FilesStay
  <2> QED
    BY <1>3, <2>1, <2>2, <2>3, <2>4
<1>11. /\ ProfileTypeOK' /\ command'.kind = "run" /\ command'.profiled = TRUE
       /\ command'.made = made + 1
       /\ files'[name].state = state
       /\ state # "absent" => files'[name] = [run |-> Run, state |-> state]
       /\ Run' = Run
       /\ \A other \in Files : other # name => files'[other] = files[other]
  <2>1. NextChange = Change(name, state)
    BY <1>4
  <2>2. /\ ProfileTypeOK' /\ command'.kind = command.kind /\ command'.profiled = command.profiled
        /\ command'.made = made + 1
        /\ files'[name].state = state
        /\ state # "absent" => files'[name] = [run |-> Origin(name), state |-> state]
        /\ Run' = Run
        /\ \A other \in Files : other # name => files'[other] = files[other]
    BY <1>5, <1>6, <2>1, ChangeFacts
  <2> QED
    BY <1>0, <1>7, <2>2
<1>12. ProfiledInv'
  <2>1. CASE name = "result.json"
    <3>1. \A other \in {Ready, "perf.data", "profile.json"} : files'[other] = files[other]
      BY <1>11, <2>1, FileNames
    <3>2. made \in {0, 6, 7, 8}
      BY <1>3, <1>4, <2>1, FileNames
    <3> QED
      BY <1>4, <1>8, <1>11, <2>1, <3>1, <3>2 DEF ProfiledInv, There, Capture, IsWhole
  <2>2. CASE name = Ready
    <3>1. \A other \in {"result.json", "perf.data", "profile.json"} : files'[other] = files[other]
      BY <1>11, <2>2, FileNames
    <3>2. made = 1
      BY <1>3, <1>4, <2>2, FileNames
    <3> QED
      BY <1>4, <1>8, <1>11, <2>2, <3>1, <3>2 DEF ProfiledInv, There, Capture, IsWhole
  <2>3. CASE name = "perf.data"
    <3>1. \A other \in {Ready, "result.json", "profile.json"} : files'[other] = files[other]
      BY <1>11, <2>3, FileNames
    <3>2. made \in {2, 4, 5, 9}
      BY <1>3, <1>4, <2>3, FileNames
    <3> QED
      BY <1>4, <1>8, <1>11, <2>3, <3>1, <3>2 DEF ProfiledInv, There, Capture, IsWhole
  <2>4. CASE name = "profile.json"
    <3>1. \A other \in {Ready, "result.json", "perf.data"} : files'[other] = files[other]
      BY <1>11, <2>4, FileNames
    <3>2. made \in {3, 10, 11, 12}
      BY <1>3, <1>4, <2>4, FileNames
    <3> QED
      BY <1>4, <1>8, <1>11, <2>4, <3>1, <3>2 DEF ProfiledInv, There, Capture, IsWhole
  <2> QED
    BY <1>5, <2>1, <2>2, <2>3, <2>4
<1>13. PathInv'
  BY <1>11, <1>12 DEF PathInv, PlainInv, FailedInv, ClearInv, PrepareInv
<1> QED
  BY <1>9, <1>10, <1>11, <1>13 DEF PreparationInv

\* A preparation changes none of its inputs.
LEMMA OutcomeOfPreparation ==
    ASSUME PreparationInv, MakeChange, command.kind \in {"clear", "prepare"},
           NEW name \in Files, NEW state \in States, NextChange = Change(name, state),
           name \notin {"result.json", "perf.data", "profile.json"}
    PROVE  OutcomeInv'
<1>1. ~prepared /\ (captured => /\ IsWhole("perf.data", Run) /\ IsWhole("profile.json", Run)
                                /\ IsWhole("result.json", Run))
  BY DEF PreparationInv, OutcomeInv, Idle
<1>2. /\ captured' = captured /\ prepared' = prepared /\ Run' = Run
      /\ command'.kind = command.kind
      /\ \A other \in Files : other # name => files'[other] = files[other]
  BY ChangeFacts
<1>3. \A other \in {"result.json", "perf.data", "profile.json"} : files'[other] = files[other]
  BY <1>2, FileNames
<1> QED
  BY <1>1, <1>2, <1>3 DEF OutcomeInv, IsWhole

\* A file that is cleared before a preparation.
LEMMA ClearChange ==
    ASSUME PreparationInv, MakeChange, command.kind = "clear"
    PROVE  PreparationInv'
<1> DEFINE made == command.made
           name == NextChange.name
           state == NextChange.state
           changes == ClearChanges
<1>0. made \in Nat /\ made <= Len(Changes) /\ made # Len(Changes)
  BY DEF PreparationInv, ProfileTypeOK, MakeChange, Made
<1>1. Changes = changes
  BY DEF Changes
<1>2. /\ Len(changes) = 9
      /\ changes[1] = Change(Ready, "absent")
      /\ \A k \in 1 .. 8 : changes[k + 1] = Change(Reports[k], "absent")
  BY ClearIs DEF Removed
<1> HIDE DEF changes
<1>3. made \in 0 .. 8 /\ NextChange = changes[made + 1]
  BY <1>0, <1>1, <1>2 DEF NextChange
<1>4. /\ made = 0 => name = Ready
      /\ made # 0 => made \in 1 .. 8 /\ name = Reports[made]
      /\ state = "absent" /\ NextChange = Change(name, state)
  <2>1. CASE made = 0
    BY <1>2, <1>3, <2>1 DEF Change
  <2>2. CASE made # 0
    <3>1. made \in 1 .. 8
      BY <1>3, <2>2
    <3>2. NextChange = Change(Reports[made], "absent")
      BY <1>2, <1>3, <3>1
    <3> QED
      BY <2>2, <3>1, <3>2 DEF Change
  <2> QED
    BY <2>1, <2>2
<1>5. /\ name \in Files /\ state \in States
      /\ name \notin {"result.json", "perf.data", "profile.json"}
  BY <1>4, FileNames, ReportNames DEF States
<1> HIDE DEF name, state
<1>6. made >= 1 => ~There(Ready)
  BY DEF PreparationInv, PathInv, ClearInv
<1>7. FilesInv'
  <2>1. CASE made = 0
    BY <1>4, <1>5, <2>1, FilesStay
  <2>2. CASE made # 0
    <3>1. ~There(Ready) /\ \E k \in 1 .. 8 : name = Reports[k]
      BY <1>3, <1>4, <1>6, <2>2
    <3>2. NextChange = Change(name, state)
      BY <1>4
    <3> QED
      BY <1>5, <3>1, <3>2, FilesStay
  <2> QED
    BY <2>1, <2>2
<1>8. OutcomeInv'
  BY <1>4, <1>5, OutcomeOfPreparation
<1>9. /\ ProfileTypeOK' /\ command'.kind = "clear" /\ command'.made = made + 1
      /\ files'[name].state = state
      /\ \A other \in Files : other # name => files'[other] = files[other]
  BY <1>4, <1>5, ChangeFacts
<1>10. ~There(Ready)'
  <2>1. CASE made = 0
    BY <1>4, <1>9, <2>1 DEF There
  <2>2. CASE made # 0
    <3>1. name # Ready /\ ~There(Ready)
      BY <1>3, <1>4, <1>6, <2>2, ReportNames
    <3> QED
      BY <1>9, <3>1, FileNames DEF There
  <2> QED
    BY <2>1, <2>2
<1>11. PathInv'
  BY <1>9, <1>10 DEF PathInv, ProfiledInv, PlainInv, FailedInv, ClearInv, PrepareInv
<1> QED
  BY <1>7, <1>8, <1>9, <1>11 DEF PreparationInv

\* Where a preparation is.
LEMMA PreparePlace ==
    ASSUME NEW made \in 0 .. 25
    PROVE  \/ made = 24
           \/ made = 25
           \/ \E k \in 1 .. 8 : made + 1 = 3 * k - 2 \/ made + 1 = 3 * k - 1 \/ made + 1 = 3 * k
<1>1. CASE made <= 23
  <2> DEFINE k == made \div 3 + 1
  <2>1. k \in 1 .. 8 /\ (made + 1 = 3 * k - 2 \/ made + 1 = 3 * k - 1 \/ made + 1 = 3 * k)
    BY <1>1
  <2> QED
    BY <2>1
<1>2. CASE made > 23
  BY <1>2
<1> QED
  BY <1>1, <1>2

\* A report is made of the capture, at first hand or of those before it.
LEMMA ReportOrigin ==
    ASSUME PreparationInv, command.kind = "prepare", NEW k \in 1 .. 8, 3 * k <= command.made + 1
    PROVE  Origin(Reports[k]) = Capture
<1>1. /\ \A l \in 1 .. 8 : 3 * l <= command.made => IsWhole(Reports[l], Capture)
      /\ command.made \in Nat
  BY DEF PreparationInv, PathInv, PrepareInv, ProfileTypeOK
<1>2. CASE k = 1
  BY <1>2, ReportNames DEF Origin, Capture
<1>3. CASE k = 2
  <2>1. 1 \in 1 .. 8 /\ 3 * 1 <= command.made
    BY <1>1, <1>3
  <2>2. IsWhole("perf.script", Capture)
    BY <1>1, <2>1, ReportNames
  <2> QED
    BY <1>3, <2>2, ReportNames DEF Origin, IsWhole
<1>4. CASE k = 3
  <2>1. 2 \in 1 .. 8 /\ 3 * 2 <= command.made
    BY <1>1, <1>4
  <2>2. IsWhole("perf.folded", Capture)
    BY <1>1, <2>1, ReportNames
  <2> QED
    BY <1>4, <2>2, ReportNames DEF Origin, IsWhole
<1>5. CASE k \in 4 .. 8
  BY <1>5, ReportNames DEF Origin, Capture
<1> QED
  BY <1>2, <1>3, <1>4, <1>5

\* A change that a preparation makes once its inputs are checked.
LEMMA PrepareChange ==
    ASSUME PreparationInv, MakeChange, command.kind = "prepare"
    PROVE  PreparationInv'
<1> DEFINE made == command.made
           name == NextChange.name
           state == NextChange.state
           changes == PrepareChanges
<1>0. made \in Nat /\ made <= Len(Changes) /\ made # Len(Changes)
  BY DEF PreparationInv, ProfileTypeOK, MakeChange, Made
<1>1. Changes = changes
  BY DEF Changes
<1>2. /\ Len(changes) = 26
      /\ \A k \in 1 .. 8 : /\ changes[3 * k - 2] = Change(Reports[k], "empty")
                           /\ changes[3 * k - 1] = Change(Reports[k], "part")
                           /\ changes[3 * k] = Change(Reports[k], "whole")
      /\ changes[25] = Change(Ready, "empty") /\ changes[26] = Change(Ready, "whole")
  BY PrepareIs
<1> HIDE DEF changes
<1>3. made \in 0 .. 25 /\ NextChange = changes[made + 1]
  BY <1>0, <1>1, <1>2 DEF NextChange
<1>4. /\ CaptureIsWhole /\ files["result.json"].state = "whole"
      /\ made <= 24 => ~There(Ready)
      /\ \A k \in 1 .. 8 : 3 * k <= made => IsWhole(Reports[k], Capture)
      /\ made >= 7 => HasSamples
  BY DEF PreparationInv, PathInv, PrepareInv
<1>5. \A n \in Files, s \in States : NextChange = Change(n, s) => name = n /\ state = s
  BY DEF Change
<1> HIDE DEF name, state
<1>6. ASSUME NEW k \in 1 .. 8,
             made + 1 = 3 * k - 2 \/ made + 1 = 3 * k - 1 \/ made + 1 = 3 * k
      PROVE  PreparationInv'
  <2>0. /\ name = Reports[k] /\ state \in {"empty", "part", "whole"}
        /\ NextChange = Change(name, state)
        /\ made + 1 = 3 * k => state = "whole"
    <3>1. \/ made + 1 # 3 * k /\ NextChange = Change(Reports[k], "empty")
          \/ made + 1 # 3 * k /\ NextChange = Change(Reports[k], "part")
          \/ NextChange = Change(Reports[k], "whole")
      BY <1>2, <1>3, <1>6
    <3>2. Reports[k] \in Files /\ {"empty", "part", "whole"} \subseteq States
      BY ReportNames DEF States
    <3> QED
      BY <1>5, <3>1, <3>2
  <2>1. /\ name \in Files /\ state \in States
        /\ name \notin {"result.json", "perf.data", "profile.json", Ready}
        /\ NextChange = Change(name, state)
    BY <2>0, ReportNames DEF States
  <2>2. made < 24 /\ ~There(Ready)
    BY <1>3, <1>4, <1>6
  <2>3. FilesInv'
    <3>1. \E l \in 1 .. 8 : name = Reports[l]
      BY <2>0
    <3> QED
      BY <2>1, <2>2, <3>1, FilesStay
  <2>4. OutcomeInv'
    BY <2>1, OutcomeOfPreparation
  <2>5. /\ ProfileTypeOK' /\ command'.kind = "prepare" /\ command'.made = made + 1
        /\ state # "absent" => files'[name] = [run |-> Origin(name), state |-> state]
        /\ \A other \in Files : other # name => files'[other] = files[other]
        /\ name # "perf.folded" => HasSamples' = HasSamples
        /\ name = "flamegraph.svg" => HasSamples
    BY <2>1, ChangeFacts
  <2>6. /\ \A other \in {Ready, "perf.data", "profile.json", "result.json"} :
               files'[other] = files[other]
        /\ Capture' = Capture
    BY <2>1, <2>5, FileNames DEF Capture
  <2>7. CaptureIsWhole' /\ files'["result.json"].state = "whole" /\ ~There(Ready)'
    BY <1>4, <2>2, <2>6 DEF CaptureIsWhole, IsWhole, There
  <2>8. ASSUME NEW l \in 1 .. 8, 3 * l <= made + 1
        PROVE  IsWhole(Reports[l], Capture)'
    <3>1. CASE 3 * l <= made
      <4>1. l # k
        BY <1>3, <1>6, <3>1
      <4>2. Reports[l] # name /\ Reports[l] \in Files
        BY <2>0, <4>1, ReportNames
      <4> QED
        BY <1>4, <2>5, <2>6, <3>1, <4>2 DEF IsWhole
    <3>2. CASE 3 * l = made + 1
      <4>1. l = k
        BY <1>3, <1>6, <3>2
      <4>2. Origin(Reports[l]) = Capture
        BY <2>8, ReportOrigin
      <4>3. state = "whole"
        BY <2>0, <3>2, <4>1
      <4> QED
        BY <2>0, <2>5, <2>6, <4>1, <4>2, <4>3 DEF IsWhole
    <3> QED
      BY <1>3, <2>8, <3>1, <3>2
  <2>9. made + 1 >= 7 => HasSamples'
    <3> SUFFICES ASSUME made + 1 >= 7 PROVE HasSamples'
      OBVIOUS
    <3>1. k \in 3 .. 8
      BY <1>3, <1>6
    <3>2. name # "perf.folded"
      BY <2>0, <3>1, ReportNames
    <3>3. CASE made = 6
      <4>1. k = 3
        BY <1>6, <3>3
      <4> QED
        BY <2>0, <2>5, <3>2, <4>1, ReportNames
    <3>4. CASE made >= 7
      BY <1>4, <2>5, <3>2, <3>4
    <3> QED
      BY <1>3, <3>3, <3>4
  <2>10. PrepareInv'
    BY <1>3, <2>2, <2>5, <2>7, <2>8, <2>9 DEF PrepareInv
  <2>11. PathInv'
    BY <2>5, <2>10 DEF PathInv, ProfiledInv, PlainInv, FailedInv, ClearInv
  <2> QED
    BY <2>3, <2>4, <2>5, <2>11 DEF PreparationInv
<1>7. ASSUME made = 24 \/ made = 25
      PROVE  PreparationInv'
  <2>0. /\ name = Ready /\ state = IF made = 24 THEN "empty" ELSE "whole"
        /\ NextChange = Change(name, state)
    <3>1. NextChange = Change(Ready, IF made = 24 THEN "empty" ELSE "whole")
      BY <1>2, <1>3, <1>7
    <3>2. Ready \in Files /\ (IF made = 24 THEN "empty" ELSE "whole") \in States
      BY FileNames DEF States
    <3> QED
      BY <1>5, <3>1, <3>2
  <2>1. /\ name \in Files /\ state \in States
        /\ name \notin {"result.json", "perf.data", "profile.json", "perf.folded"}
    BY <2>0, FileNames DEF States
  <2>4. OutcomeInv'
    BY <2>0, <2>1, OutcomeOfPreparation
  <2>5. /\ ProfileTypeOK' /\ command'.kind = "prepare" /\ command'.made = made + 1
        /\ files'[name].state = state
        /\ \A other \in Files : other # name => files'[other] = files[other]
        /\ HasSamples' = HasSamples /\ runs' = runs /\ Run' = Run
    BY <2>0, <2>1, ChangeFacts
  <2>6. /\ \A other \in {"perf.data", "profile.json", "result.json"} :
               files'[other] = files[other]
        /\ \A k \in 1 .. 8 : files'[Reports[k]] = files[Reports[k]]
        /\ Capture' = Capture
    BY <2>0, <2>5, FileNames, ReportNames DEF Capture
  <2>7. CaptureIsWhole' /\ files'["result.json"].state = "whole" /\ HasSamples'
    BY <1>3, <1>4, <1>7, <2>5, <2>6 DEF CaptureIsWhole, IsWhole
  <2>8. \A k \in 1 .. 8 : IsWhole(Reports[k], Capture)'
    BY <1>4, <1>7, <2>6 DEF IsWhole
  <2>9. FilesInv'
    <3>1. FilesInv
      BY DEF PreparationInv
    <3> QED
      BY <2>5, <2>6, <2>7, <2>8, <3>1 DEF FilesInv, There, IsWhole, Capture
  <2>10. PrepareInv'
    BY <1>7, <2>0, <2>5, <2>7, <2>8 DEF PrepareInv
  <2>11. PathInv'
    BY <2>5, <2>10 DEF PathInv, ProfiledInv, PlainInv, FailedInv, ClearInv
  <2> QED
    BY <2>4, <2>5, <2>9, <2>11 DEF PreparationInv
<1> QED
  BY <1>3, <1>6, <1>7, PreparePlace

\* Every change of a file, of whichever command.
LEMMA ChangeStep ==
    ASSUME PreparationInv, MakeChange
    PROVE  PreparationInv'
<1>1. command.kind \in Kinds /\ command.kind # "none"
  BY DEF PreparationInv, ProfileTypeOK, MakeChange, Idle
<1> QED
  BY <1>1, PlainChange, ProfiledChange, FailedChange, ClearChange, PrepareChange DEF Kinds

-------------------------------------------------------------------------------
(* The begin and end of commands. *)

\* A command begins before its first change, and none is in progress after one.
LEMMA FreshCommand ==
    ASSUME ProfileTypeOK, UNCHANGED <<files, lines>>,
           runs' = runs \/ runs' = Append(runs, FALSE),
           NEW kind \in Kinds, NEW profiled \in BOOLEAN, command' = Command(kind, profiled),
           kind = "run" => Run' >= 1,
           captured' \in BOOLEAN, prepared' \in BOOLEAN
    PROVE  /\ ProfileTypeOK'
           /\ command'.kind = kind /\ command'.profiled = profiled /\ command'.made = 0
<1>1. /\ command'.kind = kind /\ command'.profiled = profiled /\ command'.made = 0
      /\ command' \in [kind : Kinds, profiled : BOOLEAN, made : Nat]
  BY DEF Command
<1>2. runs' \in Seq(BOOLEAN) /\ Run' \in Nat /\ Run \in Nat /\ Run' >= Run
  <2>1. runs \in Seq(BOOLEAN) /\ Run \in Nat
    BY DEF ProfileTypeOK, Run
  <2>2. CASE runs' = runs
    BY <2>1, <2>2 DEF Run
  <2>3. CASE runs' = Append(runs, FALSE)
    <3>1. FALSE \in BOOLEAN
      OBVIOUS
    <3>2. Append(runs, FALSE) \in Seq(BOOLEAN) /\ Len(Append(runs, FALSE)) = Len(runs) + 1
      BY <2>1, <3>1, AppendProperties
    <3> QED
      BY <2>1, <2>3, <3>2 DEF Run
  <2> QED
    BY <2>2, <2>3
<1>3. \A name \in Files : files'[name].run <= Run'
  <2>1. \A name \in Files : files[name].run \in Nat /\ files[name].run <= Run
    BY DEF ProfileTypeOK
  <2> QED
    BY <1>2, <2>1
<1>4. Len(Changes') \in Nat
  <2>1. Len(<< >>) = 0
    OBVIOUS
  <2>2. Len(RunChanges(profiled)) \in Nat
    BY ProfiledRunIs, PlainRunIs
  <2>3. Len(Changes') \in {Len(RunChanges(profiled)), Len(FinishProfiler), Len(<< >>),
                           Len(ClearChanges), Len(PrepareChanges)}
    BY <1>1 DEF Changes
  <2> QED
    BY <2>1, <2>2, <2>3, FinishIs, ClearIs, PrepareIs
<1>5. /\ files' \in [Files -> [run : Nat, state : States]]
      /\ lines' \in Foldings \union {<< >>}
  BY DEF ProfileTypeOK
<1>6. ProfileTypeOK'
  BY <1>1, <1>2, <1>3, <1>4, <1>5 DEF ProfileTypeOK
<1> QED
  BY <1>1, <1>6

\* Files that nobody touches, in runs that are the same.
LEMMA FilesKept ==
    ASSUME FilesInv, UNCHANGED <<files, lines, runs>>
    PROVE  FilesInv'
BY DEF FilesInv, There, IsWhole, Capture, CaptureIsWhole, HasSamples, Run

\* A run that begins leaves the files as they are.
LEMMA RunBegins ==
    ASSUME PreparationInv, BeginRun
    PROVE  PreparationInv'
<1>1. PICK profiled \in BOOLEAN : command' = Command("run", profiled)
  BY DEF BeginRun
<1>2. /\ ProfileTypeOK /\ UNCHANGED <<files, lines>> /\ runs' = Append(runs, FALSE)
      /\ captured' = FALSE /\ prepared' = FALSE
  BY DEF PreparationInv, BeginRun
<1>3. runs \in Seq(BOOLEAN) /\ Run \in Nat /\ Run = Len(runs)
  BY <1>2 DEF ProfileTypeOK, Run
<1>4. /\ Run' = Run + 1 /\ runs'[Run + 1] = FALSE
      /\ \A run \in 1 .. Run : runs'[run] = runs[run]
  <2>1. FALSE \in BOOLEAN
    OBVIOUS
  <2>2. /\ Len(Append(runs, FALSE)) = Len(runs) + 1
        /\ \A run \in 1 .. Len(runs) : Append(runs, FALSE)[run] = runs[run]
        /\ Append(runs, FALSE)[Len(runs) + 1] = FALSE
    BY <1>3, <2>1, AppendProperties
  <2> QED
    BY <1>2, <1>3, <2>2 DEF Run
<1>5. /\ ProfileTypeOK' /\ command'.kind = "run" /\ command'.made = 0
  <2>1. "run" \in Kinds /\ Run' >= 1
    BY <1>3, <1>4 DEF Kinds
  <2>2. captured' \in BOOLEAN /\ prepared' \in BOOLEAN
    BY <1>2
  <2> QED
    BY <1>1, <1>2, <2>1, <2>2, FreshCommand
<1>6. FilesInv'
  <2>1. FilesInv /\ Capture \in Nat
    BY FileNames DEF PreparationInv, ProfileTypeOK, Capture
  <2>2. There("perf.data") => \A run \in Capture + 1 .. Run + 1 : ~runs'[run]
    <3> SUFFICES ASSUME There("perf.data"), NEW run \in Capture + 1 .. Run + 1
                 PROVE  ~runs'[run]
      OBVIOUS
    <3>1. CASE run = Run + 1
      BY <1>4, <3>1
    <3>2. CASE run # Run + 1
      <4>1. run \in Capture + 1 .. Run /\ run \in 1 .. Run
        BY <1>3, <2>1, <3>2
      <4> QED
        BY <1>4, <2>1, <4>1 DEF FilesInv
    <3> QED
      BY <3>1, <3>2
  <2>3. Capture' = Capture /\ HasSamples' = HasSamples
    BY <1>2 DEF Capture, HasSamples
  <2> QED
    BY <1>2, <1>4, <2>1, <2>2, <2>3 DEF FilesInv, There, IsWhole, CaptureIsWhole
<1>7. PathInv'
  BY <1>5 DEF PathInv, ProfiledInv, PlainInv, FailedInv, ClearInv, PrepareInv
<1>8. OutcomeInv'
  BY <1>2 DEF OutcomeInv
<1> QED
  BY <1>5, <1>6, <1>7, <1>8 DEF PreparationInv

\* A worker fails before its result is there, and after its capture has begun.
LEMMA RunFails ==
    ASSUME PreparationInv, WorkFails
    PROVE  PreparationInv'
<1>1. /\ command.kind = "run" /\ ~Made /\ NextChange = Change("result.json", "empty")
      /\ command' = Command("failed", command.profiled)
      /\ UNCHANGED <<files, lines, runs, captured, prepared>>
  BY DEF WorkFails
<1>2. /\ ProfileTypeOK /\ FilesInv /\ OutcomeInv /\ ProfiledInv
      /\ command \in [kind : Kinds, profiled : BOOLEAN, made : Nat]
      /\ command.made <= Len(Changes) /\ captured \in BOOLEAN /\ prepared \in BOOLEAN
  BY DEF PreparationInv, PathInv, ProfileTypeOK
<1>3. ProfileTypeOK' /\ command'.kind = "failed" /\ command'.profiled = command.profiled
      /\ command'.made = 0
  <2>1. "failed" \in Kinds /\ command.profiled \in BOOLEAN
    BY <1>2 DEF Kinds
  <2> QED
    BY <1>1, <1>2, <2>1, FreshCommand
<1>4. FilesInv'
  BY <1>1, <1>2, FilesKept
<1>5. OutcomeInv'
  <2>1. ~captured /\ ~prepared
    BY <1>1, <1>2 DEF OutcomeInv, Idle
  <2> QED
    BY <1>1, <2>1 DEF OutcomeInv
<1>6. command.profiled => command.made = 6
  <2> SUFFICES ASSUME command.profiled PROVE command.made = 6
    OBVIOUS
  <2> DEFINE made == command.made
             changes == RunChanges(TRUE)
  <2>1. command.profiled = TRUE
    BY <1>2
  <2>2. Changes = changes
    BY <1>1, <2>1 DEF Changes
  <2>3. /\ Len(changes) = 13
        /\ changes[1] = Change("result.json", "absent") /\ changes[2] = Change(Ready, "absent")
        /\ changes[3] = Change("perf.data", "absent")
        /\ changes[4] = Change("profile.json", "absent")
        /\ changes[5] = Change("perf.data", "empty") /\ changes[6] = Change("perf.data", "part")
        /\ changes[8] = Change("result.json", "part")
        /\ changes[9] = Change("result.json", "whole") /\ changes[10] = Change("perf.data", "whole")
        /\ changes[11] = Change("profile.json", "empty")
        /\ changes[12] = Change("profile.json", "part")
        /\ changes[13] = Change("profile.json", "whole")
    BY ProfiledRunIs DEF Removed
  <2> HIDE DEF changes
  <2>4. made \in 0 .. 12 /\ NextChange = changes[made + 1]
    BY <1>1, <1>2, <2>2, <2>3 DEF NextChange, Made
  <2>5. changes[made + 1].name = "result.json" /\ changes[made + 1].state = "empty"
    BY <1>1, <2>4 DEF Change
  <2> QED
    BY <2>3, <2>4, <2>5, FileNames DEF Change
<1>7. FailedInv'
  <2> SUFFICES ASSUME command.profiled
               PROVE  /\ ~There(Ready)' /\ ~There("result.json")' /\ There("perf.data")'
                      /\ Capture' = Run' /\ ~There("profile.json")'
    BY <1>3 DEF FailedInv
  <2>1. command.made = 6
    BY <1>6
  <2>2. /\ ~There(Ready) /\ ~There("result.json") /\ There("perf.data")
        /\ Capture = Run /\ ~There("profile.json")
    BY <1>1, <1>2, <2>1 DEF ProfiledInv
  <2>3. Capture' = Capture /\ Run' = Run
    BY <1>1 DEF Capture, Run
  <2> QED
    BY <1>1, <2>2, <2>3 DEF There
<1>8. PathInv'
  BY <1>3, <1>7 DEF PathInv, ProfiledInv, PlainInv, ClearInv, PrepareInv
<1> QED
  BY <1>3, <1>4, <1>5, <1>8 DEF PreparationInv

\* A preparation begins to clear.
LEMMA PreparationBegins ==
    ASSUME PreparationInv, BeginPrepare
    PROVE  PreparationInv'
<1>1. /\ Idle /\ command' = Command("clear", FALSE) /\ prepared' = FALSE
      /\ UNCHANGED <<files, lines, runs, captured>>
  BY DEF BeginPrepare
<1>2. ProfileTypeOK /\ FilesInv /\ OutcomeInv
  BY DEF PreparationInv
<1>3. ProfileTypeOK' /\ command'.kind = "clear" /\ command'.made = 0
  <2>1. "clear" \in Kinds /\ captured' \in BOOLEAN /\ prepared' \in BOOLEAN
    BY <1>1, <1>2 DEF Kinds, ProfileTypeOK
  <2> QED
    BY <1>1, <1>2, <2>1, FreshCommand
<1>4. FilesInv'
  BY <1>1, <1>2, FilesKept
<1>5. OutcomeInv'
  BY <1>1, <1>2, <1>3 DEF OutcomeInv, IsWhole, Run
<1>6. PathInv'
  BY <1>3 DEF PathInv, ProfiledInv, PlainInv, FailedInv, ClearInv, PrepareInv
<1> QED
  BY <1>3, <1>4, <1>5, <1>6 DEF PreparationInv

\* Inputs that are whole are those of one capture, and nothing of it is prepared.
LEMMA InputsAreChecked ==
    ASSUME PreparationInv, CheckInputs
    PROVE  PreparationInv'
<1>1. /\ command.kind = "clear" /\ Made /\ Preparable
      /\ command' = Command("prepare", FALSE)
      /\ UNCHANGED <<files, lines, runs, captured, prepared>>
  BY DEF CheckInputs
<1>2. ProfileTypeOK /\ FilesInv /\ OutcomeInv /\ ClearInv
  BY DEF PreparationInv, PathInv
<1>3. ProfileTypeOK' /\ command'.kind = "prepare" /\ command'.made = 0
  <2>1. "prepare" \in Kinds /\ captured' \in BOOLEAN /\ prepared' \in BOOLEAN
    BY <1>1, <1>2 DEF Kinds, ProfileTypeOK
  <2> QED
    BY <1>1, <1>2, <2>1, FreshCommand
<1>4. FilesInv'
  BY <1>1, <1>2, FilesKept
<1>5. OutcomeInv'
  <2>1. ~prepared
    BY <1>1, <1>2 DEF OutcomeInv, Idle
  <2> QED
    BY <1>1, <1>2, <1>3, <2>1 DEF OutcomeInv, IsWhole, Run
<1>6. ~There(Ready)
  <2>1. Changes = ClearChanges
    BY <1>1 DEF Changes
  <2>2. command.made >= 1
    BY <1>1, <2>1, ClearIs DEF Made
  <2> QED
    BY <1>1, <1>2, <2>2 DEF ClearInv
<1>7. CaptureIsWhole /\ files["result.json"].state = "whole"
  <2>1. /\ files["perf.data"].state \in {"part", "whole"}
        /\ files["profile.json"].state = "whole" /\ files["result.json"].state = "whole"
    BY <1>1 DEF Preparable, NonEmpty, Whole
  <2>2. IsWhole("perf.data", files["profile.json"].run)
    BY <1>2, <2>1 DEF FilesInv, There
  <2>3. files["profile.json"] \in [run : Nat, state : States]
    BY <1>2, FileNames DEF ProfileTypeOK
  <2>4. Capture = files["profile.json"].run
    BY <2>2 DEF IsWhole, Capture
  <2>5. IsWhole("profile.json", Capture)
    BY <2>1, <2>3, <2>4 DEF IsWhole
  <2> QED
    BY <2>1, <2>2, <2>4, <2>5 DEF CaptureIsWhole
<1>8. PrepareInv'
  <2>1. CaptureIsWhole' /\ files'["result.json"].state = "whole" /\ ~There(Ready)'
    BY <1>1, <1>6, <1>7 DEF CaptureIsWhole, IsWhole, Capture, There
  <2>2. \A k \in 1 .. 8 : ~(3 * k <= command'.made)
    BY <1>3
  <2> QED
    BY <1>3, <2>1, <2>2 DEF PrepareInv
<1>9. PathInv'
  BY <1>3, <1>8 DEF PathInv, ProfiledInv, PlainInv, FailedInv, ClearInv
<1> QED
  BY <1>3, <1>4, <1>5, <1>9 DEF PreparationInv

\* Between commands nothing is to come.
LEMMA NothingInProgress ==
    ASSUME ProfileTypeOK, FilesInv, UNCHANGED <<files, lines, runs>>, command' = NoCommand,
           captured' \in BOOLEAN, prepared' \in BOOLEAN
    PROVE  ProfileTypeOK' /\ FilesInv' /\ PathInv' /\ command'.kind = "none"
<1>1. command' = Command("none", FALSE) /\ "none" \in Kinds
  BY DEF NoCommand, Command, Kinds
<1>2. ProfileTypeOK' /\ command'.kind = "none" /\ command'.made = 0
  BY <1>1, FreshCommand
<1>3. FilesInv'
  BY FilesKept
<1>4. PathInv'
  BY <1>2 DEF PathInv, ProfiledInv, PlainInv, FailedInv, ClearInv, PrepareInv
<1> QED
  BY <1>2, <1>3, <1>4

\* What is whole is there to be rendered.
LEMMA WholeIsAccepted ==
    ASSUME CaptureIsWhole, files["result.json"].state = "whole", HasSamples,
           \A k \in 1 .. 8 : IsWhole(Reports[k], Capture), files[Ready].state = "whole"
    PROVE  Accepts
<1>1. \A k \in 1 .. 8 : files[Reports[k]].state = "whole"
  BY DEF IsWhole
<1>2. /\ files["perf.folded"].state = "whole" /\ files["flamegraph.svg"].state = "whole"
      /\ files["perf-header.txt"].state = "whole" /\ files["hotspots-self.txt"].state = "whole"
      /\ files["hotspots-inclusive.txt"].state = "whole" /\ files["threads.txt"].state = "whole"
      /\ files["environment.json"].state = "whole"
  <2>1. /\ Reports[2] = "perf.folded" /\ Reports[3] = "flamegraph.svg"
        /\ Reports[4] = "perf-header.txt" /\ Reports[5] = "hotspots-self.txt"
        /\ Reports[6] = "hotspots-inclusive.txt" /\ Reports[7] = "threads.txt"
        /\ Reports[8] = "environment.json"
    BY DEF Reports
  <2>2. 2 \in 1 .. 8 /\ 3 \in 1 .. 8 /\ 4 \in 1 .. 8 /\ 5 \in 1 .. 8 /\ 6 \in 1 .. 8
        /\ 7 \in 1 .. 8 /\ 8 \in 1 .. 8
    OBVIOUS
  <2> QED
    BY <1>1, <2>1, <2>2
<1>3. files["perf.data"].state = "whole" /\ files["profile.json"].state = "whole"
  BY DEF CaptureIsWhole, IsWhole
<1> QED
  BY <1>2, <1>3 DEF Accepts, Rendered, NonEmpty, Whole

\* A run that ends well has its capture, a preparation its reports.
LEMMA CommandReturns ==
    ASSUME PreparationInv, Return
    PROVE  PreparationInv'
<1>1. /\ command.kind \in {"run", "prepare"} /\ Made
      /\ captured' = IF command.kind = "run" THEN command.profiled ELSE captured
      /\ prepared' = (command.kind = "prepare")
      /\ command' = NoCommand
      /\ UNCHANGED <<files, lines, runs>>
  BY DEF Return
<1>2. ProfileTypeOK /\ FilesInv /\ OutcomeInv /\ ProfiledInv /\ PrepareInv
  BY DEF PreparationInv, PathInv
<1>3. captured' \in BOOLEAN /\ prepared' \in BOOLEAN
  <2>1. captured \in BOOLEAN /\ command.profiled \in BOOLEAN
    BY <1>2 DEF ProfileTypeOK
  <2>2. captured' \in BOOLEAN
    BY <1>1, <2>1
  <2>3. prepared' \in BOOLEAN
    BY <1>1
  <2> QED
    BY <2>2, <2>3
<1>4. ProfileTypeOK' /\ FilesInv' /\ PathInv' /\ command'.kind = "none"
  BY <1>1, <1>2, <1>3, NothingInProgress
<1>5. ASSUME captured'
      PROVE  /\ IsWhole("perf.data", Run) /\ IsWhole("profile.json", Run)
             /\ IsWhole("result.json", Run)
  <2>1. CASE command.kind = "run"
    <3>1. command.profiled = TRUE
      <4>1. command.profiled \in BOOLEAN
        BY <1>2 DEF ProfileTypeOK
      <4>2. command.profiled
        BY <1>1, <1>5, <2>1
      <4> QED
        BY <4>1, <4>2
    <3>2. Changes = RunChanges(TRUE)
      BY <2>1, <3>1 DEF Changes
    <3>3. command.made = 13
      BY <1>1, <3>2, ProfiledRunIs DEF Made
    <3> QED
      BY <1>2, <2>1, <3>1, <3>3 DEF ProfiledInv
  <2>2. CASE command.kind # "run"
    BY <1>1, <1>2, <1>5, <2>2 DEF OutcomeInv
  <2> QED
    BY <2>1, <2>2
<1>6. ASSUME prepared'
      PROVE  Accepts
  <2>1. command.kind = "prepare"
    BY <1>1, <1>6
  <2>2. command.made = 26
    <3>1. Changes = PrepareChanges
      BY <2>1 DEF Changes
    <3> QED
      BY <1>1, <3>1, PrepareIs DEF Made
  <2>3. /\ CaptureIsWhole /\ files["result.json"].state = "whole" /\ HasSamples
        /\ files[Ready].state = "whole"
    BY <1>2, <2>1, <2>2 DEF PrepareInv
  <2>4. \A k \in 1 .. 8 : IsWhole(Reports[k], Capture)
    <3>1. \A k \in 1 .. 8 : 3 * k <= 26
      OBVIOUS
    <3> QED
      BY <1>2, <2>1, <2>2, <3>1 DEF PrepareInv
  <2> QED
    BY <2>3, <2>4, WholeIsAccepted
<1>7. OutcomeInv'
  <2>1. Accepts' = Accepts
    BY <1>1 DEF Accepts, Rendered, NonEmpty, Whole, HasSamples
  <2>2. captured' => /\ IsWhole("perf.data", Run)' /\ IsWhole("profile.json", Run)'
                     /\ IsWhole("result.json", Run)'
    BY <1>1, <1>5 DEF IsWhole, Run
  <2>3. prepared' => Idle' /\ Accepts'
    BY <1>4, <1>6, <2>1 DEF Idle
  <2> QED
    BY <1>4, <2>2, <2>3 DEF OutcomeInv
<1> QED
  BY <1>4, <1>7 DEF PreparationInv

\* A command that fails leaves what it has done so far.
LEMMA CommandFails ==
    ASSUME PreparationInv, Fail
    PROVE  PreparationInv'
<1>1. ~Idle /\ command' = NoCommand /\ UNCHANGED <<files, lines, runs, captured, prepared>>
  BY DEF Fail
<1>2. ProfileTypeOK /\ FilesInv /\ OutcomeInv
  BY DEF PreparationInv
<1>3. captured' \in BOOLEAN /\ prepared' \in BOOLEAN
  BY <1>1, <1>2 DEF ProfileTypeOK
<1>4. ProfileTypeOK' /\ FilesInv' /\ PathInv' /\ command'.kind = "none"
  BY <1>1, <1>2, <1>3, NothingInProgress
<1>5. ~prepared'
  BY <1>1, <1>2 DEF OutcomeInv
<1>6. OutcomeInv'
  BY <1>1, <1>2, <1>4, <1>5 DEF OutcomeInv, IsWhole, Run
<1> QED
  BY <1>4, <1>6 DEF PreparationInv

\* No step of any command disturbs the invariant.
LEMMA PreparationInvariance == ProfileSpec => []PreparationInv
<1>1. ProfileInit => PreparationInv
  <2> SUFFICES ASSUME ProfileInit PROVE PreparationInv
    OBVIOUS
  <2>1. /\ \A name \in Files : files[name] = [run |-> 0, state |-> "absent"]
        /\ command.kind = "none" /\ command.made = 0 /\ command.profiled = FALSE
        /\ command = [kind |-> "none", profiled |-> FALSE, made |-> 0]
        /\ ~captured /\ ~prepared
    BY DEF ProfileInit, NoCommand
  <2>2. Run = 0 /\ runs \in Seq(BOOLEAN)
    BY DEF ProfileInit, Run
  <2>3. ProfileTypeOK
    <3>1. files \in [Files -> [run : Nat, state : States]]
      BY DEF ProfileInit, States
    <3>2. Len(Changes) = 0
      BY <2>1 DEF Changes
    <3>3. captured \in BOOLEAN /\ prepared \in BOOLEAN
      BY DEF ProfileInit
    <3>4. command \in [kind : Kinds, profiled : BOOLEAN, made : Nat]
      BY <2>1 DEF Kinds
    <3> QED
      BY <2>1, <2>2, <3>1, <3>2, <3>3, <3>4 DEF ProfileInit, ProfileTypeOK
  <2>4. FilesInv
    BY <2>1, FileNames DEF FilesInv, There
  <2>5. PathInv
    BY <2>1 DEF PathInv, ProfiledInv, PlainInv, FailedInv, ClearInv, PrepareInv
  <2> QED
    BY <2>1, <2>3, <2>4, <2>5 DEF PreparationInv, OutcomeInv
<1>2. PreparationInv /\ [ProfileNext]_profileVars => PreparationInv'
  <2> SUFFICES ASSUME PreparationInv, [ProfileNext]_profileVars PROVE PreparationInv'
    OBVIOUS
  <2>1. CASE BeginRun
    BY <2>1, RunBegins
  <2>2. CASE WorkFails
    BY <2>2, RunFails
  <2>3. CASE BeginPrepare
    BY <2>3, PreparationBegins
  <2>4. CASE CheckInputs
    BY <2>4, InputsAreChecked
  <2>5. CASE MakeChange
    BY <2>5, ChangeStep
  <2>6. CASE Return
    BY <2>6, CommandReturns
  <2>7. CASE Fail
    BY <2>7, CommandFails
  <2>8. CASE UNCHANGED profileVars
    <3>1. UNCHANGED <<files, lines, command, runs, captured, prepared>>
      BY <2>8 DEF profileVars
    <3>2. /\ Run' = Run /\ Capture' = Capture /\ CaptureIsWhole' = CaptureIsWhole
          /\ HasSamples' = HasSamples /\ Idle' = Idle /\ Changes' = Changes
      BY <3>1 DEF Run, Capture, CaptureIsWhole, IsWhole, HasSamples, Idle, Changes
    <3>3. ProfileTypeOK /\ FilesInv /\ PathInv /\ OutcomeInv
      BY DEF PreparationInv
    <3>4. ProfileTypeOK'
      BY <3>1, <3>2, <3>3 DEF ProfileTypeOK
    <3>5. FilesInv'
      BY <3>1, <3>3, FilesKept
    <3>6. PathInv'
      <4>1. ProfiledInv' /\ PlainInv'
        BY <3>1, <3>2, <3>3 DEF PathInv, ProfiledInv, PlainInv, There, IsWhole
      <4>2. FailedInv' /\ ClearInv'
        BY <3>1, <3>2, <3>3 DEF PathInv, FailedInv, ClearInv, There, IsWhole
      <4>3. PrepareInv'
        BY <3>1, <3>2, <3>3 DEF PathInv, PrepareInv, There, IsWhole
      <4> QED
        BY <4>1, <4>2, <4>3 DEF PathInv
    <3>7. OutcomeInv'
      <4>1. Accepts' = Accepts
        BY <3>1 DEF Accepts, Rendered, NonEmpty, Whole, HasSamples
      <4> QED
        BY <3>1, <3>2, <3>3, <4>1 DEF OutcomeInv, IsWhole
    <3> QED
      BY <3>4, <3>5, <3>6, <3>7 DEF PreparationInv
  <2> QED
    BY <2>1, <2>2, <2>3, <2>4, <2>5, <2>6, <2>7, <2>8 DEF ProfileNext
<1> QED
  BY <1>1, <1>2, PTL DEF ProfileSpec

\* Whatever commands were cut off, a profile that is rendered is whole and of one capture, with
\* the result of its run or of a later one without profiler (render, profile/report.rs).
THEOREM RenderingsAreOneCapture == ProfileSpec => []RenderedIsOneCapture
<1>1. PreparationInv => RenderedIsOneCapture
  <2> SUFFICES ASSUME PreparationInv, Accepts PROVE RenderedIsOneCapture
    BY DEF RenderedIsOneCapture
  <2>1. ProfileTypeOK /\ FilesInv
    BY DEF PreparationInv
  <2>2. There(Ready) /\ There("perf.data") /\ There("result.json")
    BY DEF Accepts, Rendered, NonEmpty, Whole, There
  <2>3. /\ CaptureIsWhole /\ \A k \in 1 .. 8 : IsWhole(Reports[k], Capture)
        /\ files["result.json"].run >= Capture
        /\ \A run \in Capture + 1 .. Run : ~runs[run]
    BY <2>1, <2>2 DEF FilesInv
  <2>4. /\ Run \in Nat /\ Capture \in Nat /\ files["result.json"].run \in Nat
        /\ files["result.json"].run <= Run
    BY <2>1, FileNames DEF ProfileTypeOK, Run, Capture
  <2>5. \A run \in Capture + 1 .. files["result.json"].run : ~runs[run]
    BY <2>3, <2>4
  <2>6. \A name \in {"perf.data", "profile.json"} \union ToSet(Reports) : IsWhole(name, Capture)
    BY <2>3, ReportNames DEF CaptureIsWhole
  <2> QED
    BY <2>3, <2>5, <2>6 DEF RenderedIsOneCapture, IsWhole, Capture
<1> QED
  BY <1>1, PreparationInvariance, PTL

\* What prepare reports as complete, render accepts (prepare and load_prepared).
THEOREM PreparationsAreAccepted == ProfileSpec => []PreparedIsAccepted
<1>1. PreparationInv => PreparedIsAccepted
  BY DEF PreparationInv, OutcomeInv, PreparedIsAccepted
<1> QED
  BY <1>1, PreparationInvariance, PTL

\* A capture that ended well can be prepared again until a run begins, whatever preparations
\* of it fail (PREPARED_FILES names no file of the capture).
THEOREM CapturesStayUsable == ProfileSpec => []CaptureStaysUsable
<1>1. PreparationInv => CaptureStaysUsable
  <2> SUFFICES ASSUME PreparationInv, captured PROVE CaptureStaysUsable
    BY DEF CaptureStaysUsable
  <2>1. \A name \in {"perf.data", "profile.json", "result.json"} : IsWhole(name, Run)
    BY DEF PreparationInv, OutcomeInv
  <2>2. Preparable
    BY <2>1 DEF Preparable, NonEmpty, Whole, IsWhole
  <2> QED
    BY <2>1, <2>2 DEF CaptureStaysUsable, IsWhole
<1> QED
  BY <1>1, PreparationInvariance, PTL

-------------------------------------------------------------------------------
(* The counts of FoldedProfile, of folded stacks of any length. *)

Line == [frames : Seq(STRING), count : 0 .. MaxCount]

Table(counts) ==
    /\ counts = [label \in DOMAIN counts |-> counts[label]]
    /\ IsFiniteSet(DOMAIN counts)
    /\ \A label \in DOMAIN counts : counts[label] \in Nat

\* A count more for some labels.
Adds(new, counts, labels, k) ==
    \A label : /\ Count(counts, label) \in Nat
              /\ Count(new, label) = Count(counts, label) + IF label \in labels THEN k ELSE 0

\* A finite set has finitely many images.
LEMMA ImagesAreFinite ==
    ASSUME NEW S, IsFiniteSet(S), NEW f
    PROVE  IsFiniteSet({f[x] : x \in S})
<1> DEFINE Finite == {T \in SUBSET S : IsFiniteSet({f[x] : x \in T})}
<1>1. {} \in Finite
  <2>1. {f[x] : x \in {}} = {}
    OBVIOUS
  <2> QED
    BY <2>1, FS_EmptySet
<1>2. ASSUME NEW T \in SUBSET S, NEW y \in S \ T, T \in Finite
      PROVE  T \union {y} \in Finite
  <2>1. {f[x] : x \in T \union {y}} = {f[x] : x \in T} \union {f[y]}
    OBVIOUS
  <2>2. IsFiniteSet({f[x] : x \in T} \union {f[y]})
    BY <1>2, FS_AddElement
  <2> QED
    BY <1>2, <2>1, <2>2
<1> HIDE DEF Finite
<1>3. SUBSET S \subseteq Finite
  BY <1>1, <1>2, SubsetInduction
<1> QED
  BY <1>3 DEF Finite

\* add_count of a set of labels adds to the count of each of them, and to no other.
LEMMA CountedMany ==
    ASSUME NEW counts, Table(counts), NEW labels, IsFiniteSet(labels), NEW k \in Nat
    PROVE  /\ Table(AddCounts(counts, labels, k))
           /\ DOMAIN AddCounts(counts, labels, k) = DOMAIN counts \union labels
           /\ Adds(AddCounts(counts, labels, k), counts, labels, k)
<1> DEFINE new == AddCounts(counts, labels, k)
<1>1. /\ new = [each \in DOMAIN counts \union labels |->
                    Count(counts, each) + IF each \in labels THEN k ELSE 0]
      /\ DOMAIN new = DOMAIN counts \union labels
  BY DEF AddCounts
<1>2. IsFiniteSet(DOMAIN counts \union labels)
  BY FS_Union DEF Table
<1>3. \A label : Count(counts, label) \in Nat
  BY DEF Count, Table
<1>4. \A label \in DOMAIN new :
          new[label] = Count(counts, label) + IF label \in labels THEN k ELSE 0
  BY <1>1
<1>5. \A label \in DOMAIN new : new[label] \in Nat
  BY <1>3, <1>4
<1>6. Table(new)
  BY <1>1, <1>2, <1>5 DEF Table
<1>7. ASSUME NEW label
      PROVE  Count(new, label) = Count(counts, label) + IF label \in labels THEN k ELSE 0
  <2>1. CASE label \in DOMAIN new
    BY <1>4, <2>1 DEF Count
  <2>2. CASE label \notin DOMAIN new
    BY <1>1, <2>2 DEF Count
  <2> QED
    BY <2>1, <2>2
<1> QED
  BY <1>1, <1>3, <1>6, <1>7 DEF Adds

\* add_count of one label adds to the sum of a table.
LEMMA CountedOne ==
    ASSUME NEW counts, Table(counts), NEW label, NEW k \in Nat
    PROVE  /\ Table(AddCount(counts, label, k))
           /\ SumFunction(AddCount(counts, label, k)) = SumFunction(counts) + k
<1> DEFINE labels == {label}
           new == AddCounts(counts, labels, k)
           D == DOMAIN counts
<1>1. IsFiniteSet(labels)
  BY FS_Singleton
<1>3. AddCount(counts, label, k) = new
  BY DEF AddCount
<1> HIDE DEF labels
<1>7. Table(new) /\ DOMAIN new = D \union labels /\ Adds(new, counts, labels, k)
  BY <1>1, CountedMany
<1> HIDE DEF new
<1>2. /\ Table(new) /\ DOMAIN new = D \union {label}
      /\ \A x : /\ Count(counts, x) \in Nat
               /\ Count(new, x) = Count(counts, x) + IF x \in {label} THEN k ELSE 0
  BY <1>7 DEF labels, Adds
<1>4. /\ IsFiniteSet(D) /\ \A x \in D : counts[x] \in Int
      /\ \A x \in D \union {label} : new[x] \in Int
  BY <1>2 DEF Table
<1>5. \A x \in D \ {label} : new[x] = counts[x]
  BY <1>2 DEF Count, Table
<1>6. SumFunction(new) = SumFunction(counts) + k
  <2>1. CASE label \in D
    <3>1. D \union {label} = D
      BY <2>1
    <3>2. new[label] = counts[label] + k
      BY <1>2, <2>1 DEF Count
    <3>3. SumFunctionOnSet(new, D) = SumFunctionOnSet(counts, D) + new[label] - counts[label]
      BY <1>4, <1>5, <2>1, SumChange
    <3>4. SumFunctionOnSet(counts, D) \in Int
      BY <1>4, SumInt
    <3>5. SumFunctionOnSet(new, D) = SumFunctionOnSet(counts, D) + k
      BY <1>4, <2>1, <3>2, <3>3, <3>4
    <3> QED
      BY <1>2, <3>1, <3>5 DEF SumFunction
  <2>2. CASE label \notin D
    <3>1. new[label] = k
      BY <1>2, <2>2 DEF Count
    <3>2. SumFunctionOnSet(new, D \union {label}) = SumFunctionOnSet(new, D) + new[label]
      BY <1>4, <2>2, SumAdd
    <3>3. \A x \in D : new[x] \in Int /\ new[x] = counts[x]
      BY <1>4, <1>5, <2>2
    <3>4. SumFunctionOnSet(new, D) = SumFunctionOnSet(counts, D)
      BY <1>4, <3>3, SumSame
    <3> QED
      BY <1>2, <3>1, <3>2, <3>4 DEF SumFunction
  <2> QED
    BY <2>1, <2>2
<1> QED
  BY <1>2, <1>3, <1>6

\* What is a profile, whatever its counts.
IsProfile(profile) ==
    /\ profile = [total |-> profile.total, stack |-> profile.stack, self |-> profile.self,
                  thread |-> profile.thread, inclusive |-> profile.inclusive,
                  kernel |-> profile.kernel, unresolved_leaf |-> profile.unresolved_leaf,
                  unresolved_stack |-> profile.unresolved_stack,
                  malformed |-> profile.malformed]
    /\ profile.total \in 0 .. MaxCount /\ profile.malformed \in Nat
    /\ profile.kernel \in Nat /\ profile.kernel <= profile.total
    /\ profile.unresolved_leaf \in Nat /\ profile.unresolved_stack \in Nat
    /\ profile.unresolved_leaf <= profile.unresolved_stack
    /\ Table(profile.stack) /\ SumFunction(profile.stack) = profile.total
    /\ Table(profile.self) /\ SumFunction(profile.self) = profile.total
    /\ Table(profile.thread) /\ SumFunction(profile.thread) = profile.total
    /\ Table(profile.inclusive)
    /\ \A frame : Count(profile.inclusive, frame) <= profile.total

\* A profile of no line.
LEMMA EmptyIsProfile ==
    /\ IsProfile(EmptyProfile) /\ EmptyProfile.total = 0 /\ EmptyProfile.malformed = 0
    /\ \A frame : Count(EmptyProfile.inclusive, frame) = 0
<1>1. NoCounts = [label \in DOMAIN NoCounts |-> NoCounts[label]] /\ DOMAIN NoCounts = {}
  BY DEF NoCounts
<1>2. Table(NoCounts)
  BY <1>1, FS_EmptySet DEF Table
<1>3. SumFunction(NoCounts) = 0
  BY <1>1, SumEmpty DEF SumFunction
<1>4. \A frame : Count(NoCounts, frame) = 0
  BY <1>1 DEF Count
<1>5. 0 \in 0 .. MaxCount
  BY CountAssumption
<1>6. EmptyProfile =
          [total |-> 0, stack |-> NoCounts, self |-> NoCounts, thread |-> NoCounts,
           inclusive |-> NoCounts, kernel |-> 0, unresolved_leaf |-> 0, unresolved_stack |-> 0,
           malformed |-> 0]
  BY DEF EmptyProfile
<1> HIDE DEF NoCounts
<1> QED
  BY <1>2, <1>3, <1>4, <1>5, <1>6 DEF IsProfile

\* Both summands are no larger.
LEMMA SumsCompare ==
    ASSUME NEW a \in Nat, NEW b \in Nat, NEW c \in Nat, NEW d \in Nat, a <= c, b <= d
    PROVE  a + b \in Nat /\ a + b <= c + d
OBVIOUS

\* add_line keeps the tables in step with the total, and counts each frame of the stack once.
LEMMA LineIsAdded ==
    ASSUME NEW profile, IsProfile(profile), NEW line \in Line, Countable(profile, line)
    PROVE  LET new == AddLine(profile, line)
           IN  /\ IsProfile(new) /\ new.total = profile.total + line.count
               /\ new.malformed = profile.malformed
               /\ \A frame : Count(new.inclusive, frame) =
                      Count(profile.inclusive, frame)
                      + IF frame \in InclusiveFrames(line) THEN line.count ELSE 0
<1> DEFINE k == line.count
           leaf == Leaf(line)
           thread == Thread(line)
           frames == InclusiveFrames(line)
           If(condition) == IF condition THEN k ELSE 0
           inKernel == If(leaf \in KernelFrames)
           unresolved == If(leaf \in UnresolvedFrames)
           some == If(\E i \in 1 .. Len(line.frames) : line.frames[i] \in UnresolvedFrames)
           stacks == AddCount(profile.stack, line.frames, k)
           selves == AddCount(profile.self, leaf, k)
           threads == AddCount(profile.thread, thread, k)
           all == AddCounts(profile.inclusive, frames, k)
           new == AddLine(profile, line)
<1>1. /\ k \in Nat /\ k > 0 /\ line.frames \in Seq(STRING) /\ line.frames # << >>
      /\ profile.total + k <= MaxCount /\ profile.total \in Nat
      /\ profile.total + k \in 0 .. MaxCount
  BY CountAssumption DEF Countable, Line, IsProfile
<1>2. new = [total |-> profile.total + k, stack |-> stacks, self |-> selves, thread |-> threads,
             inclusive |-> all, kernel |-> profile.kernel + inKernel,
             unresolved_leaf |-> profile.unresolved_leaf + unresolved,
             unresolved_stack |-> profile.unresolved_stack + some,
             malformed |-> profile.malformed]
  BY DEF AddLine
<1>3. /\ inKernel \in Nat /\ inKernel <= k /\ unresolved \in Nat /\ some \in Nat
  BY <1>1
<1>4. unresolved <= some
  <2>1. CASE leaf \in UnresolvedFrames
    <3>1. Len(line.frames) \in 1 .. Len(line.frames)
      BY <1>1, EmptySeq
    <3>2. some = k
      BY <2>1, <3>1 DEF Leaf
    <3> QED
      BY <2>1, <3>2, <1>1
  <2>2. CASE leaf \notin UnresolvedFrames
    BY <2>2, <1>1
  <2> QED
    BY <2>1, <2>2
<1>5. IsFiniteSet(frames)
  <2> DEFINE S == (IF Len(line.frames) > 1 THEN 2 ELSE 1) .. Len(line.frames)
             stack == line.frames
  <2>1. IsFiniteSet(S)
    <3>1. Len(line.frames) \in Int
      BY <1>1
    <3> QED
      BY <3>1, FS_Interval
  <2>2. frames = {stack[i] : i \in S}
    BY DEF InclusiveFrames
  <2> HIDE DEF S, stack, frames
  <2> QED
    BY <2>1, <2>2, ImagesAreFinite
<1> HIDE DEF k, leaf, thread, frames, inKernel, unresolved, some
<1>6. /\ Table(stacks) /\ SumFunction(stacks) = profile.total + k
      /\ Table(selves) /\ SumFunction(selves) = profile.total + k
      /\ Table(threads) /\ SumFunction(threads) = profile.total + k
  <2>1. /\ Table(profile.stack) /\ SumFunction(profile.stack) = profile.total
        /\ Table(profile.self) /\ SumFunction(profile.self) = profile.total
        /\ Table(profile.thread) /\ SumFunction(profile.thread) = profile.total
    BY DEF IsProfile
  <2>2. Table(stacks) /\ SumFunction(stacks) = SumFunction(profile.stack) + k
    BY <1>1, <2>1, CountedOne
  <2>3. Table(selves) /\ SumFunction(selves) = SumFunction(profile.self) + k
    BY <1>1, <2>1, CountedOne
  <2>4. Table(threads) /\ SumFunction(threads) = SumFunction(profile.thread) + k
    BY <1>1, <2>1, CountedOne
  <2> QED
    BY <2>1, <2>2, <2>3, <2>4
<1>7. Table(all) /\ Adds(all, profile.inclusive, frames, k)
  <2>1. Table(profile.inclusive)
    BY DEF IsProfile
  <2> QED
    BY <1>1, <1>5, <2>1, CountedMany
<1>8. \A frame : Count(all, frame) <= profile.total + k
  <2>1. \A frame : Count(profile.inclusive, frame) <= profile.total
    BY DEF IsProfile
  <2> QED
    BY <1>1, <1>7, <2>1 DEF Adds
<1>9. /\ profile.kernel + inKernel \in Nat /\ profile.kernel + inKernel <= profile.total + k
      /\ profile.unresolved_leaf + unresolved \in Nat /\ profile.unresolved_stack + some \in Nat
      /\ profile.unresolved_leaf + unresolved <= profile.unresolved_stack + some
      /\ profile.malformed \in Nat
  <2>1. /\ profile.kernel \in Nat /\ profile.kernel <= profile.total
        /\ profile.unresolved_leaf \in Nat /\ profile.unresolved_stack \in Nat
        /\ profile.unresolved_leaf <= profile.unresolved_stack /\ profile.malformed \in Nat
    BY DEF IsProfile
  <2>2. profile.total \in Nat /\ k \in Nat /\ inKernel \in Nat /\ inKernel <= k
        /\ unresolved \in Nat /\ some \in Nat /\ unresolved <= some
    BY <1>1, <1>3, <1>4
  <2> QED
    BY <2>1, <2>2, SumsCompare
<1> HIDE DEF stacks, selves, threads, all, new
<1>10. IsProfile(new)
  BY <1>1, <1>2, <1>6, <1>7, <1>8, <1>9 DEF IsProfile
<1>11. new.total = profile.total + k /\ new.malformed = profile.malformed /\ new.inclusive = all
  BY <1>2
<1> QED
  BY <1>7, <1>10, <1>11 DEF new, k, frames, Adds

\* One step of the recursion of parse.
ParseStep(stacks, p, n) == IF n = 0 THEN EmptyProfile ELSE ParseLine(p[n - 1], stacks[n])

\* parse has a profile after each of its lines.
LEMMA ProfilesExist ==
    ASSUME NEW stacks, NEW length \in Nat
    PROVE  \E p : p = [n \in 0 .. length |-> ParseStep(stacks, p, n)]
<1> DEFINE Profiles(p, m) == p = [n \in 0 .. m |-> ParseStep(stacks, p, n)]
           Lengths == {m \in Nat : \E p : Profiles(p, m)}
<1>1. 0 \in Lengths
  <2> DEFINE p == [n \in 0 .. 0 |-> EmptyProfile]
  <2>1. \A n \in 0 .. 0 : n = 0
    OBVIOUS
  <2>2. p = [n \in 0 .. 0 |-> ParseStep(stacks, p, n)]
    BY <2>1 DEF ParseStep
  <2> QED
    BY <2>2
<1>2. ASSUME NEW m \in Nat, m \in Lengths PROVE m + 1 \in Lengths
  <2>1. PICK p : Profiles(p, m)
    BY <1>2
  <2>5. \A n \in 0 .. m : p[n] = ParseStep(stacks, p, n)
    BY <2>1, Zenon
  <2> DEFINE q == [n \in 0 .. m + 1 |-> IF n <= m THEN p[n] ELSE ParseLine(p[m], stacks[m + 1])]
  <2>2. ASSUME NEW n \in 0 .. m + 1 PROVE q[n] = ParseStep(stacks, q, n)
    <3>1. CASE n = 0
      <4>1. q[0] = p[0] /\ p[0] = ParseStep(stacks, p, 0)
        BY <2>5
      <4> QED
        BY <3>1, <4>1 DEF ParseStep
    <3>2. CASE n \in 1 .. m
      <4>1. q[n] = p[n] /\ p[n] = ParseStep(stacks, p, n) /\ q[n - 1] = p[n - 1] /\ n # 0
        BY <2>5, <3>2
      <4> QED
        BY <4>1 DEF ParseStep
    <3>3. CASE n = m + 1
      <4>1. q[m + 1] = ParseLine(p[m], stacks[m + 1]) /\ q[m] = p[m] /\ n # 0 /\ n - 1 = m
        BY <3>3
      <4> QED
        BY <3>3, <4>1 DEF ParseStep
    <3> QED
      BY <3>1, <3>2, <3>3
  <2>3. q = [n \in 0 .. m + 1 |-> q[n]]
    OBVIOUS
  <2> HIDE DEF q
  <2>4. Profiles(q, m + 1)
    BY <2>2, <2>3
  <2> QED
    BY <2>4
<1> HIDE DEF Lengths
<1>3. Nat \subseteq Lengths
  BY <1>1, <1>2, NumberInduction
<1> QED
  BY <1>3 DEF Lengths

\* The lines so far that count, and those of them with a frame.
WellFormedIn(stacks, n) ==
    {i \in 1 .. n : stacks[i].count > 0 /\ stacks[i].frames # << >>}

ContainingIn(stacks, n, frame) ==
    {i \in WellFormedIn(stacks, n) : frame \in InclusiveFrames(stacks[i])}

CountedIn(stacks, S) == SumFunctionOnSet([i \in 1 .. Len(stacks) |-> stacks[i].count], S)

\* What the profile says after n lines.
ParsedSoFar(stacks, profile, n) ==
    /\ IsProfile(profile)
    /\ CountedIn(stacks, WellFormedIn(stacks, n)) <= MaxCount =>
           /\ profile.total = CountedIn(stacks, WellFormedIn(stacks, n))
           /\ profile.malformed = n - Cardinality(WellFormedIn(stacks, n))
           /\ \A frame : Count(profile.inclusive, frame) =
                            CountedIn(stacks, ContainingIn(stacks, n, frame))

\* Of some of the lines, and one more.
LEMMA OneLineMore ==
    ASSUME NEW stacks \in Seq(Line), NEW n \in Nat, n + 1 <= Len(stacks), NEW S \in SUBSET (1 .. n)
    PROVE  /\ CountedIn(stacks, S) \in Int /\ IsFiniteSet(S)
           /\ CountedIn(stacks, S \union {n + 1}) = CountedIn(stacks, S) + stacks[n + 1].count
           /\ Cardinality(S \union {n + 1}) = Cardinality(S) + 1 /\ Cardinality(S) \in Nat
<1> DEFINE f == [i \in 1 .. Len(stacks) |-> stacks[i].count]
<1>1. IsFiniteSet(S)
  <2>1. n \in Int /\ 1 \in Int
    OBVIOUS
  <2>2. IsFiniteSet(1 .. n)
    BY <2>1, FS_Interval
  <2> QED
    BY <2>2, FS_Subset
<1>2. \A i \in 1 .. Len(stacks) : f[i] = stacks[i].count /\ f[i] \in Int
  <2>1. \A line \in Line : line.count \in Int
    BY CountAssumption DEF Line
  <2>2. \A i \in 1 .. Len(stacks) : stacks[i] \in Line
    OBVIOUS
  <2> QED
    BY <2>1, <2>2
<1>3. n + 1 \notin S /\ S \union {n + 1} \subseteq 1 .. Len(stacks)
  OBVIOUS
<1>4. \A i \in S \union {n + 1} : f[i] \in Int
  BY <1>2, <1>3
<1> HIDE DEF f
<1>5. /\ SumFunctionOnSet(f, S) \in Int
      /\ SumFunctionOnSet(f, S \union {n + 1}) = SumFunctionOnSet(f, S) + f[n + 1]
  BY <1>1, <1>3, <1>4, SumAdd
<1>6. f[n + 1] = stacks[n + 1].count
  BY <1>2, <1>3
<1>7. Cardinality(S \union {n + 1}) = Cardinality(S) + 1 /\ Cardinality(S) \in Nat
  BY <1>1, <1>3, FS_AddElement, FS_CardinalityType
<1> QED
  BY <1>1, <1>5, <1>6, <1>7 DEF CountedIn, f

\* A line is counted, or it is malformed, and the next profile is right again.
LEMMA LineIsParsed ==
    ASSUME NEW stacks \in Seq(Line), NEW n \in Nat, n + 1 <= Len(stacks),
           NEW profile, ParsedSoFar(stacks, profile, n)
    PROVE  ParsedSoFar(stacks, ParseLine(profile, stacks[n + 1]), n + 1)
<1> DEFINE line == stacks[n + 1]
           new == ParseLine(profile, line)
           S == WellFormedIn(stacks, n)
           T == WellFormedIn(stacks, n + 1)
           Valid == line.count > 0 /\ line.frames # << >>
           Counts(R) == CountedIn(stacks, R)
           With(frame) == ContainingIn(stacks, n, frame)
           Then(frame) == ContainingIn(stacks, n + 1, frame)
<1>1. line \in Line /\ line.count \in Nat
  <2>1. line \in Line
    OBVIOUS
  <2> HIDE DEF line
  <2> QED
    BY <2>1, CountAssumption DEF Line
<1>2. /\ S \in SUBSET (1 .. n)
      /\ Valid => T = S \union {n + 1}
      /\ ~Valid => T = S
  <2>1. 1 .. n + 1 = (1 .. n) \union {n + 1}
    OBVIOUS
  <2> QED
    BY <2>1 DEF WellFormedIn
<1>3. ASSUME NEW frame
      PROVE  /\ With(frame) \in SUBSET (1 .. n)
             /\ Valid /\ frame \in InclusiveFrames(line) => Then(frame) = With(frame) \union {n + 1}
             /\ ~Valid \/ frame \notin InclusiveFrames(line) => Then(frame) = With(frame)
  BY <1>2 DEF ContainingIn
<1>4. /\ Counts(S) \in Int /\ Cardinality(S) \in Nat
      /\ Valid => Counts(T) = Counts(S) + line.count /\ Cardinality(T) = Cardinality(S) + 1
  <2>1. Counts(S) \in Int /\ Cardinality(S) \in Nat
    BY <1>2, OneLineMore
  <2>2. Counts(S \union {n + 1}) = Counts(S) + line.count
    BY <1>2, OneLineMore
  <2>3. Cardinality(S \union {n + 1}) = Cardinality(S) + 1
    BY <1>2, OneLineMore
  <2> HIDE DEF S, T, Counts, Valid, line
  <2> QED
    BY <1>2, <2>1, <2>2, <2>3
<1>5. /\ IsProfile(profile)
      /\ Counts(S) <= MaxCount =>
             /\ profile.total = Counts(S) /\ profile.malformed = n - Cardinality(S)
             /\ \A frame : Count(profile.inclusive, frame) = Counts(With(frame))
  BY DEF ParsedSoFar
<1> HIDE DEF line, S, T, With, Then, Counts
<1>6. CASE Countable(profile, line)
  <2>1. Valid /\ new = AddLine(profile, line)
    BY <1>6 DEF Countable, ParseLine
  <2>2. /\ IsProfile(new) /\ new.total = profile.total + line.count
        /\ new.malformed = profile.malformed
        /\ \A frame : Count(new.inclusive, frame) =
               Count(profile.inclusive, frame)
               + IF frame \in InclusiveFrames(line) THEN line.count ELSE 0
    BY <1>1, <1>5, <1>6, <2>1, LineIsAdded
  <2> SUFFICES ASSUME Counts(T) <= MaxCount
               PROVE  /\ new.total = Counts(T) /\ new.malformed = (n + 1) - Cardinality(T)
                      /\ \A frame : Count(new.inclusive, frame) = Counts(Then(frame))
    BY <2>2 DEF ParsedSoFar, line, T, Then, Counts
  <2>3. Counts(S) <= MaxCount
    BY <1>1, <1>4, <2>1, CountAssumption
  <2>4. new.total = Counts(T) /\ new.malformed = (n + 1) - Cardinality(T)
    BY <1>4, <1>5, <2>1, <2>2, <2>3
  <2>5. ASSUME NEW frame PROVE Count(new.inclusive, frame) = Counts(Then(frame))
    <3>1. Count(profile.inclusive, frame) = Counts(With(frame))
      BY <1>5, <2>3
    <3>2. CASE frame \in InclusiveFrames(line)
      <4>1. Then(frame) = With(frame) \union {n + 1}
        BY <1>3, <2>1, <3>2
      <4>2. Counts(With(frame) \union {n + 1}) = Counts(With(frame)) + line.count
        BY <1>3, OneLineMore DEF Counts, line
      <4> QED
        BY <2>2, <3>1, <3>2, <4>1, <4>2
    <3>3. CASE frame \notin InclusiveFrames(line)
      <4>1. Then(frame) = With(frame)
        BY <1>3, <3>3
      <4>2. Counts(With(frame)) \in Int
        BY <1>3, OneLineMore DEF Counts
      <4>3. Count(new.inclusive, frame) = Count(profile.inclusive, frame) + 0
        BY <2>2, <3>3
      <4> QED
        BY <3>1, <4>1, <4>2, <4>3
    <3> QED
      BY <3>2, <3>3
  <2> QED
    BY <2>4, <2>5
<1>7. CASE ~Countable(profile, line)
  <2>1. new = [profile EXCEPT !.malformed = @ + 1]
    BY <1>7 DEF ParseLine
  <2> DEFINE rest == [new EXCEPT !.malformed = 0]
  <2>2. /\ new = [total |-> profile.total, stack |-> profile.stack, self |-> profile.self,
                  thread |-> profile.thread, inclusive |-> profile.inclusive,
                  kernel |-> profile.kernel, unresolved_leaf |-> profile.unresolved_leaf,
                  unresolved_stack |-> profile.unresolved_stack,
                  malformed |-> profile.malformed + 1]
    <3>1. profile = [total |-> profile.total, stack |-> profile.stack, self |-> profile.self,
                     thread |-> profile.thread, inclusive |-> profile.inclusive,
                     kernel |-> profile.kernel, unresolved_leaf |-> profile.unresolved_leaf,
                     unresolved_stack |-> profile.unresolved_stack,
                     malformed |-> profile.malformed]
      BY <1>5 DEF IsProfile
    <3> HIDE DEF new
    <3> QED
      BY <2>1, <3>1
  <2> HIDE DEF new
  <2>3. IsProfile(new) /\ new.total = profile.total /\ new.inclusive = profile.inclusive
        /\ new.malformed = profile.malformed + 1
    BY <1>5, <2>2 DEF IsProfile
  <2>6. profile.total \in Nat /\ profile.malformed \in Nat
    BY <1>5 DEF IsProfile
  <2>4. ~Valid \/ Counts(T) > MaxCount
    <3> SUFFICES ASSUME Valid, ~(Counts(T) > MaxCount) PROVE FALSE
      OBVIOUS
    <3>1. profile.total + line.count > MaxCount
      BY <1>1, <1>7, <2>6, CountAssumption DEF Countable
    <3>2. Counts(T) = Counts(S) + line.count
      BY <1>4
    <3>3. Counts(S) <= MaxCount
      BY <1>1, <1>4, <3>2, CountAssumption
    <3> QED
      BY <1>1, <1>4, <1>5, <3>1, <3>2, <3>3, CountAssumption
  <2> SUFFICES ASSUME Counts(T) <= MaxCount
               PROVE  /\ new.total = Counts(T) /\ new.malformed = (n + 1) - Cardinality(T)
                      /\ \A frame : Count(new.inclusive, frame) = Counts(Then(frame))
    BY <2>3 DEF ParsedSoFar, line, T, Then, Counts, new
  <2>5. T = S /\ \A frame : Then(frame) = With(frame)
    <3>1. ~Valid
      <4>1. Counts(T) \in Int
        BY <1>2, <1>4, <1>1
      <4> QED
        BY <2>4, <4>1, CountAssumption
    <3> QED
      BY <1>2, <1>3, <3>1
  <2> QED
    BY <1>4, <1>5, <2>3, <2>5, <2>6
<1> QED
  BY <1>6, <1>7

\* The counts of the report agree, of whatever folded stacks they were made.
LEMMA ParsedCountsAgree ==
    ASSUME NEW stacks \in Seq(Line)
    PROVE  CountsAgree(stacks)
<1> DEFINE length == Len(stacks)
           p == CHOOSE p : p = [n \in 0 .. length |-> ParseStep(stacks, p, n)]
           last == p[length]
           S == WellFormedIn(stacks, length)
<1>1. length \in Nat
  OBVIOUS
<1>2. p = [n \in 0 .. length |-> ParseStep(stacks, p, n)]
  <2> HIDE DEF length
  <2> QED
    BY <1>1, ProfilesExist
<1>3. Parse(stacks) = last
  BY DEF Parse, ParseStep
<1> HIDE DEF p
<1>4. \A n \in 0 .. length : p[n] = ParseStep(stacks, p, n)
  BY <1>2, Zenon
<1>5. \A n \in 0 .. length : ParsedSoFar(stacks, p[n], n)
  <2> DEFINE Right == {n \in Nat : n <= length => ParsedSoFar(stacks, p[n], n)}
  <2>1. 0 \in Right
    <3>1. p[0] = EmptyProfile
      BY <1>1, <1>4 DEF ParseStep
    <3>2. WellFormedIn(stacks, 0) = {} /\ \A frame : ContainingIn(stacks, 0, frame) = {}
      BY DEF WellFormedIn, ContainingIn
    <3>3. CountedIn(stacks, {}) = 0 /\ Cardinality({}) = 0
      BY SumEmpty, FS_EmptySet DEF CountedIn
    <3>5. /\ CountedIn(stacks, WellFormedIn(stacks, 0)) = 0
          /\ Cardinality(WellFormedIn(stacks, 0)) = 0
      BY <3>2, <3>3
    <3>6. \A frame : CountedIn(stacks, ContainingIn(stacks, 0, frame)) = 0
      BY <3>2, <3>3
    <3>4. ParsedSoFar(stacks, EmptyProfile, 0)
      <4>1. EmptyProfile.malformed = 0 - Cardinality(WellFormedIn(stacks, 0))
        BY <3>5, EmptyIsProfile
      <4>2. \A frame : Count(EmptyProfile.inclusive, frame) =
                           CountedIn(stacks, ContainingIn(stacks, 0, frame))
        BY <3>6, EmptyIsProfile
      <4> QED
        BY <3>5, <4>1, <4>2, EmptyIsProfile DEF ParsedSoFar
    <3> QED
      BY <3>1, <3>4
  <2>2. ASSUME NEW n \in Nat, n \in Right PROVE n + 1 \in Right
    <3> SUFFICES ASSUME n + 1 <= length PROVE ParsedSoFar(stacks, p[n + 1], n + 1)
      OBVIOUS
    <3>1. p[n + 1] = ParseLine(p[n], stacks[n + 1])
      <4>1. n + 1 \in 0 .. length /\ n + 1 # 0 /\ (n + 1) - 1 = n
        BY <1>1
      <4> QED
        BY <1>4, <4>1 DEF ParseStep
    <3>2. ParsedSoFar(stacks, p[n], n)
      BY <1>1, <2>2
    <3> QED
      BY <3>1, <3>2, LineIsParsed
  <2> HIDE DEF Right
  <2>3. Nat \subseteq Right
    BY <2>1, <2>2, NumberInduction
  <2> QED
    BY <1>1, <2>3 DEF Right
<1>6. ParsedSoFar(stacks, last, length)
  <2>1. length \in 0 .. length
    BY <1>1
  <2> QED
    BY <1>5, <2>1
<1>7. S = WellFormed(stacks)
  BY DEF WellFormedIn, WellFormed
<1>8. ASSUME NEW R \in SUBSET (1 .. length) PROVE Counted(stacks, R) = CountedIn(stacks, R)
  <2> DEFINE f == [i \in R |-> stacks[i].count]
             g == [i \in 1 .. length |-> stacks[i].count]
  <2>1. IsFiniteSet(R)
    <3>1. length \in Int /\ 1 \in Int
      BY <1>1
    <3>2. IsFiniteSet(1 .. length)
      BY <3>1, FS_Interval
    <3> QED
      BY <3>2, FS_Subset
  <2>2. \A i \in R : f[i] \in Int /\ f[i] = g[i]
    <3>1. \A line \in Line : line.count \in Int
      BY CountAssumption DEF Line
    <3>2. \A i \in R : stacks[i] \in Line
      OBVIOUS
    <3> QED
      BY <3>1, <3>2
  <2>3. DOMAIN f = R
    OBVIOUS
  <2> HIDE DEF f, g
  <2>4. SumFunctionOnSet(f, R) = SumFunctionOnSet(g, R)
    BY <2>1, <2>2, SumSame
  <2>5. SumFunction(f) = SumFunctionOnSet(g, R)
    BY <2>3, <2>4 DEF SumFunction
  <2> QED
    BY <2>5 DEF f, g, Counted, CountedIn
<1>9. ASSUME NEW frame PROVE ContainingIn(stacks, length, frame) = Containing(stacks, frame)
  <2>1. ASSUME NEW i \in S
        PROVE  frame \in InclusiveFrames(stacks[i]) <=>
                   \E j \in 1 .. Len(stacks[i].frames) :
                       /\ stacks[i].frames[j] = frame
                       /\ j > 1 \/ Len(stacks[i].frames) = 1
    <3> DEFINE frames == stacks[i].frames
    <3>1. frames \in Seq(STRING) /\ frames # << >>
      <4>1. \A line \in Line : line.frames \in Seq(STRING)
        BY DEF Line
      <4>2. stacks[i] \in Line
        BY DEF WellFormedIn
      <4> QED
        BY <4>1, <4>2 DEF WellFormedIn
    <3>2. InclusiveFrames(stacks[i]) =
              {frames[j] : j \in (IF Len(frames) > 1 THEN 2 ELSE 1) .. Len(frames)}
      BY DEF InclusiveFrames
    <3> HIDE DEF frames
    <3> DEFINE size == Len(frames)
    <3>3. size \in Nat /\ size >= 1
      BY <3>1, EmptySeq
    <3>6. \A j : j \in (IF size > 1 THEN 2 ELSE 1) .. size <=>
                    j \in 1 .. size /\ (j > 1 \/ size = 1)
      <4> HIDE DEF size
      <4>1. size > 1 \/ size = 1
        BY <3>3
      <4>2. CASE size > 1
        BY <3>3, <4>2
      <4>3. CASE size = 1
        BY <4>3
      <4> QED
        BY <4>1, <4>2, <4>3
    <3>4. ASSUME NEW j
          PROVE  j \in (IF Len(frames) > 1 THEN 2 ELSE 1) .. Len(frames) <=>
                     j \in 1 .. Len(frames) /\ (j > 1 \/ Len(frames) = 1)
      BY <3>6, Zenon
    <3>5. frame \in InclusiveFrames(stacks[i]) <=>
              \E j \in 1 .. Len(frames) : frames[j] = frame /\ (j > 1 \/ Len(frames) = 1)
      BY <3>2, <3>4
    <3> QED
      BY <3>5 DEF frames
  <2> QED
    BY <1>7, <2>1 DEF ContainingIn, Containing
<1> HIDE DEF last, length
<1>10. ASSUME CountedIn(stacks, S) <= MaxCount
       PROVE  /\ last.total = CountedIn(stacks, S)
              /\ last.malformed = length - Cardinality(S)
              /\ \A frame : Count(last.inclusive, frame) =
                               CountedIn(stacks, ContainingIn(stacks, length, frame))
  BY <1>6, <1>10 DEF ParsedSoFar
<1>11. /\ S \in SUBSET (1 .. length)
       /\ \A frame : ContainingIn(stacks, length, frame) \in SUBSET (1 .. length)
  BY DEF WellFormedIn, ContainingIn
<1>12. IsProfile(last)
  BY <1>6 DEF ParsedSoFar
<1>13. Counted(stacks, WellFormed(stacks)) = CountedIn(stacks, S)
  BY <1>7, <1>8, <1>11
<1>14. ASSUME NEW frame \in DOMAIN last.inclusive
       PROVE  /\ last.inclusive[frame] = Count(last.inclusive, frame)
              /\ Counted(stacks, Containing(stacks, frame)) =
                     CountedIn(stacks, ContainingIn(stacks, length, frame))
  BY <1>8, <1>9, <1>11 DEF Count
<1> HIDE DEF S
<1>15. /\ last.total <= MaxCount
       /\ \A counts \in {last.self, last.thread, last.stack} : SumFunction(counts) = last.total
       /\ \A frame \in DOMAIN last.inclusive : last.inclusive[frame] <= last.total
       /\ last.kernel <= last.total /\ last.unresolved_leaf <= last.unresolved_stack
  BY <1>12, <1>14, CountAssumption DEF IsProfile
<1>16. ASSUME Counted(stacks, WellFormed(stacks)) <= MaxCount
       PROVE  /\ last.total = Counted(stacks, WellFormed(stacks))
              /\ last.malformed = Len(stacks) - Cardinality(WellFormed(stacks))
              /\ \A frame \in DOMAIN last.inclusive :
                     last.inclusive[frame] = Counted(stacks, Containing(stacks, frame))
  <2>1. /\ last.total = CountedIn(stacks, S) /\ last.malformed = length - Cardinality(S)
        /\ \A frame : Count(last.inclusive, frame) =
                         CountedIn(stacks, ContainingIn(stacks, length, frame))
    BY <1>10, <1>13, <1>16
  <2> QED
    BY <1>7, <1>13, <1>14, <2>1 DEF length
<1> QED
  BY <1>3, <1>15, <1>16 DEF CountsAgree

\* The tables of every report agree with its total, whatever stacks perf and Inferno folded: no
\* sample is lost or counted twice (FoldedProfile::parse and add_line).
THEOREM ReportsCountAlike == ProfileSpec => []ProfileCountsAgree
<1>1. PreparationInv => ProfileCountsAgree
  <2> SUFFICES ASSUME PreparationInv PROVE CountsAgree(lines)
    BY DEF ProfileCountsAgree
  <2>1. lines \in Foldings \union {<< >>}
    BY DEF PreparationInv, ProfileTypeOK
  <2>2. << >> \in Seq(Line)
    OBVIOUS
  <2>3. Foldings \subseteq Seq(Line)
    BY FoldingsAssumption DEF Line
  <2>4. lines \in Seq(Line)
    BY <2>1, <2>2, <2>3
  <2> QED
    BY <2>4, ParsedCountsAgree
<1> QED
  BY <1>1, PreparationInvariance, PTL
===============================================================================
