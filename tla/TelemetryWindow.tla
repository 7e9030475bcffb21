---------------------------- MODULE TelemetryWindow ----------------------------
(***************************************************************************)
(* What src/telemetry.rs writes to samples.jsonl on one monotonic clock,   *)
(* and what src/report.rs and src/comparison.rs conclude from it.          *)
(* Controller has the same sampler without clock or contents.              *)
(*                                                                         *)
(* A sample's RTP counters grow with the server and are modelled by its    *)
(* CPU ticks; RSS is left out.  The server's set of workers does not       *)
(* change and they always answer, so that the reader refuses no sample and *)
(* knows every delay.  The reader takes samples and phase markers of the   *)
(* file apart and never compares their places in it, so that they are two  *)
(* sequences here.  The file may be read whenever the run has ended or     *)
(* broken off: at any time.                                                *)
(***************************************************************************)
EXTENDS Integers, Sequences, FiniteSets, FiniteSetsExt

CONSTANTS
    TicksPerSecond,     \* of the kernel
    MaxClock,           \* bound on elapsed milliseconds
    MaxTicks,           \* bound on periodic samples
    MaxErrors,          \* bound on failures: of a scrape although the worker is there, or of it
    None

ASSUME WindowAssumption ==
    /\ TicksPerSecond \in Nat \ {0}
    /\ MaxClock \in Nat /\ MaxTicks \in Nat /\ MaxErrors \in Nat
    /\ None \notin Int /\ None \notin [at : Int, ticks : Int]

VARIABLES
    now,        \* started_at.elapsed()
    ticks,      \* of CPU that each process has used
    rtc,        \* the RTC worker runs
    event,      \* a phase event is on the worker's stdout
    mark,       \* the marker that the capture task has made and not queued
    queue,      \* the command channel of the sampler
    scrape,     \* the scrape in progress
    previous,   \* previous_server and previous_rtc
    samples,    \* samples.jsonl: its samples and errors,
    markers,    \* and its phase markers
    ended,      \* the sampler has finished
    errors

vars ==
    <<now, ticks, rtc, event, mark, queue, scrape, previous, samples, markers, ended, errors>>

Processes == {"server", "rtc"}

\* ScenarioPhase::ORDERED
Ordered == <<"setup", "warmup", "measured", "drain">>

Started == samples # << >>

Marked == Len(markers)

-------------------------------------------------------------------------------
(* The sampler. *)

Milli(used, elapsed) == (used * 100000000) \div (TicksPerSecond * elapsed)

\* cpu_percent_milli since the last sample of this process.
CpuPercent(process, at) ==
    LET last == previous[process]
    IN  IF last = None \/ at = last.at THEN None
        ELSE Milli(ticks[process] - last.ticks, at - last.at)

Present(process) == process = "server" \/ rtc

Usage(process, at) ==
    IF Present(process) THEN [ticks |-> ticks[process], percent |-> CpuPercent(process, at)]
    ELSE [ticks |-> None, percent |-> None]

\* advance_process_sample
Latest(process, at) ==
    LET last == previous[process]
    IN  IF Present(process) /\ (last = None \/ at > last.at)
        THEN [at |-> at, ticks |-> ticks[process]] ELSE last

SampleRecord(at, final) ==
    [kind |-> "sample", at |-> at, final |-> final,
     server |-> Usage("server", at), rtc |-> Usage("rtc", at)]

ErrorRecord(at, final) == [kind |-> "error", at |-> at, final |-> final]

PhaseRecord(phase, at) == [at |-> at, phase |-> phase]

\* Nothing reads the clock after the sampler has finished.
Elapse ==
    /\ now < MaxClock /\ ~ended
    /\ now' = now + 1
    /\ \E used \in {0, 1} :
           ticks' = [server |-> ticks["server"] + used,
                     rtc |-> IF rtc THEN ticks["rtc"] + 1 ELSE ticks["rtc"]]
    /\ UNCHANGED <<rtc, event, mark, queue, scrape, previous, samples, markers, ended, errors>>

\* Start and every tick of the interval; the select is biased to the commands.
BeginScrape ==
    /\ ~ended /\ scrape = None /\ queue = << >>
    /\ \/ ~Started
       \/ /\ Len(samples) <= MaxTicks
          /\ \A i \in 1 .. Len(samples) : samples[i].at < now
    /\ scrape' = [at |-> now, final |-> FALSE]
    /\ UNCHANGED <<now, ticks, rtc, event, mark, queue, previous, samples, markers, ended, errors>>

\* Mutant: a failed scrape moves the base of the next percentage.
ScrapedAnyway(ok) ==
    previous' = [process \in Processes |-> Latest(process, scrape.at)]

\* Only a scrape that succeeded moves the base of the next percentage.
Scraped(ok) ==
    previous' = IF ok THEN [process \in Processes |-> Latest(process, scrape.at)] ELSE previous

\* SamplerState::capture and write_record, with the elapsed time of the scrape's begin.
EndScrape ==
    /\ scrape # None
    /\ \/ /\ rtc \/ scrape.final
          /\ samples' = Append(samples, SampleRecord(scrape.at, scrape.final))
          /\ Scraped(TRUE)
          /\ UNCHANGED errors
       \/ /\ IF rtc \/ scrape.final THEN errors < MaxErrors /\ errors' = errors + 1
             ELSE UNCHANGED errors
          /\ samples' = Append(samples, ErrorRecord(scrape.at, scrape.final))
          /\ Scraped(FALSE)
    /\ ended' = scrape.final
    /\ scrape' = None
    /\ UNCHANGED <<now, ticks, rtc, event, mark, queue, markers>>

\* PhaseReporter::report on the worker's side: the next event comes after the answer.
Announce ==
    /\ Started /\ rtc
    /\ ~event /\ mark = None /\ queue = << >> /\ Marked < Len(Ordered)
    /\ event' = TRUE
    /\ UNCHANGED <<now, ticks, rtc, mark, queue, scrape, previous, samples, markers, ended, errors>>

\* Mutant: the marker carries the time of another process, which started before.
MarkOwnClock ==
    /\ event
    /\ event' = FALSE
    /\ mark' = PhaseRecord(Ordered[Marked + 1], now + 1)
    /\ UNCHANGED <<now, ticks, rtc, queue, scrape, previous, samples, markers, ended, errors>>

\* The capture task reads the event; TelemetryMarker::mark reads the clock, then sends.
Mark ==
    /\ event
    /\ event' = FALSE
    /\ mark' = PhaseRecord(Ordered[Marked + 1], now)
    /\ UNCHANGED <<now, ticks, rtc, queue, scrape, previous, samples, markers, ended, errors>>

SendMark ==
    /\ mark # None
    /\ queue' = Append(queue, mark)
    /\ mark' = None
    /\ UNCHANGED <<now, ticks, rtc, event, scrape, previous, samples, markers, ended, errors>>

RecordPhase ==
    /\ scrape = None /\ queue # << >>
    /\ markers' = Append(markers, Head(queue))
    /\ queue' = Tail(queue)
    /\ UNCHANGED <<now, ticks, rtc, event, mark, scrape, previous, samples, ended, errors>>

\* The worker has exited and the controller has reaped it: after all phases, unless it fails.
RtcExits ==
    /\ Started /\ rtc
    /\ rtc' = FALSE
    /\ \/ Marked = Len(Ordered) /\ UNCHANGED errors
       \/ Marked < Len(Ordered) /\ errors < MaxErrors /\ errors' = errors + 1
    /\ UNCHANGED <<now, ticks, event, mark, queue, scrape, previous, samples, markers, ended>>

\* TelemetrySampler::finish: the worker is gone, and its capture task has ended or is aborted.
Finish ==
    /\ ~rtc /\ queue = << >>
    /\ ~ended /\ scrape = None
    /\ scrape' = [at |-> now, final |-> TRUE]
    /\ event' = FALSE /\ mark' = None
    /\ UNCHANGED <<now, ticks, rtc, queue, previous, samples, markers, ended, errors>>

-------------------------------------------------------------------------------
(* The reader: parse_samples. *)

\* Errors become gaps.  sort_by_key leaves samples and gaps as they are: the sampler writes them
\* in the order of their times.
IsGap(sample) == sample.kind = "error"

Good == {i \in 1 .. Len(samples) : ~IsGap(samples[i])}

\* PhaseMarker::new, against the marker before.
NotBefore(i) == i > 1 => markers[i].at >= markers[i - 1].at

Accepted(i) == i <= Len(Ordered) /\ markers[i].phase = Ordered[i] /\ NotBefore(i)

\* The markers read, as far as none is refused.
Phases == {i \in 1 .. Len(markers) : \A j \in 1 .. i : Accepted(j)}

\* Errors, markers refused, and a sequence that is not complete.
Unavailable ==
    Len(samples) - Cardinality(Good)
    + Len(markers) - Cardinality(Phases)
    + (IF samples = << >> \/ Cardinality(Phases) = Len(Ordered) THEN 0 ELSE 1)

-------------------------------------------------------------------------------
(* TelemetrySummary::from_samples, and the comparison. *)

First == samples[1]
Final == samples[Len(samples)]

\* whole_window_endpoints
HasWindow ==
    /\ samples # << >>
    /\ ~IsGap(First) /\ ~First.final
    /\ ~IsGap(Final) /\ Final.final
    /\ Final.at > First.at

Window == Final.at - First.at

\* The time from the good sample before.
Weight(i) == samples[i].at - samples[Max({j \in Good : j < i})].at

\* The good samples after the first that have a percentage.
Weighed(process) == {i \in Good \ {1} : samples[i][process].percent # None}

\* whole_window_average
Average(process) ==
    IF ~HasWindow \/ First[process].ticks = None \/ Final[process].ticks = None
                  \/ Final[process].percent = None
    THEN None
    ELSE IF SumFunction([i \in Weighed(process) |-> Weight(i)]) # Window THEN None
    ELSE SumFunction([i \in Weighed(process) |-> samples[i][process].percent * Weight(i)])
             \div Window

\* server_cpu_ticks, from which the CPU time per delivery follows.
CpuTicks ==
    IF HasWindow /\ Final["server"].ticks > First["server"].ticks
    THEN Final["server"].ticks - First["server"].ticks ELSE None

\* TelemetrySummary::from_samples, without RSS, delays and rates.
Summary ==
    [samples |-> Cardinality(Good),
     unavailable |-> Unavailable,
     server_cpu_ticks |-> CpuTicks,
     server_cpu_percent_milli |-> Average("server"),
     server_cpu_peaks |-> {samples[i].server.percent : i \in Good} \ {None},
     rtc_cpu_percent_milli |-> Average("rtc")]

\* telemetry_complete of comparison.rs.
TelemetryComplete ==
    /\ Summary.samples > 0
    /\ Summary.unavailable = 0
    /\ Summary.server_cpu_ticks # None
    /\ Summary.server_cpu_percent_milli # None
    /\ Summary.server_cpu_peaks # {}
    /\ Summary.rtc_cpu_percent_milli # None

-------------------------------------------------------------------------------
Init ==
    /\ now = 0
    /\ ticks = [process \in Processes |-> 0]
    /\ rtc = TRUE
    /\ event = FALSE /\ mark = None /\ queue = << >> /\ scrape = None
    /\ previous = [process \in Processes |-> None]
    /\ samples = << >> /\ markers = << >> /\ ended = FALSE /\ errors = 0

Next ==
    \/ Elapse
    \/ BeginScrape \/ EndScrape \/ RecordPhase \/ Finish
    \/ Announce \/ Mark \/ SendMark \/ RtcExits

Spec == Init /\ [][Next]_vars

-------------------------------------------------------------------------------
(* Properties. *)

\* The average of the percentages that the report weighs by their intervals is the CPU use of
\* the window, up to the rounding of each: failed scrapes between them, and a final sample in
\* the same millisecond, leave no interval out and count none twice.  telemetry.rs forms the
\* percentages against the last good sample, report.rs their weights.
AverageIsWholeWindow ==
    Average("server") # None =>
        LET exact == Milli(Final["server"].ticks - First["server"].ticks, Window)
        IN  Average("server") \in {exact - 1, exact}

\* The telemetry window includes setup, warmup, measured work and drain (README.md:276-278), as
\* far as they were recorded; its samples are in the order of their times, and the reader takes
\* every phase that the sampler has recorded, whatever else that was doing when the clock was
\* read: a complete sequence counts as available.
PhasesReachTheReport ==
    /\ \A i, j \in 1 .. Len(samples) : i < j => samples[i].at <= samples[j].at
    /\ HasWindow => \A i \in 1 .. Len(markers) :
                        markers[i].at >= First.at /\ markers[i].at <= Final.at
    /\ Cardinality(Phases) = Len(markers)

\* A log without an error, with all phases and a server that did work, is complete
\* telemetry, as the comparison asks of both sides of a valid pair: it is expected to
\* be met by a run in which nothing went wrong (src/TESTS/comparison_tests.rs:20).
FaultlessIsComplete ==
    ended /\ Unavailable = 0 /\ CpuTicks # None => TelemetryComplete
===============================================================================
