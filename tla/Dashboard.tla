------------------------------- MODULE Dashboard -------------------------------
(***************************************************************************)
(* What src/report/dashboard.rs draws of a log that TelemetryWindow wrote: *)
(* the series of its smoothed panels, the gaps that it opens where an      *)
(* interval crosses the begin of a phase, and the moving average.          *)
(*                                                                         *)
(* The server's packet counters are modelled by its CPU ticks, as in       *)
(* TelemetryWindow, and every ingress packet is forwarded once.  A worker's*)
(* bitrate is that of the sample; its number does not matter.  Scales,     *)
(* colours and layout are left out.                                        *)
(***************************************************************************)
EXTENDS TelemetryWindow, SequencesExt

Indices == 1 .. Len(samples)

Radius == 2

At(i) == samples[i].at

Counter(i) == IF IsGap(samples[i]) THEN None ELSE samples[i].server.ticks

GoodBefore(i) == {j \in Good : j < i}

-------------------------------------------------------------------------------
(* The series: a value of every sample, and where the interval of the value began. *)

\* Mutant: the interval of a value began at the sample before it, be it a gap.
PreviousSampleStarts(values) ==
    [i \in Indices |-> IF values[i] = None \/ i = 1 THEN None ELSE At(i - 1)]

PreviousValueStarts(values) ==
    [i \in Indices |->
        LET before == {j \in 1 .. i - 1 : values[j] # None}
        IN  IF values[i] = None \/ before = {} THEN None ELSE At(Max(before))]

FromPreviousValue(values) == [values |-> values, starts |-> PreviousValueStarts(values)]

\* direct_series of the CPU panel.
Cpu(process) ==
    FromPreviousValue([i \in Indices |->
        IF IsGap(samples[i]) THEN None ELSE samples[i][process].percent])

\* worker_series, for a worker that is in every sample.
WorkerBitrate == FromPreviousValue([i \in Indices |-> IF i \in Good THEN 0 ELSE None])

\* A rate of adjacent samples: none from or to a gap, over no time, or after a reset.
Rate(i) ==
    IF \/ i = 1
       \/ Counter(i - 1) = None \/ Counter(i) = None
       \/ At(i) = At(i - 1) \/ Counter(i) < Counter(i - 1)
    THEN None ELSE ((Counter(i) - Counter(i - 1)) * 1000) \div (At(i) - At(i - 1))

\* counter_series
PacketRate ==
    LET values == [i \in Indices |-> Rate(i)]
    IN  [values |-> values,
         starts |-> [i \in Indices |-> IF values[i] = None THEN None ELSE At(i - 1)]]

\* The multiplier since the good sample before, and none without ingress.
Multiplier(i) ==
    IF i \notin Good \/ GoodBefore(i) = {} THEN None
    ELSE LET last == Max(GoodBefore(i))
             packets == Counter(i) - Counter(last)
         IN  IF At(i) = At(last) \/ packets <= 0 THEN None ELSE (packets * 1000) \div packets

\* fanout_series: a gap leaves its closure before the start of an interval is pushed and before
\* previous is set, so that the starts are those of the good samples alone.
Fanout ==
    LET values == [i \in Indices |-> Multiplier(i)]
        good == SetToSortSeq(Good, LAMBDA i, j : i < j)
    IN  [values |-> values,
         starts |-> [k \in 1 .. Len(good) |->
                        IF values[good[k]] = None THEN None ELSE At(good[k - 1])]]

-------------------------------------------------------------------------------
(* DashboardData::new and the drawing of a smoothed series. *)

\* gap_phase_crossings: values and starts are zipped.
Gapped(series) ==
    LET begins == {markers[i].at : i \in Phases}
        Crosses(i) == \E begin \in begins : series.starts[i] < begin /\ begin <= At(i)
    IN  [i \in Indices |->
            IF /\ i \in DOMAIN series.starts
               /\ series.values[i] # None /\ series.starts[i] # None
               /\ Crosses(i)
            THEN None ELSE series.values[i]]

\* Those of the contiguous segment of i that moving_average takes together.
Window5(values, i) ==
    {j \in Indices :
        /\ j >= i - Radius /\ j <= i + Radius
        /\ \A k \in Indices : (i <= k /\ k <= j) \/ (j <= k /\ k <= i) => values[k] # None}

\* moving_average of the values that are left.
Smoothed(series) ==
    LET values == Gapped(series)
    IN  [i \in Indices |->
            IF values[i] = None THEN None
            ELSE LET window == Window5(values, i)
                 IN  SumFunctionOnSet(values, window) \div Cardinality(window)]

-------------------------------------------------------------------------------
(* Properties. *)

\* How many phases have begun at each sample.
PhasesBegun ==
    LET begins == {markers[i] : i \in 1 .. Len(markers)}
    IN  [i \in Indices |-> Cardinality({begin \in begins : begin.at <= At(i)})]

\* The samples before which the server's work, since the last good one, falls into one phase.
Pure ==
    LET begun == PhasesBegun
    IN  {i \in Indices : GoodBefore(i) # {} /\ begun[Max(GoodBefore(i))] = begun[i]}

\* A percentage is taken of the time since the sampler's base.  The first one has no earlier
\* value: the dashboard does not know that its interval began at the first sample.
IsFirst(series, i) == \A j \in 1 .. i - 1 : series.values[j] = None

\* "Smoothed lines exclude phase-crossing intervals" (README.md:167-168): an average of CPU,
\* packets or worker bitrates has no part that was observed over the begin of a phase, whatever
\* scrapes have failed, and its parts are of one phase; and nothing else is left out of it.  The
\* first value of a gauge is excepted.  Dashboards are drawn after the run (README.md:161-162).
SmoothedWithinPhase == ended =>
    LET pure == Pure
        begun == PhasesBegun
    IN  \A series \in {Cpu("server"), Cpu("rtc"), WorkerBitrate, PacketRate} :
            LET kept == Gapped(series)
                smoothed == Smoothed(series)
            IN  \A i \in Indices :
                    /\ series.values[i] # None /\ i \in pure => smoothed[i] # None
                    /\ smoothed[i] # None =>
                           \A j \in Window5(kept, i) :
                               /\ begun[j] = begun[i]
                               /\ j \in pure \/ (series # PacketRate /\ IsFirst(series, j))

\* The same of the observed fanout, which the README says "uses adjacent forwarded-local and
\* ingress packet deltas" (README.md:171-172).
SmoothedFanoutWithinPhase == ended =>
    \A i \in Indices :
        Smoothed(Fanout)[i] # None => Window5(Gapped(Fanout), i) \subseteq Pure
===============================================================================
