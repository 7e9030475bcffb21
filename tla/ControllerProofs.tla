--------------------------- MODULE ControllerProofs ---------------------------
(***************************************************************************)
(* For every number of startup attempts, ticks and failures: a run that    *)
(* succeeds has earned it, no work outlives the run, and a phase is        *)
(* acknowledged only when it is persisted.                                 *)
(***************************************************************************)
EXTENDS Controller, SequenceTheorems, TLAPS

-------------------------------------------------------------------------------
(* The inductive invariant. *)

Starting == {"prepare", "spawn", "readiness", "profile", "launch"}
Joined   == {"join", "flush", "flushing", "result"}
Winding  == {"unprofile", "stop", "signalling", "stopping", "returned"}

\* Which processes and tasks there are at each stage of run.
StageInv ==
    /\ stage \in {"prepare", "spawn"} => attempt < StartupAttempts
    /\ stage \in Starting => rtc = "none" /\ capture = "none" /\ sampler = "none"
    /\ stage = "sampling" =>
           rtc \in {"running", "zombie"} /\ capture = "none" /\ sampler = "none"
    /\ stage = "waiting" => rtc \in {"running", "zombie"}
    /\ stage \in Joined => rtc = "gone"
    /\ stage \in Winding => rtc \in {"none", "gone"} /\ sampler # "running"
    /\ stage \in {"flush", "flushing", "result"} \union Winding => ~Working
    /\ stage = "result" => sampler # "running"
    /\ stage \in {"prepare", "spawn", "readiness"} \union (Winding \ {"unprofile"}) =>
           profiler \notin Recording
    /\ server \in {"stopping", "stopped", "failed"} => stage \in {"stopping", "returned"}
    /\ stage = "returned" => ~ServerAlive

\* The worker and the capture task take turns: an event or an acknowledgement is on its way, or
\* the capture task is about to give one, only while the worker waits.
PipeInv ==
    /\ rtc = "none" => reported = 0 /\ ~waiting
    /\ waiting => reported > 0
    /\ events # << >> => /\ waiting /\ events = <<Ordered[reported]>> /\ acks = << >>
                         /\ captured + 1 = reported
                         /\ capture \in {"none", "reading", "failed", "aborted"}
    /\ acks # << >> => /\ waiting /\ acks = <<Ordered[reported]>> /\ captured = reported
                       /\ capture \notin {"marking", "awaiting", "acking"}
    /\ capture \in {"marking", "awaiting", "acking"} => waiting /\ captured = reported
    /\ ~waiting => captured = reported
    /\ capture = "none" => captured = 0
    /\ capture = "done" => rtc # "running" /\ captured = Len(Ordered)
    /\ capture \in {"none", "reading"} => captured = reported \/ events # << >>

\* The capture task and the sampler take turns as well.
MarkerInv ==
    /\ sampler = "none" => recorded = 0 /\ reply = "none" /\ samples = << >>
    /\ capture = "none" => reply = "none" /\ recorded = 0
    /\ sampler # "running" => queue = << >>
    /\ reply = "pending" =>
           /\ capture \in {"awaiting", "aborted"}
           /\ captured \in 1 .. Len(Ordered) /\ recorded + 1 = captured
           /\ \/ queue = <<Ordered[captured]>>
              \/ (queue = <<Ordered[captured], "finish">> /\ stage = "flushing")
    /\ reply # "pending" => queue = << >> \/ (queue = <<"finish">> /\ stage = "flushing")
    /\ reply # "none" => capture \in {"awaiting", "aborted"}
    /\ reply \in {"refused", "dropped"} => sampler # "running"
    /\ capture = "awaiting" => reply # "none"
    /\ reply = "recorded" => recorded = captured
    /\ capture \in {"none", "reading", "acking", "done"} => recorded = captured
    /\ capture = "marking" => recorded + 1 = captured
    /\ ~waiting \/ acks # << >> => recorded = reported
    /\ recorded + 1 >= reported

\* What the run has not failed at.
OutcomeInv ==
    /\ rtc \in {"none", "running"} => rtc_status = "none"
    /\ rtc_status = "success" => result_file = "valid"
    /\ sampler = "finished" =>
           /\ recorded = Len(Ordered)
           /\ samples # << >> /\ samples[Len(samples)] \in {"final", "final_error"}
    /\ outcome = "ok" =>
           /\ stage \in Joined \union Winding => rtc_status = "success"
           /\ stage \in {"flush", "flushing", "result"} \union Winding => capture = "done"
           /\ stage \in {"result"} \union Winding => sampler = "finished"
           /\ stage \in {"stop", "signalling", "stopping", "returned"} =>
                  profiler \in {"off", "done"}
           /\ stage = "returned" => server \in {"stopped", "quit"}

IInv == TypeOK /\ StageInv /\ PipeInv /\ MarkerInv /\ OutcomeInv /\ Persisted(recorded)

-------------------------------------------------------------------------------
(* The stages. *)

\* What perf does by itself: it answers or ends, and what it records for is not done.
LEMMA PerfMoves ==
    ASSUME Perf
    PROVE  /\ profiler \in Recording
           /\ profiler' \in {"enabled", "disabled", "stopped", "ended", "exited"}
           /\ UNCHANGED <<stage, serverVars, workerVars, pipeVars, captureVars, samplerVars,
                          signal, outcome>>
  BY DEF Perf, PerfAnswers, PerfExits, Answer, Recording

\* StageInv: run starts and ends its processes and tasks in order.
LEMMA StageStep == IInv /\ [Next]_vars => StageInv'
<1> SUFFICES ASSUME IInv, [Next]_vars PROVE StageInv'
  OBVIOUS
<1> USE ControllerAssumption DEF IInv, TypeOK, StageInv, Starting, Joined, Winding, Working,
        Recording, ServerAlive, ServerGone, vars, serverVars, workerVars, pipeVars, captureVars,
        samplerVars
<1>1. CASE Server
  BY <1>1 DEF Server, ServerBoots, ServerDies, ServerStops, Fault
<1>2. CASE Worker
  BY <1>2 DEF Worker, Report, ReadAck, WriteResult, WorkerEnds, WorkerFails, Fault, Die
<1>3. CASE Capture
  BY <1>3 DEF Capture, CaptureRead, CaptureMark, CaptureMarked, CaptureAck, CaptureEnd,
              captureUnchanged, CaptureFailed
<1>4. CASE Sampler
  BY <1>4 DEF Sampler, Tick, RecordPhase, FinishSampling, SamplerEnds
<1>5. CASE Startup
  <2>1. CASE Prepare \/ SpawnServer \/ ServerReady
    BY <2>1 DEF Prepare, SpawnServer, ServerReady, runUnchanged, Return
  <2>2. CASE ServerNotReady
    BY <2>2 DEF ServerNotReady, runUnchanged, Return
  <2>3. CASE StartupTimeout \/ StartupInterrupted
    BY <2>3 DEF StartupTimeout, StartupInterrupted, runUnchanged, Return
  <2>4. CASE StartProfiler \/ ProfilerStarted \/ ProfilerNotStarted
    BY <2>4 DEF StartProfiler, ProfilerStarted, ProfilerNotStarted, runUnchanged
  <2> QED
    BY <1>5, <2>1, <2>2, <2>3, <2>4 DEF Startup
<1>6. CASE RunRtc
  BY <1>6 DEF RunRtc, SpawnRtc, StartTelemetry, WaitForRtc, JoinCapture, SendFinish,
              JoinSampler, runUnchanged, Reaped
<1>7. CASE Wind
  BY <1>7 DEF Wind, ReadResult, SendControl, StopProfiler, InspectServer, SignalServer,
              AwaitServer,
              runUnchanged, Return
<1>8. CASE SignalComes
  BY <1>8 DEF SignalComes
<1>9. CASE UNCHANGED vars
  BY <1>9
<1>10. CASE Perf
  BY <1>10, PerfMoves
<1> QED
  BY <1>1, <1>2, <1>3, <1>4, <1>5, <1>6, <1>7, <1>8, <1>9, <1>10 DEF Next, Returned

-------------------------------------------------------------------------------
(* The pipes of the worker. *)

\* What the operations on channels do to channels this short.
LEMMA ShortChannels ==
    ASSUME NEW x, NEW y
    PROVE  /\ Append(<< >>, x) = <<x>> /\ Append(<<x>>, y) = <<x, y>>
           /\ Head(<<x>>) = x /\ Tail(<<x>>) = << >> /\ <<x>> # << >>
           /\ Head(<<x, y>>) = x /\ Tail(<<x, y>>) = <<y>> /\ <<x, y>> # << >>
           /\ Len(<< >>) = 0 /\ Len(<<x>>) = 1 /\ Len(<<x, y>>) = 2
<1>1. Append(<< >>, x) = <<x>>
  OBVIOUS
<1>2. Append(<<x>>, y) = <<x, y>>
  <2>1. <<x>> \in Seq({x, y}) /\ y \in {x, y} /\ Len(<<x>>) = 1 /\ <<x>>[1] = x
    OBVIOUS
  <2>2. /\ Append(<<x>>, y) \in Seq({x, y}) /\ Len(Append(<<x>>, y)) = 2
        /\ Append(<<x>>, y)[1] = x /\ Append(<<x>>, y)[2] = y
    BY <2>1
  <2>3. /\ <<x, y>> \in Seq({x, y}) /\ Len(<<x, y>>) = 2
        /\ <<x, y>>[1] = x /\ <<x, y>>[2] = y
    OBVIOUS
  <2>4. \A i \in 1 .. 2 : Append(<<x>>, y)[i] = <<x, y>>[i]
    BY <2>2, <2>3
  <2> QED
    BY <2>2, <2>3, <2>4, SeqEqual
<1>3. Head(<<x>>) = x /\ Head(<<x, y>>) = x
  OBVIOUS
<1>4. Tail(<<x>>) = << >>
  OBVIOUS
<1>5. Tail(<<x, y>>) = <<y>>
  OBVIOUS
<1>6. <<x>> # << >> /\ <<x, y>> # << >>
  OBVIOUS
<1>7. Len(<< >>) = 0 /\ Len(<<x>>) = 1 /\ Len(<<x, y>>) = 2
  OBVIOUS
<1> QED
  BY <1>1, <1>2, <1>3, <1>4, <1>5, <1>6, <1>7

\* The four phases differ, and none is a sample or the end marker.
LEMMA OrderedPhases ==
    /\ Len(Ordered) = 4
    /\ \A k \in 1 .. 4 : Ordered[k] \notin Records /\ Ordered[k] # "finish"
    /\ \A k, l \in 1 .. 4 : Ordered[k] = Ordered[l] => k = l
  BY DEF Ordered, Records

\* PipeInv: worker and capture task answer each other before either goes on.
LEMMA PipeStep == IInv /\ [Next]_vars => PipeInv'
<1> SUFFICES ASSUME IInv, [Next]_vars PROVE PipeInv'
  OBVIOUS
<1>0. Len(Ordered) = 4
  BY OrderedPhases
<1> USE <1>0 DEF IInv, TypeOK, StageInv, PipeInv, Starting, vars, serverVars, workerVars,
        pipeVars, captureVars, samplerVars
<1>1. CASE Server \/ Perf
  BY <1>1 DEF Server, ServerBoots, ServerDies, ServerStops, Perf, PerfAnswers, PerfExits
<1>2. CASE Worker
  <2>1. CASE Report
    <3>1. events = << >> /\ acks = << >> /\ captured = reported
      BY <2>1 DEF Report
    <3>2. events' = <<Ordered[reported']>> /\ events' # << >>
      BY <2>1, <3>1, ShortChannels DEF Report
    <3> QED
      BY <2>1, <3>1, <3>2 DEF Report
  <2>2. CASE ReadAck
    BY <2>2, ShortChannels DEF ReadAck
  <2>3. CASE WriteResult \/ WorkerEnds \/ WorkerFails
    BY <2>3 DEF WriteResult, WorkerEnds, WorkerFails, Die
  <2> QED
    BY <1>2, <2>1, <2>2, <2>3 DEF Worker
<1>3. CASE Capture
  <2>1. CASE CaptureRead
    BY <2>1, ShortChannels DEF CaptureRead, captureUnchanged, CaptureFailed, InOrder
  <2>2. CASE CaptureMark \/ CaptureMarked
    BY <2>2 DEF CaptureMark, CaptureMarked, captureUnchanged, CaptureFailed
  <2>3. CASE CaptureAck
    BY <2>3, ShortChannels DEF CaptureAck, captureUnchanged, CaptureFailed
  <2>4. CASE CaptureEnd
    BY <2>4 DEF CaptureEnd, captureUnchanged, CaptureFailed
  <2> QED
    BY <1>3, <2>1, <2>2, <2>3, <2>4 DEF Capture
<1>4. CASE Sampler
  BY <1>4 DEF Sampler, Tick, RecordPhase, FinishSampling
<1>5. CASE Startup
  BY <1>5 DEF Startup, Prepare, SpawnServer, ServerReady, ServerNotReady, StartupTimeout,
              StartupInterrupted, StartProfiler, ProfilerStarted, ProfilerNotStarted,
              runUnchanged
<1>6. CASE RunRtc
  BY <1>6 DEF RunRtc, SpawnRtc, StartTelemetry, WaitForRtc, JoinCapture, SendFinish,
              JoinSampler, runUnchanged, Reaped
<1>7. CASE Wind
  BY <1>7 DEF Wind, ReadResult, SendControl, StopProfiler, InspectServer, SignalServer,
              AwaitServer,
              runUnchanged
<1>8. CASE SignalComes
  BY <1>8 DEF SignalComes
<1>9. CASE UNCHANGED vars
  BY <1>9
<1> QED
  BY <1>1, <1>2, <1>3, <1>4, <1>5, <1>6, <1>7, <1>8, <1>9 DEF Next, Returned

-------------------------------------------------------------------------------
(* The sampler and its commands. *)

\* MarkerInv: the marker of a phase reaches the sampler before its reply is used.
LEMMA MarkerStep == IInv /\ [Next]_vars => MarkerInv'
<1> SUFFICES ASSUME IInv, [Next]_vars PROVE MarkerInv'
  OBVIOUS
<1>0. Len(Ordered) = 4
  BY OrderedPhases
<1> USE <1>0 DEF IInv, TypeOK, MarkerInv, vars, serverVars, workerVars, pipeVars, captureVars,
        samplerVars
<1>1. CASE Server \/ Perf
  BY <1>1 DEF Server, ServerBoots, ServerDies, ServerStops, Perf, PerfAnswers, PerfExits
<1>2. CASE Worker
  <2>1. CASE Report
    BY <2>1 DEF Report, PipeInv
  <2>2. CASE ReadAck
    BY <2>2, ShortChannels DEF ReadAck, PipeInv
  <2>3. CASE WriteResult \/ WorkerEnds \/ WorkerFails
    BY <2>3 DEF WriteResult, WorkerEnds, WorkerFails
  <2> QED
    BY <1>2, <2>1, <2>2, <2>3 DEF Worker
<1>3. CASE Capture
  <2>1. CASE CaptureRead
    BY <2>1, ShortChannels DEF CaptureRead, captureUnchanged, CaptureFailed, PipeInv
  <2>2. CASE CaptureMark
    <3>1. /\ queue = << >> \/ (queue = <<"finish">> /\ stage = "flushing")
          /\ reply = "none" /\ waiting /\ captured = reported /\ acks = << >>
          /\ recorded + 1 = captured /\ captured \in 1 .. Len(Ordered)
      BY <2>2 DEF CaptureMark, PipeInv
    <3>2. queue = << >>
      BY <2>2, <3>1 DEF CaptureMark, StageInv, Working, Joined
    <3>3. Append(queue, Ordered[captured]) = <<Ordered[captured]>>
      BY <3>2, ShortChannels
    <3> QED
      BY <2>2, <3>1, <3>2, <3>3 DEF CaptureMark, captureUnchanged, CaptureFailed
  <2>3. CASE CaptureMarked
    BY <2>3 DEF CaptureMarked, captureUnchanged, CaptureFailed
  <2>4. CASE CaptureAck
    BY <2>4, ShortChannels DEF CaptureAck, captureUnchanged, CaptureFailed, PipeInv
  <2>5. CASE CaptureEnd
    BY <2>5 DEF CaptureEnd, captureUnchanged, CaptureFailed
  <2> QED
    BY <1>3, <2>1, <2>2, <2>3, <2>4, <2>5 DEF Capture
<1>4. CASE Sampler
  <2>1. CASE Tick
    BY <2>1 DEF Tick, SamplerEnds
  <2>2. CASE RecordPhase
    <3>1. /\ reply = "pending" /\ Head(queue) = Ordered[captured]
          /\ recorded + 1 = captured
      BY <2>2, ShortChannels DEF RecordPhase
    <3>2. Tail(queue) = << >> \/ (Tail(queue) = <<"finish">> /\ stage = "flushing")
      <4>1. CASE queue = <<Ordered[captured]>>
        BY <4>1, ShortChannels
      <4>2. CASE queue = <<Ordered[captured], "finish">> /\ stage = "flushing"
        <5>1. Tail(<<Ordered[captured], "finish">>) = <<"finish">>
          BY ShortChannels
        <5> QED
          BY <4>2, <5>1
      <4> QED
        BY <3>1, <4>1, <4>2
    <3>3. waiting /\ acks = << >>
      BY <3>1 DEF PipeInv
    <3>4. CASE reply' = "recorded"
      <4>1. /\ recorded' = captured /\ queue' = Tail(queue)
            /\ UNCHANGED <<stage, sampler, capture, captured, waiting, acks, reported>>
        BY <2>2, <3>1, <3>4 DEF RecordPhase
      <4>2. sampler = "running" /\ capture \in {"awaiting", "aborted"}
        BY <2>2, <3>1, <3>3 DEF RecordPhase
      <4>3. /\ reply' = "recorded" /\ waiting' /\ acks' = << >> /\ recorded' = captured'
            /\ capture' \in {"awaiting", "aborted"} /\ sampler' = "running"
            /\ queue' = << >> \/ (queue' = <<"finish">> /\ stage' = "flushing")
            /\ recorded' + 1 >= reported'
        BY <3>1, <3>2, <3>3, <3>4, <4>1, <4>2
      <4> QED
        BY <4>3
    <3>5. CASE reply' # "recorded"
      BY <2>2, <3>1, <3>3, <3>5 DEF RecordPhase
    <3> QED
      BY <3>4, <3>5
  <2>3. CASE FinishSampling
    BY <2>3, OrderedPhases, ShortChannels DEF FinishSampling, SamplerEnds
  <2> QED
    BY <1>4, <2>1, <2>2, <2>3 DEF Sampler
<1>5. CASE Startup
  BY <1>5 DEF Startup, Prepare, SpawnServer, ServerReady, ServerNotReady, StartupTimeout,
              StartupInterrupted, StartProfiler, ProfilerStarted, ProfilerNotStarted,
              runUnchanged, Return, StageInv, Starting
<1>6. CASE RunRtc
  <2>1. CASE SpawnRtc \/ WaitForRtc
    BY <2>1 DEF SpawnRtc, WaitForRtc, Reaped, StageInv, Starting
  <2>2. CASE StartTelemetry
    BY <2>2 DEF StartTelemetry, Reaped, StageInv, PipeInv
  <2>3. CASE JoinCapture
    BY <2>3 DEF JoinCapture
  <2>4. CASE SendFinish
    <3>1. CASE sampler = "running" /\ reply = "pending"
      <4>1. queue = <<Ordered[captured]>>
        BY <2>4, <3>1 DEF SendFinish
      <4>2. queue' = <<Ordered[captured], "finish">>
        BY <2>4, <3>1, <4>1, ShortChannels DEF SendFinish
      <4> QED
        BY <2>4, <3>1, <4>2 DEF SendFinish
    <3>2. CASE sampler = "running" /\ reply # "pending"
      <4>1. queue = << >>
        BY <2>4, <3>2 DEF SendFinish
      <4>2. queue' = <<"finish">>
        BY <2>4, <3>2, <4>1, ShortChannels DEF SendFinish
      <4> QED
        BY <2>4, <3>2, <4>2 DEF SendFinish
    <3>3. CASE sampler # "running"
      BY <2>4, <3>3, ShortChannels DEF SendFinish
    <3> QED
      BY <3>1, <3>2, <3>3
  <2>5. CASE JoinSampler
    BY <2>5 DEF JoinSampler, runUnchanged
  <2> QED
    BY <1>6, <2>1, <2>2, <2>3, <2>4, <2>5 DEF RunRtc
<1>7. CASE Wind
  BY <1>7 DEF Wind, ReadResult, SendControl, StopProfiler, InspectServer, SignalServer,
              AwaitServer,
              runUnchanged, Return, StageInv, Winding, Joined
<1>8. CASE SignalComes
  BY <1>8 DEF SignalComes
<1>9. CASE UNCHANGED vars
  BY <1>9
<1> QED
  BY <1>1, <1>2, <1>3, <1>4, <1>5, <1>6, <1>7, <1>8, <1>9 DEF Next, Returned

-------------------------------------------------------------------------------
(* What becomes of the run. *)

\* OutcomeInv: what the outcome of the run owes to each part.
LEMMA OutcomeStep == IInv /\ [Next]_vars => OutcomeInv'
<1> SUFFICES ASSUME IInv, [Next]_vars PROVE OutcomeInv'
  OBVIOUS
<1>0. Len(Ordered) = 4
  BY OrderedPhases
<1> USE <1>0 DEF IInv, TypeOK, OutcomeInv, StageInv, Starting, Joined, Winding, vars,
        serverVars, workerVars, pipeVars, captureVars, samplerVars
<1>1. CASE Server
  BY <1>1 DEF Server, ServerBoots, ServerDies, ServerStops
<1>2. CASE Worker
  BY <1>2 DEF Worker, Report, ReadAck, WriteResult, WorkerEnds, WorkerFails, Die
<1>3. CASE Capture
  <2>1. capture \in {"reading", "marking", "awaiting", "acking"}
    BY <1>3 DEF Capture, CaptureRead, CaptureMark, CaptureMarked, CaptureAck, CaptureEnd
  <2>2. UNCHANGED <<stage, rtc, rtc_status, result_file, sampler, recorded, samples, outcome,
                    profiler, server>>
    BY <1>3 DEF Capture, CaptureRead, CaptureMark, CaptureMarked, CaptureAck, CaptureEnd,
                captureUnchanged
  <2> QED
    BY <2>1, <2>2
<1>4. CASE Sampler
  <2>1. CASE Tick \/ RecordPhase
    BY <2>1 DEF Tick, RecordPhase, SamplerEnds
  <2>2. CASE FinishSampling
    <3>1. CASE sampler' = "finished"
      <4>1. PICK record \in FinalSample : samples' = samples \o <<record>>
        BY <2>2, <3>1 DEF FinishSampling, SamplerEnds, Write
      <4>2. /\ samples' # << >> /\ samples'[Len(samples')] = record
        BY <4>1
      <4>3. record \in {"final", "final_error"}
        BY <4>1 DEF FinalSample
      <4> QED
        BY <2>2, <3>1, <4>2, <4>3 DEF FinishSampling, SamplerEnds
    <3>2. CASE sampler' # "finished"
      BY <2>2, <3>2 DEF FinishSampling, SamplerEnds
    <3> QED
      BY <3>1, <3>2
  <2> QED
    BY <1>4, <2>1, <2>2 DEF Sampler
<1>5. CASE Startup
  <2>1. CASE Prepare \/ SpawnServer \/ ServerReady
    BY <2>1 DEF Prepare, SpawnServer, ServerReady, runUnchanged, Return
  <2>2. CASE ServerNotReady
    BY <2>2 DEF ServerNotReady, runUnchanged, Return
  <2>3. CASE StartupTimeout \/ StartupInterrupted
    BY <2>3 DEF StartupTimeout, StartupInterrupted, runUnchanged, Return, Combine
  <2>4. CASE StartProfiler \/ ProfilerStarted \/ ProfilerNotStarted
    BY <2>4 DEF StartProfiler, ProfilerStarted, ProfilerNotStarted, runUnchanged, Combine
  <2> QED
    BY <1>5, <2>1, <2>2, <2>3, <2>4 DEF Startup
<1>6. CASE RunRtc
  <2>1. CASE SpawnRtc
    BY <2>1 DEF SpawnRtc, Combine
  <2>2. CASE StartTelemetry
    BY <2>2 DEF StartTelemetry, Reaped, Combine
  <2>3. CASE WaitForRtc
    BY <2>3 DEF WaitForRtc, RtcExits, ServerExits, Deadline, Interrupted, PhaseError,
                Reaped,
                Combine
  <2>4. CASE JoinCapture \/ SendFinish
    BY <2>4 DEF JoinCapture, SendFinish, Combine
  <2>5. CASE JoinSampler
    BY <2>5 DEF JoinSampler, runUnchanged, Combine
  <2> QED
    BY <1>6, <2>1, <2>2, <2>3, <2>4, <2>5 DEF RunRtc
<1>7. CASE Wind
  <2>1. CASE ReadResult \/ SendControl \/ StopProfiler
    BY <2>1 DEF ReadResult, SendControl, StopProfiler, runUnchanged, Combine
  <2>2. CASE InspectServer \/ SignalServer
    BY <2>2 DEF InspectServer, SignalServer, runUnchanged, Return
  <2>3. CASE AwaitServer
    BY <2>3 DEF AwaitServer, runUnchanged, Return, Verdict, ServerAlive
  <2> QED
    BY <1>7, <2>1, <2>2, <2>3 DEF Wind
<1>8. CASE SignalComes
  BY <1>8 DEF SignalComes
<1>9. CASE UNCHANGED vars
  BY <1>9
<1>10. CASE Perf
  BY <1>10, PerfMoves DEF Recording
<1> QED
  BY <1>1, <1>2, <1>3, <1>4, <1>5, <1>6, <1>7, <1>8, <1>9, <1>10 DEF Next, Returned

-------------------------------------------------------------------------------
(* samples.jsonl. *)

\* The sampler's count of phases is the number it has written, in order.
LEMMA PersistedStep == IInv /\ [Next]_vars => Persisted(recorded)'
<1> SUFFICES ASSUME IInv, [Next]_vars PROVE Persisted(recorded)'
  OBVIOUS
<1> DEFINE All == Records \union {Ordered[j] : j \in 1 .. 4}
<1>0. /\ samples \in Seq(All) /\ recorded \in 0 .. 4 /\ Persisted(recorded)
      /\ sampler = "none" => samples = << >>
      /\ Len(Ordered) = 4
  BY OrderedPhases DEF IInv, TypeOK, MarkerInv
\* A record that is no phase's changes nothing.
<1>1. ASSUME NEW r \in Records, samples' = samples \o <<r>>, recorded' = recorded
      PROVE  Persisted(recorded)'
  <2>1. /\ samples' \in Seq(All) /\ Len(samples') = Len(samples) + 1
        /\ samples'[Len(samples')] = r
        /\ \A i \in 1 .. Len(samples) : samples'[i] = samples[i]
    BY <1>0, <1>1
  <2>2. DOMAIN samples' = DOMAIN samples \union {Len(samples')} /\ DOMAIN samples = 1 .. Len(samples)
    BY <1>0, <2>1
  <2>3. {samples'[i] : i \in DOMAIN samples'} \ Records = {samples[i] : i \in DOMAIN samples} \ Records
    BY <2>1, <2>2
  <2>4. ASSUME NEW k \in 1 .. 4 PROVE samples'[Len(samples')] # Ordered[k]
    BY <2>1, OrderedPhases
  <2>5. ASSUME NEW i \in DOMAIN samples', NEW j \in DOMAIN samples',
               NEW k \in 1 .. 4, NEW l \in 1 .. 4,
               i < j, samples'[i] = Ordered[k], samples'[j] = Ordered[l]
        PROVE  k < l
    <3>1. i # Len(samples') /\ j # Len(samples')
      BY <2>4, <2>5
    <3>2. /\ i \in DOMAIN samples /\ samples'[i] = samples[i]
          /\ j \in DOMAIN samples /\ samples'[j] = samples[j]
      BY <2>1, <2>2, <2>5, <3>1
    <3> QED
      BY <1>0, <2>5, <3>2 DEF Persisted
  <2> QED
    BY <1>0, <1>1, <2>3, <2>5 DEF Persisted
\* The record of the next phase comes after all others.
<1>2. ASSUME recorded < 4, samples' = samples \o <<Ordered[recorded + 1]>>,
             recorded' = recorded + 1
      PROVE  Persisted(recorded)'
  <2> DEFINE next == Ordered[recorded + 1]
  <2>0. next \in All /\ next \notin Records /\ recorded + 1 \in 1 .. 4
    BY <1>0, <1>2, OrderedPhases
  <2>1. /\ samples' \in Seq(All) /\ Len(samples') = Len(samples) + 1
        /\ samples'[Len(samples')] = next
        /\ \A i \in 1 .. Len(samples) : samples'[i] = samples[i]
    BY <1>0, <1>2, <2>0
  <2>2. DOMAIN samples' = DOMAIN samples \union {Len(samples')} /\ DOMAIN samples = 1 .. Len(samples)
    BY <1>0, <2>1
  <2>3. {samples'[i] : i \in DOMAIN samples'} \ Records
            = ({samples[i] : i \in DOMAIN samples} \ Records) \union {next}
    BY <2>0, <2>1, <2>2
  <2>4. {Ordered[k] : k \in 1 .. recorded'} = {Ordered[k] : k \in 1 .. recorded} \union {next}
    BY <1>0, <1>2
  <2>5. ASSUME NEW i \in DOMAIN samples, NEW k \in 1 .. 4, samples[i] = Ordered[k]
        PROVE  k <= recorded
    <3>1. samples[i] \in {Ordered[m] : m \in 1 .. recorded}
      BY <1>0, <2>5, OrderedPhases DEF Persisted
    <3>2. PICK m \in 1 .. recorded : samples[i] = Ordered[m]
      BY <3>1
    <3>3. m \in 1 .. 4 /\ Ordered[k] = Ordered[m]
      BY <1>0, <2>5, <3>2
    <3>4. k = m
      BY <3>3, OrderedPhases
    <3> QED
      BY <3>4
  <2>6. ASSUME NEW i \in DOMAIN samples', NEW j \in DOMAIN samples',
               NEW k \in 1 .. 4, NEW l \in 1 .. 4,
               i < j, samples'[i] = Ordered[k], samples'[j] = Ordered[l]
        PROVE  k < l
    <3>1. i \in DOMAIN samples /\ samples'[i] = samples[i]
      BY <1>0, <2>1, <2>2, <2>6
    <3>2. CASE j \in DOMAIN samples
      BY <1>0, <2>1, <2>2, <2>6, <3>1, <3>2 DEF Persisted
    <3>3. CASE j = Len(samples')
      <4>1. l = recorded + 1
        BY <2>0, <2>1, <2>6, <3>3, OrderedPhases
      <4>2. k <= recorded
        BY <2>5, <2>6, <3>1
      <4> QED
        BY <1>0, <4>1, <4>2
    <3> QED
      BY <2>2, <3>2, <3>3
  <2> QED
    BY <1>0, <2>3, <2>4, <2>6 DEF Persisted
<1>3. ASSUME UNCHANGED <<samples, recorded>> PROVE Persisted(recorded)'
  BY <1>0, <1>3 DEF Persisted
<1>4. CASE Server \/ Perf \/ Worker \/ Capture
  BY <1>3, <1>4 DEF Server, ServerBoots, ServerDies, ServerStops, Perf, PerfAnswers,
                    PerfExits,
      Worker, Report, ReadAck, WriteResult, WorkerEnds, WorkerFails,
      Capture, CaptureRead, CaptureMark, CaptureMarked, CaptureAck, CaptureEnd,
      captureUnchanged, samplerVars
<1>5. CASE Sampler
  <2>1. CASE Tick
    BY <1>1, <1>3, <2>1 DEF Tick, Sample, Write, Records
  <2>2. CASE RecordPhase
    <3>1. /\ reply = "pending" /\ Head(queue) = Ordered[captured]
          /\ recorded + 1 = captured /\ captured \in 1 .. 4
      BY <1>0, <2>2, ShortChannels DEF RecordPhase, IInv, MarkerInv
    <3>2. Head(queue) = Ordered[recorded + 1] /\ recorded < 4
      BY <1>0, <3>1
    <3> QED
      BY <1>2, <1>3, <2>2, <3>2 DEF RecordPhase, Write
  <2>3. CASE FinishSampling
    BY <1>1, <1>3, <2>3 DEF FinishSampling, FinalSample, Write, Records
  <2> QED
    BY <1>5, <2>1, <2>2, <2>3 DEF Sampler
<1>6. CASE RunRtc
  <2>1. CASE StartTelemetry
    BY <1>1, <1>3, <2>1 DEF StartTelemetry, Sample, Write, Records
  <2>2. CASE SpawnRtc \/ WaitForRtc \/ JoinCapture \/ SendFinish \/ JoinSampler
    BY <1>3, <2>2 DEF SpawnRtc, WaitForRtc, JoinCapture, SendFinish, JoinSampler,
                      runUnchanged, samplerVars
  <2> QED
    BY <1>6, <2>1, <2>2 DEF RunRtc
<1>7. CASE Startup \/ Wind \/ SignalComes \/ UNCHANGED vars
  BY <1>3, <1>7 DEF Startup, Prepare, SpawnServer, ServerReady, ServerNotReady,
      StartupTimeout, StartupInterrupted, StartProfiler, ProfilerStarted,
      ProfilerNotStarted, Wind, ReadResult, SendControl, StopProfiler,
      InspectServer, SignalServer, AwaitServer, runUnchanged, SignalComes, samplerVars, vars
<1> QED
  BY <1>4, <1>5, <1>6, <1>7 DEF Next, Returned

-------------------------------------------------------------------------------
(* Types. *)

\* The channels are as short as the turns that are taken let them be.
LEMMA ChannelsAreShort ==
    ASSUME PipeInv, MarkerInv, reported \in 0 .. 4
    PROVE  ChannelsOK
<1>1. events \in {<< >>} \union {<<Ordered[i]>> : i \in 1 .. 4}
  BY DEF PipeInv
<1>2. acks \in {<< >>} \union {<<Ordered[i]>> : i \in 1 .. 4}
  BY DEF PipeInv
<1>3. Len(queue) <= 2
  <2>1. CASE queue = << >>
    BY <2>1
  <2>2. CASE queue = <<"finish">>
    BY <2>2
  <2>3. CASE queue = <<Ordered[captured]>>
    BY <2>3
  <2>4. CASE queue = <<Ordered[captured], "finish">>
    BY <2>4
  <2> QED
    BY <2>1, <2>2, <2>3, <2>4 DEF MarkerInv
<1> QED
  BY <1>1, <1>2, <1>3 DEF ChannelsOK

\* Every record that the sampler writes is a sample or a phase.
LEMMA RecordsOnly ==
    IInv /\ [Next]_vars => samples' \in Seq(Records \union {Ordered[j] : j \in 1 .. 4})
<1> SUFFICES ASSUME IInv, [Next]_vars
             PROVE  samples' \in Seq(Records \union {Ordered[j] : j \in 1 .. 4})
  OBVIOUS
<1>1. samples \in Seq(Records \union {Ordered[j] : j \in 1 .. 4})
  BY DEF IInv, TypeOK
<1>2. ASSUME NEW r \in Records \union {Ordered[j] : j \in 1 .. 4}, Write(<<r>>)
      PROVE  samples' \in Seq(Records \union {Ordered[j] : j \in 1 .. 4})
  BY <1>1, <1>2 DEF Write
<1>3. CASE Tick
  BY <1>1, <1>2, <1>3 DEF Tick, Sample, Records
<1>4. CASE RecordPhase
  <2>1. ASSUME InOrder(Head(queue), recorded)
        PROVE  Head(queue) \in {Ordered[j] : j \in 1 .. 4}
    BY <2>1, OrderedPhases DEF InOrder, IInv, TypeOK
  <2> QED
    BY <1>1, <1>2, <1>4, <2>1 DEF RecordPhase
<1>5. CASE FinishSampling
  BY <1>1, <1>2, <1>5 DEF FinishSampling, FinalSample, Records
<1>6. CASE StartTelemetry
  BY <1>1, <1>2, <1>6 DEF StartTelemetry, Sample, Records
<1>7. CASE UNCHANGED samples
  BY <1>1, <1>7
<1> USE DEF vars, samplerVars, captureUnchanged, runUnchanged
<1>8. CASE Server \/ Perf \/ Worker \/ Capture
  BY <1>7, <1>8 DEF Server, ServerBoots, ServerDies, ServerStops, Perf, PerfAnswers,
                    PerfExits,
      Worker, Report, ReadAck, WriteResult, WorkerEnds, WorkerFails,
      Capture, CaptureRead, CaptureMark, CaptureMarked, CaptureAck, CaptureEnd
<1>9. CASE Startup
  BY <1>7, <1>9 DEF Startup, Prepare, SpawnServer, ServerReady, ServerNotReady,
      StartupTimeout, StartupInterrupted, StartProfiler, ProfilerStarted,
        ProfilerNotStarted
<1>10. CASE RunRtc
  BY <1>6, <1>7, <1>10 DEF RunRtc, SpawnRtc, WaitForRtc, JoinCapture, SendFinish,
                           JoinSampler
<1>11. CASE Wind \/ SignalComes
  BY <1>7, <1>11 DEF Wind, ReadResult, SendControl, StopProfiler, InspectServer,
                     SignalServer, AwaitServer,
      SignalComes
<1> QED
  BY <1>3, <1>4, <1>5, <1>7, <1>8, <1>9, <1>10, <1>11 DEF Next, Returned, Sampler

\* Every variable stays within its type.
LEMMA TypeStep == IInv /\ PipeInv' /\ MarkerInv' /\ [Next]_vars => TypeOK'
<1> SUFFICES ASSUME IInv, PipeInv', MarkerInv', [Next]_vars PROVE TypeOK'
  OBVIOUS
<1> DEFINE Numbers == /\ attempt \in 0 .. StartupAttempts
                      /\ reported \in 0 .. 4 /\ captured \in 0 .. 4 /\ recorded \in 0 .. 4
                      /\ ticks \in 0 .. MaxTicks /\ failures \in 0 .. MaxFailures
           States ==
               /\ stage \in Starting \union {"sampling", "waiting"} \union Joined \union Winding
               /\ server \in {"none", "booting", "up", "quit", "crashed", "stopping", "stopped",
                              "failed", "killed"}
               /\ profiler \in Recording \union {"off", "wanted", "ended", "exited", "done",
                                                 "failed", "killed"}
               /\ rtc \in {"none", "running", "zombie", "gone"}
               /\ rtc_status \in {"none", "success", "failure"}
               /\ result_file \in {"none", "stale", "valid", "invalid"}
               /\ capture \in {"none", "reading", "marking", "awaiting", "acking", "done",
                               "failed", "aborted"}
               /\ sampler \in {"none", "running", "finished", "failed"}
               /\ reply \in {"none", "pending", "recorded", "refused", "dropped"}
               /\ outcome \in {"ok", "error", "lost"}
           Flags == waiting \in BOOLEAN /\ phase_error \in BOOLEAN /\ signal \in BOOLEAN
<1>0. Len(Ordered) = 4 /\ Numbers /\ States /\ Flags
  BY OrderedPhases DEF IInv, TypeOK, Starting, Joined, Winding
<1>1. Numbers'
  <2>1. stage = "spawn" => attempt < StartupAttempts
    BY DEF IInv, StageInv
  <2> USE <1>0, <2>1, ControllerAssumption DEF vars, serverVars, workerVars, captureVars,
          samplerVars, Fault, ErrorOr, InOrder, captureUnchanged, runUnchanged
  <2>2. CASE Server \/ Perf \/ Worker
    BY <2>2 DEF Server, ServerBoots, ServerDies, ServerStops, Perf, PerfAnswers, PerfExits,
        Worker, Report, ReadAck, WriteResult, WorkerEnds, WorkerFails
  <2>3. CASE Capture
    BY <2>3 DEF Capture, CaptureRead, CaptureMark, CaptureMarked, CaptureAck, CaptureEnd
  <2>4. CASE Sampler
    BY <2>4 DEF Sampler, Tick, RecordPhase, FinishSampling
  <2>5. CASE Startup
    BY <2>5 DEF Startup, Prepare, SpawnServer, ServerReady, ServerNotReady,
        StartupTimeout, StartupInterrupted, StartProfiler, ProfilerStarted,
        ProfilerNotStarted
  <2>6. CASE RunRtc
    BY <2>6 DEF RunRtc, SpawnRtc, StartTelemetry, WaitForRtc, JoinCapture, SendFinish,
        JoinSampler
  <2>7. CASE Wind
    BY <2>7 DEF Wind, ReadResult, SendControl, StopProfiler, InspectServer, SignalServer,
                AwaitServer
  <2>8. CASE SignalComes \/ UNCHANGED vars
    BY <2>8 DEF SignalComes
  <2> QED
    BY <2>2, <2>3, <2>4, <2>5, <2>6, <2>7, <2>8 DEF Next, Returned
<1>2. States'
  <2> USE <1>0 DEF vars, serverVars, workerVars, captureVars, samplerVars, runUnchanged,
          Starting, Joined, Winding, Recording
  <2>1. CASE Server \/ Worker \/ Capture
    BY <2>1 DEF Server, ServerBoots, ServerDies, ServerStops,
        Worker, Report, ReadAck, WriteResult, WorkerEnds, WorkerFails, Die,
        Capture, CaptureRead, CaptureMark, CaptureMarked, CaptureAck, CaptureEnd,
        CaptureFailed, captureUnchanged
  <2>2. CASE Sampler
    BY <2>2 DEF Sampler, Tick, RecordPhase, FinishSampling, SamplerEnds
  <2>3. CASE Startup
    BY <2>3 DEF Startup, Prepare, SpawnServer, ServerReady, ServerNotReady,
        StartupTimeout, StartupInterrupted, StartProfiler, ProfilerStarted,
        ProfilerNotStarted, Return, Combine
  <2>4. CASE RunRtc
    BY <2>4 DEF RunRtc, SpawnRtc, StartTelemetry, WaitForRtc, JoinCapture, SendFinish,
        JoinSampler, RtcExits, ServerExits, Deadline, Interrupted, PhaseError, Reaped, Combine
  <2>5. CASE Wind
    BY <2>5 DEF Wind, ReadResult, SendControl, StopProfiler, InspectServer, SignalServer,
                AwaitServer,
        Return, Combine, Verdict
  <2>6. CASE SignalComes \/ UNCHANGED vars
    BY <2>6 DEF SignalComes
  <2>7. CASE Perf
    BY <2>7, PerfMoves
  <2> QED
    BY <2>1, <2>2, <2>3, <2>4, <2>5, <2>6, <2>7 DEF Next, Returned
<1>3. Flags'
  <2> USE <1>0 DEF vars, workerVars, captureVars, samplerVars, captureUnchanged, runUnchanged
  <2>1. CASE Server \/ Perf \/ Worker
    BY <2>1 DEF Server, ServerBoots, ServerDies, ServerStops, Perf, PerfAnswers, PerfExits,
        Worker, Report, ReadAck, WriteResult, WorkerEnds, WorkerFails
  <2>2. CASE Capture \/ Sampler
    BY <2>2 DEF Capture, CaptureRead, CaptureMark, CaptureMarked, CaptureAck, CaptureEnd,
        CaptureFailed, Sampler, Tick, RecordPhase, FinishSampling
  <2>3. CASE Startup
    BY <2>3 DEF Startup, Prepare, SpawnServer, ServerReady, ServerNotReady,
        StartupTimeout, StartupInterrupted, StartProfiler, ProfilerStarted,
        ProfilerNotStarted, Interrupted
  <2>4. CASE RunRtc
    BY <2>4 DEF RunRtc, SpawnRtc, StartTelemetry, WaitForRtc, RtcExits, ServerExits,
                Deadline,
        PhaseError, Interrupted, JoinCapture, SendFinish, JoinSampler
  <2>5. CASE Wind
    BY <2>5 DEF Wind, ReadResult, SendControl, StopProfiler, InspectServer, SignalServer,
                AwaitServer
  <2>6. CASE SignalComes \/ UNCHANGED vars
    BY <2>6 DEF SignalComes
  <2> QED
    BY <2>1, <2>2, <2>3, <2>4, <2>5, <2>6 DEF Next, Returned
<1>4. ChannelsOK'
  <2>1. (PipeInv /\ MarkerInv /\ reported \in 0 .. 4 => ChannelsOK)'
    BY ChannelsAreShort, PTL
  <2> QED
    BY <1>1, <2>1
<1> QED
  BY <1>0, <1>1, <1>2, <1>3, <1>4, RecordsOnly DEF TypeOK, Starting, Joined, Winding

-------------------------------------------------------------------------------
(* The theorems. *)

\* The controller starts in the invariant.
LEMMA InitIInv == Init => IInv
<1> SUFFICES ASSUME Init PROVE IInv
  OBVIOUS
<1>0. Len(Ordered) = 4
  BY OrderedPhases
<1> USE <1>0, ControllerAssumption DEF Init
<1>1. TypeOK
  <2>1. ChannelsOK /\ samples \in Seq(Records \union {Ordered[j] : j \in 1 .. 4})
    BY DEF ChannelsOK
  <2>2. /\ attempt \in 0 .. StartupAttempts /\ ticks \in 0 .. MaxTicks
        /\ failures \in 0 .. MaxFailures
        /\ reported \in 0 .. Len(Ordered) /\ captured \in 0 .. Len(Ordered)
        /\ recorded \in 0 .. Len(Ordered)
    OBVIOUS
  <2> QED
    BY <2>1, <2>2 DEF TypeOK
<1>2. StageInv /\ PipeInv /\ MarkerInv /\ OutcomeInv
  BY DEF StageInv, PipeInv, MarkerInv, OutcomeInv, Starting, Joined, Winding, Working,
         Recording, ServerAlive
<1>3. Persisted(recorded)
  BY DEF Persisted
<1> QED
  BY <1>1, <1>2, <1>3 DEF IInv

\* Every step keeps the invariant.
LEMMA NextIInv == IInv /\ [Next]_vars => IInv'
  BY TypeStep, StageStep, PipeStep, MarkerStep, OutcomeStep, PersistedStep DEF IInv

\* The invariant holds in every reachable state.
LEMMA Invariance == Spec => []IInv
  BY InitIInv, NextIInv, PTL DEF Spec

\* Whatever dies, fails, times out or is interrupted: a run that returns Ok has done all of its
\* seven parts well.
THEOREM SuccessfulRunsAreEarned == Spec => []SuccessIsEarned
<1>1. IInv => SuccessIsEarned
  BY OrderedPhases DEF IInv, TypeOK, OutcomeInv, Joined, Winding, SuccessIsEarned
<1> QED
  BY <1>1, Invariance, PTL

\* No worker, task or profiler is left when the server is asked to stop, and no server either
\* when run returns.
THEOREM NothingOutlivesTheRun == Spec => []WorkEndsBeforeShutdown
<1>1. IInv => WorkEndsBeforeShutdown
  BY DEF IInv, TypeOK, StageInv, Joined, Winding, WorkEndsBeforeShutdown
<1> QED
  BY <1>1, Invariance, PTL

\* No phase is acknowledged that is not in samples.jsonl, whichever of the three tasks ends
\* between its event and its acknowledgement.
THEOREM PhasesArePersistedFirst == Spec => []AcknowledgedIsPersisted
<1>1. ASSUME IInv PROVE AcknowledgedIsPersisted
  <2>1. /\ waiting \in BOOLEAN /\ recorded \in Nat /\ reported \in Nat
        /\ recorded + 1 >= reported
        /\ ~waiting \/ acks # << >> => recorded = reported
        /\ acks # << >> => waiting /\ acks = <<Ordered[reported]>>
    BY <1>1, OrderedPhases DEF IInv, TypeOK, PipeInv, MarkerInv
  <2>2. recorded >= Len(acks) + reported - (IF waiting THEN 1 ELSE 0)
    <3>1. CASE acks # << >>
      <4>1. Len(acks) = 1 /\ (IF waiting THEN 1 ELSE 0) = 1
        BY <2>1, <3>1, ShortChannels
      <4> QED
        BY <2>1, <3>1, <4>1
    <3>2. CASE acks = << >> /\ waiting
      <4>1. Len(acks) = 0 /\ (IF waiting THEN 1 ELSE 0) = 1
        BY <3>2
      <4> QED
        BY <2>1, <4>1
    <3>3. CASE acks = << >> /\ ~waiting
      <4>1. Len(acks) = 0 /\ (IF waiting THEN 1 ELSE 0) = 0
        BY <3>3
      <4> QED
        BY <2>1, <3>3, <4>1
    <3> QED
      BY <3>1, <3>2, <3>3
  <2>3. Persisted(recorded) /\ recorded \in 0 .. Len(Ordered)
    BY <1>1 DEF IInv, TypeOK
  <2> QED
    BY <2>2, <2>3 DEF AcknowledgedIsPersisted
<1> QED
  BY <1>1, Invariance, PTL
===============================================================================
