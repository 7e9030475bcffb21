------------------------------ MODULE Controller ------------------------------
(***************************************************************************)
(* One load run as src/src/controller.rs conducts it: the server process,  *)
(* the RTC worker process, the task that captures the worker's phases, the *)
(* telemetry sampler of src/src/telemetry.rs, the optional profiler, and   *)
(* the future of controller::run that waits for all of them.               *)
(*                                                                         *)
(* The worker is what ScenarioSync shows it to be: it reports the phases   *)
(* in order, waits for each acknowledgement, writes result.json, and exits *)
(* with an error when anything fails.  Processes may die at any time; time *)
(* is abstract, so a timeout may fire whenever the code waits under it.    *)
(* MaxTicks bounds the periodic samples that are modelled, MaxFailures the *)
(* failing writes, requests and child processes.                           *)
(***************************************************************************)
EXTENDS Naturals, Sequences, FiniteSets

CONSTANTS
    StartupAttempts,    \* STARTUP_ATTEMPTS
    MaxTicks,
    MaxFailures

ASSUME ControllerAssumption ==
    /\ StartupAttempts \in Nat \ {0}
    /\ MaxTicks \in Nat
    /\ MaxFailures \in Nat

VARIABLES
    stage,          \* where controller::run is
    attempt,        \* startup attempts made
    server,         \* the o-sfu process
    profiler,       \* perf record: the command it was last sent, and whether it has answered
    rtc,            \* the RTC worker process
    rtc_status,     \* how it exited
    reported,       \* phases the worker has begun to report
    events,         \* its stdout: events not yet read
    acks,           \* its stdin: acknowledgements not yet read
    waiting,        \* the worker waits for an acknowledgement
    result_file,    \* result.json
    capture,        \* the task of capture_rtc_phases
    captured,       \* its PhaseSequence.count
    phase_error,    \* its oneshot to wait_for_rtc_worker
    sampler,        \* the task of run_sampler
    queue,          \* its command channel
    reply,          \* the oneshot of the phase marker being recorded
    samples,        \* the records of samples.jsonl
    recorded,       \* the PhaseSequence.count of its SamplerState
    ticks,
    signal,         \* SIGINT or SIGTERM has come and was not taken
    outcome,        \* what run has come to so far: "ok" or "error"
    failures

serverVars  == <<attempt, server>>
workerVars  == <<rtc, rtc_status, reported, waiting, result_file>>
pipeVars    == <<events, acks>>
captureVars == <<capture, captured, phase_error>>
samplerVars == <<sampler, queue, reply, samples, recorded, ticks>>
vars == <<stage, serverVars, profiler, workerVars, pipeVars, captureVars, samplerVars,
          signal, outcome, failures>>

\* ScenarioPhase::ORDERED
Ordered == <<"setup", "warmup", "measured", "drain">>

\* PhaseSequence::advance, after count phases.
InOrder(phase, count) == count < Len(Ordered) /\ phase = Ordered[count + 1]

Fault == failures < MaxFailures /\ failures' = failures + 1

\* An error that the state forces, or one from outside.
ErrorOr(forced) == IF forced THEN UNCHANGED failures ELSE Fault

ServerAlive == server \in {"booting", "up", "stopping"}
ServerGone  == server \in {"quit", "crashed"}     \* it exited unasked, with success or not

-------------------------------------------------------------------------------
(* The server. *)

ServerBoots ==
    /\ server = "booting"
    /\ server' = "up"
    /\ UNCHANGED <<stage, attempt, profiler, workerVars, pipeVars, captureVars, samplerVars,
                   signal, outcome, failures>>

\* It may lose the race for its port, or die later.
ServerDies ==
    /\ server \in {"booting", "up"}
    /\ Fault
    /\ server' \in {"quit", "crashed"}
    /\ UNCHANGED <<stage, attempt, profiler, workerVars, pipeVars, captureVars, samplerVars,
                   signal, outcome>>

\* After SIGTERM: a clean exit or a failing one.
ServerStops ==
    /\ server = "stopping"
    /\ \/ server' = "stopped" /\ UNCHANGED failures
       \/ server' = "failed" /\ Fault
    /\ UNCHANGED <<stage, attempt, profiler, workerVars, pipeVars, captureVars, samplerVars,
                   signal, outcome>>

-------------------------------------------------------------------------------
(* perf record. *)

\* What perf answers to a command on its control channel.
Answer == [enable |-> "enabled", disable |-> "disabled", stop |-> "stopped"]

Recording == {"enable", "enabled", "disable", "disabled", "stop", "stopped"}

\* It may take any time to answer, or never do so.
PerfAnswers ==
    /\ profiler \in DOMAIN Answer
    /\ profiler' = Answer[profiler]
    /\ UNCHANGED <<stage, serverVars, workerVars, pipeVars, captureVars, samplerVars, signal,
                   outcome, failures>>

\* It ends when it was told to stop; unasked, with the server or for a reason of its own.
PerfExits ==
    /\ profiler \in Recording
    /\ \/ profiler = "stopped" /\ profiler' = "ended" /\ UNCHANGED failures
       \/ profiler' = "exited" /\ ErrorOr(ServerGone)
    /\ UNCHANGED <<stage, serverVars, workerVars, pipeVars, captureVars, samplerVars, signal,
                   outcome>>

-------------------------------------------------------------------------------
(* The RTC worker: src/src/bin/o-sfu-load-rtc.rs around client::run. *)

Report ==
    /\ rtc = "running"
    /\ ~waiting
    /\ reported < Len(Ordered)
    /\ events' = Append(events, Ordered[reported + 1])
    /\ reported' = reported + 1
    /\ waiting' = TRUE
    /\ UNCHANGED <<stage, serverVars, profiler, rtc, rtc_status, result_file, acks,
                   captureVars, samplerVars, signal, outcome, failures>>

ReadAck ==
    /\ rtc = "running"
    /\ waiting
    /\ acks # << >>
    /\ acks' = Tail(acks)
    /\ waiting' = FALSE
    /\ UNCHANGED <<stage, serverVars, profiler, rtc, rtc_status, reported, result_file, events,
                   captureVars, samplerVars, signal, outcome, failures>>

\* write_result, before the counts are validated.
WriteResult ==
    /\ rtc = "running"
    /\ ~waiting
    /\ reported = Len(Ordered)
    /\ result_file \notin {"valid", "invalid"}
    /\ \/ result_file' = "valid" /\ UNCHANGED failures
       \/ result_file' = "invalid" /\ Fault
    /\ UNCHANGED <<stage, serverVars, profiler, rtc, rtc_status, reported, waiting, pipeVars,
                   captureVars, samplerVars, signal, outcome>>

Die(status) == rtc' = "zombie" /\ rtc_status' = status

\* The worker validates what it wrote.
WorkerEnds ==
    /\ rtc = "running"
    /\ result_file \in {"valid", "invalid"}
    /\ reported = Len(Ordered) /\ ~waiting
    /\ Die(IF result_file = "valid" THEN "success" ELSE "failure")
    /\ UNCHANGED <<stage, serverVars, profiler, reported, waiting, result_file, pipeVars,
                   captureVars, samplerVars, signal, outcome, failures>>

\* It fails or crashes, without its server or the end of the controller's pipe too.
WorkerFails ==
    /\ rtc = "running"
    /\ \/ Fault
       \/ ServerGone /\ UNCHANGED failures
       \/ waiting /\ acks = << >> /\ capture \in {"failed", "aborted"} /\ UNCHANGED failures
    /\ Die("failure")
    /\ UNCHANGED <<stage, serverVars, profiler, reported, waiting, result_file, pipeVars,
                   captureVars, samplerVars, signal, outcome>>

-------------------------------------------------------------------------------
(* The telemetry sampler. *)

Write(records) == samples' = samples \o records

\* A sample that is not the last needs both processes: SamplerState::capture.
Sample == IF rtc \in {"running", "zombie"} /\ server = "up"
          THEN {"sample", "error"} ELSE {"error"}

\* The last one needs the server alone.
FinalSample == IF server = "up" THEN {"final", "final_error"} ELSE {"final_error"}

\* A task that ends drops its receiver and every command in it.
SamplerEnds(how) ==
    /\ sampler' = how
    /\ queue' = << >>
    /\ reply' = IF reply = "pending" THEN "dropped" ELSE reply

\* A tick, when no command is there: the select is biased.
Tick ==
    /\ sampler = "running"
    /\ queue = << >>
    /\ ticks < MaxTicks
    /\ ticks' = ticks + 1
    /\ \/ /\ \E s \in Sample : Write(<<s>>)
          /\ UNCHANGED <<sampler, queue, reply, failures>>
       \/ /\ Fault                          \* write_record fails
          /\ SamplerEnds("failed")
          /\ UNCHANGED samples
    /\ UNCHANGED <<stage, serverVars, profiler, workerVars, pipeVars, captureVars, recorded,
                   signal, outcome>>

\* record_phase: the marker is answered once its record is flushed.  An error ends the task, and
\* its count with it.
RecordPhase ==
    /\ sampler = "running"
    /\ queue # << >> /\ Head(queue) # "finish"
    /\ \/ /\ InOrder(Head(queue), recorded)
          /\ Write(<<Head(queue)>>)
          /\ recorded' = recorded + 1
          /\ queue' = Tail(queue)
          /\ reply' = "recorded"
          /\ UNCHANGED <<sampler, failures>>
       \/ /\ ErrorOr(~InOrder(Head(queue), recorded))
          /\ sampler' = "failed"
          /\ queue' = << >>
          /\ reply' = "refused"
          /\ UNCHANGED <<samples, recorded>>
    /\ UNCHANGED <<stage, serverVars, profiler, workerVars, pipeVars, captureVars, ticks,
                   signal, outcome>>

\* The final sample, then PhaseSequence::finish.
FinishSampling ==
    /\ sampler = "running"
    /\ queue # << >> /\ Head(queue) = "finish"
    /\ \/ /\ \E s \in FinalSample : Write(<<s>>)
          /\ SamplerEnds(IF recorded = Len(Ordered) THEN "finished" ELSE "failed")
          /\ UNCHANGED failures
       \/ /\ Fault
          /\ SamplerEnds("failed")
          /\ UNCHANGED samples
    /\ UNCHANGED <<stage, serverVars, profiler, workerVars, pipeVars, captureVars, recorded,
                   ticks, signal, outcome>>

-------------------------------------------------------------------------------
(* The task of capture_rtc_phases. *)

\* Its oneshot tells wait_for_rtc_worker of an error.
CaptureFailed == capture' = "failed" /\ phase_error' = TRUE

captureUnchanged == <<stage, serverVars, profiler, workerVars, ticks, samples, recorded, sampler,
                      signal, outcome>>

CaptureRead ==
    /\ capture = "reading"
    /\ events # << >>
    /\ events' = Tail(events)
    /\ \/ /\ InOrder(Head(events), captured)
          /\ captured' = captured + 1
          /\ capture' = "marking"
          /\ UNCHANGED <<phase_error, failures>>
       \/ /\ ErrorOr(~InOrder(Head(events), captured))      \* rtc.stdout.log
          /\ CaptureFailed
          /\ UNCHANGED captured
    /\ UNCHANGED <<captureUnchanged, acks, queue, reply>>

\* Mutant: the worker is acknowledged before the record is flushed.
CaptureMarkAndGo ==
    /\ capture = "marking"
    /\ sampler = "running"
    /\ queue' = Append(queue, Ordered[captured])
    /\ capture' = "acking"
    /\ UNCHANGED <<captureUnchanged, pipeVars, captured, reply, failures, phase_error>>

\* TelemetryMarker::mark sends the phase with its oneshot.
CaptureMark ==
    /\ capture = "marking"
    /\ \/ /\ sampler = "running"
          /\ queue' = Append(queue, Ordered[captured])
          /\ reply' = "pending"
          /\ capture' = "awaiting"
          /\ UNCHANGED phase_error
       \/ /\ sampler # "running"
          /\ CaptureFailed
          /\ UNCHANGED <<queue, reply>>
    /\ UNCHANGED <<captureUnchanged, pipeVars, captured, failures>>

CaptureMarked ==
    /\ capture = "awaiting"
    /\ reply # "pending"
    /\ reply' = "none"
    /\ \/ reply = "recorded" /\ capture' = "acking" /\ UNCHANGED phase_error
       \/ reply \in {"refused", "dropped"} /\ CaptureFailed
    /\ UNCHANGED <<captureUnchanged, pipeVars, captured, queue, failures>>

CaptureAck ==
    /\ capture = "acking"
    /\ \/ /\ rtc = "running"
          /\ acks' = Append(acks, Ordered[captured])
          /\ capture' = "reading"
          /\ UNCHANGED phase_error
       \/ /\ rtc # "running"
          /\ CaptureFailed
          /\ UNCHANGED acks
    /\ UNCHANGED <<captureUnchanged, events, captured, queue, reply, failures>>

\* The worker's end of the pipe is closed: PhaseSequence::finish.
CaptureEnd ==
    /\ capture = "reading"
    /\ events = << >> /\ rtc # "running"
    /\ IF captured = Len(Ordered)
       THEN capture' = "done" /\ UNCHANGED phase_error
       ELSE CaptureFailed
    /\ UNCHANGED <<captureUnchanged, pipeVars, captured, queue, reply, failures>>

-------------------------------------------------------------------------------
(* controller::run: from the stale artifacts to a server that is ready. *)

\* ShutdownSignals::recv; a second signal is coalesced with the first.
SignalComes ==
    /\ stage # "prepare"
    /\ ~signal
    /\ signal' = TRUE
    /\ UNCHANGED <<stage, serverVars, profiler, workerVars, pipeVars, captureVars, samplerVars,
                   outcome, failures>>

\* What run owns dies with it: kill_on_drop.
Return(result) ==
    /\ stage' = "returned"
    /\ outcome' = result
    /\ server' = IF ServerAlive THEN "killed" ELSE server
    /\ profiler' = IF profiler \in Recording THEN "killed" ELSE profiler

\* Mutant: the last part decides.
CombineLast(result) == outcome' = result
\* A failure on the way is combined with what came before; a lost server stays one.
Combine(result) == outcome' = IF outcome = "ok" THEN result ELSE outcome

Prepare ==
    /\ stage = "prepare"
    /\ \/ /\ result_file' = "none"
          /\ stage' = "spawn"
          /\ UNCHANGED <<server, profiler, outcome, failures>>
       \/ Fault /\ Return("error") /\ UNCHANGED result_file
    /\ UNCHANGED <<attempt, rtc, rtc_status, reported, waiting, pipeVars, captureVars,
                   samplerVars, signal>>

runUnchanged == <<workerVars, pipeVars, captureVars, samplerVars>>

SpawnServer ==
    /\ stage = "spawn"
    /\ attempt' = attempt + 1
    /\ \/ /\ server' = "booting"
          /\ stage' = "readiness"
          /\ UNCHANGED <<profiler, outcome, failures>>
       \/ Fault /\ Return("error")
    /\ UNCHANGED <<runUnchanged, signal>>

ServerReady ==
    /\ stage = "readiness"
    /\ server = "up"
    /\ stage' = "profile"
    /\ UNCHANGED <<serverVars, profiler, runUnchanged, signal, outcome, failures>>

\* The poll saw it exit, or the startup deadline passed over its death.
ServerNotReady ==
    /\ stage = "readiness"
    /\ ServerGone
    /\ IF attempt < StartupAttempts
       THEN stage' = "spawn" /\ UNCHANGED <<server, profiler, outcome>>
       ELSE Return("error")
    /\ UNCHANGED <<attempt, runUnchanged, signal, failures>>

StartupTimeout ==
    /\ stage = "readiness"
    /\ ServerAlive
    /\ stage' = "stop"
    /\ Combine("error")
    /\ UNCHANGED <<serverVars, profiler, runUnchanged, signal, failures>>

StartupInterrupted ==
    /\ stage = "readiness"
    /\ signal
    /\ signal' = FALSE
    /\ \/ ServerGone /\ Return("error")
       \/ ServerAlive /\ stage' = "stop" /\ Combine("error") /\ UNCHANGED <<server, profiler>>
    /\ UNCHANGED <<attempt, runUnchanged, failures>>

\* ServerProfiler::start spawns perf and sends it "enable".
StartProfiler ==
    /\ stage = "profile"
    /\ \/ /\ profiler = "off"
          /\ stage' = "launch"
          /\ UNCHANGED <<profiler, outcome, failures>>
       \/ /\ profiler = "wanted"
          /\ profiler' = "enable"
          /\ UNCHANGED <<stage, outcome, failures>>
       \/ /\ profiler = "wanted"
          /\ Fault
          /\ profiler' = "failed" /\ stage' = "stop" /\ Combine("error")
    /\ UNCHANGED <<serverVars, runUnchanged, signal>>

ProfilerStarted ==
    /\ stage = "profile"
    /\ profiler = "enabled"
    /\ stage' = "launch"
    /\ UNCHANGED <<serverVars, profiler, runUnchanged, signal, outcome, failures>>

\* CONTROL_TIMEOUT, or the channel is closed: perf is dropped, and so killed.
ProfilerNotStarted ==
    /\ stage = "profile"
    /\ profiler \in {"enable", "exited"}
    /\ profiler' = "failed" /\ stage' = "stop" /\ Combine("error")
    /\ UNCHANGED <<serverVars, runUnchanged, signal, failures>>

-------------------------------------------------------------------------------
(* run_rtc_worker. *)

SpawnRtc ==
    /\ stage = "launch"
    /\ \/ rtc' = "running" /\ stage' = "sampling" /\ UNCHANGED <<outcome, failures>>
       \/ Fault /\ Combine("error") /\ stage' = "unprofile" /\ UNCHANGED rtc
    /\ UNCHANGED <<serverVars, profiler, rtc_status, reported, waiting, result_file, pipeVars,
                   captureVars, samplerVars, signal>>

\* A dropped worker is killed and its pipes are closed.
Reaped == rtc' = "gone"

\* TelemetrySampler::start records the first sample; then the capture task is spawned.
StartTelemetry ==
    /\ stage = "sampling"
    /\ \/ /\ \E s \in Sample : Write(<<s>>)
          /\ sampler' = "running" /\ capture' = "reading"
          /\ stage' = "waiting"
          /\ UNCHANGED <<rtc, outcome, failures>>
       \/ /\ Fault
          /\ Reaped /\ Combine("error") /\ stage' = "unprofile"
          /\ UNCHANGED <<samples, sampler, capture>>
    /\ UNCHANGED <<serverVars, profiler, rtc_status, reported, waiting, result_file, pipeVars,
                   captured, phase_error, queue, reply, recorded, ticks, signal>>

\* The branches of wait_for_rtc_worker, none before another.
RtcExits ==
    /\ rtc = "zombie"
    /\ Combine(IF rtc_status = "success" THEN "ok" ELSE "error")
    /\ UNCHANGED signal

ServerExits == ServerGone /\ Combine("lost") /\ UNCHANGED signal

\* Mutant: the deadline covers the drain alone.
LateDeadline == reported = Len(Ordered) /\ Combine("error") /\ UNCHANGED signal
\* rtc_worker_deadline covers the whole run of the worker.
Deadline == Combine("error") /\ UNCHANGED signal

Interrupted == signal /\ signal' = FALSE /\ Combine("error")

PhaseError == phase_error /\ Combine("error") /\ UNCHANGED signal

\* Whatever ends the wait, the worker is gone after it: stop_rtc_worker.
WaitForRtc ==
    /\ stage = "waiting"
    /\ RtcExits \/ ServerExits \/ Deadline \/ Interrupted \/ PhaseError
    /\ Reaped
    /\ stage' = "join"
    /\ UNCHANGED <<serverVars, profiler, rtc_status, reported, waiting, result_file, pipeVars,
                   captureVars, samplerVars, failures>>

\* Mutant: a phase task that does not end in time is left behind.
LeaveCapture ==
    /\ stage = "join"
    /\ \/ capture = "done" /\ UNCHANGED outcome
       \/ capture # "done" /\ Combine("error")
    /\ stage' = "flush"
    /\ UNCHANGED <<serverVars, profiler, workerVars, pipeVars, captureVars, samplerVars, signal,
                   failures>>

\* phase_task within SHUTDOWN_TIMEOUT, or aborted: combine_rtc_and_phases.
JoinCapture ==
    /\ stage = "join"
    /\ \/ capture = "done" /\ UNCHANGED <<capture, outcome>>
       \/ capture = "failed" /\ Combine("error") /\ UNCHANGED capture
       \/ /\ capture \notin {"done", "failed"}
          /\ capture' = "aborted" /\ Combine("error")
    /\ stage' = "flush"
    /\ UNCHANGED <<serverVars, profiler, workerVars, pipeVars, captured, phase_error,
                   samplerVars, signal, failures>>

\* TelemetrySampler::finish: the command, then the end of the task.
SendFinish ==
    /\ stage = "flush"
    /\ queue' = IF sampler = "running" THEN Append(queue, "finish") ELSE queue
    /\ stage' = "flushing"
    /\ UNCHANGED <<serverVars, profiler, workerVars, pipeVars, captureVars, sampler, reply,
                   samples, recorded, ticks, signal, outcome, failures>>

JoinSampler ==
    /\ stage = "flushing"
    /\ sampler # "running"
    /\ Combine(IF sampler = "finished" THEN "ok" ELSE "error")
    /\ stage' = "result"
    /\ UNCHANGED <<serverVars, profiler, runUnchanged, signal, failures>>

-------------------------------------------------------------------------------
(* The end of controller::run. *)

\* ScenarioResult::validate looks at the scenario and the counts: it may accept the file of an
\* earlier run.
ReadResult ==
    /\ stage = "result"
    /\ \/ result_file \in {"valid", "stale"} /\ Combine("ok")
       \/ result_file \in {"none", "stale", "invalid"} /\ Combine("error")
    /\ stage' = "unprofile"
    /\ UNCHANGED <<serverVars, profiler, runUnchanged, signal, failures>>

\* ServerProfiler::finish sends "disable", then "stop", each answered before the next.
SendControl ==
    /\ stage = "unprofile"
    /\ \/ profiler = "enabled" /\ profiler' = "disable"
       \/ profiler = "disabled" /\ profiler' = "stop"
    /\ UNCHANGED <<stage, serverVars, runUnchanged, signal, outcome, failures>>

\* perf has exited in time and its metadata is written; or CONTROL_TIMEOUT or STOP_TIMEOUT
\* passes, the channel is closed, perf.data is empty: then perf is killed.
StopProfiler ==
    /\ stage = "unprofile"
    /\ \/ profiler = "off" /\ UNCHANGED <<profiler, outcome, failures>>
       \/ profiler = "ended" /\ profiler' = "done" /\ UNCHANGED <<outcome, failures>>
       \/ /\ profiler \in {"disable", "stop", "stopped", "ended", "exited"}
          /\ ErrorOr(profiler # "ended")
          /\ profiler' = "failed" /\ Combine("error")
    /\ stage' = "stop"
    /\ UNCHANGED <<serverVars, runUnchanged, signal>>

Verdict == IF outcome = "ok" THEN "ok" ELSE "error"

\* stop_server, unless the server was seen to exit: it must not have gone before.
InspectServer ==
    /\ stage = "stop"
    /\ \/ outcome = "lost" /\ Return("error")
       \/ outcome # "lost" /\ ServerGone /\ Return("error")
       \/ /\ outcome # "lost" /\ ServerAlive
          /\ stage' = "signalling"
          /\ UNCHANGED <<server, profiler, outcome>>
    /\ UNCHANGED <<attempt, runUnchanged, signal, failures>>

\* SIGTERM; it is lost on a server that has just exited.
SignalServer ==
    /\ stage = "signalling"
    /\ \/ /\ server' = IF ServerAlive THEN "stopping" ELSE server
          /\ stage' = "stopping"
          /\ UNCHANGED <<profiler, outcome, failures>>
       \/ Fault /\ Return("error")
    /\ UNCHANGED <<attempt, runUnchanged, signal>>

AwaitServer ==
    /\ stage = "stopping"
    /\ \/ server \in {"stopped", "quit"} /\ Return(Verdict)
       \/ server \in {"failed", "crashed"} /\ Return("error")
       \/ ServerAlive /\ Return("error")             \* SHUTDOWN_TIMEOUT
    /\ UNCHANGED <<attempt, runUnchanged, signal, failures>>

\* run has returned; nothing is left to do.
Returned ==
    /\ stage = "returned"
    /\ UNCHANGED vars

-------------------------------------------------------------------------------
Init ==
    /\ stage = "prepare" /\ attempt = 0
    /\ server = "none" /\ profiler \in {"off", "wanted"}
    /\ rtc = "none" /\ rtc_status = "none" /\ reported = 0 /\ waiting = FALSE
    /\ events = << >> /\ acks = << >>
    /\ result_file \in {"none", "stale"}
    /\ capture = "none" /\ captured = 0 /\ phase_error = FALSE
    /\ sampler = "none" /\ queue = << >> /\ reply = "none"
    /\ samples = << >> /\ recorded = 0 /\ ticks = 0
    /\ signal = FALSE /\ outcome = "ok" /\ failures = 0

Server  == ServerBoots \/ ServerDies \/ ServerStops
Perf    == PerfAnswers \/ PerfExits
Worker  == Report \/ ReadAck \/ WriteResult \/ WorkerEnds \/ WorkerFails
Capture == CaptureRead \/ CaptureMark \/ CaptureMarked \/ CaptureAck \/ CaptureEnd
Sampler == Tick \/ RecordPhase \/ FinishSampling
Startup == Prepare \/ SpawnServer \/ ServerReady \/ ServerNotReady \/ StartupTimeout
           \/ StartupInterrupted \/ StartProfiler \/ ProfilerStarted \/ ProfilerNotStarted
RunRtc  == SpawnRtc \/ StartTelemetry \/ WaitForRtc \/ JoinCapture \/ SendFinish \/ JoinSampler
Wind    == ReadResult \/ SendControl \/ StopProfiler \/ InspectServer \/ SignalServer
           \/ AwaitServer

Next ==
    \/ Server \/ Perf \/ Worker \/ Capture \/ Sampler
    \/ Startup \/ RunRtc \/ Wind \/ SignalComes \/ Returned

Spec == Init /\ [][Next]_vars

\* What run waits for without help has a deadline: readiness, the worker, the phase task, perf's
\* answers and exit, the server's end; and so have the sampler's requests.  Taken to end are
\* the kernel's part (a killed child is reaped, files are written) and the helpers kill and
\* getconf.  Nothing is asked of the server, the worker, the phase task and perf.
Fairness == WF_vars(Startup \/ RunRtc \/ Wind) /\ WF_vars(Sampler)

FairSpec == Spec /\ Fairness

-------------------------------------------------------------------------------
(* Properties. *)

Records == {"sample", "error", "final", "final_error"}

ChannelsOK ==
    /\ events \in {<< >>} \union {<<Ordered[i]>> : i \in 1 .. 4}
    /\ acks \in {<< >>} \union {<<Ordered[i]>> : i \in 1 .. 4}
    /\ Len(queue) <= 2

TypeOK ==
    /\ stage \in {"prepare", "spawn", "readiness", "profile", "launch", "sampling", "waiting",
                  "join", "flush", "flushing", "result", "unprofile", "stop", "signalling",
                  "stopping", "returned"}
    /\ attempt \in 0 .. StartupAttempts
    /\ server \in {"none", "booting", "up", "quit", "crashed", "stopping", "stopped", "failed",
                   "killed"}
    /\ profiler \in Recording \union {"off", "wanted", "ended", "exited", "done", "failed",
                                      "killed"}
    /\ rtc \in {"none", "running", "zombie", "gone"}
    /\ rtc_status \in {"none", "success", "failure"}
    /\ reported \in 0 .. Len(Ordered)
    /\ waiting \in BOOLEAN
    /\ result_file \in {"none", "stale", "valid", "invalid"}
    /\ capture \in {"none", "reading", "marking", "awaiting", "acking", "done", "failed",
                    "aborted"}
    /\ captured \in 0 .. Len(Ordered)
    /\ phase_error \in BOOLEAN
    /\ sampler \in {"none", "running", "finished", "failed"}
    /\ reply \in {"none", "pending", "recorded", "refused", "dropped"}
    /\ recorded \in 0 .. Len(Ordered)
    /\ ticks \in 0 .. MaxTicks
    /\ signal \in BOOLEAN
    /\ outcome \in {"ok", "error", "lost"}
    /\ failures \in 0 .. MaxFailures
    /\ ChannelsOK
    /\ samples \in Seq(Records \union {Ordered[j] : j \in 1 .. 4})

\* The first n phases are in samples.jsonl, each once and in their order, and no other is.
Persisted(n) ==
    /\ {samples[i] : i \in DOMAIN samples} \ Records = {Ordered[k] : k \in 1 .. n}
    /\ \A i, j \in DOMAIN samples, k, l \in 1 .. Len(Ordered) :
           i < j /\ samples[i] = Ordered[k] /\ samples[j] = Ordered[l] => k < l

\* A run that returns Ok has a worker that exited well, its own valid result.json, all four
\* phases captured and persisted, a final record that ends samples.jsonl, a profile when one
\* was asked for, and a server that shut down cleanly: no error of the seven parts that run()
\* combines is lost on the way (README.md:280-281).
SuccessIsEarned ==
    stage = "returned" /\ outcome = "ok" =>
        /\ rtc_status = "success"
        /\ result_file = "valid"
        /\ capture = "done" /\ Persisted(Len(Ordered))
        /\ samples[Len(samples)] \in {"final", "final_error"}
        /\ profiler \in {"off", "done"}
        /\ server \in {"stopped", "quit"}

Working == capture \in {"reading", "marking", "awaiting", "acking"}

\* The server is asked to stop, and run() returns, only when the worker is gone, the phase task
\* and the sampler have ended and perf does not record: no deadline, signal or failure on the
\* way leaves one of them behind.
WorkEndsBeforeShutdown ==
    server \in {"stopping", "stopped", "failed"} \/ stage = "returned" =>
        /\ rtc \in {"none", "gone"}
        /\ ~Working
        /\ sampler # "running"
        /\ profiler \notin Recording
        /\ stage = "returned" => ~ServerAlive

\* A phase that the worker was told to go on with is in samples.jsonl, in order: the
\* acknowledgement comes after the record is flushed, through the capture task, the command
\* channel and the sampler.
AcknowledgedIsPersisted ==
    \E n \in 0 .. Len(Ordered) :
        /\ Persisted(n)
        /\ n >= Len(acks) + reported - (IF waiting THEN 1 ELSE 0)

\* run() returns though the server, the worker, the phase task or perf neither answers nor
\* ends: each wait for one of them has a deadline.
RunReturns == <>(stage = "returned")
===============================================================================
