--------------------------- MODULE ProfilePreparation --------------------------
(***************************************************************************)
(* The artifacts of one output directory between the load runs that        *)
(* write them (src/controller.rs, src/profile/capture.rs) and the profile  *)
(* report that is prepared and rendered of them (src/profile/report.rs).   *)
(*                                                                         *)
(* Commands come one after another, and each may fail, or its process may  *)
(* be killed, between any two changes of a file.  A load run may be one    *)
(* without profiler.  The programs that write files, perf and Inferno, are *)
(* external; the logs of stderr are left out.  Controller has the processes*)
(* of a run.                                                               *)
(***************************************************************************)
EXTENDS FoldedProfile, SequencesExt

CONSTANTS
    MaxRuns,        \* bound on load runs
    MaxPrepares,    \* bound on preparations
    Foldings        \* folded stacks that perf and Inferno may make of a capture

ASSUME BoundAssumption == MaxRuns \in Nat /\ MaxPrepares \in Nat

\* The lines of a file, of which a count that is no u64 counts as none.
ASSUME FoldingsAssumption == Foldings \subseteq Seq([frames : Seq(STRING), count : 0 .. MaxCount])

VARIABLES
    files,      \* what each file of the directory holds
    lines,      \* the folded stacks, if there
    command,    \* the command in progress, and how many changes of files it has made
    runs,       \* load runs begun, and whether their profiler has
    captured,   \* the last command that was a run ended well, with a profile
    prepared,   \* the last command was a preparation and ended well
    prepares

profileVars == <<files, lines, command, runs, captured, prepared, prepares>>

Run == Len(runs)

NoCommand == [kind |-> "none", profiled |-> FALSE, made |-> 0]

Idle == command.kind = "none"

Command(kind, profiled) == [kind |-> kind, profiled |-> profiled, made |-> 0]

-------------------------------------------------------------------------------
(* Files.  One is not there, is empty, holds a part, or is whole, and was made of a run. *)

\* What prepare writes, in its order.
Reports == <<"perf.script", "perf.folded", "flamegraph.svg", "perf-header.txt",
             "hotspots-self.txt", "hotspots-inclusive.txt", "threads.txt", "environment.json">>

\* Mutant: one report of those that are rendered is not prepared.
ReportsWithoutThreads == SelectSeq(Reports, LAMBDA name : name # "threads.txt")

ReportsToPrepare == Reports

Ready == "profile.ready"

\* Mutant: the capture is cleared with what was prepared of it.
PreparedWithCapture == <<Ready>> \o Reports \o <<"perf.data">>

\* PREPARED_FILES
PreparedFiles == <<Ready>> \o Reports

Files == {"result.json", "perf.data", "profile.json", Ready} \union ToSet(Reports)

NonEmpty(name) == files[name].state \in {"part", "whole"}

Whole(name) == files[name].state = "whole"

\* A change of a file, of those that a command makes one by one.
Change(name, state) == [name |-> name, state |-> state]

Removed(name) == Change(name, "absent")

\* fs::write, and a program whose stdout is the file: creation, then what is written.
Written(name) == <<Change(name, "empty"), Change(name, "part"), Change(name, "whole")>>

\* The run whose data a file is made of.
Origin(name) ==
    CASE name \in {"result.json", "perf.data", "profile.json"} -> Run
      [] name = "perf.folded" -> files["perf.script"].run
      [] name = "flamegraph.svg" -> files["perf.folded"].run
      [] OTHER -> files["perf.data"].run

-------------------------------------------------------------------------------
(* A load run. *)

\* Mutant: the marker of an earlier preparation is left.
StartProfilerByReady ==
    <<Removed("perf.data"), Removed("profile.json"), Change("perf.data", "empty"),
      Change("perf.data", "part")>>

\* ServerProfiler::start: stale files go, perf begins to record.
StartProfiler ==
    <<Removed(Ready), Removed("perf.data"), Removed("profile.json"), Change("perf.data", "empty"),
      Change("perf.data", "part")>>

\* perf ends, and finish writes the metadata last.
FinishProfiler == <<Change("perf.data", "whole")>> \o Written("profile.json")

\* controller::run: the result of the run before goes first, before the server starts.
RunChanges(profiled) ==
    <<Removed("result.json")>>
    \o (IF profiled THEN StartProfiler ELSE << >>)
    \o Written("result.json")
    \o (IF profiled THEN FinishProfiler ELSE << >>)

BeginRun ==
    /\ Idle /\ Run < MaxRuns
    /\ \E profiled \in BOOLEAN : command' = Command("run", profiled)
    /\ runs' = Append(runs, FALSE)
    /\ captured' = FALSE /\ prepared' = FALSE
    /\ UNCHANGED <<files, lines, prepares>>

-------------------------------------------------------------------------------
(* Preparation. *)

\* prepare clears what an earlier one left, the marker first.
BeginPrepare ==
    /\ Idle /\ prepares < MaxPrepares
    /\ command' = Command("clear", FALSE)
    /\ prepares' = prepares + 1
    /\ prepared' = FALSE
    /\ UNCHANGED <<files, lines, runs, captured>>

ClearChanges == [i \in 1 .. Len(PreparedFiles) |-> Removed(PreparedFiles[i])]

\* Each report is written, one after the other, and then the marker.
PrepareChanges ==
    LET written == 3 * Len(ReportsToPrepare)
    IN  [i \in 1 .. written + 2 |->
            IF i <= written THEN Written(ReportsToPrepare[(i + 2) \div 3])[((i - 1) % 3) + 1]
            ELSE Change(Ready, IF i = written + 1 THEN "empty" ELSE "whole")]

\* The inputs of a preparation: ensure_nonempty, load_capture, load_run and validate_run.
Preparable == NonEmpty("perf.data") /\ Whole("profile.json") /\ Whole("result.json")

\* Folded stacks without a sample end the preparation before the flamegraph.
HasSamples == Parse(lines).total > 0

-------------------------------------------------------------------------------
(* Every command. *)

\* The changes of files that a command makes.
Changes ==
    CASE command.kind = "run" -> RunChanges(command.profiled)
      [] command.kind = "failed" -> IF command.profiled THEN FinishProfiler ELSE << >>
      [] command.kind = "clear" -> ClearChanges
      [] command.kind = "prepare" -> PrepareChanges
      [] OTHER -> << >>

Made == command.made = Len(Changes)

NextChange == Changes[command.made + 1]

MakeChange ==
    /\ ~Idle /\ ~Made
    /\ LET name == NextChange.name
           state == NextChange.state
       IN  /\ name = "flamegraph.svg" /\ command.kind = "prepare" => HasSamples
           /\ files' = [files EXCEPT ![name] =
                  IF state = "absent" THEN [run |-> 0, state |-> "absent"]
                  ELSE [run |-> Origin(name), state |-> state]]
           /\ IF name # "perf.folded" THEN UNCHANGED lines
              ELSE IF state = "part" THEN lines' \in Foldings
              ELSE lines' = IF state = "whole" THEN lines ELSE << >>
           /\ runs' = IF command.kind = "run" /\ name = "perf.data" THEN [runs EXCEPT ![Run] = TRUE]
                      ELSE runs
    /\ command' = [command EXCEPT !.made = @ + 1]
    /\ UNCHANGED <<captured, prepared, prepares>>

\* The worker fails, without result: the profiler is finished all the same, and the run fails.
WorkFails ==
    /\ command.kind = "run" /\ ~Made
    /\ NextChange = Change("result.json", "empty")
    /\ command' = Command("failed", command.profiled)
    /\ UNCHANGED <<files, lines, runs, captured, prepared, prepares>>

CheckInputs ==
    /\ command.kind = "clear" /\ Made
    /\ Preparable
    /\ command' = Command("prepare", FALSE)
    /\ UNCHANGED <<files, lines, runs, captured, prepared, prepares>>

\* A command that has made its changes returns Ok.
Return ==
    /\ command.kind \in {"run", "prepare"} /\ Made
    /\ captured' = IF command.kind = "run" THEN command.profiled ELSE captured
    /\ prepared' = (command.kind = "prepare")
    /\ command' = NoCommand
    /\ UNCHANGED <<files, lines, runs, prepares>>

\* A step of the command fails, or its process is killed.
Fail ==
    /\ ~Idle
    /\ command' = NoCommand
    /\ UNCHANGED <<files, lines, runs, captured, prepared, prepares>>

-------------------------------------------------------------------------------
(* load_prepared, without which render shows nothing. *)

\* The files that it asks to hold something.
Rendered == {Ready, "perf.data", "flamegraph.svg", "perf-header.txt", "hotspots-self.txt",
             "hotspots-inclusive.txt", "threads.txt"}

\* JSON that is not whole does not decode; folded stacks are parsed line by line.
Accepts ==
    /\ \A name \in Rendered : NonEmpty(name)
    /\ Whole("result.json") /\ Whole("profile.json") /\ Whole("environment.json")
    /\ NonEmpty("perf.folded") /\ HasSamples

-------------------------------------------------------------------------------
ProfileInit ==
    /\ files = [name \in Files |-> [run |-> 0, state |-> "absent"]]
    /\ lines = << >>
    /\ command = NoCommand /\ runs = << >> /\ prepares = 0
    /\ captured = FALSE /\ prepared = FALSE

ProfileNext ==
    \/ BeginRun \/ WorkFails
    \/ BeginPrepare \/ CheckInputs
    \/ MakeChange \/ Return \/ Fail

ProfileSpec == ProfileInit /\ [][ProfileNext]_profileVars

-------------------------------------------------------------------------------
(* Properties. *)

\* A profile that is rendered is whole and of one capture, wherever commands before were cut
\* off: its reports, its metadata and perf.data belong together, and so does the result, unless
\* runs without profiler have replaced it (profile/report.rs:90-163, 215-252, capture.rs:54-56).
RenderedIsOneCapture ==
    Accepts =>
        LET capture == files["perf.data"].run
        IN  /\ \A name \in {"perf.data", "profile.json"} \union ToSet(Reports) :
                   files[name] = [run |-> capture, state |-> "whole"]
            /\ files["result.json"].run >= capture
            /\ \A run \in capture + 1 .. files["result.json"].run : ~runs[run]

\* What prepare reports as complete is accepted by render, which has a list of its own.
PreparedIsAccepted == prepared /\ Idle => Accepts

\* A failed preparation can be repeated: as long as no run begins, a capture that ended well
\* stays what it was, with the result of its run.
CaptureStaysUsable ==
    captured =>
        /\ Preparable
        /\ \A name \in {"perf.data", "profile.json", "result.json"} :
               files[name] = [run |-> Run, state |-> "whole"]

\* The counts of the report, of whatever stacks were folded.
ProfileCountsAgree == CountsAgree(lines)
===============================================================================
