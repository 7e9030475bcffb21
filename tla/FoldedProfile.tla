----------------------------- MODULE FoldedProfile -----------------------------
(***************************************************************************)
(* FoldedProfile::parse of src/profile/report.rs: the counts of a profile  *)
(* from its folded stacks.  A line is a stack of frames and a count; one   *)
(* without count, or with no positive one, has the count 0.  The counts are*)
(* u64 in the code and end at MaxCount here.                               *)
(***************************************************************************)
EXTENDS Integers, Sequences, FiniteSets, FiniteSetsExt

CONSTANTS
    MaxCount,           \* u64::MAX
    KernelFrames,       \* frames whose name ends in _[k]
    UnresolvedFrames    \* frames that unresolved() tells

ASSUME CountAssumption == MaxCount \in Nat \ {0}

\* A map from labels to counts, in which a label without an entry counts nothing.
Count(counts, label) == IF label \in DOMAIN counts THEN counts[label] ELSE 0

\* add_count of every label of a set.
AddCounts(counts, labels, count) ==
    [each \in DOMAIN counts \union labels |->
        Count(counts, each) + IF each \in labels THEN count ELSE 0]

\* add_count
AddCount(counts, label, count) == AddCounts(counts, {label}, count)

NoCounts == [label \in {} |-> 0]

EmptyProfile ==
    [total |-> 0, stack |-> NoCounts, self |-> NoCounts, thread |-> NoCounts,
     inclusive |-> NoCounts, kernel |-> 0, unresolved_leaf |-> 0, unresolved_stack |-> 0,
     malformed |-> 0]

Leaf(line) == line.frames[Len(line.frames)]

Thread(line) == line.frames[1]

\* Mutant: the root of the thread is among them.
AllFrames(line) == {line.frames[i] : i \in 1 .. Len(line.frames)}

\* Each frame of the stack once, without the thread's root unless it is alone.
InclusiveFrames(line) ==
    {line.frames[i] : i \in (IF Len(line.frames) > 1 THEN 2 ELSE 1) .. Len(line.frames)}

\* The checks before anything is added.  No count is larger than the total: the checks of the
\* additions after it cannot fail.
Countable(profile, line) ==
    /\ line.count > 0 /\ line.frames # << >>
    /\ profile.total + line.count <= MaxCount

\* add_line
AddLine(profile, line) ==
    LET If(condition) == IF condition THEN line.count ELSE 0
    IN  [total |-> profile.total + line.count,
         stack |-> AddCount(profile.stack, line.frames, line.count),
         self |-> AddCount(profile.self, Leaf(line), line.count),
         thread |-> AddCount(profile.thread, Thread(line), line.count),
         inclusive |-> AddCounts(profile.inclusive, InclusiveFrames(line), line.count),
         kernel |-> profile.kernel + If(Leaf(line) \in KernelFrames),
         unresolved_leaf |-> profile.unresolved_leaf + If(Leaf(line) \in UnresolvedFrames),
         unresolved_stack |->
             profile.unresolved_stack
             + If(\E i \in 1 .. Len(line.frames) : line.frames[i] \in UnresolvedFrames),
         malformed |-> profile.malformed]

ParseLine(profile, line) ==
    IF Countable(profile, line) THEN AddLine(profile, line)
    ELSE [profile EXCEPT !.malformed = @ + 1]

\* One line after the other.
Parse(lines) ==
    LET profile[n \in 0 .. Len(lines)] ==
            IF n = 0 THEN EmptyProfile ELSE ParseLine(profile[n - 1], lines[n])
    IN  profile[Len(lines)]

-------------------------------------------------------------------------------
(* Properties of a parsed profile. *)

WellFormed(lines) == {i \in 1 .. Len(lines) : lines[i].count > 0 /\ lines[i].frames # << >>}

Counted(lines, set) == SumFunction([i \in set |-> lines[i].count])

\* The lines in whose stack a frame is, as more than the root of a thread.
Containing(lines, frame) ==
    {i \in WellFormed(lines) :
        \E j \in 1 .. Len(lines[i].frames) :
            /\ lines[i].frames[j] = frame
            /\ j > 1 \/ Len(lines[i].frames) = 1}

\* What render_breakdown writes of its tables: self cost and the threads partition the samples,
\* and inclusive cost counts a frame once to a stack (report.rs:418-437).  A line that would
\* overflow the total is counted nowhere; as long as none would, every valid line is counted.
CountsAgree(lines) ==
    LET profile == Parse(lines)
    IN  /\ profile.total <= MaxCount
        /\ \A counts \in {profile.self, profile.thread, profile.stack} :
               SumFunction(counts) = profile.total
        /\ \A frame \in DOMAIN profile.inclusive : profile.inclusive[frame] <= profile.total
        /\ profile.kernel <= profile.total
        /\ profile.unresolved_leaf <= profile.unresolved_stack
        /\ Counted(lines, WellFormed(lines)) <= MaxCount =>
               /\ profile.total = Counted(lines, WellFormed(lines))
               /\ profile.malformed = Len(lines) - Cardinality(WellFormed(lines))
               /\ \A frame \in DOMAIN profile.inclusive :
                      profile.inclusive[frame] = Counted(lines, Containing(lines, frame))
===============================================================================
