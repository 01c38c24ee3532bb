------------------------------- MODULE Tuning -------------------------------
(***************************************************************************)
(* The kernel auto-tuning pass of an engine: tune_variant of               *)
(* src/gpu/cuda.rs and src/gpu/hip.rs and push_finalist of src/gpu/mod.rs. *)
(* Every combination of compile options is built, every global work size   *)
(* of a build is benchmarked, the FINALIST_COUNT fastest are run again for *)
(* some seconds, and the best of those is chosen.  Any build or benchmark  *)
(* may fail.                                                               *)
(*                                                                         *)
(* The nested candidate loops over compile options (register cap, block    *)
(* size, poll interval; CU mode and wave size for HIP) are one loop over   *)
(* the builds, in the loops' order.  A speed is what one benchmark         *)
(* measured, not a property of the variant: two runs of one variant differ.*)
(***************************************************************************)
EXTENDS Integers, Sequences

CONSTANTS
    Builds,          \* number of combinations of compile options
    WorkSizes,       \* number of GLOBAL_WORK_SIZE_CANDIDATES
    FINALIST_COUNT,  \* 2 in the code
    Speeds,          \* the speeds a benchmark may measure
    DURATION         \* SUSTAINED_BENCHMARK_DURATION, in clock units

ASSUME CandidatesAssumption ==
    /\ Builds \in Nat \ {0} /\ WorkSizes \in Nat \ {0}
    /\ FINALIST_COUNT \in Nat \ {0}
    /\ Speeds \subseteq Nat \ {0}
    /\ DURATION \in Nat \ {0}

VARIABLES
    pc,          \* where tune_variant is
    build,       \* the combination of compile options of the loop, 1..Builds
    size,        \* the global work size of the inner loop, 1..WorkSizes
    finalists,   \* the fastest variants so far, with their speeds
    last_error,  \* whether an error was kept
    index,       \* the finalist to run next
    clock,       \* time since the sustained benchmark began, up to DURATION
    total,       \* total_count, in batches: 0, or odd (1), or even (2)
    best,        \* {} or the best finalist so far, with its sustained speed
    outcome,     \* what tune_variant returned
    measured,    \* history: what the first benchmarks measured
    sustained    \* history: what the sustained benchmarks measured, in order

scanning == <<build, size, finalists, last_error, measured>>
timing == <<clock, total>>
choosing == <<index, best, sustained>>
vars == <<pc, scanning, timing, choosing, outcome>>

Variants == [build : 1..Builds, size : 1..WorkSizes]
Measures == [variant : Variants, speed : Speeds \cup {0}]

Outcomes ==
    [kind : {"running", "failed"}] \cup [kind : {"chosen"}, variant : Variants]
        \cup [kind : {"untested"}]

Init ==
    /\ pc = "upload"
    /\ build = 1 /\ size = 1
    /\ finalists = <<>> /\ last_error = FALSE /\ measured = {}
    /\ clock = 0 /\ total = 0
    /\ index = 1 /\ best = {} /\ sustained = <<>>
    /\ outcome = [kind |-> "running"]

Return(result) == pc' = "done" /\ outcome' = result

Fail == Return([kind |-> "failed"])

-----------------------------------------------------------------------------

\* The benchmark's base words and prefix are copied to the device.
Upload ==
    /\ pc = "upload"
    /\ \/ pc' = "build" /\ UNCHANGED outcome
       \/ Fail
    /\ UNCHANGED <<scanning, timing, choosing>>

\* GpuKernelModule::build; its error is kept and the next build tried.
Build ==
    /\ pc = "build" /\ build <= Builds
    /\ \/ pc' = "measure" /\ size' = 1 /\ UNCHANGED <<build, last_error>>
       \/ build' = build + 1 /\ last_error' = TRUE /\ UNCHANGED <<pc, size>>
    /\ UNCHANGED <<finalists, measured, timing, choosing, outcome>>

\* Where push_finalist inserts: before the first slower one, or at the end.
InsertAt(speed) ==
    LET slower == {k \in 1..Len(finalists) : speed > finalists[k].speed}
    IN  IF slower = {} THEN Len(finalists) + 1
        ELSE CHOOSE k \in slower : \A j \in slower : k <= j

\* Bug: a list that is already full is left as it is.
PushIfRoom(m) ==
    LET at == InsertAt(m.speed)
    IN  IF Len(finalists) = FINALIST_COUNT THEN finalists
        ELSE [k \in 1..(Len(finalists) + 1) |->
                  IF k < at THEN finalists[k] ELSE IF k = at THEN m ELSE finalists[k - 1]]
\* Bug: the list is not truncated.
PushOnly(m) ==
    LET at == InsertAt(m.speed)
    IN  [k \in 1..(Len(finalists) + 1) |->
             IF k < at THEN finalists[k] ELSE IF k = at THEN m ELSE finalists[k - 1]]
\* push_finalist: the insertion, then the truncation to FINALIST_COUNT.
push_finalist(m) ==
    LET at == InsertAt(m.speed)
        length == IF Len(finalists) < FINALIST_COUNT THEN Len(finalists) + 1
                  ELSE FINALIST_COUNT
    IN  [k \in 1..length |-> IF k < at THEN finalists[k]
                             ELSE IF k = at THEN m
                             ELSE finalists[k - 1]]

\* Bug: an error of a benchmark is not kept.
ErrorForgotten == UNCHANGED last_error
KeepError == last_error' = TRUE

\* Two benchmarks of a variant; the second one's speed counts.  An error of
\* either is kept and the next variant tried.
Measure ==
    /\ pc = "measure"
    /\ \/ \E speed \in Speeds :
              LET m == [variant |-> [build |-> build, size |-> size], speed |-> speed]
              IN  /\ finalists' = push_finalist(m)
                  /\ measured' = measured \cup {m}
                  /\ UNCHANGED last_error
       \/ KeepError /\ UNCHANGED <<finalists, measured>>
    /\ IF size < WorkSizes
       THEN size' = size + 1 /\ UNCHANGED <<pc, build>>
       ELSE build' = build + 1 /\ pc' = "build" /\ UNCHANGED size
    /\ UNCHANGED <<timing, choosing, outcome>>

AllTried ==
    /\ pc = "build" /\ build > Builds
    /\ pc' = "sustain"
    /\ UNCHANGED <<scanning, timing, choosing, outcome>>

-----------------------------------------------------------------------------

\* benchmark_variant_sustained: the warm-up batch.  From here on an error
\* ends the tuning.
WarmUp ==
    /\ pc = "sustain" /\ index <= Len(finalists)
    /\ \/ /\ pc' = "repeat" /\ clock' = 0 /\ total' = 0
          /\ UNCHANGED outcome
       \/ Fail /\ UNCHANGED timing
    /\ UNCHANGED <<scanning, choosing>>

\* Bug: a batch that took no measurable time is counted.
AnyTime(elapsed) == TRUE
NonZero(elapsed) == elapsed > 0

\* One timed batch of the sustained benchmark, refused when the clock did not
\* move (benchmark_variant_elapsed).
Repeat ==
    /\ pc = "repeat" /\ clock < DURATION
    /\ \/ \E elapsed \in 0..(DURATION - clock) :
              IF NonZero(elapsed)
              THEN /\ clock' = clock + elapsed /\ total' = 1 + (total % 2)
                   /\ UNCHANGED <<pc, outcome>>
              ELSE Fail /\ UNCHANGED timing
       \/ Fail /\ UNCHANGED timing
    /\ UNCHANGED <<scanning, choosing>>

\* Time that passes between two batches.
Delay ==
    /\ pc = "repeat" /\ clock < DURATION
    /\ clock' = clock + 1
    /\ UNCHANGED <<pc, scanning, total, choosing, outcome>>

\* Bug: the last finalist that is as fast as the best replaces it.
NotSlower(speed) == \A b \in best : speed >= b.speed
Improves(speed) == \A b \in best : ~ (b.speed >= speed)

\* The finalist's speed is compared with the best one's.
Compare ==
    /\ pc = "repeat" /\ clock = DURATION
    /\ \E speed \in IF total > 0 THEN Speeds ELSE {0} :
           LET m == [variant |-> finalists[index].variant, speed |-> speed]
           IN  /\ best' = IF Improves(speed) THEN {m} ELSE best
               /\ sustained' = Append(sustained, m)
    /\ index' = index + 1 /\ pc' = "sustain"
    /\ UNCHANGED <<scanning, timing, outcome>>

\* The best finalist, else the kept error, else the first candidates, unmeasured.
Conclude ==
    /\ pc = "sustain" /\ index > Len(finalists)
    /\ IF best # {} THEN \E b \in best : Return([kind |-> "chosen", variant |-> b.variant])
       ELSE IF last_error THEN Fail
       ELSE Return([kind |-> "untested"]) \/ Fail
    /\ UNCHANGED <<scanning, timing, choosing>>

Tune == Upload \/ Build \/ Measure \/ AllTried \/ WarmUp \/ Repeat \/ Compare \/ Conclude

Next == Tune \/ Delay

\* Every call on the GPU and the compiler returns; nothing obliges the
\* scheduler to delay the program.
Spec == Init /\ [][Next]_vars /\ WF_vars(Tune)

-----------------------------------------------------------------------------

TypeOK ==
    /\ pc \in {"upload", "build", "measure", "sustain", "repeat", "done"}
    /\ build \in 1..(Builds + 1) /\ size \in 1..WorkSizes
    /\ pc = "measure" => build <= Builds
    /\ finalists \in Seq(Measures) /\ Len(finalists) <= FINALIST_COUNT
    /\ last_error \in BOOLEAN
    /\ clock \in 0..DURATION /\ total \in 0..2
    /\ index \in 1..(Len(finalists) + 1)
    /\ pc = "repeat" => index <= Len(finalists)
    /\ best \subseteq Measures /\ \A b, c \in best : b = c
    /\ outcome \in Outcomes
    /\ measured \subseteq Measures
    /\ sustained \in Seq(Measures)

\* The loops' order.
TriedBefore(v, w) == v.build < w.build \/ (v.build = w.build /\ v.size < w.size)

\* a is faster than b, or as fast and measured earlier.
Beats(a, b) ==
    a.speed > b.speed \/ (a.speed = b.speed /\ TriedBefore(a.variant, b.variant))

\* Between any two benchmarks the finalists are the FINALIST_COUNT fastest of
\* what was measured so far, the earlier one of equals, fastest first: neither
\* the insertion nor the truncation (push_finalist) loses one.
FinalistsFastest ==
    /\ \A k \in 1..Len(finalists) : finalists[k] \in measured
    /\ \A j, k \in 1..Len(finalists) : j < k => Beats(finalists[j], finalists[k])
    /\ \A m \in measured :
           \/ \E k \in 1..Len(finalists) : finalists[k] = m
           \/ /\ Len(finalists) = FINALIST_COUNT
              /\ \A k \in 1..Len(finalists) : Beats(finalists[k], m)

\* A chosen variant is a finalist whose sustained benchmark ended, no finalist
\* was faster in its own, and none before it was as fast.
ChosenIsBest ==
    outcome.kind = "chosen" =>
        /\ Len(sustained) = Len(finalists)
        /\ \E k \in 1..Len(finalists) :
               /\ finalists[k].variant = outcome.variant
               /\ \A j \in 1..Len(finalists) :
                      /\ sustained[j].speed <= sustained[k].speed
                      /\ j < k => sustained[j].speed < sustained[k].speed

\* No engine is built from a variant that never ran: with candidates to try,
\* either one was measured or the reason it was not is reported, so the last
\* line of tune_variant, a build of the first candidates, is never reached.
NeverUntested == outcome.kind # "untested"

\* The tuning ends, however coarse the clock: a batch the clock cannot see is
\* an error, so each one counted brings the sustained benchmark closer to its
\* end.
TuningEnds == <>(pc = "done")
=============================================================================
