----------------------------- MODULE HostSearch ----------------------------
(***************************************************************************)
(* The loop of src/search.rs: open an engine, read the clock, then for key *)
(* after key split the creation times 0 .. now into batches, ask the       *)
(* engine for the earliest match of each, check its answer and count what  *)
(* was done.  The engine is BatchSearch's promise, or, to see what the     *)
(* host's own checks are worth, an engine that answers anything.           *)
(***************************************************************************)
EXTENDS Integers

CONSTANTS
    U32MAX,         \* u32::MAX
    BatchCover,     \* GlobalWorkSize * BATCH_ITERATIONS of the engine's variant
    Keys,           \* the keys a seed can give
    NoSeed,         \* fixed_seed = None
    NoLimit,        \* max_key_attempts = None
    Leftover,       \* base words on the device that belong to no key
    HitMaps,        \* for each key, the times at which its key ID matches
    Seeds,          \* configured seeds to consider
    Limits,         \* configured limits to consider
    Clocks,         \* system clocks at the start, in seconds
    EngineTrusted,  \* FALSE: search_batch may answer any Option<u32>
    MaxClock,       \* bound: the clock stops here
    MaxAttempts     \* bound: an unlimited random search stops here

None == -1
Timestamps == 0 .. U32MAX

ASSUME HostAssumption ==
    /\ U32MAX \in Nat
    /\ BatchCover \in Nat \ {0}
    /\ NoSeed \notin Keys /\ Leftover \notin Keys /\ NoLimit \notin Nat
    /\ HitMaps \subseteq [Keys -> SUBSET Timestamps]
    /\ Seeds \subseteq Keys \cup {NoSeed}
    /\ Limits \subseteq Nat \cup {NoLimit}
    /\ Clocks \subseteq Int
    /\ EngineTrusted \in BOOLEAN
    /\ MaxClock \in Int
    /\ MaxAttempts \in Nat

\* Bug: the batch size is not capped, and wraps to 0 as a u32 count.
BatchSizeUncapped == BatchCover
\* GpuKernelVariant::batch_size, capped so that a batch's count is a u32.
batch_size == IF BatchCover > U32MAX THEN U32MAX ELSE BatchCover

VARIABLES
    hits, fixed_seed, max_key_attempts,     \* fixed for the whole search
    clock,              \* the system clock
    pc,                 \* "open", "clock", "next_key", "scan" or "end"
    verdict,            \* "running", or how the search ended
    timestamp_count,
    key_attempts,
    total_checked,
    key,                \* the key of the current attempt
    device_key,         \* whose base words the device holds
    batch_start,
    found               \* <<key, timestamp>> of a SearchResult

config == <<hits, fixed_seed, max_key_attempts>>
counters == <<timestamp_count, key_attempts, total_checked>>
scanning == <<key, device_key, batch_start>>
vars == <<config, clock, pc, verdict, counters, scanning, found>>

Nothing == <<>>

Init ==
    /\ hits \in HitMaps
    /\ fixed_seed \in Seeds
    /\ max_key_attempts \in Limits
    /\ clock \in Clocks
    /\ pc = "open" /\ verdict = "running"
    /\ timestamp_count = 0 /\ key_attempts = 0 /\ total_checked = 0
    /\ key = Leftover /\ device_key = Leftover /\ batch_start = 0
    /\ found = Nothing

\* search returns; every error leaves it through `?'.
Return(v) == pc' = "end" /\ verdict' = v

\* An engine is found, built and perhaps tuned, and the prefixes uploaded.
OpenEngine ==
    /\ pc = "open"
    /\ \/ batch_size > 0 /\ pc' = "clock" /\ UNCHANGED verdict
       \/ Return("error")
    /\ UNCHANGED <<config, clock, counters, scanning, found>>

\* Bug: a clock past 2106 is not clamped to the 32-bit creation times.
CountUnclamped(now) == now + 1

\* Bug: one second too many, a creation time in the future.
CountOneMore(now) == (IF now > U32MAX THEN U32MAX ELSE now) + 2

\* timestamp_count_through(now): the clock is read after all that.
CountThrough(now) == (IF now > U32MAX THEN U32MAX ELSE now) + 1

ReadClock ==
    /\ pc = "clock"
    /\ \/ /\ clock >= 0
          /\ timestamp_count' = CountThrough(clock)
          /\ pc' = "next_key" /\ UNCHANGED verdict
       \/ /\ clock < 0
          /\ Return("error") /\ UNCHANGED timestamp_count
    /\ UNCHANGED <<config, clock, key_attempts, total_checked, scanning, found>>

\* Bug: the last allowed key is not tried.
OverLimitEarly(attempts) == max_key_attempts # NoLimit /\ attempts >= max_key_attempts
OverLimit(attempts) == max_key_attempts # NoLimit /\ attempts > max_key_attempts

\* Bug: a new key goes on where the last one ended.
NextKeyGoesOn ==
    /\ pc = "next_key"
    /\ key_attempts < MaxAttempts
    /\ key_attempts' = key_attempts + 1
    /\ key' \in IF fixed_seed = NoSeed THEN Keys ELSE {fixed_seed}
    /\ device_key' = key'
    /\ pc' = "scan"
    /\ UNCHANGED <<config, clock, verdict, timestamp_count, total_checked,
                   batch_start, found>>

\* The loop head counts the attempt before it looks at the limit; then a
\* seed is taken or drawn and the key's base words uploaded.
NextKey ==
    /\ pc = "next_key"
    /\ key_attempts < MaxAttempts
    /\ key_attempts' = key_attempts + 1
    /\ \/ /\ OverLimit(key_attempts')
          /\ Return("limit")
          /\ UNCHANGED scanning
       \/ /\ ~OverLimit(key_attempts')
          /\ key' \in IF fixed_seed = NoSeed THEN Keys ELSE {fixed_seed}
          /\ device_key' = key'
          /\ batch_start' = 0
          /\ pc' = "scan" /\ UNCHANGED verdict
       \/ /\ ~OverLimit(key_attempts')     \* no randomness, or upload failed
          /\ Return("error")
          /\ UNCHANGED scanning
    /\ UNCHANGED <<config, clock, timestamp_count, total_checked, found>>

Remaining == timestamp_count - batch_start
batch_count == (IF batch_size < Remaining THEN batch_size ELSE Remaining) % (U32MAX + 1)

\* Bug: the batch starts one timestamp late.
StartOneLate == (batch_start + 1) % (U32MAX + 1)
start_timestamp == batch_start % (U32MAX + 1)

\* What the engine may answer to search_batch(s, c): BatchSearch's promise
\* for the key on the device.
ReportableIn(s, c) ==
    IF device_key = Leftover THEN {}
    ELSE {t \in hits[device_key] : t >= s /\ t < s + c /\ t # U32MAX}

EngineAnswers(s, c) ==
    IF ~EngineTrusted THEN {None} \cup Timestamps
    ELSE IF ReportableIn(s, c) = {} THEN {None}
    ELSE {t \in ReportableIn(s, c) : \A u \in ReportableIn(s, c) : t <= u}

\* Bug: the answer's range is not checked.
AnyBatch(t) == TRUE
InBatch(t) == t >= batch_start /\ t < batch_start + batch_count

\* Bug: the GPU's answer is taken on trust.
CpuTrusts(t) == TRUE

\* The key ID recomputed on the CPU is one that was asked for.
CpuMatches(t) == t \in hits[key]

ScanBatch ==
    /\ pc = "scan" /\ batch_start < timestamp_count
    /\ \E answer \in EngineAnswers(start_timestamp, batch_count) :
          \/ /\ answer = None
             /\ total_checked' = total_checked + batch_count
             /\ batch_start' = batch_start + batch_count
             /\ UNCHANGED <<pc, verdict, found>>
          \/ /\ answer # None /\ InBatch(answer)
             /\ total_checked' = total_checked + (answer - batch_start + 1)
             /\ IF CpuMatches(answer)
                THEN found' = <<key, answer>> /\ Return("found")
                ELSE found' = found /\ Return("error")
             /\ UNCHANGED batch_start
          \/ /\ answer # None /\ ~InBatch(answer)
             /\ Return("error")
             /\ UNCHANGED <<total_checked, batch_start, found>>
    /\ UNCHANGED <<config, clock, timestamp_count, key_attempts, key, device_key>>

\* search_batch fails (a reset, launch, wait or copy of the engine does).
BatchFails ==
    /\ pc = "scan" /\ batch_start < timestamp_count
    /\ Return("error")
    /\ UNCHANGED <<config, clock, counters, scanning, found>>

\* Bug: a given seed is scanned again, as a random one is replaced.
KeyDoneAgain ==
    /\ pc = "scan" /\ batch_start >= timestamp_count
    /\ pc' = "next_key" /\ UNCHANGED verdict
    /\ UNCHANGED <<config, clock, counters, scanning, found>>

\* The while loop is over: a given seed is given up, a random one replaced.
KeyDone ==
    /\ pc = "scan" /\ batch_start >= timestamp_count
    /\ IF fixed_seed # NoSeed
       THEN Return("exhausted")
       ELSE pc' = "next_key" /\ UNCHANGED verdict
    /\ UNCHANGED <<config, clock, counters, scanning, found>>

\* Time passes while the program tunes and searches.
Tick ==
    /\ clock < MaxClock
    /\ clock' = clock + 1
    /\ UNCHANGED <<config, pc, verdict, counters, scanning, found>>

Step == OpenEngine \/ ReadClock \/ NextKey \/ ScanBatch \/ KeyDone

Next == Step \/ BatchFails \/ Tick

\* The program is a single thread that is scheduled again and again, and its
\* calls return.  A failing batch is possible, never owed: the search must not
\* depend on it to come to an end.
Spec == Init /\ [][Next]_vars /\ WF_vars(Step)

-----------------------------------------------------------------------------
(* Properties.                                                             *)

\* Every variable holds a value of its kind; the counters are natural.
TypeOK ==
    /\ hits \in HitMaps
    /\ fixed_seed \in Keys \cup {NoSeed}
    /\ max_key_attempts \in Nat \cup {NoLimit}
    /\ clock \in Int
    /\ pc \in {"open", "clock", "next_key", "scan", "end"}
    /\ verdict \in {"running", "found", "exhausted", "limit", "error"}
    /\ timestamp_count \in 0 .. U32MAX + 1
    /\ key_attempts \in Nat /\ total_checked \in Nat
    /\ key \in Keys \cup {Leftover} /\ device_key \in Keys \cup {Leftover}
    /\ batch_start \in 0 .. U32MAX + 1
    /\ found \in {Nothing} \cup (Keys \X Timestamps)

\* A reported result is genuine: the key ID of this key at this time matches,
\* and the time is not in the future, even when the GPU answers nonsense.
GenuineResult ==
    verdict = "found" =>
        /\ found # Nothing
        /\ found[2] \in hits[found[1]]
        /\ found[2] <= clock
        /\ fixed_seed \in {NoSeed, found[1]}

\* A found time is the key's earliest match of all, whatever the clock and the
\* batch size were: so the same seed gives the same key in a later search, on
\* another GPU, and batches neither skip a timestamp nor come out of order.
Reproducible ==
    verdict = "found" =>
        \A t \in hits[found[1]] : found[2] <= t

\* Nothing is given up too early: within an attempt no reportable match lies
\* below the next batch, and an exhausted seed has none up to the horizon.
NothingSkipped ==
    pc = "scan" \/ verdict = "exhausted" =>
        \A t \in hits[key] : t >= batch_start \/ t = U32MAX

\* The reported counters tell the truth: "timestamps checked" is whole ranges
\* for the keys given up, plus the part of the last range up to the result,
\* and "keys tried" counts no key that was never scanned.
Counted(attempts) == attempts * timestamp_count
CountersTrue ==
    /\ pc = "next_key" => total_checked = Counted(key_attempts)
    /\ pc = "scan" => total_checked = Counted(key_attempts - 1) + batch_start
    /\ verdict = "found" =>
          total_checked = Counted(key_attempts - 1) + found[2] + 1
    /\ verdict = "limit" =>
          /\ key_attempts = max_key_attempts + 1
          /\ total_checked = Counted(max_key_attempts)
    /\ verdict = "exhausted" => total_checked = timestamp_count

\* The search comes to an end when it has to: the seed is given, the attempts
\* are limited, or every key has a match the engine can report.
Bounded ==
    \/ fixed_seed # NoSeed
    \/ max_key_attempts # NoLimit
    \/ \A k \in Keys : \E t \in hits[k] : t < timestamp_count /\ t # U32MAX
Terminates == [](pc = "next_key" /\ Bounded => <>(pc = "end"))

\* The loop implements what VanitySearch promises.
Promise == INSTANCE VanitySearch WITH
    horizon <- timestamp_count,
    tried <- IF pc \in {"scan", "end"} /\ key_attempts > 0
             THEN key_attempts - 1 ELSE key_attempts
KeepsPromise == Promise!Spec

\* What the exhausted search tells its user: all `timestamp_count' timestamps
\* were searched and none of them matches.
SearchedAll ==
    verdict = "exhausted" =>
        \A t \in hits[key] : t >= timestamp_count
=============================================================================
