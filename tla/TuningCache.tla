----------------------------- MODULE TuningCache -----------------------------
(***************************************************************************)
(* The tuning cache of a backend: the opening of an engine (new,           *)
(* load_cached_variant and store_cached_variant of src/gpu/cuda.rs and     *)
(* src/gpu/hip.rs, tuning_cache_path of src/gpu/mod.rs), run by several    *)
(* processes on several devices over one file without locks.  Processes    *)
(* may end anywhere, the disk may be full, the user may delete the file.   *)
(*                                                                         *)
(* The file is a sequence of lines.  The version, device name and compute  *)
(* capability lines are one line here, the identity; the compile options   *)
(* are one; the global work size is one.  The latter two keep their        *)
(* digits: a write cut short leaves a number that still parses.            *)
(***************************************************************************)
EXTENDS Integers, Sequences

CONSTANTS
    Processes,
    Identities,  \* what the first lines say: cache version and device
    Options,     \* compile options among the candidates, as digits
    WorkSizes    \* GLOBAL_WORK_SIZE_CANDIDATES, as digits

\* No candidate continues another: 524288, 1048576, 2097152, 4194304, 8388608.
ASSUME CandidatesAssumption ==
    /\ Options \subseteq Seq(0..9) /\ WorkSizes \subseteq Seq(0..9)
    /\ \A w, x \in WorkSizes : \A n \in 0..Len(x) : w = SubSeq(x, 1, n) => w = x

VARIABLES
    file,      \* the cache file: its lines and its length in digits
    pc,        \* where each process is
    identity,  \* the version and device of each process
    variant,   \* {} or the variant a process uses or is about to store
    tuned,     \* history: the identities and variants tuning has paired
    stored,    \* history: {} or the last entry written in full, while no one
               \* has touched the file since
    cached     \* history: identities stored in full since the last deletion

history == <<tuned, stored, cached>>
vars == <<file, pc, identity, variant, history>>

Variants == [options : Options, work : WorkSizes]
Entries == [identity : Identities, variant : Variants]

Width(v) == Len(v.options) + Len(v.work)

\* A missing file reads like an empty one.
Empty == [lines |-> <<>>, length |-> 0]

Init ==
    /\ file = Empty
    /\ pc = [p \in Processes |-> "idle"]
    /\ identity \in [Processes -> Identities]
    /\ variant = [p \in Processes |-> {}]
    /\ tuned = {} /\ stored = {} /\ cached = {}

Goto(p, l) == pc' = [pc EXCEPT ![p] = l]

-----------------------------------------------------------------------------

\* Bug: what follows the last line must be the end of the file.
NothingFollows(lines) == Len(lines) = 3
HasAllLines(lines) == Len(lines) >= 3

\* Bug: the device is not compared.
AnyIdentity(lines, id) == TRUE
SameIdentity(lines, id) == lines[1] = id

\* Bug: a number that parses is taken.
AnyNumbers(lines) == TRUE
AreCandidates(lines) == lines[2] \in Options /\ lines[3] \in WorkSizes

\* load_cached_variant: {} or the variant the file holds for id.
Parse(lines, id) ==
    IF HasAllLines(lines) /\ SameIdentity(lines, id) /\ AreCandidates(lines)
    THEN {[options |-> lines[2], work |-> lines[3]]}
    ELSE {}

\* A process starts, on the device it finds first.
Start(p) ==
    /\ pc[p] = "idle"
    /\ \E id \in Identities : identity' = [identity EXCEPT ![p] = id]
    /\ Goto(p, "load")
    /\ UNCHANGED <<file, variant, history>>

\* Bug: what the file gives is used even if it gives nothing.
AlwaysCached(found) == "build"
AfterLoad(found) == IF found = {} THEN "tune" ELSE "build"

Load(p) ==
    /\ pc[p] = "load"
    /\ LET found == Parse(file.lines, identity[p])
       IN  /\ variant' = [variant EXCEPT ![p] = found]
           /\ Goto(p, AfterLoad(found))
    /\ UNCHANGED <<file, identity, history>>

\* The cached variant is built; when that fails the device is tuned again.
BuildCached(p) ==
    /\ pc[p] = "build"
    /\ \/ Goto(p, "use") /\ UNCHANGED variant
       \/ Goto(p, "tune") /\ variant' = [variant EXCEPT ![p] = {}]
    /\ UNCHANGED <<file, identity, history>>

\* tune_variant (module Tuning) chooses a variant or fails the engine.
Tune(p) ==
    /\ pc[p] = "tune"
    /\ \/ \E v \in Variants :
              /\ variant' = [variant EXCEPT ![p] = {v}]
              /\ tuned' = tuned \cup {[identity |-> identity[p], variant |-> v]}
              /\ Goto(p, "open")
       \/ Goto(p, "idle") /\ UNCHANGED <<variant, tuned>>
    /\ UNCHANGED <<file, identity, stored, cached>>

\* create_dir_all, then fs::write opens and truncates; errors are ignored.
StoreOpen(p) ==
    /\ pc[p] = "open"
    /\ \/ file' = Empty /\ stored' = {} /\ Goto(p, "write")
       \/ Goto(p, "use") /\ UNCHANGED <<file, stored>>
    /\ UNCHANGED <<identity, variant, tuned, cached>>

\* The first n digits of an entry, over what is in the file.
Cut(id, v, n) ==
    IF n = 0 THEN <<>>
    ELSE IF n <= Len(v.options) THEN <<id, SubSeq(v.options, 1, n)>>
    ELSE <<id, v.options, SubSeq(v.work, 1, n - Len(v.options))>>

\* fs::write writes at the start of the file, where another process may have
\* written since the truncation: the end of a longer entry remains, on lines
\* of its own.
WriteAll(p) ==
    \E v \in variant[p] :
        LET longer == file.length > Width(v)
        IN  /\ file' = [lines |-> <<identity[p], v.options, v.work>>
                                     \o (IF longer THEN <<"rest">> ELSE <<>>),
                        length |-> IF longer THEN file.length ELSE Width(v)]
            /\ stored' = {[identity |-> identity[p], variant |-> v]}
            /\ cached' = cached \cup {identity[p]}

\* The file has to grow and the disk is full.
WriteShort(p) ==
    \E v \in variant[p] : \E n \in file.length..(Width(v) - 1) :
        /\ file' = [lines |-> Cut(identity[p], v, n), length |-> n]
        /\ stored' = {}
        /\ UNCHANGED cached

StoreWrite(p) ==
    /\ pc[p] = "write"
    /\ WriteAll(p) \/ WriteShort(p)
    /\ Goto(p, "use")
    /\ UNCHANGED <<identity, variant, tuned>>

\* The file was deleted after it was opened: the write goes nowhere.
StoreLost(p) ==
    /\ pc[p] = "lost"
    /\ Goto(p, "use")
    /\ UNCHANGED <<file, identity, variant, history>>

\* The process ends, or is killed where it is.
Exit(p) ==
    /\ pc[p] # "idle"
    /\ Goto(p, "idle")
    /\ variant' = [variant EXCEPT ![p] = {}]
    /\ UNCHANGED <<file, identity, history>>

\* The user deletes the file to tune again.
Delete ==
    /\ file' = Empty /\ stored' = {} /\ cached' = {}
    /\ pc' = [p \in Processes |-> IF pc[p] = "write" THEN "lost" ELSE pc[p]]
    /\ UNCHANGED <<identity, variant, tuned>>

Next ==
    \/ \E p \in Processes :
           \/ Start(p) \/ Load(p) \/ BuildCached(p) \/ Tune(p)
           \/ StoreOpen(p) \/ StoreWrite(p) \/ StoreLost(p) \/ Exit(p)
    \/ Delete

Spec == Init /\ [][Next]_vars

-----------------------------------------------------------------------------

Locations == {"idle", "load", "build", "tune", "open", "write", "lost", "use"}

TypeOK ==
    /\ file.length \in Nat /\ Len(file.lines) \in 0..4
    /\ pc \in [Processes -> Locations]
    /\ identity \in [Processes -> Identities]
    /\ variant \in [Processes -> SUBSET Variants]
    /\ \A p \in Processes : \A v, w \in variant[p] : v = w
    /\ \A p \in Processes : pc[p] \in {"build", "open", "write", "lost", "use"} => variant[p] # {}
    /\ tuned \subseteq Entries /\ stored \subseteq Entries
    /\ cached \subseteq Identities

\* A process that takes its variant from the cache takes one that tuning chose
\* for this device and this version of the program: no entry of another
\* device, no number cut short by a full disk, no mixture of two processes'
\* entries passes load_cached_variant.
TunedHere ==
    \A p \in Processes :
        pc[p] \in {"build", "use"} =>
            \A v \in variant[p] : [identity |-> identity[p], variant |-> v] \in tuned

\* An entry that was written in full and not touched since is the one the next
\* process on the device finds, whatever other processes had left in the file
\* between its truncation and the write.
LastStoreBelieved ==
    \A e \in stored : Parse(file.lines, e.identity) = {e.variant}

\* "Per-device kernel auto-tuning, cached between runs" (README.md:80): while
\* the file is intact, the next run on a device whose variant was stored, and
\* not deleted, finds it.
CachedBetweenRuns ==
    \A p \in Processes :
        pc[p] = "load" /\ identity[p] \in cached /\ stored # {}
            => Parse(file.lines, identity[p]) # {}
=============================================================================
