---------------------------- MODULE SearchBatch ----------------------------
(***************************************************************************)
(* One GPU engine (src/gpu/cuda.rs, src/gpu/hip.rs) and the two kernels it *)
(* launches (src/gpu_kernel.cu).  The host resets the best-timestamp cell, *)
(* launches the partial or the full-batch kernel, waits for it and reads   *)
(* the cell back.  Every lane of the kernel walks its own residue class of *)
(* the range in groups of four candidates; a match is written with         *)
(* atomicMin and ends the lane.  Now and then the lanes of a warp poll the *)
(* cell together and leave when it holds something at least as early as    *)
(* all they have left.                                                     *)
(*                                                                         *)
(* SHA-1 and the prefix comparison are abstracted to `hits', the set of    *)
(* timestamps whose key ID matches what the device buffers hold.           *)
(***************************************************************************)
EXTENDS Integers

CONSTANTS
    U32MAX,             \* u32::MAX
    Backend,            \* "hip" or "cuda"
    WarpSize,           \* lanes that poll together
    BlockSize,          \* lanes of a block
    GlobalWorkSize,     \* lanes of the largest launch
    BATCH_ITERATIONS,   \* candidates per lane in a full batch
    MATCH_POLL_GROUPS,  \* groups of candidates between two polls
    Requests,           \* the calls of search_batch to consider
    HitSets             \* the match sets to consider

\* Timestamps a lane advances per group; the only member of
\* POLL_INTERVAL_CANDIDATES.
POLL_INTERVAL == 4

\* RUN_CANDIDATE is unrolled four times per group, whatever POLL_INTERVAL is.
Candidates == 0 .. 3

FULL_BATCH_OUTER_LOOPS == BATCH_ITERATIONS \div POLL_INTERVAL

NOT_FOUND_TIMESTAMP == U32MAX
None == -1
Timestamps == 0 .. U32MAX
Lanes == 0 .. GlobalWorkSize - 1

\* batch_size(): the u64 product, capped so that it fits the u32 `count'.
BatchCover == GlobalWorkSize * BATCH_ITERATIONS
BatchSize == IF BatchCover > U32MAX THEN U32MAX ELSE BatchCover

\* The launch geometry the engine builds: whole warps in a block, whole
\* blocks in a launch (round_up in from_compiled), at least one outer loop.
ASSUME GeometryAssumption ==
    /\ Backend \in {"hip", "cuda"}
    /\ U32MAX \in Nat
    /\ WarpSize \in Nat \ {0}
    /\ BlockSize \in Nat \ {0}       /\ BlockSize % WarpSize = 0
    /\ GlobalWorkSize \in Nat \ {0}  /\ GlobalWorkSize % BlockSize = 0
    /\ GlobalWorkSize <= U32MAX
    /\ BATCH_ITERATIONS \in Nat \ {0}
    /\ BATCH_ITERATIONS % POLL_INTERVAL = 0
    /\ MATCH_POLL_GROUPS \in Nat \ {0}

\* The range of a request ends within the timestamps, and the full-batch
\* kernel, which covers BatchCover timestamps even where BatchSize was
\* capped one below it, stays within them as well: search() asks for a
\* batch of BatchSize only at multiples of BatchSize.
ASSUME RequestAssumption ==
    \A r \in Requests :
        /\ r \in [start : Timestamps, count : Timestamps]
        /\ r.start + r.count <= U32MAX + 1
        /\ r.count = BatchSize => r.start + BatchCover <= U32MAX + 1

ASSUME HitsAssumption == \A h \in HitSets : h \subseteq Timestamps

VARIABLES
    pc,             \* where search_batch is
    start, count,   \* its arguments
    answer,         \* what it last returned
    prefixes_ready, \* prefix_count > 0
    hits,           \* what the device's base words and prefixes match
    best,           \* the best-timestamp buffer
    kernel,         \* the kernel of the current launch
    work_items,     \* its number of lanes
    lane,           \* where each lane is: "poll", "scan" or "done"
    index,          \* offset of each lane's next group from `start'
    group,          \* groups run since the last poll
    iteration       \* groups run at all (full-batch kernel only)

host_vars == <<pc, start, count, answer, prefixes_ready>>
lane_vars == <<lane, index, group, iteration>>
vars == <<host_vars, hits, best, kernel, work_items, lane_vars>>

-----------------------------------------------------------------------------
(* The host side of search_batch.                                          *)

LaneTable(v) == [l \in Lanes |-> v]

\* The buffers are allocated, not cleared, and tuning may have used them:
\* any value may be in them.
Init ==
    /\ pc = "idle"
    /\ start = 0 /\ count = 0
    /\ answer = None
    /\ prefixes_ready = FALSE
    /\ hits \in HitSets
    /\ best \in Timestamps
    /\ kernel = "partial" /\ work_items = 0
    /\ lane = LaneTable("done")
    /\ index = LaneTable(0) /\ group = LaneTable(0) /\ iteration = LaneTable(0)

BetweenCalls == pc \in {"idle", "returned"}

\* prepare_prefixes: new prefixes on the device, so other timestamps match.
prepare_prefixes ==
    /\ BetweenCalls
    /\ pc' = "idle"
    /\ prefixes_ready' = TRUE
    /\ hits' \in HitSets
    /\ UNCHANGED <<start, count, answer, best, kernel, work_items, lane_vars>>

\* prepare_search: another key's base words on the device.
prepare_search ==
    /\ BetweenCalls
    /\ pc' = "idle"
    /\ hits' \in HitSets
    /\ UNCHANGED <<start, count, answer, prefixes_ready, best, kernel,
                   work_items, lane_vars>>

\* search_batch is called; without prefixes it refuses.
search_batch ==
    /\ BetweenCalls
    /\ \/ /\ prefixes_ready
          /\ pc' = "reset"
          /\ \E r \in Requests : start' = r.start /\ count' = r.count
       \/ /\ ~prefixes_ready
          /\ pc' = "failed"
          /\ UNCHANGED <<start, count>>
    /\ UNCHANGED <<answer, prefixes_ready, hits, best, kernel, work_items,
                   lane_vars>>

\* Bug: the cell keeps what the last batch, or tuning, left in it.
ResetSkipped ==
    /\ pc = "reset"
    /\ pc' = "launch"
    /\ UNCHANGED <<start, count, answer, prefixes_ready, hits, best, kernel,
                   work_items, lane_vars>>

\* The cell is set to "nothing found" before every launch.
ResetBest ==
    /\ pc = "reset"
    /\ pc' = "launch"
    /\ best' = NOT_FOUND_TIMESTAMP
    /\ UNCHANGED <<start, count, answer, prefixes_ready, hits, kernel,
                   work_items, lane_vars>>

round_up_u32(value, multiple) ==
    IF multiple = 0 \/ (value % multiple) = 0
    THEN value
    ELSE value + (multiple - (value % multiple))

\* Bug: the launch grows with the range, past the geometry tuned for.
WorkItemsUnbounded(c) == round_up_u32(IF c = 0 THEN 1 ELSE c, BlockSize)

\* A range of at most GlobalWorkSize timestamps gets just the blocks it needs.
WorkItems(c) ==
    IF c <= GlobalWorkSize
    THEN round_up_u32(IF c = 0 THEN 1 ELSE c, BlockSize)
    ELSE GlobalWorkSize

\* launch_kernel: the unguarded kernel for exactly one full batch.
KernelFor(c, w) ==
    IF c = BatchSize /\ w = GlobalWorkSize THEN "full" ELSE "partial"

\* Lanes past the end of the range (padding of the last block) leave the
\* partial kernel at once; the full-batch kernel has no such check.
launch_kernel ==
    /\ pc = "launch"
    /\ pc' = "kernel"
    /\ work_items' = WorkItems(count)
    /\ kernel' = KernelFor(count, WorkItems(count))
    /\ lane' = [l \in Lanes |->
                   IF l < work_items' /\ (kernel' = "full" \/ l < count)
                   THEN "poll" ELSE "done"]
    /\ index' = [l \in Lanes |-> l]
    /\ group' = LaneTable(0)
    /\ iteration' = LaneTable(0)
    /\ UNCHANGED <<start, count, answer, prefixes_ready, hits, best>>

\* cuCtxSynchronize / hipDeviceSynchronize: every lane has returned.  The
\* lanes' registers are gone.
Synchronize ==
    /\ pc = "kernel"
    /\ \A l \in Lanes : lane[l] = "done"
    /\ pc' = "read"
    /\ index' = LaneTable(0) /\ group' = LaneTable(0) /\ iteration' = LaneTable(0)
    /\ UNCHANGED <<start, count, answer, prefixes_ready, hits, best, kernel,
                   work_items, lane>>

\* The cell is copied back and decoded.
ReadBest ==
    /\ pc = "read"
    /\ pc' = "returned"
    /\ answer' = IF best = NOT_FOUND_TIMESTAMP THEN None ELSE best
    /\ UNCHANGED <<start, count, prefixes_ready, hits, best, kernel,
                   work_items, lane_vars>>

\* check_cuda / check_hip: the upload, reset, launch, wait or read fails.
\* search() propagates the first error and drops the engine.
ApiError ==
    /\ pc # "failed"
    /\ pc' = "failed"
    /\ UNCHANGED <<start, count, answer, prefixes_ready, hits, best, kernel,
                   work_items, lane_vars>>

-----------------------------------------------------------------------------
(* The lanes.                                                              *)

stride == work_items

\* Bug: a poll interval of eight, with four candidates evaluated per group.
PollStrideOfEight == stride * 8
poll_stride == stride * POLL_INTERVAL

\* Candidate j of the group lane l is at, in u32 arithmetic.
Timestamp(l, j) == (start + index[l] + j * stride) % (U32MAX + 1)

Warp(l) == {m \in Lanes : m \div WarpSize = l \div WarpSize}

\* Bug: the last lane of the warp reads the cell.
LastOfWarp(l) == l - (l % WarpSize) + (WarpSize - 1)
Leader(l) == l - (l % WarpSize)

\* Bug: a poll that waits for the lanes that have left, too.
WholeWarp(l) == Warp(l)
Active(l) == {m \in Warp(l) : lane[m] # "done"}

\* load_best_timestamp: the first lane of the warp reads the cell and
\* broadcasts it.  Once that lane has left the kernel, readfirstlane yields
\* another lane's initial 0xFFFFFFFF on HIP; on CUDA __shfl_sync then reads
\* an inactive lane, which is undefined: any value at all, for each lane.
BroadcastValues(l) ==
    IF lane[Leader(l)] # "done"
    THEN {best}
    ELSE IF Backend = "hip" THEN {NOT_FOUND_TIMESTAMP} ELSE Timestamps

\* Bug: leave as soon as anything at all was found.
LeavesOnAnyMatch(l, best_so_far) == best_so_far # NOT_FOUND_TIMESTAMP

\* Nothing this lane has left can beat the polled value.
LeavesFor(l, best_so_far) ==
    best_so_far # NOT_FOUND_TIMESTAMP /\ best_so_far <= Timestamp(l, 0)

\* All active lanes of a warp poll together: a warp-synchronous read.
Poll(l) ==
    /\ pc = "kernel"
    /\ l = Leader(l)
    /\ Active(l) # {}
    /\ \A m \in Active(l) : lane[m] = "poll"
    /\ \E best_so_far \in [Active(l) -> BroadcastValues(l)] :
          lane' = [m \in Lanes |->
                      IF m \notin Active(l) THEN lane[m]
                      ELSE IF LeavesFor(m, best_so_far[m]) THEN "done" ELSE "scan"]
    /\ group' = [m \in Lanes |-> IF m \in Active(l) THEN 0 ELSE group[m]]
    /\ UNCHANGED <<host_vars, hits, best, kernel, work_items, index, iteration>>

\* Bug: the tail guards admit the timestamp just past the range.
TriedOneMore(l) ==
    {j \in Candidates : \/ kernel = "full"
                        \/ j = 0
                        \/ count - index[l] >= j * stride}

\* The candidates of a group that are tried: the full-batch kernel tries all
\* four, the partial one only those before the end of the range.
Tried(l) ==
    {j \in Candidates : \/ kernel = "full"
                        \/ j = 0
                        \/ count - index[l] > j * stride}
Matching(l) == {j \in Tried(l) : Timestamp(l, j) \in hits}

\* Bug: a plain store, so that the last match written wins.
PlainStore(t) == best' = t

\* RUN_CANDIDATE matches: atomicMin, then the lane returns at once.
atomicMin(t) == best' = IF t < best THEN t ELSE best

Hit(l) ==
    /\ pc = "kernel" /\ lane[l] = "scan"
    /\ \E j \in Matching(l) :
          /\ \A i \in Matching(l) : j <= i
          /\ atomicMin(Timestamp(l, j))
    /\ lane' = [lane EXCEPT ![l] = "done"]
    /\ UNCHANGED <<host_vars, hits, kernel, work_items, index, group, iteration>>

\* After a group without a match: is this lane through, does it poll, or
\* does it go straight on to its next group?  (The index of a lane that
\* leaves is not used again.)
AtEnd(l) ==
    IF kernel = "full"
    THEN iteration[l] + 1 = FULL_BATCH_OUTER_LOOPS
    ELSE count - index[l] <= poll_stride

Miss(l) ==
    /\ pc = "kernel" /\ lane[l] = "scan"
    /\ Matching(l) = {}
    /\ lane' = [lane EXCEPT ![l] =
                   IF AtEnd(l) THEN "done"
                   ELSE IF group[l] + 1 = MATCH_POLL_GROUPS THEN "poll"
                   ELSE "scan"]
    /\ index' = [index EXCEPT ![l] = @ + poll_stride]
    /\ group' = [group EXCEPT ![l] = @ + 1]
    /\ iteration' = [iteration EXCEPT ![l] = IF kernel = "full" THEN @ + 1 ELSE @]
    /\ UNCHANGED <<host_vars, hits, best, kernel, work_items>>

-----------------------------------------------------------------------------
LaneStep(l) == Poll(l) \/ Hit(l) \/ Miss(l)

HostStep == ResetBest \/ launch_kernel \/ Synchronize \/ ReadBest

Next ==
    \/ prepare_prefixes \/ prepare_search \/ search_batch
    \/ HostStep \/ ApiError
    \/ \E l \in Lanes : LaneStep(l)

\* The host's calls return, and the GPU runs every resident lane; nothing
\* obliges the caller to ask for another batch.
Fairness ==
    /\ WF_vars(HostStep)
    /\ \A l \in Lanes : WF_vars(LaneStep(l))

Spec == Init /\ [][Next]_vars /\ Fairness

-----------------------------------------------------------------------------
(* Properties.                                                             *)

\* Every variable holds a value of its kind; the cell and the timestamps are
\* u32 values, and a launch never has more lanes than GlobalWorkSize.
TypeOK ==
    /\ pc \in {"idle", "reset", "launch", "kernel", "read", "returned", "failed"}
    /\ start \in Timestamps /\ count \in Timestamps
    /\ answer \in {None} \cup Timestamps
    /\ prefixes_ready \in BOOLEAN
    /\ hits \subseteq Timestamps
    /\ best \in Timestamps
    /\ kernel \in {"partial", "full"}
    /\ work_items \in 0 .. GlobalWorkSize
    /\ lane \in [Lanes -> {"poll", "scan", "done"}]
    /\ index \in [Lanes -> Nat]
    /\ group \in [Lanes -> 0 .. MATCH_POLL_GROUPS]
    /\ iteration \in [Lanes -> 0 .. FULL_BATCH_OUTER_LOOPS]

InRange == start .. start + count - 1
Reportable == (hits \cap InRange) \ {NOT_FOUND_TIMESTAMP}

\* Whatever the lanes' interleaving, the polls' staleness and the value an
\* exited lane broadcasts: search_batch returns the earliest match of the
\* range it was asked about, and None only when the range holds no match.
EarliestAnswer ==
    pc = "returned" =>
        \/ answer = None /\ Reportable = {}
        \/ answer \in Reportable /\ \A t \in Reportable : answer <= t

\* From the reset on, the cell never holds a value of an earlier batch, of a
\* padding lane or from outside the range: it is empty or a match of this one.
BestIsAHit ==
    pc \in {"launch", "kernel", "read"} =>
        best = NOT_FOUND_TIMESTAMP \/ best \in Reportable

\* The lane that has offset o of the range to scan.
Owner(o) == o % stride

\* While the kernel runs no match is lost: for every one of them the cell
\* already holds a timestamp as early, or the lane it belongs to is still
\* active and has not passed it.
NothingAbandoned ==
    pc \in {"kernel", "read"} =>
        \A t \in Reportable :
            \/ best <= t
            \/ LET l == Owner(t - start) IN
                  /\ lane[l] # "done"
                  /\ index[l] <= t - start

\* Why an undefined broadcast does no harm: when the lane that reads the cell
\* has left its warp, the cell already holds something no later than anything
\* the warp's remaining lanes could still try after the poll.
LeaderLeftFirst ==
    pc = "kernel" =>
        \A l \in Lanes :
            lane[l] = "poll" /\ lane[Leader(l)] = "done" =>
                best <= start + index[l]

\* Once asked, an engine whose calls succeed answers: no lane waits at a poll
\* for a lane that has left, and no lane loops for ever.
BatchReturns == pc = "reset" ~> pc \in {"returned", "failed"}

\* The engine implements what BatchSearch promises.
Promise == INSTANCE BatchSearch WITH
    phase <- IF pc \in {"reset", "launch", "kernel", "read"} THEN "searching" ELSE pc
KeepsPromise == Promise!Spec
=============================================================================
