-------------------------- MODULE SearchBatchProofs ------------------------
(***************************************************************************)
(* Proofs about SearchBatch, for every geometry, request and match set:    *)
(* types, and that search_batch answers the earliest match of its range.   *)
(***************************************************************************)
EXTENDS SearchBatch, TLAPS

-----------------------------------------------------------------------------
(* Arithmetic.                                                             *)

\* Division with remainder, for a divisor that is not a literal: what the
\* residue classes of the lanes (gpu_kernel.cu, gid and stride) rest on.
LEMMA DivMod ==
    ASSUME NEW a \in Nat, NEW s \in Nat \ {0}
    PROVE  /\ a \div s \in Nat
           /\ a % s \in 0 .. s - 1
           /\ a = s * (a \div s) + (a % s)
  OBVIOUS

\* Quotient and remainder of a division are unique.
LEMMA QuotientUnique ==
    ASSUME NEW s \in Nat \ {0}, NEW q \in Int, NEW p \in Int,
           NEW r \in 0 .. s - 1, NEW u \in 0 .. s - 1,
           s * q + r = s * p + u
    PROVE  q = p /\ r = u
  OBVIOUS

\* A number below the divisor is its own remainder: no u32 wrap, and lane l
\* starts in its own class.
LEMMA ModSmall ==
    ASSUME NEW s \in Nat \ {0}, NEW a \in 0 .. s - 1
    PROVE  a % s = a
  OBVIOUS

\* A remainder is no larger than the number it is of.
LEMMA ModLe ==
    ASSUME NEW s \in Nat \ {0}, NEW a \in Nat
    PROVE  a % s <= a
  OBVIOUS

\* A lane that advances by the stride stays in its residue class.
LEMMA ModStep ==
    ASSUME NEW s \in Nat \ {0}, NEW a \in Nat
    PROVE  (a + s) % s = a % s
<1> DEFINE q == a \div s
           r == a % s
           p == (a + s) \div s
           u == (a + s) % s
<1>1. q \in Nat /\ r \in 0 .. s - 1 /\ a = s * q + r
  BY DivMod
<1>2. p \in Nat /\ u \in 0 .. s - 1 /\ a + s = s * p + u
  BY DivMod, a + s \in Nat
<1>3. s * (q + 1) = s * q + s
  BY <1>1
<1>4. s * (q + 1) + r = s * p + u
  BY <1>1, <1>2, <1>3
<1> HIDE DEF q, r, p, u
<1>5. r = u
  BY <1>1, <1>2, <1>4, QuotientUnique, q + 1 \in Int
<1> QED BY <1>5 DEF r, u

\* Two members of a residue class are equal or a stride apart.
LEMMA ModClass ==
    ASSUME NEW s \in Nat \ {0}, NEW a \in Nat, NEW b \in Nat,
           a % s = b % s, a <= b
    PROVE  a = b \/ a + s <= b
<1> DEFINE q == a \div s
           r == a % s
           p == b \div s
<1>1. q \in Nat /\ r \in 0 .. s - 1 /\ a = s * q + r
  BY DivMod
<1>2. p \in Nat /\ b = s * p + r
  BY DivMod
<1> HIDE DEF q, r, p
<1>3. CASE p <= q
  <2>1. s * p <= s * q BY <1>1, <1>2, <1>3
  <2> QED BY <2>1, <1>1, <1>2
<1>4. CASE p >= q + 1
  <2>1. s * p >= s * (q + 1) BY <1>1, <1>2, <1>4
  <2>2. s * (q + 1) = s * q + s BY <1>1
  <2> QED BY <2>1, <2>2, <1>1, <1>2
<1> QED BY <1>3, <1>4, <1>1, <1>2

\* Rounding up to a multiple of the block size does not pass a bound that is
\* itself a multiple (round_up_u32 in search_batch).
LEMMA RoundUpBound ==
    ASSUME NEW b \in Nat \ {0}, NEW g \in Nat, NEW c \in Nat,
           g % b = 0, c <= g
    PROVE  /\ round_up_u32(c, b) \in Nat
           /\ c <= round_up_u32(c, b)
           /\ round_up_u32(c, b) <= g
<1> DEFINE q == c \div b
           r == c % b
           p == g \div b
<1>1. q \in Nat /\ r \in 0 .. b - 1 /\ c = b * q + r
  BY DivMod
<1>2. p \in Nat /\ g = b * p
  BY DivMod
<1>3. round_up_u32(c, b) = IF r = 0 THEN c ELSE c + (b - r)
  BY DEF round_up_u32
<1> HIDE DEF q, r, p
<1>4. CASE r = 0
  BY <1>1, <1>3, <1>4
<1>5. CASE r # 0 /\ p <= q
  <2>1. b * p <= b * q BY <1>1, <1>2, <1>5
  <2> QED BY <2>1, <1>1, <1>2, <1>5
<1>6. CASE r # 0 /\ p >= q + 1
  <2>1. b * p >= b * (q + 1) BY <1>1, <1>2, <1>6
  <2>2. b * (q + 1) = b * q + b BY <1>1
  <2> QED BY <2>1, <2>2, <1>1, <1>2, <1>3, <1>6
<1> QED BY <1>4, <1>5, <1>6, <1>1, <1>2

-----------------------------------------------------------------------------
(* Types.                                                                  *)

\* A lane that is still to scan has polls and outer loops left: what TypeOK
\* lacks to be inductive.
LoopBounds ==
    \A l \in Lanes :
        /\ lane[l] = "scan" => group[l] < MATCH_POLL_GROUPS
        /\ kernel = "full" /\ lane[l] # "done" =>
              iteration[l] < FULL_BATCH_OUTER_LOOPS

\* The inductive form of TypeOK.
TInv == TypeOK /\ LoopBounds

\* The constants derived from the geometry are what the kernels expect.
LEMMA ConstantFacts ==
    /\ U32MAX \in Nat /\ GlobalWorkSize \in 1 .. U32MAX
    /\ BlockSize \in Nat \ {0} /\ WarpSize \in Nat \ {0}
    /\ MATCH_POLL_GROUPS \in Nat \ {0}
    /\ BATCH_ITERATIONS \in Nat \ {0}
    /\ FULL_BATCH_OUTER_LOOPS \in Nat \ {0}
    /\ BATCH_ITERATIONS = 4 * FULL_BATCH_OUTER_LOOPS
    /\ BatchCover \in Nat \ {0} /\ BatchSize \in 1 .. U32MAX
<1>1. /\ FULL_BATCH_OUTER_LOOPS \in Nat \ {0}
      /\ BATCH_ITERATIONS = 4 * FULL_BATCH_OUTER_LOOPS
  BY GeometryAssumption DEF FULL_BATCH_OUTER_LOOPS, POLL_INTERVAL
<1>2. BatchCover \in Nat \ {0}
  BY GeometryAssumption DEF BatchCover
<1>3. GlobalWorkSize \in 1 .. U32MAX
  BY GeometryAssumption
<1> QED BY <1>1, <1>2, <1>3, GeometryAssumption DEF BatchSize

\* A launch has at least one lane, and as many as GlobalWorkSize at most; all
\* of a range that fits the launch has lanes, and a longer one the full launch.
LEMMA WorkItemsBound ==
    ASSUME NEW c \in Nat
    PROVE  /\ WorkItems(c) \in 1 .. GlobalWorkSize
           /\ c <= WorkItems(c) \/ WorkItems(c) = GlobalWorkSize
<1>1. CASE c > GlobalWorkSize
  BY <1>1, ConstantFacts DEF WorkItems
<1>2. CASE c <= GlobalWorkSize
  <2> DEFINE d == IF c = 0 THEN 1 ELSE c
  <2>1. d \in Nat /\ d >= 1 /\ d >= c /\ d <= GlobalWorkSize
    BY <1>2, ConstantFacts
  <2>2. WorkItems(c) = round_up_u32(d, BlockSize)
    BY <1>2 DEF WorkItems
  <2> HIDE DEF d
  <2>3. /\ round_up_u32(d, BlockSize) \in Nat
        /\ d <= round_up_u32(d, BlockSize)
        /\ round_up_u32(d, BlockSize) <= GlobalWorkSize
    BY <2>1, ConstantFacts, GeometryAssumption, RoundUpBound
  <2> QED BY <2>1, <2>2, <2>3
<1> QED BY <1>1, <1>2, ConstantFacts

\* The freshly built engine is well typed, whatever its buffers hold.
LEMMA TypeInit == Init => TInv
<1> SUFFICES ASSUME Init PROVE TInv
  OBVIOUS
<1> USE DEF Init, LaneTable
<1>1. hits \subseteq Timestamps
  BY HitsAssumption
<1>2. /\ lane \in [Lanes -> {"poll", "scan", "done"}]
      /\ index \in [Lanes -> Nat]
      /\ group \in [Lanes -> 0 .. MATCH_POLL_GROUPS]
      /\ iteration \in [Lanes -> 0 .. FULL_BATCH_OUTER_LOOPS]
  BY ConstantFacts
<1>3. /\ start \in Timestamps /\ count \in Timestamps /\ best \in Timestamps
      /\ work_items \in 0 .. GlobalWorkSize
  BY ConstantFacts DEF Timestamps
<1>4. LoopBounds
  BY DEF LoopBounds
<1> QED BY <1>1, <1>2, <1>3, <1>4 DEF TInv, TypeOK

\* The host's steps.
LEMMA TypeHost ==
    ASSUME TInv,
           \/ prepare_prefixes \/ prepare_search \/ search_batch
           \/ HostStep \/ ApiError
    PROVE  TInv'
<1> USE ConstantFacts DEF TInv, TypeOK, LoopBounds
<1>1. CASE prepare_prefixes
  BY <1>1, HitsAssumption DEF prepare_prefixes, lane_vars
<1>2. CASE prepare_search
  BY <1>2, HitsAssumption DEF prepare_search, lane_vars
<1>3. CASE search_batch
  <2>1. start' \in Timestamps /\ count' \in Timestamps
    <3>1. CASE UNCHANGED <<start, count>>
      BY <3>1
    <3>2. CASE \E r \in Requests : start' = r.start /\ count' = r.count
      <4>1. PICK r \in Requests : start' = r.start /\ count' = r.count
        BY <3>2
      <4> QED BY <4>1, RequestAssumption
    <3> QED BY <1>3, <3>1, <3>2 DEF search_batch
  <2> QED BY <1>3, <2>1 DEF search_batch, lane_vars
<1>4. CASE ResetBest
  BY <1>4 DEF ResetBest, lane_vars, NOT_FOUND_TIMESTAMP, Timestamps
<1>5. CASE launch_kernel
  <2>1. work_items' \in 1 .. GlobalWorkSize
    BY <1>5, WorkItemsBound DEF launch_kernel, Timestamps
  <2>2. kernel' \in {"partial", "full"}
    BY <1>5 DEF launch_kernel, KernelFor
  <2>3. lane' \in [Lanes -> {"poll", "done"}]
    BY <1>5 DEF launch_kernel
  <2>4. /\ index' \in [Lanes -> Nat]
        /\ group' = [l \in Lanes |-> 0]
        /\ iteration' = [l \in Lanes |-> 0]
    BY <1>5 DEF launch_kernel, LaneTable, Lanes
  <2> QED BY <1>5, <2>1, <2>2, <2>3, <2>4 DEF launch_kernel
<1>6. CASE Synchronize
  BY <1>6 DEF Synchronize, LaneTable
<1>7. CASE ReadBest
  BY <1>7 DEF ReadBest, lane_vars
<1>8. CASE ApiError
  BY <1>8 DEF ApiError, lane_vars
<1> QED BY <1>1, <1>2, <1>3, <1>4, <1>5, <1>6, <1>7, <1>8 DEF HostStep

\* The lanes' steps.
LEMMA TypeLane ==
    ASSUME TInv, NEW l \in Lanes, LaneStep(l)
    PROVE  TInv'
<1> USE ConstantFacts DEF TInv, TypeOK, LoopBounds, host_vars
<1>1. CASE Poll(l)
  <2>1. lane' \in [Lanes -> {"poll", "scan", "done"}]
    BY <1>1 DEF Poll
  <2>2. group' \in [Lanes -> 0 .. MATCH_POLL_GROUPS]
    BY <1>1 DEF Poll
  <2>3. \A m \in Lanes : lane'[m] # "done" => lane[m] # "done"
    BY <1>1 DEF Poll, Active
  <2>4. \A m \in Lanes : lane'[m] = "scan" => group'[m] < MATCH_POLL_GROUPS
    BY <1>1 DEF Poll
  <2> QED BY <1>1, <2>1, <2>2, <2>3, <2>4 DEF Poll
<1>2. CASE Hit(l)
  <2>1. best' \in Timestamps
    <3>1. PICK j \in Matching(l) : atomicMin(Timestamp(l, j))
      BY <1>2 DEF Hit
    <3>2. Timestamp(l, j) \in hits
      BY <3>1 DEF Matching
    <3> QED BY <3>1, <3>2 DEF atomicMin
  <2> QED BY <1>2, <2>1 DEF Hit
<1>3. CASE Miss(l)
  <2>1. poll_stride \in Nat
    BY DEF poll_stride, stride, POLL_INTERVAL
  <2>2. index' \in [Lanes -> Nat]
    BY <1>3, <2>1 DEF Miss
  <2>3. group[l] < MATCH_POLL_GROUPS
    BY <1>3 DEF Miss
  <2>4. group' \in [Lanes -> 0 .. MATCH_POLL_GROUPS]
    BY <1>3, <2>3 DEF Miss
  <2>5. iteration' \in [Lanes -> 0 .. FULL_BATCH_OUTER_LOOPS]
    BY <1>3 DEF Miss
  <2>6. lane' \in [Lanes -> {"poll", "scan", "done"}]
    BY <1>3 DEF Miss
  <2>7. \A m \in Lanes : lane'[m] = "scan" => group'[m] < MATCH_POLL_GROUPS
    BY <1>3, <2>3 DEF Miss
  <2>8. \A m \in Lanes : kernel' = "full" /\ lane'[m] # "done" =>
           iteration'[m] < FULL_BATCH_OUTER_LOOPS
    BY <1>3 DEF Miss, AtEnd
  <2> QED BY <1>3, <2>2, <2>4, <2>5, <2>6, <2>7, <2>8 DEF Miss
<1> QED BY <1>1, <1>2, <1>3 DEF LaneStep

\* Every call, every host step and every lane step keeps the types.
LEMMA TypeStep == TInv /\ [Next]_vars => TInv'
<1> SUFFICES ASSUME TInv, [Next]_vars PROVE TInv'
  OBVIOUS
<1>1. CASE UNCHANGED vars
  BY <1>1 DEF vars, host_vars, lane_vars, TInv, TypeOK, LoopBounds
<1>2. CASE \E l \in Lanes : LaneStep(l)
  BY <1>2, TypeLane
<1> QED BY <1>1, <1>2, TypeHost DEF Next

\* The cell, the arguments and the lanes' registers are always u32 values or
\* program points of the code, and no launch exceeds GlobalWorkSize.
THEOREM TypeCorrect == Spec => []TypeOK
<1>1. TInv => TypeOK
  BY DEF TInv
<1> QED BY <1>1, TypeInit, TypeStep, PTL DEF Spec

-----------------------------------------------------------------------------
(* The inductive invariant behind EarliestAnswer.                          *)

\* Where search_batch is between its call and its return, and between its
\* launch and its return.
Busy == pc \in {"reset", "launch", "kernel", "read"}
Launched == pc \in {"kernel", "read"}

\* One past the last offset the kernel covers.  A capped full batch covers
\* one offset more than count.
End == IF kernel = "full" THEN BatchCover ELSE count

\* The arguments are those of a request.
RequestInv ==
    Busy => /\ start + count <= U32MAX + 1
            /\ count = BatchSize => start + BatchCover <= U32MAX + 1

\* The cell was reset before the launch, the full-batch kernel has the largest
\* launch and a full batch to do, and the wait ends with every lane.
LaunchInv ==
    /\ pc = "launch" => best = NOT_FOUND_TIMESTAMP
    /\ Launched =>
          /\ stride \in 1 .. GlobalWorkSize
          /\ kernel = "full" => stride = GlobalWorkSize /\ count = BatchSize
    /\ pc = "read" => \A l \in Lanes : lane[l] = "done"

\* The cell is empty or a match of this range.
CellInv == Launched => best = NOT_FOUND_TIMESTAMP \/ best \in Reportable

\* An active lane is inside the range and in its own residue class.
PositionInv ==
    pc = "kernel" =>
        \A l \in Lanes : lane[l] # "done" =>
            /\ l < stride
            /\ index[l] < End
            /\ index[l] % stride = l
            /\ kernel = "full" => index[l] = l + iteration[l] * poll_stride

\* What a lane has passed, and all of its offsets once it is done, hold no
\* match earlier than the cell.
Passed(l, o) == lane[l] = "done" \/ o < index[l]
ScannedInv ==
    Launched =>
        \A t \in hits :
            start <= t /\ t < start + End /\ Passed(Owner(t - start), t - start)
                => best <= t

\* Where a lane will be, or is, at its next poll.
NextPoll(l) ==
    IF lane[l] = "poll" THEN index[l]
    ELSE index[l] + (MATCH_POLL_GROUPS - group[l]) * poll_stride

\* The lanes of a warp go from poll to poll in step with their leader; after
\* it has left, the cell is no later than where the others will poll next,
\* or they will not poll again.
WarpInv ==
    pc = "kernel" =>
        \A l \in Lanes : lane[l] # "done" =>
            IF lane[Leader(l)] = "done"
            THEN best <= start + NextPoll(l) \/ End <= NextPoll(l)
            ELSE NextPoll(l) - l = NextPoll(Leader(l)) - Leader(l)

\* The inductive invariant.  EarliestAnswer itself is carried along from the
\* moment the cell is read to the next call.
IInv ==
    /\ RequestInv
    /\ LaunchInv
    /\ CellInv
    /\ PositionInv
    /\ ScannedInv
    /\ WarpInv
    /\ EarliestAnswer

-----------------------------------------------------------------------------
(* Facts about a launch under way.                                         *)

\* The kernel covers the range of the request and stays within the timestamps;
\* all it covers beyond the range is the reserved last timestamp.
LEMMA RangeFacts ==
    ASSUME TInv, RequestInv, LaunchInv, Launched
    PROVE  /\ stride \in Nat \ {0}
           /\ poll_stride = 4 * stride
           /\ start \in Nat /\ count \in Nat /\ End \in Nat
           /\ count <= End
           /\ start + End <= U32MAX + 1
           /\ kernel # "full" => End = count
           /\ \A t \in Timestamps :
                 start <= t /\ t < start + End =>
                     t = NOT_FOUND_TIMESTAMP \/ t \in InRange
<1> USE ConstantFacts
<1>1. start \in Timestamps /\ count \in Timestamps
  BY DEF TInv, TypeOK
<1>2. stride \in Nat \ {0}
  BY DEF LaunchInv
<1>3. poll_stride = 4 * stride
  BY <1>2 DEF poll_stride, POLL_INTERVAL
<1>4. /\ start + count <= U32MAX + 1
      /\ count = BatchSize => start + BatchCover <= U32MAX + 1
  BY DEF RequestInv, Launched, Busy
<1>5. CASE kernel = "full"
  <2>1. count = BatchSize
    BY <1>5 DEF LaunchInv
  <2>2. End = BatchCover
    BY <1>5 DEF End
  <2>3. count = End \/ (count = U32MAX /\ start = 0 /\ End = U32MAX + 1)
    BY <1>1, <1>4, <2>1, <2>2 DEF BatchSize, Timestamps
  <2> QED BY <1>1, <1>2, <1>3, <1>4, <1>5, <2>1, <2>2, <2>3
          DEF Timestamps, InRange, NOT_FOUND_TIMESTAMP
<1>6. CASE kernel # "full"
  <2>1. End = count
    BY <1>6 DEF End
  <2> QED BY <1>1, <1>2, <1>3, <1>4, <1>6, <2>1 DEF Timestamps, InRange
<1> QED BY <1>5, <1>6

\* Inside the launch u32 arithmetic does not wrap.
LEMMA NoWrap ==
    ASSUME TInv, RequestInv, LaunchInv, Launched,
           NEW l \in Lanes, NEW j \in Candidates,
           index[l] + j * stride < End
    PROVE  Timestamp(l, j) = start + index[l] + j * stride
<1>1. /\ stride \in Nat /\ start \in Nat /\ End \in Nat
      /\ start + End <= U32MAX + 1 /\ U32MAX \in Nat
  BY RangeFacts, ConstantFacts
<1>2. index[l] \in Nat /\ j \in 0 .. 3
  BY DEF TInv, TypeOK, Candidates
<1> DEFINE offset == index[l] + j * stride
<1>3. j * stride \in Nat
  BY <1>1, <1>2
<1>4. start + index[l] + j * stride \in 0 .. (U32MAX + 1) - 1
  BY <1>1, <1>2, <1>3
<1>5. (start + index[l] + j * stride) % (U32MAX + 1) = start + index[l] + j * stride
  BY <1>1, <1>4, ModSmall, U32MAX + 1 \in Nat \ {0}
<1> QED BY <1>5 DEF Timestamp

\* The four candidates of a group are exactly the offsets of the lane's
\* residue class within one poll stride.
LEMMA GroupCovers ==
    ASSUME NEW s \in Nat \ {0}, NEW i \in Nat, NEW o \in Nat,
           o % s = i % s, i <= o, o < i + 4 * s
    PROVE  \E j \in Candidates : o = i + j * s
<1>1. /\ (i + s) % s = i % s
      /\ (i + s + s) % s = i % s
      /\ (i + s + s + s) % s = i % s
  BY ModStep, i + s \in Nat, i + s + s \in Nat
<1>2. o = i \/ i + s <= o
  BY ModClass
<1>3. i + s <= o => o = i + s \/ i + s + s <= o
  BY <1>1, ModClass, i + s \in Nat
<1>4. i + s + s <= o => o = i + s + s \/ i + s + s + s <= o
  BY <1>1, ModClass, i + s + s \in Nat
<1>5. i + s + s + s <= o => o = i + s + s + s \/ i + s + s + s + s <= o
  BY <1>1, ModClass, i + s + s + s \in Nat
<1>6. o = i + 0 * s \/ o = i + 1 * s \/ o = i + 2 * s \/ o = i + 3 * s
  BY <1>2, <1>3, <1>4, <1>5
<1> QED BY <1>6 DEF Candidates

\* In the full-batch kernel a lane with an outer loop left has a whole group
\* inside the launch, and one that has run its last loop is past the end.
LEMMA FullLoops ==
    ASSUME TInv, LaunchInv, PositionInv, pc = "kernel", kernel = "full",
           NEW l \in Lanes, lane[l] # "done"
    PROVE  /\ index[l] + 3 * stride < End
           /\ iteration[l] + 1 = FULL_BATCH_OUTER_LOOPS => End <= index[l] + poll_stride
           /\ iteration[l] + 1 # FULL_BATCH_OUTER_LOOPS =>
                 index[l] + poll_stride + 3 * stride < End
<1> DEFINE P == poll_stride
           F == FULL_BATCH_OUTER_LOOPS
           it == iteration[l]
<1>1. /\ stride \in Nat \ {0} /\ stride = GlobalWorkSize
      /\ P = 4 * stride
  BY ConstantFacts DEF LaunchInv, Launched, poll_stride, POLL_INTERVAL
<1>2. it \in Nat /\ it < F /\ F \in Nat
  BY ConstantFacts DEF TInv, TypeOK, LoopBounds
<1>3. index[l] = l + it * P /\ l < stride /\ l \in Nat
  BY DEF PositionInv, Lanes
<1>4. End = F * P
  <2>1. End = GlobalWorkSize * (4 * F)
    BY ConstantFacts DEF End, BatchCover
  <2>2. GlobalWorkSize * (4 * F) = F * (4 * GlobalWorkSize)
    BY ConstantFacts
  <2> QED BY <1>1, <2>1, <2>2
<1> HIDE DEF P, F, it
<1>5. (it + 1) * P <= F * P
  BY <1>1, <1>2
<1>6. (it + 1) * P = it * P + P
  BY <1>1, <1>2
<1>7. it + 1 = F => F * P = it * P + P
  BY <1>6
<1>8. it + 1 # F => it * P + P + P <= F * P
  <2>1. SUFFICES ASSUME it + 1 # F PROVE it * P + P + P <= F * P
    OBVIOUS
  <2>2. (it + 2) * P <= F * P
    BY <1>1, <1>2, <2>1
  <2>3. (it + 2) * P = it * P + P + P
    BY <1>1, <1>2
  <2> QED BY <2>2, <2>3
<1>9. it * P \in Nat /\ F * P \in Nat
  BY <1>1, <1>2
<1>10. /\ index[l] + 3 * stride < End
       /\ it + 1 = F => End <= index[l] + P
       /\ it + 1 # F => index[l] + P + 3 * stride < End
  BY <1>1, <1>3, <1>4, <1>5, <1>6, <1>7, <1>8, <1>9
<1> QED BY <1>10 DEF P, F, it

\* The guards of a group admit exactly the candidates inside the launch.
LEMMA TriedInside ==
    ASSUME TInv, RequestInv, LaunchInv, PositionInv, pc = "kernel",
           NEW l \in Lanes, lane[l] # "done", NEW j \in Candidates
    PROVE  j \in Tried(l) <=> index[l] + j * stride < End
<1>1. stride \in Nat \ {0} /\ index[l] \in Nat /\ index[l] < End /\ j \in 0 .. 3
      /\ End \in Nat /\ count \in Nat
  BY RangeFacts DEF Launched, TInv, TypeOK, PositionInv, Candidates
<1>2. CASE kernel = "full"
  <2>1. index[l] + 3 * stride < End
    BY <1>2, FullLoops
  <2>2. j * stride <= 3 * stride /\ j * stride \in Nat
    BY <1>1
  <2> QED BY <1>1, <1>2, <2>1, <2>2 DEF Tried
<1>3. CASE kernel # "full"
  <2>1. End = count
    BY <1>3 DEF End
  <2>2. j * stride \in Nat /\ (j = 0 => j * stride = 0)
    BY <1>1
  <2> QED BY <1>1, <1>3, <2>1, <2>2 DEF Tried
<1> QED BY <1>2, <1>3

\* A match that a lane still has ahead is a candidate of its current group or
\* lies beyond the group.
LEMMA AheadOrMatching ==
    ASSUME TInv, RequestInv, LaunchInv, PositionInv, pc = "kernel",
           NEW l \in Lanes, lane[l] # "done",
           NEW t \in hits, start <= t, t < start + End,
           Owner(t - start) = l, index[l] <= t - start
    PROVE  \/ index[l] + poll_stride <= t - start
           \/ \E k \in Matching(l) : t = Timestamp(l, k) /\ t = start + index[l] + k * stride
<1>1. /\ stride \in Nat \ {0} /\ poll_stride = 4 * stride
      /\ start \in Nat /\ End \in Nat
  BY RangeFacts DEF Launched
<1>2. t \in Nat /\ index[l] \in Nat /\ t - start \in Nat
  BY <1>1 DEF TInv, TypeOK, Timestamps
<1>3. (t - start) % stride = index[l] % stride
  BY DEF Owner, PositionInv
<1>4. SUFFICES ASSUME t - start < index[l] + 4 * stride
               PROVE  \E k \in Matching(l) :
                         t = Timestamp(l, k) /\ t = start + index[l] + k * stride
  BY <1>1, <1>2
<1>5. PICK k \in Candidates : t - start = index[l] + k * stride
  BY <1>1, <1>2, <1>3, <1>4, GroupCovers
<1>6. k * stride \in Nat
  BY <1>1 DEF Candidates
<1>7. index[l] + k * stride < End
  BY <1>1, <1>2, <1>5
<1>8. k \in Tried(l)
  BY <1>7, TriedInside
<1>9. Timestamp(l, k) = start + index[l] + k * stride
  BY <1>7, NoWrap DEF Launched
<1>10. t = start + index[l] + k * stride
  BY <1>1, <1>2, <1>5, <1>6
<1> QED BY <1>8, <1>9, <1>10 DEF Matching

\* The leader of a warp's lane is a lane of the same warp, not above it; and
\* the lanes of a leader's warp have it for their leader.
LEMMA WarpFacts ==
    /\ \A l \in Lanes : Leader(l) \in Lanes /\ Leader(l) <= l
    /\ \A l \in Lanes : l = Leader(l) => \A m \in Warp(l) : Leader(m) = l
    /\ \A m \in Lanes : m \in Warp(Leader(m)) /\ Leader(Leader(m)) = Leader(m)
<1> USE ConstantFacts DEF Lanes
<1> DEFINE q(l) == l \div WarpSize
           r(l) == l % WarpSize
<1>1. \A l \in Lanes : q(l) \in Nat /\ r(l) \in 0 .. WarpSize - 1
                       /\ l = WarpSize * q(l) + r(l)
  <2> SUFFICES ASSUME NEW l \in Lanes
               PROVE  q(l) \in Nat /\ r(l) \in 0 .. WarpSize - 1
                      /\ l = WarpSize * q(l) + r(l)
    OBVIOUS
  <2>1. l \in Nat
    OBVIOUS
  <2> QED BY <2>1, DivMod
<1>2. \A l \in Lanes : Leader(l) = l - r(l)
  BY DEF Leader
<1>3. \A l \in Lanes : Warp(l) = {m \in Lanes : q(m) = q(l)}
  BY DEF Warp
<1> HIDE DEF q, r
<1>4. \A l \in Lanes : Leader(l) \in Lanes /\ Leader(l) <= l
                       /\ Leader(l) = WarpSize * q(l)
  <2> SUFFICES ASSUME NEW l \in Lanes
               PROVE  Leader(l) \in Lanes /\ Leader(l) <= l /\ Leader(l) = WarpSize * q(l)
    OBVIOUS
  <2>1. WarpSize * q(l) \in Nat
    BY <1>1
  <2> QED BY <1>1, <1>2, <2>1
<1>5. \A l \in Lanes : l = Leader(l) => \A m \in Warp(l) : Leader(m) = l
  BY <1>3, <1>4
<1>6. ASSUME NEW m \in Lanes
      PROVE  q(Leader(m)) = q(m)
  <2>1. WarpSize * q(Leader(m)) + r(Leader(m)) = WarpSize * q(m) + 0
    BY <1>1, <1>4
  <2>2. /\ q(Leader(m)) \in Int /\ q(m) \in Int /\ WarpSize \in Nat \ {0}
        /\ r(Leader(m)) \in 0 .. WarpSize - 1 /\ 0 \in 0 .. WarpSize - 1
    BY <1>1, <1>4
  <2> HIDE DEF Lanes
  <2> QED BY <2>1, <2>2, QuotientUnique
<1>7. \A m \in Lanes : m \in Warp(Leader(m))
  BY <1>3, <1>4, <1>6
<1>8. \A m \in Lanes : Leader(Leader(m)) = Leader(m)
  BY <1>4, <1>6
<1> QED BY <1>4, <1>5, <1>7, <1>8

-----------------------------------------------------------------------------
(* The invariant is preserved.                                             *)

\* Nothing has been asked of a new engine.
LEMMA InvInit == Init => IInv
BY DEF Init, IInv, RequestInv, LaunchInv, CellInv, PositionInv, ScannedInv,
       WarpInv, EarliestAnswer, Busy, Launched

\* Steps of the host other than the launch and the read change neither the
\* range nor the lanes while a kernel runs.
LEMMA InvHost ==
    ASSUME TInv, TInv', IInv,
           \/ prepare_prefixes \/ prepare_search \/ search_batch
           \/ ResetBest \/ ApiError
    PROVE  IInv'
<1> USE DEF IInv, RequestInv, LaunchInv, CellInv, PositionInv, ScannedInv,
            WarpInv, EarliestAnswer, Busy, Launched
<1>1. CASE prepare_prefixes
  BY <1>1 DEF prepare_prefixes
<1>2. CASE prepare_search
  BY <1>2 DEF prepare_search
<1>3. CASE search_batch
  <2>1. CASE pc' = "failed"
    BY <2>1
  <2>2. CASE pc' = "reset"
    <3>1. PICK r \in Requests : start' = r.start /\ count' = r.count
      BY <1>3, <2>2 DEF search_batch
    <3>2. RequestInv'
      BY <3>1, RequestAssumption
    <3> QED BY <2>2, <3>2
  <2> QED BY <1>3, <2>1, <2>2 DEF search_batch
<1>4. CASE ResetBest
  BY <1>4 DEF ResetBest
<1>5. CASE ApiError
  BY <1>5 DEF ApiError
<1> QED BY <1>1, <1>2, <1>3, <1>4, <1>5

\* launch_kernel: every lane starts at its own first offset, every warp in step,
\* and a lane the partial kernel sends home has no offset in the range.
LEMMA InvLaunch ==
    ASSUME TInv, TInv', IInv, launch_kernel
    PROVE  IInv'
<1> USE DEF launch_kernel, Launched
<1>1. /\ pc = "launch" /\ pc' = "kernel"
      /\ start' = start /\ count' = count /\ hits' = hits /\ best' = best
  OBVIOUS
<1>2. best = NOT_FOUND_TIMESTAMP
  BY DEF IInv, LaunchInv
<1>3. start \in Nat /\ count \in Nat /\ U32MAX \in Nat
  BY ConstantFacts DEF TInv, TypeOK, Timestamps
<1>4. RequestInv'
  BY DEF IInv, RequestInv, Busy
<1>5. work_items' \in 1 .. GlobalWorkSize /\ kernel' \in {"partial", "full"}
  BY <1>3, WorkItemsBound DEF KernelFor
<1>6. LaunchInv'
  BY <1>5 DEF LaunchInv, KernelFor, stride
<1>7. CellInv'
  BY <1>2 DEF CellInv
<1> DEFINE s == work_items'
<1>8. \A l \in Lanes : lane'[l] # "done" =>
         l < s /\ (kernel' = "full" \/ l < count) /\ lane'[l] = "poll"
  OBVIOUS
<1>9. \A l \in Lanes : index'[l] = l /\ iteration'[l] = 0
  BY DEF LaneTable
<1>10. kernel' = "full" => s <= BatchCover
  <2>1. SUFFICES ASSUME kernel' = "full" PROVE s <= BatchCover
    OBVIOUS
  <2>2. s = GlobalWorkSize
    BY <2>1 DEF KernelFor
  <2>3. GlobalWorkSize <= GlobalWorkSize * BATCH_ITERATIONS
    BY ConstantFacts
  <2> QED BY <2>2, <2>3 DEF BatchCover
<1>11. PositionInv'
  <2> SUFFICES ASSUME NEW l \in Lanes, lane'[l] # "done"
               PROVE  /\ l < s
                      /\ index'[l] < End'
                      /\ index'[l] % s = l
                      /\ kernel' = "full" => index'[l] = l + iteration'[l] * poll_stride'
    BY DEF PositionInv, stride
  <2>1. l \in Nat /\ l < s /\ s \in Nat \ {0}
    BY <1>5, <1>8, ConstantFacts DEF Lanes
  <2>2. index'[l] < End'
    BY <1>1, <1>3, <1>8, <1>9, <1>10, <2>1, ConstantFacts DEF End
  <2>3. index'[l] % s = l
    BY <1>9, <2>1, ModSmall
  <2>4. 0 * poll_stride' = 0
    BY <2>1 DEF poll_stride, stride, POLL_INTERVAL
  <2> QED BY <1>9, <2>1, <2>2, <2>3, <2>4
<1>12. ScannedInv'
  <2> SUFFICES ASSUME NEW t \in hits, start <= t, t < start + End',
                      lane'[(t - start) % s] = "done" \/ t - start < index'[(t - start) % s]
               PROVE  best' <= t
    BY <1>1 DEF ScannedInv, Passed, Owner, stride
  <2> DEFINE o == t - start
             l == o % s
  <2>1. o \in Nat /\ s \in Nat \ {0} /\ t \in Nat
    BY <1>3, <1>5 DEF TInv, TypeOK, Timestamps
  <2>2. l \in 0 .. s - 1 /\ l <= o
    BY <2>1, DivMod, ModLe
  <2>3. l \in Lanes
    BY <1>5, <2>2, ConstantFacts DEF Lanes
  <2>4. lane'[l] = "done"
    BY <1>9, <2>1, <2>2, <2>3
  <2>5. kernel' # "full" /\ ~(l < count)
    BY <2>2, <2>3, <2>4, <2>1
  <2>6. End' = count
    BY <2>5 DEF End
  <2> QED BY <2>1, <2>2, <2>5, <2>6, <1>3
<1>13. WarpInv'
  <2> SUFFICES ASSUME NEW l \in Lanes, lane'[l] # "done"
               PROVE  /\ lane'[Leader(l)] # "done"
                      /\ NextPoll(l)' - l = NextPoll(Leader(l))' - Leader(l)
    BY DEF WarpInv
  <2>1. Leader(l) \in Lanes /\ Leader(l) <= l /\ l \in Nat /\ Leader(l) \in Nat
    BY WarpFacts DEF Lanes
  <2>2. lane'[l] = "poll" /\ l < s /\ (kernel' = "full" \/ l < count)
    BY <1>8
  <2>3. lane'[Leader(l)] = "poll"
    BY <1>3, <1>5, <2>1, <2>2, ConstantFacts
  <2> QED BY <1>9, <2>1, <2>2, <2>3 DEF NextPoll
<1>14. EarliestAnswer'
  BY <1>1 DEF EarliestAnswer
<1> QED BY <1>4, <1>6, <1>7, <1>11, <1>12, <1>13, <1>14 DEF IInv

\* The lane an offset of the launch belongs to is one of the launch's lanes.
LEMMA OwnerIsLane ==
    ASSUME TInv, RequestInv, LaunchInv, Launched,
           NEW t \in hits, start <= t
    PROVE  /\ t \in Nat /\ t - start \in Nat
           /\ Owner(t - start) \in Lanes
<1>1. stride \in Nat \ {0} /\ stride <= GlobalWorkSize /\ start \in Nat
  BY RangeFacts DEF LaunchInv
<1>2. t \in Nat /\ t - start \in Nat
  BY <1>1 DEF TInv, TypeOK, Timestamps
<1>3. (t - start) % stride \in 0 .. stride - 1
  BY <1>1, <1>2, DivMod
<1> QED BY <1>1, <1>2, <1>3, ConstantFacts DEF Owner, Lanes

\* A lane advances to its next poll group by group.
LEMMA NextPollStep ==
    ASSUME NEW i \in Nat, NEW P \in Nat, NEW M \in Nat, NEW g \in Nat, g < M
    PROVE  /\ i + (M - g) * P = (i + P) + (M - (g + 1)) * P
           /\ g + 1 = M => i + (M - g) * P = i + P
           /\ i + P <= i + (M - g) * P
           /\ (M - g) * P \in Nat
<1>1. (M - g) * P = P + (M - (g + 1)) * P
  OBVIOUS
<1>2. (M - (g + 1)) * P \in Nat
  <2>1. M - (g + 1) \in Nat OBVIOUS
  <2> QED BY <2>1
<1>3. g + 1 = M => (M - g) * P = P
  OBVIOUS
<1> QED BY <1>1, <1>2, <1>3

\* A lane's step leaves the launch itself alone.
LEMMA LaneFrame ==
    ASSUME LaunchInv, RequestInv, pc = "kernel",
           NEW l \in Lanes, LaneStep(l)
    PROVE  /\ pc' = "kernel" /\ start' = start /\ count' = count /\ hits' = hits
           /\ kernel' = kernel /\ work_items' = work_items
           /\ stride' = stride /\ poll_stride' = poll_stride /\ End' = End
           /\ Reportable' = Reportable
           /\ RequestInv' /\ LaunchInv' /\ EarliestAnswer'
<1>1. /\ pc' = "kernel" /\ start' = start /\ count' = count /\ hits' = hits
      /\ kernel' = kernel /\ work_items' = work_items
  BY DEF LaneStep, Poll, Hit, Miss, host_vars
<1>2. /\ stride' = stride /\ poll_stride' = poll_stride /\ End' = End
      /\ Reportable' = Reportable
  BY <1>1 DEF stride, poll_stride, End, Reportable, InRange
<1>3. RequestInv' /\ LaunchInv' /\ EarliestAnswer'
  BY <1>1, <1>2 DEF RequestInv, LaunchInv, EarliestAnswer, Busy, Launched
<1> QED BY <1>1, <1>2, <1>3

\* A poll: lanes leave only when the cell covers all they have left, be the
\* value they see the cell or, without their leader, anything at all.
LEMMA InvPoll ==
    ASSUME TInv, TInv', IInv, NEW l \in Lanes, Poll(l)
    PROVE  IInv'
<1>1. /\ pc = "kernel" /\ l = Leader(l)
      /\ \A m \in Active(l) : lane[m] = "poll"
      /\ best' = best /\ index' = index /\ iteration' = iteration
      /\ group' = [m \in Lanes |-> IF m \in Active(l) THEN 0 ELSE group[m]]
  BY DEF Poll
<1>2. PICK v \in [Active(l) -> BroadcastValues(l)] :
         lane' = [m \in Lanes |->
                    IF m \notin Active(l) THEN lane[m]
                    ELSE IF LeavesFor(m, v[m]) THEN "done" ELSE "scan"]
  BY DEF Poll
<1>3. /\ RequestInv /\ LaunchInv /\ CellInv /\ PositionInv /\ ScannedInv /\ WarpInv
      /\ Launched
  BY <1>1 DEF IInv, Launched
<1>4. /\ pc' = "kernel" /\ start' = start /\ count' = count /\ hits' = hits
      /\ kernel' = kernel /\ work_items' = work_items
      /\ stride' = stride /\ poll_stride' = poll_stride /\ End' = End
      /\ Reportable' = Reportable
      /\ RequestInv' /\ LaunchInv' /\ EarliestAnswer'
  BY <1>1, <1>3, LaneFrame DEF LaneStep
<1>5. /\ stride \in Nat \ {0} /\ poll_stride \in Nat /\ start \in Nat
      /\ End \in Nat /\ best \in Nat
      /\ \A m \in Active(l) : v[m] \in Int
  <2>1. \A m \in Active(l) : v[m] \in Timestamps
    BY <1>2, ConstantFacts
       DEF BroadcastValues, TInv, TypeOK, Timestamps, NOT_FOUND_TIMESTAMP
  <2> QED BY <1>3, <2>1, RangeFacts DEF TInv, TypeOK, Timestamps
<1>6. \A m \in Lanes : index[m] \in Nat /\ m \in Nat
  BY DEF TInv, TypeOK, Lanes
<1>7. \A m \in Active(l) : /\ m \in Lanes /\ lane[m] = "poll" /\ Leader(m) = l
                           /\ index[m] < End
                           /\ Timestamp(m, 0) = start + index[m]
  <2> SUFFICES ASSUME NEW m \in Active(l)
               PROVE  /\ m \in Lanes /\ lane[m] = "poll" /\ Leader(m) = l
                      /\ index[m] < End
                      /\ Timestamp(m, 0) = start + index[m]
    OBVIOUS
  <2>1. m \in Lanes /\ m \in Warp(l) /\ lane[m] = "poll"
    BY <1>1 DEF Active, Warp
  <2>2. Leader(m) = l
    BY <1>1, <2>1, WarpFacts
  <2>3. index[m] < End
    BY <1>1, <1>3, <2>1 DEF PositionInv
  <2>4. index[m] + 0 * stride < End /\ 0 \in Candidates /\ 0 * stride = 0
    BY <1>5, <1>6, <2>1, <2>3 DEF Candidates
  <2>5. Timestamp(m, 0) = start + index[m] + 0 * stride
    BY <1>3, <2>1, <2>4, NoWrap
  <2> QED BY <1>5, <1>6, <2>1, <2>2, <2>3, <2>4, <2>5
<1>8. \A m \in Lanes : lane[m] # "done" /\ m \notin Active(l) => Leader(m) # l
  BY WarpFacts DEF Active
<1>9. \A m \in Lanes : lane'[m] # "done" => lane[m] # "done"
  BY <1>2 DEF Active
\* A lane that leaves at a poll has nothing ahead that beats the cell.
<1>10. \A m \in Active(l) : LeavesFor(m, v[m]) => best <= start + index[m]
  <2> SUFFICES ASSUME NEW m \in Active(l), LeavesFor(m, v[m])
               PROVE  best <= start + index[m]
    OBVIOUS
  <2>1. v[m] # NOT_FOUND_TIMESTAMP /\ v[m] <= start + index[m]
    BY <1>7 DEF LeavesFor
  <2>2. CASE lane[l] # "done"
    BY <1>1, <1>2, <2>1, <2>2 DEF BroadcastValues
  <2>3. CASE lane[l] = "done"
    BY <1>1, <1>3, <1>5, <1>6, <1>7, <2>3 DEF WarpInv, NextPoll
  <2> QED BY <2>2, <2>3
<1>11. CellInv'
  BY <1>1, <1>3, <1>4 DEF CellInv, Launched
<1>12. PositionInv'
  BY <1>1, <1>3, <1>4, <1>9 DEF PositionInv
<1>13. ScannedInv'
  <2> SUFFICES ASSUME NEW t \in hits, start <= t, t < start + End,
                      lane'[Owner(t - start)] = "done" \/ t - start < index[Owner(t - start)]
               PROVE  best <= t
    BY <1>1, <1>4 DEF ScannedInv, Passed, Owner
  <2> DEFINE m == Owner(t - start)
  <2>1. t \in Nat /\ t - start \in Nat /\ m \in Lanes
    BY <1>3, OwnerIsLane
  <2>2. CASE Passed(m, t - start)
    BY <1>3, <2>2 DEF ScannedInv
  <2>3. CASE ~Passed(m, t - start)
    <3>1. lane[m] # "done" /\ index[m] <= t - start /\ lane'[m] = "done"
      BY <1>6, <2>1, <2>3 DEF Passed
    <3>2. m \in Active(l) /\ LeavesFor(m, v[m])
      BY <1>2, <2>1, <3>1
    <3>3. best <= start + index[m]
      BY <1>10, <3>2
    <3> QED BY <1>5, <1>6, <2>1, <3>1, <3>3
  <2> QED BY <2>2, <2>3
<1>14. WarpInv'
  <2> SUFFICES ASSUME NEW m \in Lanes, lane'[m] # "done"
               PROVE  IF lane'[Leader(m)] = "done"
                      THEN best <= start + NextPoll(m)' \/ End <= NextPoll(m)'
                      ELSE NextPoll(m)' - m = NextPoll(Leader(m))' - Leader(m)
    BY <1>1, <1>4 DEF WarpInv
  <2>1. lane[m] # "done" /\ Leader(m) \in Lanes
    BY <1>9, WarpFacts
  <2>2. CASE m \notin Active(l)
    <3>1. Leader(m) \notin Active(l)
      BY <1>1, <1>7, <1>8, <2>1, <2>2, WarpFacts
    <3>2. /\ lane'[m] = lane[m] /\ lane'[Leader(m)] = lane[Leader(m)]
          /\ group'[m] = group[m] /\ group'[Leader(m)] = group[Leader(m)]
      BY <1>1, <1>2, <2>1, <2>2, <3>1
    <3>3. NextPoll(m)' = NextPoll(m) /\ NextPoll(Leader(m))' = NextPoll(Leader(m))
      BY <1>1, <1>4, <3>2 DEF NextPoll
    <3> QED BY <1>1, <1>3, <2>1, <3>2, <3>3 DEF WarpInv
  <2>3. CASE m \in Active(l)
    <3> DEFINE D == MATCH_POLL_GROUPS * poll_stride
    <3>1. lane'[m] = "scan" /\ group'[m] = 0 /\ Leader(m) = l /\ lane[m] = "poll"
      BY <1>1, <1>2, <1>7, <2>3
    <3>2. NextPoll(m)' = index[m] + D /\ D \in Nat
      BY <1>1, <1>4, <1>5, <3>1, ConstantFacts DEF NextPoll
    <3>3. CASE lane[l] = "done"
      <4>1. lane'[l] = "done"
        BY <1>2, <3>3 DEF Active
      <4>2. best <= start + index[m] \/ End <= index[m]
        BY <1>1, <1>3, <3>1, <3>3 DEF WarpInv, NextPoll
      <4>3. index[m] \in Nat
        BY <1>6
      <4> HIDE DEF D
      <4> QED BY <1>5, <3>1, <3>2, <4>1, <4>2, <4>3
    <3>4. CASE lane[l] # "done"
      <4>1. l \in Active(l) /\ lane[l] = "poll"
        BY <1>1, <3>4, WarpFacts DEF Active
      <4>2. index[m] - m = index[l] - l
        BY <1>1, <1>3, <3>1, <3>4, <4>1 DEF WarpInv, NextPoll
      <4>3. index[l] <= index[m]
        BY <1>6, <3>1, <4>2, WarpFacts
      <4>4. ~LeavesFor(l, v[l])
        <5>1. SUFFICES ASSUME LeavesFor(l, v[l]) PROVE LeavesFor(m, v[m])
          BY <1>2, <2>3, <3>1
        <5>2. v[l] # NOT_FOUND_TIMESTAMP /\ v[l] <= start + index[l]
          BY <1>7, <4>1, <5>1 DEF LeavesFor
        <5>3. v[m] = v[l]
          BY <1>1, <2>3, <3>4, <4>1 DEF BroadcastValues
        <5>4. v[m] <= start + index[m]
          BY <1>5, <1>6, <2>3, <4>1, <4>3, <5>2, <5>3
        <5> QED BY <1>7, <2>3, <5>2, <5>3, <5>4 DEF LeavesFor
      <4>5. lane'[l] = "scan" /\ group'[l] = 0
        BY <1>1, <1>2, <4>1, <4>4
      <4>6. NextPoll(l)' = index[l] + D
        BY <1>1, <1>4, <1>5, <4>5, ConstantFacts DEF NextPoll
      <4>7. index[m] \in Nat /\ index[l] \in Nat /\ m \in Nat /\ l \in Nat
        BY <1>6
      <4> HIDE DEF D
      <4> QED BY <3>1, <3>2, <4>2, <4>5, <4>6, <4>7
    <3> QED BY <3>3, <3>4
  <2> QED BY <2>2, <2>3
<1> QED BY <1>4, <1>11, <1>12, <1>13, <1>14 DEF IInv

\* A match (RUN_CANDIDATE): the lane leaves, and the cell covers its match and,
\* timestamps growing along the lane, all it has left.
LEMMA InvHit ==
    ASSUME TInv, TInv', IInv, NEW l \in Lanes, Hit(l)
    PROVE  IInv'
<1>1. /\ pc = "kernel" /\ lane[l] = "scan"
      /\ lane' = [lane EXCEPT ![l] = "done"]
      /\ index' = index /\ group' = group /\ iteration' = iteration
  BY DEF Hit
<1>2. PICK j \in Matching(l) : /\ \A i \in Matching(l) : j <= i
                               /\ atomicMin(Timestamp(l, j))
  BY DEF Hit
<1>3. /\ RequestInv /\ LaunchInv /\ CellInv /\ PositionInv /\ ScannedInv /\ WarpInv
      /\ Launched
  BY <1>1 DEF IInv, Launched
<1>4. /\ pc' = "kernel" /\ start' = start /\ count' = count /\ hits' = hits
      /\ kernel' = kernel /\ work_items' = work_items
      /\ stride' = stride /\ poll_stride' = poll_stride /\ End' = End
      /\ Reportable' = Reportable
      /\ RequestInv' /\ LaunchInv' /\ EarliestAnswer'
  BY <1>1, <1>3, LaneFrame DEF LaneStep
<1> DEFINE T == Timestamp(l, j)
<1>5. /\ stride \in Nat \ {0} /\ poll_stride = 4 * stride /\ start \in Nat
      /\ End \in Nat /\ best \in Nat /\ best <= U32MAX /\ U32MAX \in Nat
  BY <1>3, RangeFacts, ConstantFacts DEF TInv, TypeOK, Timestamps
<1>6. \A m \in Lanes : index[m] \in Nat /\ m \in Nat
  BY DEF TInv, TypeOK, Lanes
<1>7. lane \in [Lanes -> {"poll", "scan", "done"}]
  BY DEF TInv, TypeOK
<1>8. j \in Candidates /\ j \in Tried(l) /\ T \in hits /\ j \in 0 .. 3
  BY <1>2 DEF Matching, Tried, Candidates
<1>9. j * stride \in Nat /\ j * stride <= 3 * stride
  BY <1>5, <1>8
<1>10. index[l] + j * stride < End
  BY <1>1, <1>3, <1>8, TriedInside
<1>11. T = start + index[l] + j * stride
  BY <1>3, <1>8, <1>10, NoWrap
<1>12. best' = IF T < best THEN T ELSE best
  BY <1>2 DEF atomicMin
<1> HIDE DEF T
<1>13. T \in Nat /\ best' \in Nat /\ best' <= best /\ best' <= T
  BY <1>5, <1>6, <1>9, <1>11, <1>12
<1>14. T = NOT_FOUND_TIMESTAMP \/ T \in Reportable
  <2>1. start <= T /\ T < start + End /\ T \in Timestamps
    BY <1>5, <1>6, <1>8, <1>9, <1>10, <1>11 DEF TInv, TypeOK
  <2>2. T = NOT_FOUND_TIMESTAMP \/ T \in InRange
    BY <1>3, <2>1, RangeFacts
  <2> QED BY <1>8, <2>2 DEF Reportable
<1>15. CellInv'
  <2>1. best = NOT_FOUND_TIMESTAMP \/ best \in Reportable
    BY <1>3 DEF CellInv
  <2> QED BY <1>4, <1>12, <1>14, <2>1 DEF CellInv
<1>16. PositionInv'
  BY <1>1, <1>3, <1>4, <1>7 DEF PositionInv
<1>17. ScannedInv'
  <2> SUFFICES ASSUME NEW t \in hits, start <= t, t < start + End,
                      lane'[Owner(t - start)] = "done" \/ t - start < index[Owner(t - start)]
               PROVE  best' <= t
    BY <1>1, <1>4 DEF ScannedInv, Passed, Owner
  <2> DEFINE m == Owner(t - start)
  <2>1. t \in Nat /\ t - start \in Nat /\ m \in Lanes
    BY <1>3, OwnerIsLane
  <2>2. CASE Passed(m, t - start)
    <3>1. best <= t
      BY <1>3, <2>2 DEF ScannedInv
    <3> QED BY <1>5, <1>13, <2>1, <3>1
  <2>3. CASE ~Passed(m, t - start)
    <3>1. m = l /\ index[l] <= t - start
      BY <1>1, <1>6, <1>7, <2>1, <2>3 DEF Passed
    <3>2. \/ index[l] + poll_stride <= t - start
          \/ \E k \in Matching(l) : t = Timestamp(l, k) /\ t = start + index[l] + k * stride
      BY <1>1, <1>3, <3>1, AheadOrMatching
    <3>3. CASE index[l] + poll_stride <= t - start
      <4>1. T <= t
        BY <1>5, <1>6, <1>9, <1>11, <2>1, <3>3
      <4> QED BY <1>13, <2>1, <4>1
    <3>4. CASE \E k \in Matching(l) : t = Timestamp(l, k) /\ t = start + index[l] + k * stride
      <4>1. PICK k \in Matching(l) : t = start + index[l] + k * stride
        BY <3>4
      <4>2. j <= k /\ k \in 0 .. 3
        BY <1>2, <4>1 DEF Matching, Tried, Candidates
      <4>3. j * stride <= k * stride /\ k * stride \in Nat
        BY <1>5, <1>8, <4>2
      <4>4. T <= t
        BY <1>5, <1>6, <1>9, <1>11, <4>1, <4>3
      <4> QED BY <1>13, <2>1, <4>4
    <3> QED BY <3>2, <3>3, <3>4
  <2> QED BY <2>2, <2>3
<1>18. WarpInv'
  <2> SUFFICES ASSUME NEW m \in Lanes, lane'[m] # "done"
               PROVE  IF lane'[Leader(m)] = "done"
                      THEN best' <= start + NextPoll(m)' \/ End <= NextPoll(m)'
                      ELSE NextPoll(m)' - m = NextPoll(Leader(m))' - Leader(m)
    BY <1>4 DEF WarpInv
  <2>1. /\ m # l /\ lane[m] # "done" /\ lane'[m] = lane[m]
        /\ Leader(m) \in Lanes /\ Leader(m) <= m
    BY <1>1, <1>7, WarpFacts
  <2>2. /\ NextPoll(m)' = NextPoll(m)
        /\ Leader(m) # l => /\ lane'[Leader(m)] = lane[Leader(m)]
                            /\ NextPoll(Leader(m))' = NextPoll(Leader(m))
    BY <1>1, <1>4, <1>7, <2>1 DEF NextPoll
  <2>3. NextPoll(m) \in Nat
    <3>1. index[m] \in Nat /\ MATCH_POLL_GROUPS - group[m] \in Nat /\ poll_stride \in Nat
      BY <1>5, ConstantFacts DEF TInv, TypeOK
    <3>2. (MATCH_POLL_GROUPS - group[m]) * poll_stride \in Nat
      BY <3>1
    <3> QED BY <3>1, <3>2 DEF NextPoll
  <2>4. CASE Leader(m) # l
    BY <1>1, <1>3, <1>5, <1>13, <2>1, <2>2, <2>3, <2>4 DEF WarpInv
  <2>5. CASE Leader(m) = l
    <3>1. NextPoll(m) - m = NextPoll(l) - l
      BY <1>1, <1>3, <2>1, <2>5 DEF WarpInv
    <3>2. index[l] + poll_stride <= NextPoll(l) /\ NextPoll(l) \in Nat
      <4>1. group[l] \in Nat /\ group[l] < MATCH_POLL_GROUPS /\ poll_stride \in Nat
        BY <1>1, <1>5, ConstantFacts DEF TInv, TypeOK, LoopBounds
      <4>2. /\ index[l] + poll_stride
                  <= index[l] + (MATCH_POLL_GROUPS - group[l]) * poll_stride
            /\ (MATCH_POLL_GROUPS - group[l]) * poll_stride \in Nat
        BY <1>6, <4>1, ConstantFacts, NextPollStep
      <4> QED BY <1>1, <1>6, <4>2 DEF NextPoll
    <3>3. NextPoll(l) <= NextPoll(m)
      BY <1>6, <2>1, <2>3, <2>5, <3>1, <3>2
    <3>4. T <= start + NextPoll(m)
      BY <1>5, <1>6, <1>9, <1>11, <2>3, <3>2, <3>3
    <3>5. best' <= start + NextPoll(m)
      BY <1>5, <1>13, <2>3, <3>4
    <3>6. lane'[Leader(m)] = "done"
      BY <1>1, <1>7, <2>5
    <3> QED BY <2>2, <3>5, <3>6
  <2> QED BY <2>4, <2>5
<1> QED BY <1>4, <1>15, <1>16, <1>17, <1>18 DEF IInv

\* A group without a match: the lane may pass its four offsets, leave at the end
\* of the range, or poll when its whole warp does.
LEMMA InvMiss ==
    ASSUME TInv, TInv', IInv, NEW l \in Lanes, Miss(l)
    PROVE  IInv'
<1>1. /\ pc = "kernel" /\ lane[l] = "scan" /\ Matching(l) = {}
      /\ lane' = [lane EXCEPT ![l] =
                     IF AtEnd(l) THEN "done"
                     ELSE IF group[l] + 1 = MATCH_POLL_GROUPS THEN "poll"
                     ELSE "scan"]
      /\ index' = [index EXCEPT ![l] = index[l] + poll_stride]
      /\ group' = [group EXCEPT ![l] = group[l] + 1]
      /\ iteration' = [iteration EXCEPT ![l] =
                          IF kernel = "full" THEN iteration[l] + 1 ELSE iteration[l]]
      /\ best' = best
  BY DEF Miss
<1>2. /\ RequestInv /\ LaunchInv /\ CellInv /\ PositionInv /\ ScannedInv /\ WarpInv
      /\ Launched
  BY <1>1 DEF IInv, Launched
<1>3. /\ pc' = "kernel" /\ start' = start /\ count' = count /\ hits' = hits
      /\ kernel' = kernel /\ work_items' = work_items
      /\ stride' = stride /\ poll_stride' = poll_stride /\ End' = End
      /\ Reportable' = Reportable
      /\ RequestInv' /\ LaunchInv' /\ EarliestAnswer'
  BY <1>1, <1>2, LaneFrame DEF LaneStep
<1>4. /\ stride \in Nat \ {0} /\ poll_stride = 4 * stride /\ start \in Nat
      /\ End \in Nat /\ count \in Nat /\ best \in Nat
      /\ kernel # "full" => End = count
  BY <1>2, RangeFacts DEF TInv, TypeOK, Timestamps
<1>5. /\ lane \in [Lanes -> {"poll", "scan", "done"}]
      /\ index \in [Lanes -> Nat]
      /\ group \in [Lanes -> Nat]
      /\ iteration \in [Lanes -> Nat]
      /\ \A m \in Lanes : m \in Nat
      /\ group[l] < MATCH_POLL_GROUPS
  <2>1. lane \in [Lanes -> {"poll", "scan", "done"}] /\ index \in [Lanes -> Nat]
    BY DEF TInv, TypeOK
  <2>2. group \in [Lanes -> 0 .. MATCH_POLL_GROUPS] => group \in [Lanes -> Nat]
    BY ConstantFacts
  <2>3. iteration \in [Lanes -> 0 .. FULL_BATCH_OUTER_LOOPS] => iteration \in [Lanes -> Nat]
    BY ConstantFacts
  <2>4. \A m \in Lanes : m \in Nat
    BY ConstantFacts DEF Lanes
  <2> QED BY <1>1, <2>1, <2>2, <2>3, <2>4 DEF TInv, TypeOK, LoopBounds
<1>6. /\ l < stride /\ index[l] < End /\ index[l] % stride = l
      /\ kernel = "full" => index[l] = l + iteration[l] * poll_stride
  BY <1>1, <1>2 DEF PositionInv
\* A lane that leaves has its whole class behind it; one that stays does not.
<1>7. IF AtEnd(l) THEN End <= index[l] + poll_stride
                  ELSE index[l] + poll_stride < End
  <2>1. CASE kernel = "full"
    BY <1>1, <1>2, <1>4, <1>5, <2>1, FullLoops DEF AtEnd
  <2>2. CASE kernel # "full"
    BY <1>4, <1>5, <2>2 DEF AtEnd
  <2> QED BY <2>1, <2>2
<1>8. CellInv'
  BY <1>1, <1>2, <1>3 DEF CellInv, Launched
<1>9. PositionInv'
  <2> SUFFICES ASSUME NEW m \in Lanes, lane'[m] # "done"
               PROVE  /\ m < stride
                      /\ index'[m] < End
                      /\ index'[m] % stride = m
                      /\ kernel = "full" => index'[m] = m + iteration'[m] * poll_stride
    BY <1>3 DEF PositionInv
  <2>1. CASE m # l
    BY <1>1, <1>2, <1>5, <2>1 DEF PositionInv
  <2>2. CASE m = l
    <3>1. ~AtEnd(l) /\ index'[l] = index[l] + poll_stride
      BY <1>1, <1>5, <2>2
    <3>2. (index[l] + poll_stride) % stride = index[l] % stride
      <4> DEFINE s == stride
                 i == index[l]
      <4>1. s \in Nat \ {0} /\ i \in Nat
        BY <1>4, <1>5
      <4> HIDE DEF s, i
      <4>2. /\ (i + s) % s = i % s
            /\ (i + s + s) % s = i % s
            /\ (i + s + s + s) % s = i % s
            /\ (i + s + s + s + s) % s = i % s
        BY <4>1, ModStep, i + s \in Nat, i + s + s \in Nat, i + s + s + s \in Nat
      <4>3. i + 4 * s = i + s + s + s + s
        BY <4>1
      <4> QED BY <1>4, <4>2, <4>3 DEF s, i
    <3>3. kernel = "full" => index'[l] = l + iteration'[l] * poll_stride
      <4> SUFFICES ASSUME kernel = "full"
                   PROVE  index'[l] = l + iteration'[l] * poll_stride
        OBVIOUS
      <4>1. iteration'[l] = iteration[l] + 1
        BY <1>1, <1>5
      <4>2. (iteration[l] + 1) * poll_stride = iteration[l] * poll_stride + poll_stride
        BY <1>4, <1>5
      <4>3. iteration[l] * poll_stride \in Nat
        BY <1>4, <1>5
      <4> QED BY <1>4, <1>5, <1>6, <3>1, <4>1, <4>2, <4>3
    <3> QED BY <1>6, <1>7, <2>2, <3>1, <3>2, <3>3
  <2> QED BY <2>1, <2>2
<1>10. ScannedInv'
  <2> SUFFICES ASSUME NEW t \in hits, start <= t, t < start + End,
                      \/ lane'[Owner(t - start)] = "done"
                      \/ t - start < index'[Owner(t - start)]
               PROVE  best <= t
    BY <1>1, <1>3 DEF ScannedInv, Passed, Owner
  <2> DEFINE m == Owner(t - start)
  <2>1. t \in Nat /\ t - start \in Nat /\ m \in Lanes
    BY <1>2, OwnerIsLane
  <2>2. CASE Passed(m, t - start)
    BY <1>2, <2>2 DEF ScannedInv
  <2>3. CASE ~Passed(m, t - start)
    <3>1. m = l /\ index[l] <= t - start
      BY <1>1, <1>5, <2>1, <2>3 DEF Passed
    <3>2. index[l] + poll_stride <= t - start
      BY <1>1, <1>2, <3>1, AheadOrMatching
    <3>3. lane'[l] = "done"
      BY <1>1, <1>4, <1>5, <2>1, <3>1, <3>2
    <3>4. AtEnd(l)
      BY <1>1, <1>5, <3>3
    <3> QED BY <1>4, <1>5, <1>7, <2>1, <3>2, <3>4
  <2> QED BY <2>2, <2>3
<1>11. /\ index[l] + poll_stride <= NextPoll(l) /\ NextPoll(l) \in Nat
       /\ lane'[l] # "done" => NextPoll(l)' = NextPoll(l)
  <2> DEFINE i == index[l]
             P == poll_stride
             M == MATCH_POLL_GROUPS
             g == group[l]
  <2>1. i \in Nat /\ P \in Nat /\ M \in Nat /\ g \in Nat /\ g < M
    BY <1>4, <1>5, ConstantFacts
  <2>2. NextPoll(l) = i + (M - g) * P
    BY <1>1 DEF NextPoll
  <2>3. lane'[l] # "done" =>
           NextPoll(l)' = IF g + 1 = M THEN i + P ELSE (i + P) + (M - (g + 1)) * P
    BY <1>1, <1>3, <1>5 DEF NextPoll
  <2> HIDE DEF i, P, M, g
  <2>4. /\ i + (M - g) * P = (i + P) + (M - (g + 1)) * P
        /\ g + 1 = M => i + (M - g) * P = i + P
        /\ i + P <= i + (M - g) * P
        /\ (M - g) * P \in Nat
    BY <2>1, NextPollStep
  <2>5. i + P <= NextPoll(l) /\ NextPoll(l) \in Nat
    BY <2>1, <2>2, <2>4
  <2>6. lane'[l] # "done" => NextPoll(l)' = NextPoll(l)
    BY <2>2, <2>3, <2>4
  <2> QED BY <2>5, <2>6 DEF i, P
<1>12. WarpInv'
  <2> SUFFICES ASSUME NEW m \in Lanes, lane'[m] # "done"
               PROVE  IF lane'[Leader(m)] = "done"
                      THEN best <= start + NextPoll(m)' \/ End <= NextPoll(m)'
                      ELSE NextPoll(m)' - m = NextPoll(Leader(m))' - Leader(m)
    BY <1>1, <1>3 DEF WarpInv
  <2>1. Leader(m) \in Lanes /\ Leader(m) <= m
    BY WarpFacts
  <2>2. \A n \in Lanes : n # l => lane'[n] = lane[n] /\ NextPoll(n)' = NextPoll(n)
    BY <1>1, <1>3, <1>5 DEF NextPoll
  <2>3. lane[m] # "done" /\ NextPoll(m)' = NextPoll(m)
    BY <1>1, <1>11, <2>2
  <2>4. CASE Leader(m) # l \/ lane'[l] # "done"
    <3>1. /\ lane'[Leader(m)] = "done" <=> lane[Leader(m)] = "done"
          /\ lane'[Leader(m)] # "done" => NextPoll(Leader(m))' = NextPoll(Leader(m))
      BY <1>1, <1>11, <2>1, <2>2, <2>4
    <3> QED BY <1>1, <1>2, <2>3, <3>1 DEF WarpInv
  <2>5. CASE Leader(m) = l /\ lane'[l] = "done"
    <3>1. NextPoll(m) - m = NextPoll(l) - l
      BY <1>1, <1>2, <2>3, <2>5 DEF WarpInv
    <3>2. AtEnd(l)
      BY <1>1, <1>5, <2>5
    <3>3. NextPoll(m) \in Nat
      <4>1. index[m] \in Nat /\ MATCH_POLL_GROUPS - group[m] \in Nat /\ poll_stride \in Nat
        BY <1>4, ConstantFacts DEF TInv, TypeOK
      <4>2. (MATCH_POLL_GROUPS - group[m]) * poll_stride \in Nat
        BY <4>1
      <4> QED BY <4>1, <4>2 DEF NextPoll
    <3>4. End <= NextPoll(m)
      BY <1>4, <1>5, <1>7, <1>11, <2>1, <2>5, <3>1, <3>2, <3>3
    <3> QED BY <2>3, <2>5, <3>4
  <2> QED BY <2>4, <2>5
<1> QED BY <1>3, <1>8, <1>9, <1>10, <1>12 DEF IInv

\* The wait: with every lane done, every offset of the range is passed.
LEMMA InvSynchronize ==
    ASSUME TInv, TInv', IInv, Synchronize
    PROVE  IInv'
<1> USE DEF Synchronize
<1>1. /\ pc = "kernel" /\ pc' = "read"
      /\ \A l \in Lanes : lane[l] = "done"
      /\ lane' = lane /\ best' = best /\ hits' = hits
      /\ start' = start /\ count' = count /\ kernel' = kernel
      /\ work_items' = work_items
  OBVIOUS
<1>2. RequestInv /\ LaunchInv /\ CellInv /\ ScannedInv /\ Launched
  BY <1>1 DEF IInv, Launched
<1>3. stride' = stride /\ End' = End /\ Reportable' = Reportable
  BY <1>1 DEF stride, End, Reportable, InRange
<1>4. RequestInv' /\ CellInv' /\ PositionInv' /\ WarpInv' /\ EarliestAnswer'
  BY <1>1, <1>2, <1>3
     DEF RequestInv, CellInv, PositionInv, WarpInv, EarliestAnswer, Busy, Launched
<1>5. LaunchInv'
  BY <1>1, <1>2, <1>3 DEF LaunchInv, Launched
<1>6. ScannedInv'
  <2> SUFFICES ASSUME NEW t \in hits, start <= t, t < start + End
               PROVE  best <= t
    BY <1>1, <1>3 DEF ScannedInv
  <2>1. Owner(t - start) \in Lanes
    BY <1>2, OwnerIsLane
  <2> QED BY <1>1, <1>2, <2>1 DEF ScannedInv, Passed
<1> QED BY <1>4, <1>5, <1>6 DEF IInv

\* Reading the cell back: it holds the minimum of the matches.
LEMMA InvReadBest ==
    ASSUME TInv, TInv', IInv, ReadBest
    PROVE  IInv'
<1> USE DEF ReadBest
<1>1. /\ pc = "read" /\ pc' = "returned"
      /\ answer' = IF best = NOT_FOUND_TIMESTAMP THEN None ELSE best
      /\ hits' = hits /\ start' = start /\ count' = count
  OBVIOUS
<1>2. /\ RequestInv /\ LaunchInv /\ CellInv /\ ScannedInv /\ Launched
      /\ \A l \in Lanes : lane[l] = "done"
  BY <1>1 DEF IInv, Launched, LaunchInv
<1>3. /\ start \in Nat /\ count \in Nat /\ End \in Nat /\ count <= End
      /\ best \in Nat /\ U32MAX \in Nat /\ best <= U32MAX
  BY <1>2, RangeFacts, ConstantFacts DEF TInv, TypeOK, Timestamps
<1>4. \A t \in Reportable : best <= t
  <2> SUFFICES ASSUME NEW t \in Reportable
               PROVE  best <= t
    OBVIOUS
  <2>1. t \in hits /\ t \in InRange
    BY DEF Reportable
  <2>2. start <= t /\ t < start + End
    BY <1>3, <2>1 DEF InRange
  <2>3. Owner(t - start) \in Lanes
    BY <1>2, <2>1, <2>2, OwnerIsLane
  <2> QED BY <1>2, <2>1, <2>2, <2>3 DEF ScannedInv, Passed
<1>5. best = NOT_FOUND_TIMESTAMP => Reportable = {}
  <2> SUFFICES ASSUME best = NOT_FOUND_TIMESTAMP, NEW t \in Reportable
               PROVE  FALSE
    OBVIOUS
  <2>1. t \in Timestamps /\ t # U32MAX
    BY DEF Reportable, NOT_FOUND_TIMESTAMP, TInv, TypeOK
  <2> QED BY <1>3, <1>4, <2>1 DEF NOT_FOUND_TIMESTAMP, Timestamps
<1>6. best # NOT_FOUND_TIMESTAMP => best \in Reportable
  BY <1>2 DEF CellInv
<1>7. Reportable' = Reportable
  BY <1>1 DEF Reportable, InRange
<1>8. EarliestAnswer'
  BY <1>1, <1>4, <1>5, <1>6, <1>7 DEF EarliestAnswer
<1> QED BY <1>1, <1>8
        DEF IInv, RequestInv, LaunchInv, CellInv, PositionInv, ScannedInv,
            WarpInv, Busy, Launched

\* Every step keeps the inductive invariant.
LEMMA InvStep == TInv /\ TInv' /\ IInv /\ [Next]_vars => IInv'
<1> SUFFICES ASSUME TInv, TInv', IInv, [Next]_vars PROVE IInv'
  OBVIOUS
<1>1. CASE UNCHANGED vars
  BY <1>1
     DEF vars, host_vars, lane_vars, IInv, RequestInv, LaunchInv, CellInv,
         PositionInv, ScannedInv, WarpInv, EarliestAnswer, Busy, Launched, End,
         Passed, Owner, NextPoll, stride, poll_stride, Reportable, InRange
<1>2. CASE HostStep
  BY <1>2, InvHost, InvLaunch, InvSynchronize, InvReadBest DEF HostStep
<1>3. CASE \E l \in Lanes : LaneStep(l)
  BY <1>3, InvPoll, InvHit, InvMiss DEF LaneStep
<1> QED BY <1>1, <1>2, <1>3, InvHost DEF Next

\* The inductive invariant holds throughout.
LEMMA Invariance == Spec => [](TInv /\ IInv)
BY TypeInit, TypeStep, InvInit, InvStep, PTL DEF Spec

-----------------------------------------------------------------------------
(* Theorems.                                                               *)

\* search_batch returns the earliest match of its range, for every geometry,
\* range, match set and interleaving of the lanes (cuda.rs and hip.rs
\* search_batch, with both kernels of gpu_kernel.cu).
THEOREM EarliestAnswerCorrect == Spec => []EarliestAnswer
<1>1. IInv => EarliestAnswer
  BY DEF IInv
<1> QED BY <1>1, Invariance, PTL

\* The best-timestamp cell never shows a value of another batch or from
\* outside the range once it has been reset.
THEOREM BestIsAHitCorrect == Spec => []BestIsAHit
<1>1. IInv => BestIsAHit
  BY DEF IInv, LaunchInv, CellInv, BestIsAHit, Launched
<1> QED BY <1>1, Invariance, PTL

\* No match is lost on the way: until the cell holds something as early, the
\* lane that owns a match is still running and has not passed it.
THEOREM NothingAbandonedCorrect == Spec => []NothingAbandoned
<1>1. TInv /\ IInv => NothingAbandoned
  <2> SUFFICES ASSUME TInv, IInv, Launched, NEW t \in Reportable, ~(best <= t)
               PROVE  /\ lane[Owner(t - start)] # "done"
                      /\ index[Owner(t - start)] <= t - start
    BY DEF NothingAbandoned, Launched
  <2> DEFINE l == Owner(t - start)
  <2>1. RequestInv /\ LaunchInv /\ ScannedInv
    BY DEF IInv
  <2>2. /\ start \in Nat /\ count \in Nat /\ End \in Nat /\ count <= End
    BY <2>1, RangeFacts
  <2>3. t \in hits /\ start <= t /\ t < start + End
    BY <2>2 DEF Reportable, InRange
  <2>4. t - start \in Nat /\ l \in Lanes
    BY <2>1, <2>3, OwnerIsLane
  <2>5. ~Passed(l, t - start)
    BY <2>1, <2>3 DEF ScannedInv
  <2>6. index[l] \in Nat
    BY <2>4 DEF TInv, TypeOK
  <2> QED BY <2>4, <2>5, <2>6 DEF Passed
<1> QED BY <1>1, Invariance, PTL

\* The undefined broadcast of a warp whose first lane has left the kernel is
\* harmless: the cell is already at least as early as all its lanes have left.
THEOREM LeaderLeftFirstCorrect == Spec => []LeaderLeftFirst
<1>1. TInv /\ IInv => LeaderLeftFirst
  <2> SUFFICES ASSUME TInv, IInv, pc = "kernel", NEW l \in Lanes,
                      lane[l] = "poll", lane[Leader(l)] = "done"
               PROVE  best <= start + index[l]
    BY DEF LeaderLeftFirst
  <2>1. RequestInv /\ LaunchInv /\ PositionInv /\ WarpInv
    BY DEF IInv
  <2>2. End \in Nat /\ index[l] \in Nat /\ index[l] < End
    BY <2>1, RangeFacts DEF Launched, PositionInv, TInv, TypeOK
  <2> QED BY <2>1, <2>2 DEF WarpInv, NextPoll
<1> QED BY <1>1, Invariance, PTL
-----------------------------------------------------------------------------
(* The engine implements BatchSearch.                                      *)

\* A step of the caller or of the host part of search_batch is a step of the
\* promise, or invisible to it.  Reading the cell back is the answer, and
\* EarliestAnswer says that it is the promised one.
LEMMA HostKeepsPromise ==
    ASSUME TInv, TInv', IInv',
           prepare_prefixes \/ prepare_search \/ search_batch \/ HostStep \/ ApiError
    PROVE  [Promise!Next]_(Promise!vars)
<1> USE DEF Promise!Next, Promise!vars
<1>1. CASE prepare_prefixes \/ prepare_search
  <2>1. Promise!Upload
    BY <1>1 DEF prepare_prefixes, prepare_search, BetweenCalls, Promise!Upload
  <2> QED BY <2>1
<1>2. CASE search_batch
  <2>1. Promise!Ask \/ Promise!Fail
    BY <1>2 DEF search_batch, BetweenCalls, Promise!Ask, Promise!Fail
  <2> QED BY <2>1
<1>3. CASE ResetBest \/ launch_kernel \/ Synchronize
  BY <1>3 DEF ResetBest, launch_kernel, Synchronize
<1>4. CASE ReadBest
  <2>1. /\ pc = "read" /\ pc' = "returned"
        /\ start' = start /\ count' = count /\ hits' = hits
        /\ answer' \in {None} \cup Timestamps
    BY <1>4 DEF ReadBest, TInv, TypeOK
  <2>2. Promise!Promised(start, count, hits, answer')
    BY <2>1 DEF IInv, EarliestAnswer, Reportable, InRange, Promise!Promised,
                Promise!Reportable, Promise!InRange, Promise!NOT_FOUND_TIMESTAMP,
                Promise!None, NOT_FOUND_TIMESTAMP, None
  <2>3. Promise!Answer
    BY <2>1, <2>2 DEF Promise!Answer, Promise!None, None, Timestamps
  <2> QED BY <2>3
<1>5. CASE ApiError
  <2>1. Promise!Fail
    BY <1>5 DEF ApiError, Promise!Fail
  <2> QED BY <2>1
<1> QED BY <1>1, <1>2, <1>3, <1>4, <1>5 DEF HostStep

\* What the lanes do among themselves is invisible to the caller.
LEMMA LanesKeepPromise ==
    ASSUME NEW l \in Lanes, LaneStep(l)
    PROVE  UNCHANGED Promise!vars
BY DEF LaneStep, Poll, Hit, Miss, host_vars, Promise!vars

\* search_batch, with its launch geometry, its two kernels and its racing lanes,
\* implements the promise the host loop relies on, for every geometry.
THEOREM PromiseKept == Spec => KeepsPromise
<1>1. Init => Promise!Init
  BY DEF Init, Promise!Init, Promise!None, None
<1>2. TInv /\ TInv' /\ IInv' /\ [Next]_vars => [Promise!Next]_(Promise!vars)
  <2> SUFFICES ASSUME TInv, TInv', IInv', [Next]_vars
               PROVE  [Promise!Next]_(Promise!vars)
    OBVIOUS
  <2>1. CASE UNCHANGED vars
    BY <2>1 DEF vars, host_vars, Promise!vars
  <2>2. CASE \E l \in Lanes : LaneStep(l)
    BY <2>2, LanesKeepPromise
  <2> QED BY <2>1, <2>2, HostKeepsPromise DEF Next
<1> QED BY <1>1, <1>2, Invariance, PTL DEF KeepsPromise, Promise!Spec, Spec
=============================================================================
