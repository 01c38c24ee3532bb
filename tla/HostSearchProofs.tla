-------------------------- MODULE HostSearchProofs -------------------------
(***************************************************************************)
(* Proofs about HostSearch, for every width of the timestamps, every batch *)
(* size, key space, match map and configuration: types, genuine results,   *)
(* true counters, complete coverage, and that the loop implements          *)
(* VanitySearch.  What is proved without EngineTrusted holds whatever the  *)
(* GPU answers.                                                            *)
(***************************************************************************)
EXTENDS HostSearch, TLAPS

\* An error verdict ends the loop, the counters start at 0, the horizon does
\* not pass the clock, and a fixed seed is scanned once (src/search.rs, the
\* order of the statements of `search').
LoopInv ==
    /\ pc = "end" <=> verdict # "running"
    /\ pc \in {"clock", "next_key", "scan"} => batch_size > 0
    /\ pc \in {"open", "clock"} =>
          timestamp_count = 0 /\ key_attempts = 0 /\ total_checked = 0
    /\ pc \in {"next_key", "scan"} => timestamp_count >= 1
    /\ timestamp_count = 0 \/ timestamp_count <= clock + 1
    /\ pc = "next_key" =>
          /\ max_key_attempts # NoLimit => key_attempts <= max_key_attempts
          /\ fixed_seed # NoSeed => key_attempts = 0

\* While a key is scanned its own base words are on the device, and it is
\* within the limit.
ScanInv ==
    pc = "scan" =>
        /\ key \in Keys /\ device_key = key
        /\ fixed_seed \in {NoSeed, key}
        /\ batch_start <= timestamp_count
        /\ key_attempts >= 1
        /\ max_key_attempts # NoLimit => key_attempts <= max_key_attempts
        /\ fixed_seed # NoSeed => key_attempts = 1

\* The inductive invariant that holds whatever the engine answers.
HInv == TypeOK /\ LoopInv /\ ScanInv /\ GenuineResult /\ CountersTrue

-----------------------------------------------------------------------------
(* The batches.                                                            *)

\* u32 arithmetic does not wrap below 2^32.
LEMMA NoWrap ==
    ASSUME NEW m \in Nat, NEW a \in 0 .. m
    PROVE  a % (m + 1) = a
  OBVIOUS

\* The loop's variables are integers of their ranges, and the cap keeps the
\* batch size a u32.
LEMMA Numbers ==
    ASSUME TypeOK
    PROVE  /\ U32MAX \in Nat /\ BatchCover \in Nat \ {0} /\ batch_size \in 0 .. U32MAX
           /\ timestamp_count \in 0 .. U32MAX + 1 /\ batch_start \in 0 .. U32MAX + 1
           /\ key_attempts \in Nat /\ total_checked \in Nat /\ clock \in Int
  BY HostAssumption DEF TypeOK, batch_size

\* A batch is not empty, does not wrap and ends within the horizon: the `as
\* u32' of search.rs:104-105 lose nothing.
LEMMA BatchFacts ==
    ASSUME TypeOK, batch_size > 0, batch_start < timestamp_count
    PROVE  /\ batch_count \in 1 .. U32MAX
           /\ batch_start + batch_count <= timestamp_count
           /\ start_timestamp = batch_start
<1> DEFINE c == IF batch_size < Remaining THEN batch_size ELSE Remaining
<1>1. /\ U32MAX \in Nat /\ batch_size \in 1 .. U32MAX
      /\ timestamp_count \in 1 .. U32MAX + 1 /\ batch_start \in 0 .. U32MAX
  BY Numbers
<1>2. c \in 1 .. U32MAX /\ batch_start + c <= timestamp_count
  BY <1>1 DEF Remaining
<1>3. batch_count = c % (U32MAX + 1)
  BY DEF batch_count
<1> HIDE DEF c
<1>4. batch_count = c
  BY <1>1, <1>2, <1>3, NoWrap
<1>5. start_timestamp = batch_start
  BY <1>1, NoWrap DEF start_timestamp
<1> QED BY <1>2, <1>4, <1>5

\* The number of creation times is in 1 .. 2^32, and no time is in the future.
LEMMA CountFacts ==
    ASSUME NEW now \in Nat
    PROVE  /\ CountThrough(now) \in 1 .. U32MAX + 1
           /\ CountThrough(now) <= now + 1
  BY HostAssumption DEF CountThrough

\* Whole ranges add up.
LEMMA OneMoreRange ==
    ASSUME NEW a \in Nat \ {0}, NEW c \in Nat
    PROVE  (a - 1) * c + c = a * c
<1>1. a * c = ((a - 1) + 1) * c
  OBVIOUS
<1> QED BY <1>1

-----------------------------------------------------------------------------
(* The invariant, action by action.                                        *)

\* The start of the program.
LEMMA InvInit == Init => HInv
<1> SUFFICES ASSUME Init PROVE HInv
  OBVIOUS
<1> USE DEF Init
<1>1. TypeOK
  BY HostAssumption DEF TypeOK, Timestamps
<1> QED BY <1>1 DEF HInv, LoopInv, ScanInv, GenuineResult, CountersTrue

\* Opening the engine touches no counter.
LEMMA InvOpenEngine == HInv /\ OpenEngine => HInv'
<1> SUFFICES ASSUME HInv, OpenEngine PROVE HInv'
  OBVIOUS
<1> USE DEF OpenEngine, Return, config, counters, scanning
<1>1. TypeOK'
  BY DEF HInv, TypeOK
<1>2. LoopInv'
  BY DEF HInv, LoopInv, batch_size
<1> QED BY <1>1, <1>2 DEF HInv, LoopInv, ScanInv, GenuineResult, CountersTrue

\* Reading the clock fixes the horizon, in 1 .. 2^32 and not in the future.
LEMMA InvReadClock == HInv /\ ReadClock => HInv'
<1> SUFFICES ASSUME HInv, ReadClock PROVE HInv'
  OBVIOUS
<1> USE DEF ReadClock, Return, config, scanning
<1>1. clock >= 0 => clock \in Nat
  BY DEF HInv, TypeOK
<1>2. timestamp_count' # timestamp_count =>
          /\ timestamp_count' \in 1 .. U32MAX + 1
          /\ timestamp_count' <= clock + 1
  BY <1>1, CountFacts
<1>3. pc' = "next_key" => timestamp_count' \in 1 .. U32MAX + 1
  BY <1>1, CountFacts
<1>4. TypeOK'
  BY <1>2 DEF HInv, TypeOK
<1>5. LoopInv'
  BY <1>2, <1>3 DEF HInv, LoopInv, batch_size, TypeOK
<1>6. CountersTrue'
  <2>1. /\ pc = "clock" /\ total_checked' = 0 /\ key_attempts' = 0
        /\ pc' # "scan" /\ verdict' \in {"running", "error"}
    BY DEF HInv, LoopInv
  <2>2. timestamp_count' \in Int /\ \A n \in Int : 0 * n = 0
    BY <1>4, HostAssumption DEF TypeOK
  <2>3. key_attempts' * timestamp_count' = 0
    BY <2>1, <2>2
  <2> QED BY <2>1, <2>3 DEF CountersTrue, Counted
<1>7. ScanInv' /\ GenuineResult'
  <2>1. pc' \in {"next_key", "end"} /\ verdict' \in {"running", "error"}
    BY DEF HInv, LoopInv
  <2> QED BY <2>1 DEF ScanInv, GenuineResult
<1> QED BY <1>4, <1>5, <1>6, <1>7 DEF HInv

\* A new attempt is counted before the limit is checked, its range starts at
\* 0, and its own base words are uploaded.
LEMMA InvNextKey == HInv /\ NextKey => HInv'
<1> SUFFICES ASSUME HInv, NextKey PROVE HInv'
  OBVIOUS
<1> USE DEF NextKey, Return, config, scanning
<1>1. /\ key_attempts \in Nat /\ key_attempts' = key_attempts + 1
      /\ fixed_seed \in Keys \cup {NoSeed}
      /\ max_key_attempts \in Nat \cup {NoLimit}
      /\ max_key_attempts # NoLimit => key_attempts <= max_key_attempts
      /\ fixed_seed # NoSeed => key_attempts = 0
      /\ U32MAX \in Nat
  BY Numbers DEF HInv, TypeOK, LoopInv
<1>2. TypeOK'
  BY <1>1 DEF HInv, TypeOK
<1>3. LoopInv'
  BY <1>1 DEF HInv, LoopInv, batch_size
<1>4. ScanInv'
  <2>1. CASE pc' = "scan"
    BY <1>1, <2>1, HostAssumption DEF HInv, TypeOK, ScanInv, OverLimit
  <2> QED BY <2>1 DEF ScanInv
<1>5. GenuineResult'
  BY DEF HInv, LoopInv, GenuineResult
<1>6. CountersTrue'
  <2>1. /\ total_checked' = total_checked /\ timestamp_count' = timestamp_count
        /\ total_checked = key_attempts * timestamp_count
        /\ pc' \in {"scan", "end"} /\ verdict' \in {"running", "limit", "error"}
    BY DEF HInv, LoopInv, CountersTrue, Counted
  <2>2. key_attempts' - 1 = key_attempts
    BY <1>1
  <2>3. CASE pc' = "scan"
    <3>1. batch_start' = 0 /\ verdict' = "running"
      BY <2>3 DEF HInv, LoopInv
    <3>2. total_checked \in Nat
      BY DEF HInv, TypeOK
    <3> QED BY <2>1, <2>2, <2>3, <3>1, <3>2 DEF CountersTrue, Counted
  <2>4. CASE verdict' = "limit"
    <3>1. pc' = "end" /\ key_attempts = max_key_attempts /\ max_key_attempts' = max_key_attempts
      BY <1>1, <2>4 DEF OverLimit, HInv, LoopInv
    <3> QED BY <1>1, <2>1, <2>4, <3>1 DEF CountersTrue, Counted
  <2>5. CASE pc' # "scan" /\ verdict' # "limit"
    <3>1. pc' = "end" /\ verdict' = "error"
      BY <2>1, <2>5
    <3> QED BY <3>1 DEF CountersTrue
  <2> QED BY <2>3, <2>4, <2>5
<1> QED BY <1>2, <1>3, <1>4, <1>5, <1>6 DEF HInv

\* A batch: an answer that passes both checks is a match that is not in the
\* future, and the checked timestamps are those up to it.
LEMMA InvScanBatch == HInv /\ ScanBatch => HInv'
<1> SUFFICES ASSUME HInv, ScanBatch PROVE HInv'
  OBVIOUS
<1> USE DEF Return, config
<1>1. /\ pc = "scan" /\ batch_start < timestamp_count
      /\ UNCHANGED <<config, clock, timestamp_count, key_attempts, key, device_key>>
  BY DEF ScanBatch
<1>2. PICK answer \in EngineAnswers(start_timestamp, batch_count) :
          \/ /\ answer = None
             /\ total_checked' = total_checked + batch_count
             /\ batch_start' = batch_start + batch_count
             /\ UNCHANGED <<pc, verdict, found>>
          \/ /\ answer # None /\ InBatch(answer)
             /\ total_checked' = total_checked + (answer - batch_start + 1)
             /\ IF CpuMatches(answer)
                THEN found' = <<key, answer>> /\ Return("found")
                ELSE found' = found /\ Return("error")
             /\ UNCHANGED batch_start
          \/ /\ answer # None /\ ~InBatch(answer)
             /\ Return("error")
             /\ UNCHANGED <<total_checked, batch_start, found>>
  BY DEF ScanBatch
<1>3. /\ batch_count \in 1 .. U32MAX
      /\ batch_start + batch_count <= timestamp_count
  BY <1>1, BatchFacts DEF HInv, LoopInv
<1>4. /\ U32MAX \in Nat /\ timestamp_count \in 1 .. U32MAX + 1
      /\ batch_start \in 0 .. U32MAX /\ total_checked \in Nat
      /\ key_attempts \in Nat \ {0} /\ clock \in Int
      /\ timestamp_count <= clock + 1
      /\ key \in Keys /\ fixed_seed \in {NoSeed, key}
      /\ verdict = "running"
  BY <1>1, Numbers DEF HInv, LoopInv, ScanInv
<1>5. hits \in [Keys -> SUBSET Timestamps]
  BY HostAssumption DEF HInv, TypeOK
<1>6. answer # None /\ InBatch(answer) =>
          answer \in batch_start .. batch_start + batch_count - 1
  <2>1. answer \in {None} \cup Timestamps
    <3>1. CASE ~EngineTrusted
      BY <3>1 DEF EngineAnswers
    <3>2. CASE EngineTrusted
      <4>1. ReportableIn(start_timestamp, batch_count) \subseteq Timestamps
        BY <1>1, <1>4, <1>5 DEF ReportableIn, HInv, ScanInv
      <4> QED BY <3>2, <4>1 DEF EngineAnswers
    <3> QED BY <3>1, <3>2
  <2> QED BY <1>3, <1>4, <2>1 DEF InBatch, Timestamps, None
<1>7. CASE answer = None
  <2>1. /\ total_checked' = total_checked + batch_count
        /\ batch_start' = batch_start + batch_count
        /\ pc' = pc /\ verdict' = verdict /\ found' = found
    BY <1>2, <1>7
  <2>2. TypeOK'
    BY <1>1, <1>3, <1>4, <2>1 DEF HInv, TypeOK
  <2>3. LoopInv' /\ ScanInv' /\ GenuineResult'
    BY <1>1, <1>3, <1>4, <2>1 DEF HInv, LoopInv, ScanInv, GenuineResult, batch_size
  <2>4. CountersTrue'
    <3> DEFINE C == (key_attempts - 1) * timestamp_count
    <3>1. total_checked = C + batch_start /\ C \in Nat
      BY <1>1, <1>4 DEF HInv, CountersTrue, Counted
    <3>2. C' = C /\ pc' = "scan" /\ verdict' = "running"
      BY <1>1, <1>4, <2>1
    <3> HIDE DEF C
    <3>3. total_checked' = C' + batch_start'
      BY <1>3, <1>4, <2>1, <3>1, <3>2
    <3> QED BY <3>2, <3>3 DEF C, CountersTrue, Counted
  <2> QED BY <2>2, <2>3, <2>4 DEF HInv
<1>8. CASE answer # None /\ InBatch(answer)
  <2>1. /\ total_checked' = total_checked + (answer - batch_start + 1)
        /\ batch_start' = batch_start /\ pc' = "end"
        /\ \/ CpuMatches(answer) /\ found' = <<key, answer>> /\ verdict' = "found"
           \/ found' = found /\ verdict' = "error"
    BY <1>2, <1>8
  <2>2. answer \in Nat /\ answer <= U32MAX /\ answer <= clock
        /\ answer - batch_start + 1 \in Nat
    BY <1>3, <1>4, <1>6, <1>8
  <2>3. TypeOK'
    BY <1>1, <1>4, <2>1, <2>2 DEF HInv, TypeOK, Timestamps
  <2>4. LoopInv' /\ ScanInv'
    BY <1>1, <1>4, <2>1 DEF HInv, LoopInv, ScanInv
  <2>5. GenuineResult'
    <3>1. CASE verdict' = "found"
      <4>1. /\ found' = <<key, answer>> /\ answer \in hits[key]
            /\ hits' = hits /\ clock' = clock /\ fixed_seed' = fixed_seed
        BY <1>1, <2>1, <3>1 DEF CpuMatches
      <4>2. found' # Nothing /\ found'[1] = key /\ found'[2] = answer
        BY <4>1 DEF Nothing
      <4> QED BY <1>4, <2>2, <4>1, <4>2 DEF GenuineResult
    <3> QED BY <3>1 DEF GenuineResult
  <2>6. CountersTrue'
    <3> DEFINE C == (key_attempts - 1) * timestamp_count
    <3>1. total_checked = C + batch_start /\ C \in Nat
      BY <1>1, <1>4 DEF HInv, CountersTrue, Counted
    <3>2. C' = C
      BY <1>1
    <3> HIDE DEF C
    <3>3. total_checked' = C' + answer + 1
      BY <1>4, <2>1, <2>2, <3>1, <3>2
    <3>4. verdict' = "found" => found'[2] = answer
      BY <2>1
    <3> QED BY <2>1, <3>3, <3>4 DEF C, CountersTrue, Counted
  <2> QED BY <2>3, <2>4, <2>5, <2>6 DEF HInv
<1>9. CASE answer # None /\ ~InBatch(answer)
  <2>1. /\ pc' = "end" /\ verdict' = "error"
        /\ total_checked' = total_checked /\ batch_start' = batch_start /\ found' = found
    BY <1>2, <1>9
  <2>2. TypeOK'
    BY <1>1, <2>1 DEF HInv, TypeOK
  <2>3. LoopInv'
    BY <1>1, <1>4, <2>1 DEF HInv, LoopInv, batch_size
  <2>4. ScanInv' /\ GenuineResult' /\ CountersTrue'
    BY <2>1 DEF ScanInv, GenuineResult, CountersTrue
  <2> QED BY <2>2, <2>3, <2>4 DEF HInv
<1> QED BY <1>7, <1>8, <1>9

\* An exhausted range: a given seed was tried once, so that all that was
\* checked is its range; a random one is followed by the next.
LEMMA InvKeyDone == HInv /\ KeyDone => HInv'
<1> SUFFICES ASSUME HInv, KeyDone PROVE HInv'
  OBVIOUS
<1> USE DEF KeyDone, Return, config, counters, scanning
<1>1. /\ pc = "scan" /\ batch_start = timestamp_count
      /\ timestamp_count \in Nat /\ key_attempts \in Nat \ {0}
      /\ total_checked = (key_attempts - 1) * timestamp_count + timestamp_count
  BY Numbers DEF HInv, ScanInv, CountersTrue, Counted
<1>2. total_checked = key_attempts * timestamp_count
  BY <1>1, OneMoreRange
<1>3. TypeOK'
  BY DEF HInv, TypeOK
<1>4. LoopInv'
  BY <1>1 DEF HInv, LoopInv, ScanInv, batch_size
<1>5. ScanInv' /\ GenuineResult'
  BY <1>1 DEF HInv, LoopInv, ScanInv, GenuineResult
<1>6. CountersTrue'
  <2>1. CASE fixed_seed # NoSeed
    <3>1. key_attempts = 1 /\ pc' = "end" /\ verdict' = "exhausted"
      BY <1>1, <2>1 DEF HInv, ScanInv
    <3>2. total_checked = timestamp_count
      BY <1>1, <1>2, <3>1
    <3> QED BY <3>1, <3>2 DEF CountersTrue
  <2>2. CASE fixed_seed = NoSeed
    <3>1. pc' = "next_key" /\ verdict' = "running"
      BY <1>1, <2>2 DEF HInv, LoopInv
    <3> QED BY <1>2, <3>1 DEF CountersTrue, Counted
  <2> QED BY <2>1, <2>2
<1> QED BY <1>3, <1>4, <1>5, <1>6 DEF HInv

\* A failing call ends the search; time passing changes nothing else.
LEMMA InvOthers == HInv /\ (BatchFails \/ Tick \/ UNCHANGED vars) => HInv'
<1> SUFFICES ASSUME HInv, BatchFails \/ Tick \/ UNCHANGED vars PROVE HInv'
  OBVIOUS
<1> USE DEF config, counters, scanning
<1>1. CASE BatchFails
  <2>1. TypeOK'
    BY <1>1 DEF HInv, TypeOK, BatchFails, Return
  <2> QED BY <1>1, <2>1 DEF BatchFails, Return, HInv, LoopInv, ScanInv,
                            GenuineResult, CountersTrue
<1>2. CASE Tick
  <2>1. TypeOK' /\ clock \in Int /\ clock' = clock + 1
    BY <1>2 DEF HInv, TypeOK, Tick
  <2>2. timestamp_count \in Nat /\ (verdict = "found" => found[2] \in Nat)
    BY HostAssumption DEF HInv, TypeOK, GenuineResult, Nothing, Timestamps
  <2>3. LoopInv'
    BY <1>2, <2>1, <2>2 DEF Tick, HInv, LoopInv, batch_size
  <2>4. GenuineResult'
    BY <1>2, <2>1, <2>2 DEF Tick, HInv, GenuineResult
  <2> QED BY <1>2, <2>1, <2>3, <2>4 DEF Tick, HInv, ScanInv, CountersTrue, Counted
<1>3. CASE UNCHANGED vars
  BY <1>3 DEF vars, HInv, TypeOK, LoopInv, ScanInv, GenuineResult, CountersTrue,
              Counted, batch_size
<1> QED BY <1>1, <1>2, <1>3

\* The invariant holds throughout, whatever the engine answers.
LEMMA Invariance == Spec => []HInv
<1>1. HInv /\ [Next]_vars => HInv'
  BY InvOpenEngine, InvReadClock, InvNextKey, InvScanBatch, InvKeyDone, InvOthers
     DEF Next, Step
<1> QED BY <1>1, InvInit, PTL DEF Spec

-----------------------------------------------------------------------------
(* With an engine that keeps its promise.                                  *)

\* What is inductive about coverage and the earliest match.
CInv == EngineTrusted => NothingSkipped /\ Reproducible

\* The engine answers None when the batch holds no match it can report, and the
\* earliest such match otherwise.
LEMMA AnswerFacts ==
    ASSUME HInv, EngineTrusted, pc = "scan", batch_start < timestamp_count,
           NEW answer \in EngineAnswers(start_timestamp, batch_count)
    PROVE  /\ answer = None =>
                  \A t \in hits[key] : t < batch_start \/ t >= batch_start + batch_count
                                       \/ t = U32MAX
           /\ answer # None =>
                  /\ answer \in hits[key] /\ answer >= batch_start
                  /\ answer < batch_start + batch_count /\ answer # U32MAX
                  /\ \A t \in hits[key] :
                        t < batch_start \/ t >= batch_start + batch_count
                        \/ t = U32MAX \/ answer <= t
<1> DEFINE R == ReportableIn(start_timestamp, batch_count)
<1>1. /\ start_timestamp = batch_start
      /\ key \in Keys /\ device_key = key /\ device_key # Leftover
      /\ batch_count \in Nat /\ batch_start \in Nat
  BY BatchFacts, Numbers, HostAssumption DEF HInv, LoopInv, ScanInv
<1>2. hits[key] \subseteq Timestamps
  BY <1>1, HostAssumption DEF HInv, TypeOK
<1>3. R = {t \in hits[key] : /\ t >= batch_start /\ t < batch_start + batch_count
                             /\ t # U32MAX}
  BY <1>1 DEF ReportableIn
<1>4. None \notin Timestamps /\ \A t \in Timestamps : t \in Int
  BY HostAssumption DEF None, Timestamps
<1> HIDE DEF R
<1>5. answer \in IF R = {} THEN {None} ELSE {t \in R : \A u \in R : t <= u}
  BY DEF EngineAnswers, R
<1>6. CASE R = {}
  <2>1. answer = None
    BY <1>5, <1>6
  <2>2. \A t \in hits[key] : t < batch_start \/ t >= batch_start + batch_count
                             \/ t = U32MAX
    BY <1>1, <1>2, <1>3, <1>4, <1>6
  <2> QED BY <2>1, <2>2
<1>7. CASE R # {}
  <2>1. answer \in R /\ \A u \in R : answer <= u
    BY <1>5, <1>7
  <2>2. answer # None
    BY <1>2, <1>3, <1>4, <2>1
  <2> QED BY <1>1, <1>2, <1>3, <1>4, <2>1, <2>2
<1> QED BY <1>6, <1>7

\* A batch without a match moves on by just that batch; one with a match ends
\* the search with it, and nothing earlier was passed by.
LEMMA CoverScanBatch == HInv /\ CInv /\ ScanBatch => CInv'
<1> SUFFICES ASSUME HInv, CInv, ScanBatch, EngineTrusted
             PROVE  NothingSkipped' /\ Reproducible'
  BY DEF CInv
<1>1. /\ pc = "scan" /\ batch_start < timestamp_count /\ key' = key /\ hits' = hits
      /\ verdict = "running"
  BY DEF ScanBatch, config, HInv, LoopInv
<1>2. PICK answer \in EngineAnswers(start_timestamp, batch_count) :
         \/ /\ answer = None
            /\ batch_start' = batch_start + batch_count
            /\ UNCHANGED <<pc, verdict, found>>
         \/ /\ answer # None
            /\ pc' = "end" /\ verdict' = "found" /\ found' = <<key, answer>>
         \/ pc' = "end" /\ verdict' = "error"
  BY DEF ScanBatch, Return
<1>3. \A t \in hits[key] : t \in Int /\ t <= U32MAX
  BY <1>1, HostAssumption DEF HInv, TypeOK, ScanInv, Timestamps
<1>4. \A t \in hits[key] : t >= batch_start \/ t = U32MAX
  BY <1>1 DEF CInv, NothingSkipped
<1>5. batch_start \in Nat /\ batch_count \in Nat /\ U32MAX \in Nat
  BY <1>1, Numbers, BatchFacts DEF HInv, LoopInv
<1>6. CASE /\ answer = None
           /\ batch_start' = batch_start + batch_count
           /\ UNCHANGED <<pc, verdict, found>>
  <2>1. \A t \in hits[key] : t >= batch_start' \/ t = U32MAX
    BY <1>1, <1>3, <1>4, <1>5, <1>6, AnswerFacts
  <2> QED BY <1>1, <1>6, <2>1 DEF NothingSkipped, Reproducible
<1>7. CASE /\ answer # None
           /\ pc' = "end" /\ verdict' = "found" /\ found' = <<key, answer>>
  <2>1. /\ answer \in hits[key] /\ answer < batch_start + batch_count
        /\ \A t \in hits[key] : t < batch_start \/ t >= batch_start + batch_count
                                \/ t = U32MAX \/ answer <= t
    BY <1>1, <1>7, AnswerFacts
  <2>2. \A t \in hits[key] : answer <= t
    BY <1>3, <1>4, <1>5, <2>1
  <2>3. found'[1] = key /\ found'[2] = answer
    BY <1>7
  <2> QED BY <1>1, <1>7, <2>2, <2>3 DEF NothingSkipped, Reproducible
<1>8. CASE pc' = "end" /\ verdict' = "error"
  BY <1>8 DEF NothingSkipped, Reproducible
<1> QED BY <1>2, <1>6, <1>7, <1>8

\* Every step keeps coverage; the next key starts again at 0.
LEMMA CoverStep == HInv /\ CInv /\ [Next]_vars => CInv'
<1> SUFFICES ASSUME HInv, CInv, [Next]_vars PROVE CInv'
  OBVIOUS
<1> USE DEF config, counters, scanning, Return
<1>1. CASE OpenEngine \/ ReadClock
  BY <1>1 DEF OpenEngine, ReadClock, HInv, LoopInv, CInv, NothingSkipped, Reproducible
<1>2. CASE NextKey
  <2> SUFFICES ASSUME EngineTrusted PROVE NothingSkipped' /\ Reproducible'
    BY DEF CInv
  <2>1. verdict' \in {"running", "limit", "error"} /\ hits' = hits
    BY <1>2 DEF NextKey, HInv, LoopInv
  <2>2. CASE pc' = "scan"
    <3>1. batch_start' = 0 /\ key' \in Keys
      BY <1>2, <2>2 DEF NextKey, HInv, TypeOK
    <3>2. \A t \in hits[key'] : t >= 0
      BY <3>1, HostAssumption DEF HInv, TypeOK, Timestamps
    <3> QED BY <2>1, <3>1, <3>2 DEF NothingSkipped, Reproducible
  <2> QED BY <2>1, <2>2 DEF NothingSkipped, Reproducible
<1>3. CASE ScanBatch
  BY <1>3, CoverScanBatch
<1>4. CASE KeyDone
  BY <1>4 DEF KeyDone, HInv, LoopInv, CInv, NothingSkipped, Reproducible
<1>5. CASE BatchFails
  BY <1>5 DEF BatchFails, CInv, NothingSkipped, Reproducible
<1>6. CASE Tick \/ UNCHANGED vars
  BY <1>6 DEF Tick, vars, CInv, NothingSkipped, Reproducible
<1> QED BY <1>1, <1>2, <1>3, <1>4, <1>5, <1>6 DEF Next, Step

\* Coverage holds throughout.
LEMMA Coverage == Spec => []CInv
<1>1. Init => CInv
  BY DEF Init, CInv, NothingSkipped, Reproducible
<1> QED BY <1>1, CoverStep, Invariance, InvInit, PTL DEF Spec

-----------------------------------------------------------------------------
(* Theorems.                                                               *)

\* Types: the counters never leave their ranges, whatever the clock says.
THEOREM TypeCorrect == Spec => []TypeOK
<1>1. HInv => TypeOK
  BY DEF HInv
<1> QED BY <1>1, Invariance, PTL

\* A reported key matches at its time, and that time is not in the future,
\* even when the GPU answers anything at all (search.rs:109-163).
THEOREM GenuineResultCorrect == Spec => []GenuineResult
<1>1. HInv => GenuineResult
  BY DEF HInv
<1> QED BY <1>1, Invariance, PTL

\* The counters printed at the end are the truth, whatever the GPU answers.
THEOREM CountersTrueCorrect == Spec => []CountersTrue
<1>1. HInv => CountersTrue
  BY DEF HInv
<1> QED BY <1>1, Invariance, PTL

\* With an engine that keeps its promise no batch boundary hides a match: a
\* seed is given up only when it has no reportable match up to the horizon.
THEOREM NothingSkippedCorrect == Spec => [](EngineTrusted => NothingSkipped)
<1>1. CInv => (EngineTrusted => NothingSkipped)
  BY DEF CInv
<1> QED BY <1>1, Coverage, PTL

\* With an engine that keeps its promise a found time is its key's earliest
\* match, for every batch size and clock.
THEOREM ReproducibleCorrect == Spec => [](EngineTrusted => Reproducible)
<1>1. CInv => (EngineTrusted => Reproducible)
  BY DEF CInv
<1> QED BY <1>1, Coverage, PTL

-----------------------------------------------------------------------------
(* The loop implements VanitySearch.                                       *)

\* Every step of the loop is a step of the promise or invisible to it.
LEMMA StepKeepsPromise ==
    ASSUME EngineTrusted, HInv, CInv, [Next]_vars
    PROVE  [Promise!Next]_(Promise!vars)
<1> USE DEF Promise!Next, Promise!vars, config, counters, scanning, Return
<1>1. key_attempts \in Nat
  BY DEF HInv, TypeOK
<1>2. CASE OpenEngine
  <2>1. key_attempts = 0 /\ verdict = "running"
    BY <1>2 DEF OpenEngine, HInv, LoopInv
  <2>2. UNCHANGED Promise!vars \/ Promise!Fail
    BY <1>2, <2>1 DEF OpenEngine, Promise!Fail
  <2> QED BY <2>2
<1>3. CASE ReadClock
  <2>1. /\ key_attempts = 0 /\ verdict = "running" /\ timestamp_count = 0
        /\ clock >= 0 => clock \in Nat
    BY <1>3 DEF ReadClock, HInv, TypeOK, LoopInv
  <2>2. Promise!Begin \/ Promise!Fail
    BY <1>3, <2>1, CountFacts DEF ReadClock, Promise!Begin, Promise!Fail
  <2> QED BY <2>2
<1>4. CASE NextKey
  <2>1. /\ verdict = "running" /\ timestamp_count \in Nat /\ timestamp_count > 0
        /\ key_attempts' = key_attempts + 1 /\ pc = "next_key"
        /\ max_key_attempts \in Nat \cup {NoLimit}
        /\ max_key_attempts # NoLimit => key_attempts <= max_key_attempts
    BY <1>4, Numbers DEF NextKey, HInv, TypeOK, LoopInv
  <2>2. OverLimit(key_attempts') => key_attempts = max_key_attempts
    BY <1>1, <2>1 DEF OverLimit
  <2>3. UNCHANGED Promise!vars \/ Promise!ReachLimit \/ Promise!Fail
    BY <1>1, <1>4, <2>1, <2>2
       DEF NextKey, Promise!ReachLimit, Promise!Running, Promise!Fail
  <2> QED BY <2>3
<1>5. CASE BatchFails
  <2>1. Promise!Fail
    BY <1>5 DEF BatchFails, HInv, LoopInv, Promise!Fail
  <2> QED BY <2>1
<1>6. CASE Tick \/ UNCHANGED vars
  BY <1>6 DEF Tick, vars
<1>7. ASSUME pc = "scan"
      PROVE  /\ Promise!Running /\ Promise!MayTry /\ Promise!Candidate(key)
             /\ key \in Keys /\ key_attempts >= 1
  BY <1>1, <1>7, Numbers
     DEF HInv, TypeOK, LoopInv, ScanInv, Promise!Running, Promise!MayTry, Promise!Candidate
<1>8. CASE KeyDone
  <2>1. pc = "scan" /\ batch_start = timestamp_count /\ timestamp_count \in Nat
    BY <1>8, Numbers DEF KeyDone, HInv, ScanInv
  <2>2. \A t \in hits[key] : t >= batch_start \/ t = U32MAX
    BY <2>1 DEF CInv, NothingSkipped
  <2>3. hits[key] \subseteq Timestamps
    BY <1>7, <2>1, HostAssumption DEF HInv, TypeOK
  <2>4. Promise!Reportable(key) = {}
    BY <2>1, <2>2, <2>3, HostAssumption DEF Promise!Reportable, Timestamps
  <2>5. CASE fixed_seed = NoSeed
    <3>1. Promise!TurnDown
      BY <1>1, <1>7, <1>8, <2>1, <2>4, <2>5 DEF KeyDone, Promise!TurnDown
    <3> QED BY <3>1
  <2>6. CASE fixed_seed # NoSeed
    <3>1. fixed_seed = key
      BY <2>1, <2>6 DEF HInv, ScanInv
    <3>2. Promise!Exhaust
      BY <1>1, <1>7, <1>8, <2>1, <2>4, <2>6, <3>1 DEF KeyDone, Promise!Exhaust
    <3> QED BY <3>2
  <2> QED BY <2>5, <2>6
<1>9. CASE ScanBatch
  <2>1. /\ pc = "scan" /\ batch_start < timestamp_count
        /\ UNCHANGED <<config, clock, timestamp_count, key_attempts, key, device_key>>
    BY <1>9 DEF ScanBatch
  <2>2. PICK answer \in EngineAnswers(start_timestamp, batch_count) :
           \/ answer = None /\ UNCHANGED <<pc, verdict, found>>
           \/ /\ answer # None
              /\ pc' = "end" /\ verdict' = "found" /\ found' = <<key, answer>>
           \/ pc' = "end" /\ verdict' = "error" /\ found' = found
    BY <1>9 DEF ScanBatch
  <2>3. CASE answer = None /\ UNCHANGED <<pc, verdict, found>>
    BY <2>1, <2>3
  <2>4. CASE pc' = "end" /\ verdict' = "error" /\ found' = found
    <3>1. Promise!Fail
      BY <1>7, <2>1, <2>4 DEF Promise!Fail, Promise!Running
    <3> QED BY <3>1
  <2>5. CASE /\ answer # None
             /\ pc' = "end" /\ verdict' = "found" /\ found' = <<key, answer>>
    <3>1. /\ answer \in hits[key] /\ answer < batch_start + batch_count
          /\ answer # U32MAX /\ batch_start + batch_count <= timestamp_count
          /\ batch_count \in Nat /\ batch_start \in Nat /\ timestamp_count \in Nat
      BY <2>1, <2>5, AnswerFacts, BatchFacts, Numbers DEF HInv, LoopInv
    <3>2. \A t \in hits[key] : answer <= t
      <4>1. NothingSkipped
        BY DEF CInv
      <4>2. \A t \in hits[key] : t < batch_start \/ t >= batch_start + batch_count
                                 \/ t = U32MAX \/ answer <= t
        BY <2>1, <2>5, AnswerFacts
      <4>3. \A t \in hits[key] : t \in Int /\ t <= U32MAX
        BY <1>7, <2>1, HostAssumption DEF HInv, TypeOK, Timestamps
      <4> QED BY <2>1, <3>1, <4>1, <4>2, <4>3, HostAssumption DEF NothingSkipped
    <3>3. hits[key] \subseteq Timestamps
      BY <1>7, <2>1, HostAssumption DEF HInv, TypeOK
    <3>4. answer \in Promise!Reportable(key)
      BY <3>1, <3>3, HostAssumption DEF Promise!Reportable, Timestamps
    <3>5. Promise!Reportable(key) \subseteq hits[key]
      BY DEF Promise!Reportable
    <3>6. Promise!Accept
      BY <1>1, <1>7, <2>1, <2>5, <3>2, <3>4, <3>5 DEF Promise!Accept
    <3> QED BY <3>6
  <2> QED BY <2>2, <2>3, <2>4, <2>5
<1> QED BY <1>2, <1>3, <1>4, <1>5, <1>6, <1>8, <1>9 DEF Next, Step

\* With an engine that keeps its promise, the loop with its batches, counters
\* and clock implements VanitySearch.
THEOREM PromiseKept == ASSUME EngineTrusted PROVE Spec => KeepsPromise
<1>1. Init => Promise!Init
  BY HostAssumption DEF Init, Promise!Init, Promise!Nothing, Nothing,
                        Promise!Timestamps, Timestamps
<1>2. HInv /\ CInv /\ [Next]_vars => [Promise!Next]_(Promise!vars)
  BY StepKeepsPromise
<1> QED BY <1>1, <1>2, Invariance, Coverage, PTL DEF KeepsPromise, Promise!Spec, Spec
=============================================================================
