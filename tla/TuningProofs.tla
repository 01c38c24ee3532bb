----------------------------- MODULE TuningProofs ----------------------------
(***************************************************************************)
(* Proofs about Tuning, for every number of builds, work sizes and         *)
(* finalists and every set of speeds: the finalists are the fastest of     *)
(* what was measured, the chosen variant is the best of them, and a        *)
(* variant that was not measured is never handed out.                      *)
(***************************************************************************)
EXTENDS Tuning, TLAPS, WellFoundedInduction

-----------------------------------------------------------------------------
(* push_finalist.                                                          *)

\* A set of positions that is not empty has a first one.
LEMMA FirstPosition ==
    ASSUME NEW S \in SUBSET Nat, S # {}
    PROVE  \E k \in S : \A j \in S : k <= j
<1> DEFINE R == OpToRel(<, Nat)
<1>1. PICK k \in S : \A j \in S : <<j, k>> \notin R
  BY WFMin, NatLessThanWellFounded
<1>2. ASSUME NEW j \in S PROVE k <= j
  <2>1. ~(j < k) /\ j \in Nat /\ k \in Nat
    BY <1>1 DEF OpToRel
  <2> HIDE DEF R
  <2> QED BY <2>1
<1> QED BY <1>2

\* Measured speeds are natural numbers.
LEMMA MeasureFacts ==
    ASSUME NEW m \in Measures
    PROVE  /\ m.variant \in Variants /\ m.speed \in Nat
           /\ m.variant.build \in Nat /\ m.variant.size \in Nat
<1>1. m.variant \in Variants /\ m.speed \in Speeds \cup {0}
  BY DEF Measures
<1>2. m.variant.build \in Nat /\ m.variant.size \in Nat
  BY <1>1, CandidatesAssumption DEF Variants
<1>3. m.speed \in Nat
  <2>1. Speeds \cup {0} \subseteq Nat
    BY CandidatesAssumption
  <2> QED BY <1>1, <2>1
<1> QED BY <1>1, <1>2, <1>3

\* A list of the fastest, fastest first.
Sorted(list) == \A j, k \in 1..Len(list) : j < k => Beats(list[j], list[k])

\* What the insertion point parts: those before it are as fast, those from it
\* on are slower.
LEMMA InsertAtFacts ==
    ASSUME finalists \in Seq(Measures), Sorted(finalists), NEW speed \in Nat
    PROVE  /\ InsertAt(speed) \in 1..(Len(finalists) + 1)
           /\ \A k \in 1..Len(finalists) :
                  /\ k < InsertAt(speed) => speed <= finalists[k].speed
                  /\ k >= InsertAt(speed) => speed > finalists[k].speed
<1> DEFINE slower == {k \in 1..Len(finalists) : speed > finalists[k].speed}
           at == InsertAt(speed)
<1>1. Len(finalists) \in Nat /\ \A k \in 1..Len(finalists) : finalists[k].speed \in Nat
  BY MeasureFacts
<1>2. CASE slower = {}
  <2>1. at = Len(finalists) + 1
    BY <1>2 DEF InsertAt
  <2>2. \A k \in 1..Len(finalists) : speed <= finalists[k].speed
    BY <1>1, <1>2
  <2> QED BY <1>1, <2>1, <2>2
<1>3. CASE slower # {}
  <2>1. \E k \in slower : \A j \in slower : k <= j
    <3>1. slower \in SUBSET Nat BY <1>1
    <3> HIDE DEF slower
    <3> QED BY <1>3, <3>1, FirstPosition
  <2>2. at = CHOOSE k \in slower : \A j \in slower : k <= j
    BY <1>3 DEF InsertAt
  <2>3. at \in slower /\ \A j \in slower : at <= j
    <3> HIDE DEF slower, at
    <3> QED BY <2>1, <2>2
  <2>4. at \in 1..Len(finalists) /\ speed > finalists[at].speed
    BY <2>3
  <2> HIDE DEF at
  <2>5. ASSUME NEW k \in 1..Len(finalists), k < at
        PROVE  speed <= finalists[k].speed
    BY <1>1, <2>3, <2>4, <2>5
  <2>6. ASSUME NEW k \in 1..Len(finalists), k >= at
        PROVE  speed > finalists[k].speed
    <3>1. CASE k = at
      BY <2>4, <3>1
    <3>2. CASE k > at
      <4>1. Beats(finalists[at], finalists[k])
        BY <2>4, <3>2 DEF Sorted
      <4> QED BY <1>1, <2>4, <4>1 DEF Beats
    <3> QED BY <1>1, <2>4, <2>6, <3>1, <3>2
  <2>7. at \in 1..(Len(finalists) + 1)
    BY <1>1, <2>4
  <2> QED BY <2>5, <2>6, <2>7 DEF at
<1> QED BY <1>2, <1>3

\* The list after push_finalist, position by position.
LEMMA PushFacts ==
    ASSUME finalists \in Seq(Measures), Len(finalists) <= FINALIST_COUNT,
           Sorted(finalists), NEW m \in Measures
    PROVE  /\ push_finalist(m) \in Seq(Measures)
           /\ Len(push_finalist(m)) \in Nat
           /\ Len(push_finalist(m)) >= Len(finalists)
           /\ Len(push_finalist(m)) <= FINALIST_COUNT
           /\ Len(push_finalist(m)) = IF Len(finalists) < FINALIST_COUNT
                                      THEN Len(finalists) + 1 ELSE FINALIST_COUNT
           /\ \A k \in 1..Len(push_finalist(m)) :
                  push_finalist(m)[k] =
                      IF k < InsertAt(m.speed) THEN finalists[k]
                      ELSE IF k = InsertAt(m.speed) THEN m ELSE finalists[k - 1]
<1> DEFINE at == InsertAt(m.speed)
           length == IF Len(finalists) < FINALIST_COUNT THEN Len(finalists) + 1
                     ELSE FINALIST_COUNT
           new == [k \in 1..length |-> IF k < at THEN finalists[k]
                                       ELSE IF k = at THEN m ELSE finalists[k - 1]]
<1>1. push_finalist(m) = new
  BY DEF push_finalist
<1>2. Len(finalists) \in Nat /\ FINALIST_COUNT \in Nat /\ length \in Nat
  BY CandidatesAssumption
<1>3. at \in 1..(Len(finalists) + 1)
  BY MeasureFacts, InsertAtFacts
<1>4. length <= Len(finalists) + 1 /\ length >= Len(finalists) /\ length <= FINALIST_COUNT
  BY <1>2
<1>5. ASSUME NEW k \in 1..length
      PROVE  (IF k < at THEN finalists[k]
              ELSE IF k = at THEN m ELSE finalists[k - 1]) \in Measures
  <2> HIDE DEF at, length
  <2>1. CASE k < at
    <3>1. k \in 1..Len(finalists) BY <1>2, <1>3, <2>1
    <3> QED BY <2>1, <3>1
  <2>2. CASE k > at
    <3>1. k - 1 \in 1..Len(finalists) BY <1>2, <1>3, <1>4, <2>2
    <3> QED BY <1>2, <1>3, <2>2, <3>1
  <2> QED BY <1>2, <1>3, <2>1, <2>2
<1>6. new \in [1..length -> Measures]
  BY <1>5
<1> HIDE DEF at, length
<1>7. new \in Seq(Measures) /\ Len(new) = length
  BY <1>2, <1>6
<1>8. \A k \in 1..length : new[k] = IF k < at THEN finalists[k]
                                    ELSE IF k = at THEN m ELSE finalists[k - 1]
  OBVIOUS
<1> HIDE DEF new
<1> QED BY <1>1, <1>2, <1>4, <1>7, <1>8 DEF at, length

\* A list of the fastest of a set, the FINALIST_COUNT of them there is room for.
FastestOf(list, set) ==
    /\ \A k \in 1..Len(list) : list[k] \in set
    /\ Sorted(list)
    /\ \A m \in set :
           \/ \E k \in 1..Len(list) : list[k] = m
           \/ /\ Len(list) = FINALIST_COUNT
              /\ \A k \in 1..Len(list) : Beats(list[k], m)

\* Beating is transitive where the one in the middle is faster.
LEMMA FasterBeats ==
    ASSUME NEW a \in Measures, NEW b \in Measures, NEW c \in Measures,
           a.speed > b.speed, Beats(b, c)
    PROVE  Beats(a, c)
  BY MeasureFacts DEF Beats

\* A measure goes in where it belongs: push_finalist keeps the finalists the
\* fastest of what was measured, its insertion and its truncation included.
LEMMA PushKeepsFastest ==
    ASSUME finalists \in Seq(Measures), Len(finalists) <= FINALIST_COUNT,
           measured \subseteq Measures, FastestOf(finalists, measured),
           NEW m \in Measures,
           \A x \in measured : TriedBefore(x.variant, m.variant)
    PROVE  FastestOf(push_finalist(m), measured \cup {m})
<1> DEFINE at == InsertAt(m.speed)
           new == push_finalist(m)
           L == Len(finalists)
           N == Len(new)
<1>1. /\ L \in Nat /\ FINALIST_COUNT \in Nat \ {0} /\ N \in Nat
      /\ L <= FINALIST_COUNT
      /\ N = IF L < FINALIST_COUNT THEN L + 1 ELSE FINALIST_COUNT
  BY PushFacts, CandidatesAssumption DEF FastestOf
<1>2. \A k \in 1..N : new[k] = IF k < at THEN finalists[k]
                                ELSE IF k = at THEN m ELSE finalists[k - 1]
  BY PushFacts DEF FastestOf
<1>3. /\ at \in 1..(L + 1)
      /\ \A k \in 1..L : /\ k < at => m.speed <= finalists[k].speed
                         /\ k >= at => m.speed > finalists[k].speed
  BY InsertAtFacts, MeasureFacts DEF FastestOf
<1>4. \A k \in 1..L : finalists[k] \in measured /\ finalists[k] \in Measures
  BY DEF FastestOf
<1>5. \A j, k \in 1..L : j < k => Beats(finalists[j], finalists[k])
  BY DEF FastestOf, Sorted
<1>6. \A x \in measured :
          \/ \E k \in 1..L : finalists[k] = x
          \/ L = FINALIST_COUNT /\ \A k \in 1..L : Beats(finalists[k], x)
  BY DEF FastestOf
<1> HIDE DEF at, new, L, N
<1>7. ASSUME NEW k \in 1..L, k < at PROVE Beats(finalists[k], m)
  <2>1. finalists[k].speed \in Nat /\ m.speed \in Nat
    BY <1>4, MeasureFacts
  <2>2. m.speed <= finalists[k].speed
    BY <1>3, <1>7
  <2>3. TriedBefore(finalists[k].variant, m.variant)
    BY <1>4
  <2> QED BY <2>1, <2>2, <2>3 DEF Beats
<1>8. ASSUME NEW k \in 1..L, k >= at PROVE Beats(m, finalists[k])
  BY <1>3, <1>8 DEF Beats
<1>9. \A k \in 1..N : new[k] \in measured \cup {m}
  <2> TAKE k \in 1..N
  <2>1. CASE k < at
    <3>1. k \in 1..L BY <1>1, <1>3, <2>1
    <3> QED BY <1>2, <1>4, <2>1, <3>1
  <2>2. CASE k = at
    BY <1>2, <2>2
  <2>3. CASE k > at
    <3>1. k - 1 \in 1..L BY <1>1, <1>3, <2>3
    <3> QED BY <1>1, <1>2, <1>3, <1>4, <2>3, <3>1
  <2> QED BY <1>1, <1>3, <2>1, <2>2, <2>3
<1>10. ASSUME NEW j \in 1..N, NEW k \in 1..N, j < k PROVE Beats(new[j], new[k])
  <2>1. CASE k < at
    <3>1. at \in 1..(L + 1) /\ L \in Nat /\ N \in Nat /\ j < k BY <1>1, <1>3, <1>10
    <3>2. j \in 1..L /\ k \in 1..L /\ j < at
      <4>1. at - 1 <= L /\ j < at /\ k <= at - 1
        BY <2>1, <3>1
      <4> QED
        BY <3>1, <4>1
    <3>3. new[j] = finalists[j] /\ new[k] = finalists[k] BY <1>2, <2>1, <3>2
    <3> QED BY <1>5, <1>10, <3>2, <3>3
  <2>2. CASE k = at
    <3>1. j \in 1..L /\ j < at BY <1>1, <1>3, <1>10, <2>2
    <3> QED BY <1>2, <1>7, <2>2, <3>1
  <2>3. CASE k > at
    <3>1. k - 1 \in 1..L /\ k - 1 >= at BY <1>1, <1>3, <2>3
    <3>2. new[k] = finalists[k - 1]
      <4>1. k \in 1..N /\ ~ (k < at) /\ k # at
        BY <1>1, <1>3, <2>3
      <4> QED
        BY <1>2, <4>1
    <3>3. CASE j < at
      <4>1. j \in 1..L /\ j < k - 1 BY <1>1, <1>3, <3>1, <3>3
      <4> QED BY <1>2, <1>5, <3>1, <3>2, <3>3, <4>1
    <3>4. CASE j = at
      BY <1>2, <1>3, <1>8, <3>1, <3>2, <3>4
    <3>5. CASE j > at
      <4>1. j - 1 \in 1..L /\ j - 1 < k - 1 BY <1>1, <1>3, <1>10, <3>1, <3>5
      <4>2. new[j] = finalists[j - 1] BY <1>1, <1>2, <1>3, <3>5
      <4> QED BY <1>5, <3>1, <3>2, <4>1, <4>2
    <3> QED BY <1>1, <1>3, <3>3, <3>4, <3>5
  <2> QED BY <1>1, <1>3, <2>1, <2>2, <2>3
<1>11. ASSUME NEW x \in measured \cup {m}
       PROVE  \/ \E k \in 1..N : new[k] = x
              \/ N = FINALIST_COUNT /\ \A k \in 1..N : Beats(new[k], x)
  <2>1. CASE at > N        \* m falls off the end of a full list
    <3>1. N = L /\ L = FINALIST_COUNT
      BY <1>1, <1>3, <2>1
    <3>2. \A k \in 1..N : new[k] = finalists[k] /\ k < at
      BY <1>1, <1>2, <1>3, <2>1
    <3>3. CASE x = m
      BY <1>7, <3>1, <3>2, <3>3
    <3>4. CASE x \in measured
      BY <1>6, <3>1, <3>2, <3>4
    <3> QED BY <3>3, <3>4
  <2>2. CASE at <= N /\ x = m
    <3>1. at \in 1..N BY <1>1, <1>3, <2>2
    <3> QED BY <1>2, <2>2, <3>1
  <2>3. ASSUME at <= N, x \in measured,
               NEW i \in 1..L, finalists[i] = x
        PROVE  <1>11!2
    <3>1. CASE i < at
      <4>1. i \in 1..N BY <1>1, <1>3, <2>3, <3>1
      <4> QED BY <1>2, <2>3, <3>1, <4>1
    <3>2. CASE i >= at /\ i + 1 <= N
      <4>1. i + 1 \in 1..N /\ ~(i + 1 < at) /\ i + 1 # at /\ (i + 1) - 1 = i
        BY <1>1, <1>3, <3>2
      <4>2. new[i + 1] = finalists[i]
        BY <1>2, <4>1
      <4> QED BY <2>3, <4>1, <4>2
    <3>3. CASE i >= at /\ i + 1 > N     \* x falls off the end
      <4>1. N = FINALIST_COUNT /\ L = FINALIST_COUNT /\ i = L /\ N = L
        BY <1>1, <3>3
      <4>2. ASSUME NEW k \in 1..N PROVE Beats(new[k], x)
        <5>1. CASE k < at
          <6>1. k \in 1..L /\ k < i BY <1>1, <1>3, <3>3, <4>1, <5>1
          <6> QED BY <1>2, <1>5, <2>3, <5>1, <6>1
        <5>2. CASE k = at
          BY <1>2, <1>8, <2>3, <3>3, <5>2
        <5>3. CASE k > at
          <6>1. k - 1 \in 1..L /\ k - 1 < i BY <1>1, <1>3, <4>1, <5>3
          <6>2. new[k] = finalists[k - 1] BY <1>1, <1>2, <1>3, <5>3
          <6> QED BY <1>5, <2>3, <6>1, <6>2
        <5> QED BY <1>1, <1>3, <5>1, <5>2, <5>3
      <4> QED BY <4>1, <4>2
    <3> QED BY <1>1, <1>3, <3>1, <3>2, <3>3
  <2>4. ASSUME at <= N, x \in measured, L = FINALIST_COUNT,
               \A k \in 1..L : Beats(finalists[k], x)
        PROVE  <1>11!2
    <3>1. N = L /\ at \in 1..L
      BY <1>1, <1>3, <2>4
    <3>2. ASSUME NEW k \in 1..N PROVE Beats(new[k], x)
      <4>1. CASE k < at
        <5>1. k \in 1..L BY <3>1
        <5> QED BY <1>2, <2>4, <4>1, <5>1
      <4>2. CASE k = at
        <5>1. finalists[at] \in Measures /\ x \in Measures
          BY <1>4, <2>4, <3>1
        <5>2. m.speed > finalists[at].speed /\ Beats(finalists[at], x)
          BY <1>1, <1>3, <2>4, <3>1
        <5>3. Beats(m, x)
          BY <5>1, <5>2, FasterBeats
        <5> QED BY <1>2, <4>2, <5>3
      <4>3. CASE k > at
        <5>1. k - 1 \in 1..L BY <1>1, <1>3, <3>1, <4>3
        <5>2. new[k] = finalists[k - 1] BY <1>1, <1>2, <1>3, <4>3
        <5> QED BY <2>4, <5>1, <5>2
      <4> QED BY <1>1, <1>3, <4>1, <4>2, <4>3
    <3> QED BY <2>4, <3>1, <3>2
  <2> QED BY <1>1, <1>3, <1>6, <2>1, <2>2, <2>3, <2>4
<1> QED BY <1>9, <1>10, <1>11 DEF FastestOf, Sorted, new, N

-----------------------------------------------------------------------------
(* Types and the fastest finalists.                                        *)

\* Where the loop is, no variant measured is one still to come, and a loop
\* that went on past a variant measured it or kept its error.
ScanInv ==
    /\ pc = "upload" => measured = {}
    /\ pc = "build" => \A m \in measured : m.variant.build < build
    /\ pc = "measure" =>
          \A m \in measured :
              TriedBefore(m.variant, [build |-> build, size |-> size])
    /\ build > 1 \/ (pc = "measure" /\ size > 1) => last_error \/ measured # {}
    /\ pc \in {"sustain", "repeat"} => build > Builds

\* In the second half, which of the finalists was run as the how many-th, and
\* that the best so far is the best of those run so far.
BestSoFar(k) ==
    \A j \in 1..(index - 1) :
        /\ sustained[j].speed <= sustained[k].speed
        /\ j < k => sustained[j].speed < sustained[k].speed
ChoiceInv ==
    /\ pc \in {"upload", "build", "measure"} => index = 1
    /\ best = {} <=> index = 1
    /\ Len(sustained) = index - 1
    /\ \A k \in 1..(index - 1) : sustained[k].variant = finalists[k].variant
    /\ \A b \in best : \E k \in 1..(index - 1) : sustained[k] = b /\ BestSoFar(k)
    /\ outcome.kind # "running" => pc = "done"

\* The inductive invariant.
TuningInv ==
    /\ TypeOK
    /\ ScanInv
    /\ FinalistsFastest
    /\ ChoiceInv
    /\ NeverUntested
    /\ ChosenIsBest

\* FinalistsFastest in the words of the lemma about push_finalist.
LEMMA FinalistsAreFastest == FinalistsFastest <=> FastestOf(finalists, measured)
  BY DEF FinalistsFastest, FastestOf, Sorted

\* What tune_variant may return.
LEMMA OutcomeKinds ==
    /\ [kind |-> "running"] \in Outcomes /\ [kind |-> "failed"] \in Outcomes
    /\ \A v \in Variants : [kind |-> "chosen", variant |-> v] \in Outcomes
  BY DEF Outcomes

LEMMA InvInit == Init => TuningInv
<1> SUFFICES ASSUME Init PROVE TuningInv
  OBVIOUS
<1> USE CandidatesAssumption DEF Init
<1>1. TypeOK
  <2>1. /\ finalists \in Seq(Measures) /\ Len(finalists) = 0
        /\ sustained \in Seq(Measures)
    OBVIOUS
  <2>2. 1 \in 1..(Builds + 1) /\ 1 \in 1..WorkSizes /\ 0 \in 0..DURATION
    OBVIOUS
  <2>3. Len(finalists) <= FINALIST_COUNT /\ index \in 1..(Len(finalists) + 1)
    BY <2>1
  <2>4. best = {} /\ measured = {} /\ last_error = FALSE /\ pc = "upload"
    OBVIOUS
  <2>5. /\ build \in 1..(Builds + 1) /\ size \in 1..WorkSizes
        /\ clock \in 0..DURATION /\ total \in 0..2
    BY <2>2
  <2>6. outcome \in Outcomes
    BY OutcomeKinds
  <2> QED BY ONLY <2>1, <2>3, <2>4, <2>5, <2>6 DEF TypeOK
<1>2. ScanInv
  BY DEF ScanInv
<1>3. FinalistsFastest
  BY DEF FinalistsFastest
<1>4. ChoiceInv
  BY DEF ChoiceInv
<1>5. NeverUntested /\ ChosenIsBest
  BY DEF NeverUntested, ChosenIsBest
<1> QED BY <1>1, <1>2, <1>3, <1>4, <1>5 DEF TuningInv

\* Types, for the steps that do not touch the finalists.
LEMMA Numbers ==
    ASSUME TypeOK
    PROVE  /\ Builds \in Nat \ {0} /\ WorkSizes \in Nat \ {0} /\ DURATION \in Nat \ {0}
           /\ build \in 1..(Builds + 1) /\ size \in 1..WorkSizes
           /\ Len(finalists) \in Nat /\ index \in 1..(Len(finalists) + 1)
           /\ clock \in 0..DURATION /\ total \in 0..2
  BY CandidatesAssumption DEF TypeOK

\* The first half: no finalist has been run a second time.
LEMMA InvScan ==
    ASSUME TuningInv, Upload \/ Build \/ AllTried
    PROVE  TuningInv'
<1> USE DEF TuningInv
<1>1. /\ finalists' = finalists /\ measured' = measured /\ UNCHANGED <<timing, choosing>>
      /\ outcome' \in {outcome, [kind |-> "failed"]}
  BY DEF Upload, Build, AllTried, scanning, timing, choosing, Fail, Return
<1>2. FinalistsFastest'
  BY <1>1 DEF FinalistsFastest
<1>3. TypeOK'
  <2>1. outcome' \in Outcomes
    BY <1>1, OutcomeKinds DEF TypeOK
  <2>2. /\ build' \in 1..(Builds + 1) /\ size' \in 1..WorkSizes
        /\ last_error' \in BOOLEAN
        /\ pc' \in {"build", "measure", "sustain", "done"}
        /\ pc' = "measure" => build' <= Builds
    <3>1. CASE Upload
      <4>1. /\ build' = build /\ size' = size /\ last_error' = last_error
            /\ pc' \in {"build", "done"}
        BY <3>1 DEF Upload, scanning, Fail, Return
      <4> QED BY <4>1, Numbers DEF TypeOK
    <3>2. CASE Build
      <4>1. build \in 1..Builds /\ build + 1 \in 1..(Builds + 1) /\ 1 \in 1..WorkSizes
        BY <3>2, Numbers DEF Build
      <4> QED BY <3>2, <4>1, Numbers DEF Build, TypeOK
    <3>3. CASE AllTried
      BY <3>3, Numbers DEF AllTried, scanning, TypeOK
    <3> QED BY <3>1, <3>2, <3>3
  <2> QED BY <1>1, <2>1, <2>2 DEF timing, choosing, TypeOK
<1>4. ScanInv'
  <2>1. CASE Upload
    BY <1>1, <2>1, Numbers DEF Upload, scanning, ScanInv, Fail, Return, TypeOK
  <2>2. CASE Build
    <3>1. \A m \in measured : m \in Measures
      BY DEF TypeOK
    <3>2. \A m \in measured : m.variant.build < build
      BY <2>2 DEF Build, ScanInv
    <3>3. \A m \in measured : m.variant.build < build + 1
      BY <3>1, <3>2, MeasureFacts, Numbers
    <3>4. build + 1 > 1 /\ ~(1 > 1)
      BY Numbers
    <3> QED BY <1>1, <2>2, <3>2, <3>3, <3>4 DEF Build, ScanInv, TriedBefore
  <2>3. CASE AllTried
    BY <1>1, <2>3 DEF AllTried, scanning, ScanInv
  <2> QED BY <2>1, <2>2, <2>3
<1>5. ChoiceInv'
  BY <1>1 DEF ChoiceInv, BestSoFar, Upload, Build, AllTried, choosing, Fail, Return
<1>6. NeverUntested' /\ ChosenIsBest'
  BY <1>1 DEF NeverUntested, ChosenIsBest, ChoiceInv, choosing
<1> QED BY <1>2, <1>3, <1>4, <1>5, <1>6

\* A benchmark: a measure enters the finalists, or its error is kept.
LEMMA InvMeasure ==
    ASSUME TuningInv, Measure
    PROVE  TuningInv'
<1> USE DEF TuningInv
<1>1. /\ pc = "measure" /\ index = 1 /\ best = {} /\ sustained = <<>>
      /\ UNCHANGED <<timing, choosing, outcome>> /\ outcome.kind = "running"
  <2>1. pc = "measure" /\ UNCHANGED <<timing, choosing, outcome>>
    BY DEF Measure
  <2>2. index = 1 /\ best = {} /\ Len(sustained) = 0 /\ outcome.kind = "running"
    BY <2>1 DEF ChoiceInv
  <2> QED BY <2>1, <2>2 DEF TypeOK
<1>2. /\ \/ size < WorkSizes /\ size' = size + 1 /\ pc' = "measure" /\ build' = build
         \/ size = WorkSizes /\ size' = size /\ pc' = "build" /\ build' = build + 1
  BY <1>1, Numbers DEF Measure
<1>3. build \in 1..Builds /\ build + 1 \in 1..(Builds + 1)
  BY <1>1, Numbers DEF TypeOK
<1> DEFINE v == [build |-> build, size |-> size]
<1>4. v \in Variants /\ v.build = build /\ v.size = size
  BY <1>3, Numbers DEF Variants
<1>5. \A x \in measured : TriedBefore(x.variant, v)
  BY <1>1 DEF ScanInv
<1> HIDE DEF v
<1>6. \/ \E speed \in Speeds :
             /\ finalists' = push_finalist([variant |-> v, speed |-> speed])
             /\ measured' = measured \cup {[variant |-> v, speed |-> speed]}
             /\ last_error' = last_error
      \/ last_error' = TRUE /\ finalists' = finalists /\ measured' = measured
  BY DEF Measure, KeepError, v
<1>7. /\ finalists' \in Seq(Measures) /\ Len(finalists') <= FINALIST_COUNT
      /\ Len(finalists') \in Nat /\ last_error' \in BOOLEAN
      /\ measured' \subseteq Measures /\ FastestOf(finalists', measured')
      /\ \A x \in measured' : x.variant = v \/ TriedBefore(x.variant, v)
      /\ last_error' \/ measured' # {}
  <2>1. ASSUME NEW speed \in Speeds,
               finalists' = push_finalist([variant |-> v, speed |-> speed]),
               measured' = measured \cup {[variant |-> v, speed |-> speed]},
               last_error' = last_error
        PROVE  <1>7!1 /\ <1>7!2 /\ <1>7!3 /\ <1>7!4 /\ <1>7!5
    <3> DEFINE m == [variant |-> v, speed |-> speed]
    <3>1. m \in Measures /\ m.variant = v
      BY <1>4 DEF Measures
    <3> HIDE DEF m
    <3>2. /\ finalists \in Seq(Measures) /\ Len(finalists) <= FINALIST_COUNT
          /\ measured \subseteq Measures /\ last_error \in BOOLEAN
          /\ FastestOf(finalists, measured) /\ Sorted(finalists)
      BY FinalistsAreFastest DEF TypeOK, FastestOf
    <3>3. FastestOf(push_finalist(m), measured \cup {m})
      BY <1>5, <3>1, <3>2, PushKeepsFastest
    <3>4. /\ push_finalist(m) \in Seq(Measures)
          /\ Len(push_finalist(m)) <= FINALIST_COUNT
          /\ Len(push_finalist(m)) \in Nat
      BY <3>1, <3>2, PushFacts
    <3>5. finalists' = push_finalist(m) /\ measured' = measured \cup {m}
      BY <2>1 DEF m
    <3> QED BY <1>5, <2>1, <3>1, <3>2, <3>3, <3>4, <3>5
  <2>2. CASE last_error' = TRUE /\ finalists' = finalists /\ measured' = measured
    BY <1>5, <2>2, FinalistsAreFastest DEF TypeOK
  <2> QED BY <1>6, <2>1, <2>2
<1>8. TypeOK'
  <2>1. build' \in 1..(Builds + 1) /\ size' \in 1..WorkSizes
    BY <1>2, <1>3, Numbers
  <2>2. pc' = "measure" => build' <= Builds
    BY <1>2, <1>3
  <2>3. index' \in 1..(Len(finalists') + 1)
    BY <1>1, <1>7 DEF choosing
  <2> QED BY <1>1, <1>2, <1>7, <2>1, <2>2, <2>3 DEF timing, choosing, TypeOK
<1>9. FinalistsFastest'
  BY <1>7 DEF FinalistsFastest, FastestOf, Sorted
<1>10. ScanInv'
  <2>1. ASSUME NEW x \in measured'
        PROVE  /\ x.variant.build \in Nat /\ x.variant.size \in Nat
               /\ \/ x.variant.build = build /\ x.variant.size = size
                  \/ x.variant.build < build
                  \/ x.variant.build = build /\ x.variant.size < size
    <3>1. x \in Measures
      BY <1>7
    <3>2. x.variant = v \/ TriedBefore(x.variant, v)
      BY <1>7
    <3> QED BY <1>4, <3>1, <3>2, MeasureFacts DEF TriedBefore
  <2>2. CASE size < WorkSizes /\ size' = size + 1 /\ pc' = "measure" /\ build' = build
    <3>1. \A x \in measured' :
             TriedBefore(x.variant, [build |-> build, size |-> size + 1])
      BY <1>3, <2>1, Numbers DEF TriedBefore
    <3> QED BY <1>7, <2>2, <3>1 DEF ScanInv
  <2>3. CASE size' = size /\ pc' = "build" /\ build' = build + 1
    <3>1. \A x \in measured' : x.variant.build < build + 1
      BY <1>3, <2>1
    <3> QED BY <1>7, <2>3, <3>1 DEF ScanInv
  <2> QED BY <1>2, <2>2, <2>3
<1>11. ChoiceInv'
  BY <1>1 DEF ChoiceInv, choosing
<1>12. NeverUntested' /\ ChosenIsBest'
  BY <1>1 DEF NeverUntested, ChosenIsBest
<1> QED BY <1>8, <1>9, <1>10, <1>11, <1>12

\* The sustained benchmark of a finalist, up to its comparison.
LEMMA InvSustain ==
    ASSUME TuningInv, WarmUp \/ Repeat \/ Delay
    PROVE  TuningInv'
<1> USE DEF TuningInv
<1>1. /\ pc \in {"sustain", "repeat"} /\ index <= Len(finalists)
      /\ pc' \in {"repeat", "done"}
      /\ UNCHANGED <<scanning, choosing>>
      /\ outcome' \in {outcome, [kind |-> "failed"]}
      /\ pc' = "repeat" => outcome' = outcome
  <2>1. CASE WarmUp
    BY <2>1 DEF WarmUp, Fail, Return
  <2>2. CASE Repeat
    BY <2>2 DEF Repeat, Fail, Return, TypeOK
  <2>3. CASE Delay
    BY <2>3 DEF Delay, TypeOK
  <2> QED BY <2>1, <2>2, <2>3
<1>2. clock' \in 0..DURATION /\ total' \in 0..2
  <2>1. CASE WarmUp
    BY <2>1, Numbers DEF WarmUp, timing
  <2>2. CASE Repeat
    <3>1. 1 + (total % 2) \in 0..2
      BY Numbers
    <3>2. \/ \E elapsed \in 0..(DURATION - clock) :
                 clock' = clock + elapsed /\ total' = 1 + (total % 2)
          \/ UNCHANGED timing
      BY <2>2 DEF Repeat
    <3>3. clock \in 0..DURATION /\ total \in 0..2 /\ DURATION \in Nat
      BY Numbers
    <3>4. CASE \E elapsed \in 0..(DURATION - clock) :
                   clock' = clock + elapsed /\ total' = 1 + (total % 2)
      BY <3>1, <3>3, <3>4
    <3>5. CASE UNCHANGED timing
      BY <3>3, <3>5 DEF timing
    <3> QED BY <3>2, <3>4, <3>5
  <2>3. CASE Delay
    BY <2>3, Numbers DEF Delay
  <2> QED BY <2>1, <2>2, <2>3
<1>3. outcome' \in Outcomes
  BY <1>1, OutcomeKinds DEF TypeOK
<1>4. TypeOK'
  BY <1>1, <1>2, <1>3 DEF scanning, choosing, TypeOK
<1>5. ScanInv'
  BY <1>1 DEF ScanInv, scanning
<1>6. FinalistsFastest'
  BY <1>1 DEF FinalistsFastest, scanning
<1>7. ChoiceInv'
  <2>1. outcome.kind = "running"
    BY <1>1 DEF ChoiceInv
  <2> QED BY <1>1, <2>1 DEF ChoiceInv, BestSoFar, scanning, choosing
<1>8. NeverUntested' /\ ChosenIsBest'
  <2>1. outcome.kind = "running"
    BY <1>1 DEF ChoiceInv
  <2> QED BY <1>1, <2>1 DEF NeverUntested, ChosenIsBest
<1> QED BY <1>4, <1>5, <1>6, <1>7, <1>8

\* The next finalist's speed: it is the best one, or the best one stays.
LEMMA InvCompare ==
    ASSUME TuningInv, Compare
    PROVE  TuningInv'
<1> USE DEF TuningInv
<1>1. PICK speed \in Speeds \cup {0} :
         LET m == [variant |-> finalists[index].variant, speed |-> speed]
         IN  /\ best' = IF Improves(speed) THEN {m} ELSE best
             /\ sustained' = Append(sustained, m)
  BY DEF Compare
<1> DEFINE m == [variant |-> finalists[index].variant, speed |-> speed]
<1>2. /\ pc = "repeat" /\ pc' = "sustain" /\ index' = index + 1
      /\ UNCHANGED <<scanning, timing, outcome>>
  BY DEF Compare
<1>3. index \in 1..Len(finalists) /\ Len(finalists) \in Nat
  BY <1>2, Numbers DEF TypeOK
<1>4. m \in Measures /\ m.variant = finalists[index].variant /\ m.speed = speed
  <2>1. finalists[index] \in Measures
    BY <1>3 DEF TypeOK
  <2> QED BY <2>1 DEF Measures
<1> HIDE DEF m
<1>5. sustained \in Seq(Measures) /\ Len(sustained) = index - 1
  BY DEF TypeOK, ChoiceInv
<1>6. /\ sustained' \in Seq(Measures) /\ Len(sustained') = index
      /\ sustained'[index] = m
      /\ \A k \in 1..(index - 1) : sustained'[k] = sustained[k]
  <2>1. sustained' = Append(sustained, m)
    BY <1>1 DEF m
  <2> QED BY <1>3, <1>4, <1>5, <2>1
<1>7. best' = (IF Improves(speed) THEN {m} ELSE best)
  BY <1>1 DEF m
<1>8. outcome.kind = "running"
  BY <1>2 DEF ChoiceInv
<1>9. TypeOK'
  <2>1. index' \in 1..(Len(finalists') + 1) /\ finalists' = finalists
    BY <1>2, <1>3 DEF scanning
  <2>2. best' \subseteq Measures /\ \A b, c \in best' : b = c
    BY <1>4, <1>7 DEF TypeOK
  <2> QED BY <1>2, <1>6, <2>1, <2>2 DEF scanning, timing, TypeOK
<1>10. ScanInv' /\ FinalistsFastest'
  BY <1>2 DEF ScanInv, FinalistsFastest, scanning
<1>11. \A b \in best' : \E k \in 1..index :
           /\ sustained'[k] = b
           /\ \A j \in 1..index :
                 /\ sustained'[j].speed <= sustained'[k].speed
                 /\ j < k => sustained'[j].speed < sustained'[k].speed
  <2>1. \A j \in 1..(index - 1) : sustained[j] \in Measures /\ sustained[j].speed \in Nat
    BY <1>3, <1>5, MeasureFacts
  <2>2. m.speed \in Nat
    BY <1>4, MeasureFacts
  <2>3. \A b \in best : \E k \in 1..(index - 1) : sustained[k] = b /\ BestSoFar(k)
    BY DEF ChoiceInv
  <2>4. CASE Improves(speed)
    <3>1. ASSUME NEW j \in 1..(index - 1) PROVE sustained[j].speed < m.speed
      <4>1. PICK b \in best : TRUE
        BY <1>3, <3>1 DEF ChoiceInv
      <4>2. PICK k \in 1..(index - 1) : sustained[k] = b /\ BestSoFar(k)
        BY <2>3
      <4>3. sustained[j].speed <= sustained[k].speed
        BY <3>1, <4>2 DEF BestSoFar
      <4>4. ~(sustained[k].speed >= m.speed)
        BY <1>4, <2>4, <4>2 DEF Improves
      <4> QED BY <2>1, <2>2, <4>3, <4>4
    <3>2. \A j \in 1..index : /\ sustained'[j].speed <= sustained'[index].speed
                              /\ j < index => sustained'[j].speed < sustained'[index].speed
      <4> TAKE j \in 1..index
      <4>1. CASE j = index
        BY <1>3, <1>6, <2>2, <4>1
      <4>2. CASE j \in 1..(index - 1)
        BY <1>3, <1>6, <2>1, <2>2, <3>1, <4>2
      <4> QED BY <1>3, <4>1, <4>2
    <3> QED BY <1>3, <1>6, <1>7, <2>4, <3>2
  <2>5. ASSUME ~Improves(speed), NEW b \in best
        PROVE  \E k \in 1..index :
                  /\ sustained'[k] = b
                  /\ \A j \in 1..index :
                        /\ sustained'[j].speed <= sustained'[k].speed
                        /\ j < k => sustained'[j].speed < sustained'[k].speed
    <3>1. PICK k \in 1..(index - 1) : sustained[k] = b /\ BestSoFar(k)
      BY <2>3
    <3>2. \A c \in best : c = b
      BY DEF TypeOK
    <3>3. sustained[k].speed >= m.speed
      BY <1>4, <2>5, <3>1, <3>2 DEF Improves
    <3>4. ASSUME NEW j \in 1..index
          PROVE  /\ sustained'[j].speed <= sustained'[k].speed
                 /\ j < k => sustained'[j].speed < sustained'[k].speed
      <4>1. CASE j = index
        BY <1>3, <1>6, <2>1, <2>2, <3>1, <3>3, <4>1
      <4>2. CASE j \in 1..(index - 1)
        BY <1>6, <3>1, <4>2 DEF BestSoFar
      <4> QED BY <1>3, <4>1, <4>2
    <3>5. k \in 1..index /\ sustained'[k] = b
      BY <1>3, <1>6, <3>1
    <3> QED BY <3>4, <3>5
  <2> QED BY <1>7, <2>4, <2>5
<1>12. ChoiceInv'
  <2>1. index' - 1 = index /\ index' # 1 /\ finalists' = finalists
    BY <1>2, <1>3 DEF scanning
  <2>2. best' # {}
    <3>1. CASE best = {}
      BY <1>7, <3>1 DEF Improves
    <3> QED BY <1>7, <3>1
  <2>3. \A k \in 1..index : sustained'[k].variant = finalists[k].variant
    <3> TAKE k \in 1..index
    <3>1. CASE k = index
      BY <1>4, <1>6, <3>1
    <3>2. CASE k \in 1..(index - 1)
      BY <1>6, <3>2 DEF ChoiceInv
    <3> QED BY <1>3, <3>1, <3>2
  <2> QED BY <1>2, <1>6, <1>8, <1>11, <2>1, <2>2, <2>3 DEF ChoiceInv, BestSoFar
<1>13. NeverUntested' /\ ChosenIsBest'
  BY <1>2, <1>8 DEF NeverUntested, ChosenIsBest
<1> QED BY <1>9, <1>10, <1>12, <1>13

\* Every finalist has been run: the best of them is returned, and without one
\* there is an error to return.
LEMMA InvConclude ==
    ASSUME TuningInv, Conclude
    PROVE  TuningInv'
<1> USE DEF TuningInv
<1>1. /\ pc = "sustain" /\ pc' = "done" /\ UNCHANGED <<scanning, timing, choosing>>
      /\ index = Len(finalists) + 1 /\ Len(finalists) \in Nat
  BY Numbers DEF Conclude, Fail, Return
<1>2. \/ \E b \in best : outcome' = [kind |-> "chosen", variant |-> b.variant]
      \/ outcome' = [kind |-> "failed"]
  <2>1. CASE best = {}
    <3>1. Len(finalists) = 0
      BY <1>1, <2>1 DEF ChoiceInv
    <3>2. measured = {}
      BY <3>1, CandidatesAssumption DEF FinalistsFastest
    <3>3. build > 1
      BY <1>1, Numbers DEF ScanInv
    <3>4. last_error
      BY <3>2, <3>3 DEF ScanInv
    <3> QED BY <2>1, <3>4 DEF Conclude, Fail, Return
  <2> QED BY <2>1 DEF Conclude, Return
<1>3. outcome' \in Outcomes
  <2>1. \A b \in best : b.variant \in Variants
    BY MeasureFacts DEF TypeOK
  <2> QED BY <1>2, <2>1, OutcomeKinds
<1>4. TypeOK'
  BY <1>1, <1>3 DEF scanning, timing, choosing, TypeOK
<1>5. ScanInv' /\ FinalistsFastest'
  BY <1>1 DEF ScanInv, FinalistsFastest, scanning
<1>6. ChoiceInv'
  BY <1>1 DEF ChoiceInv, BestSoFar, scanning, choosing
<1>7. NeverUntested'
  BY <1>2 DEF NeverUntested
<1>8. ChosenIsBest'
  <2>1. ASSUME NEW b \in best, outcome' = [kind |-> "chosen", variant |-> b.variant]
        PROVE  ChosenIsBest'
    <3>1. PICK k \in 1..Len(finalists) : sustained[k] = b /\ BestSoFar(k)
      BY <1>1 DEF ChoiceInv
    <3>2. finalists[k].variant = b.variant /\ Len(sustained) = Len(finalists)
      BY <1>1, <3>1 DEF ChoiceInv
    <3>3. \A j \in 1..Len(finalists) :
             /\ sustained[j].speed <= sustained[k].speed
             /\ j < k => sustained[j].speed < sustained[k].speed
      BY <1>1, <3>1 DEF BestSoFar
    <3> QED BY <1>1, <2>1, <3>2, <3>3 DEF ChosenIsBest, scanning, choosing
  <2> QED BY <1>2, <2>1 DEF ChosenIsBest
<1> QED BY <1>4, <1>5, <1>6, <1>7, <1>8

LEMMA InvStep == TuningInv /\ [Next]_vars => TuningInv'
<1> SUFFICES ASSUME TuningInv, [Next]_vars PROVE TuningInv'
  OBVIOUS
<1>1. CASE UNCHANGED vars
  BY <1>1 DEF TuningInv, TypeOK, ScanInv, FinalistsFastest, ChoiceInv, BestSoFar,
              NeverUntested, ChosenIsBest, vars, scanning, timing, choosing
<1>2. CASE Next
  BY <1>2, InvScan, InvMeasure, InvSustain, InvCompare, InvConclude DEF Next, Tune
<1> QED BY <1>1, <1>2

LEMMA Invariance == Spec => []TuningInv
<1> QED BY InvInit, InvStep, PTL DEF Spec

-----------------------------------------------------------------------------
(* Results.                                                                *)

\* The loops, the list and the clock keep their ranges.
THEOREM TypeCorrect == Spec => []TypeOK
<1>1. TuningInv => TypeOK
  BY DEF TuningInv
<1> QED BY <1>1, Invariance, PTL

\* push_finalist never loses one of the fastest, in whatever order the speeds
\* come and however they tie.
THEOREM FinalistsFastestCorrect == Spec => []FinalistsFastest
<1>1. TuningInv => FinalistsFastest
  BY DEF TuningInv
<1> QED BY <1>1, Invariance, PTL

\* tune_variant chooses the first of the best in the sustained benchmark.
THEOREM ChosenIsBestCorrect == Spec => []ChosenIsBest
<1>1. TuningInv => ChosenIsBest
  BY DEF TuningInv
<1> QED BY <1>1, Invariance, PTL

\* The last line of tune_variant, a build that nobody measured, is not reached.
THEOREM NeverUntestedCorrect == Spec => []NeverUntested
<1>1. TuningInv => NeverUntested
  BY DEF TuningInv
<1> QED BY <1>1, Invariance, PTL
=============================================================================
