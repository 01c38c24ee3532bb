-------------------------- MODULE TuningCacheProofs -------------------------
(***************************************************************************)
(* Proofs about TuningCache, for every number of processes and devices and *)
(* every set of candidates none of which is the beginning of another: what *)
(* a process takes from the cache was tuned on its device, and an entry    *)
(* written in full is found again.                                         *)
(***************************************************************************)
EXTENDS TuningCache, TLAPS

\* e pairs a variant with the device it was tuned on.
Tuned(id, v) == [identity |-> id, variant |-> v] \in tuned

\* Whatever a load of the file as it is now would give a device was tuned on
\* it (load_cached_variant).
FileInv == \A id \in Identities : \A v \in Parse(file.lines, id) : Tuned(id, v)

\* The variant a process builds, stores or uses was tuned on its device.
VariantInv ==
    \A p \in Processes :
        pc[p] \in {"build", "open", "write", "lost", "use"} =>
            \A v \in variant[p] : Tuned(identity[p], v)

\* The inductive invariant behind TunedHere and LastStoreBelieved.
CacheInv == TypeOK /\ FileInv /\ VariantInv /\ LastStoreBelieved

-----------------------------------------------------------------------------
(* What is in the file after a write.                                      *)

\* A number cut short is no candidate, unless nothing is missing (the global
\* work sizes of src/gpu/mod.rs, none the beginning of another).
LEMMA CutIsNoCandidate ==
    ASSUME NEW x \in WorkSizes, NEW n \in 0..Len(x), SubSeq(x, 1, n) \in WorkSizes
    PROVE  SubSeq(x, 1, n) = x
  BY CandidatesAssumption

\* The width of an entry is the sum of its parts.
LEMMA Widths ==
    ASSUME NEW v \in Variants
    PROVE  /\ v.options \in Options /\ v.work \in WorkSizes
           /\ Len(v.options) \in Nat /\ Len(v.work) \in Nat
           /\ Width(v) \in Nat /\ Width(v) = Len(v.options) + Len(v.work)
           /\ [options |-> v.options, work |-> v.work] = v
<1>1. v.options \in Options /\ v.work \in WorkSizes
  BY DEF Variants
<1>2. v.options \in Seq(0..9) /\ v.work \in Seq(0..9)
  BY <1>1, CandidatesAssumption
<1> QED BY <1>1, <1>2 DEF Width, Variants

\* An entry cut short by a full disk gives its own device nothing but itself,
\* and other devices nothing.
LEMMA ParseCut ==
    ASSUME NEW v \in Variants, NEW id, NEW other, NEW n \in 0..(Width(v) - 1)
    PROVE  /\ Len(Cut(id, v, n)) \in 0..4
           /\ \A w \in Parse(Cut(id, v, n), other) : w = v /\ other = id
<1> DEFINE lines == Cut(id, v, n)
<1>1. /\ v.options \in Options /\ v.work \in WorkSizes
      /\ Len(v.options) \in Nat /\ Len(v.work) \in Nat
      /\ Width(v) = Len(v.options) + Len(v.work)
      /\ [options |-> v.options, work |-> v.work] = v
  BY Widths
<1>2. CASE n = 0
  <2>1. lines = <<>> BY <1>2 DEF Cut
  <2>2. Len(lines) = 0 BY <2>1
  <2> HIDE DEF lines
  <2> QED BY <2>2 DEF Parse, HasAllLines, lines
<1>3. CASE n # 0 /\ n <= Len(v.options)
  <2>1. lines = <<id, SubSeq(v.options, 1, n)>> BY <1>3 DEF Cut
  <2>2. Len(lines) = 2 BY <2>1
  <2> HIDE DEF lines
  <2> QED BY <2>2 DEF Parse, HasAllLines, lines
<1>4. CASE n # 0 /\ n > Len(v.options)
  <2> DEFINE m == n - Len(v.options)
             cut == SubSeq(v.work, 1, m)
  <2>1. lines = <<id, v.options, cut>>
    BY <1>1, <1>4 DEF Cut
  <2>2. m \in 0..Len(v.work)
    BY <1>1, <1>4
  <2>3. cut \in WorkSizes => cut = v.work
    BY <1>1, <2>2, CutIsNoCandidate
  <2> HIDE DEF cut, m
  <2>4. Len(lines) = 3 /\ lines[1] = id /\ lines[2] = v.options /\ lines[3] = cut
    BY <2>1
  <2> HIDE DEF lines
  <2>5. \A w \in Parse(lines, other) : w = v /\ other = id
    BY <1>1, <2>3, <2>4 DEF Parse, SameIdentity, AreCandidates
  <2> QED BY <2>4, <2>5 DEF lines
<1> QED BY <1>1, <1>2, <1>3, <1>4

\* A whole entry, with or without the end of a longer one after it.
Whole(id, v, more) == <<id, v.options, v.work>> \o (IF more THEN <<"rest">> ELSE <<>>)

\* It gives its device its variant and other devices nothing: the lines after
\* the third are not looked at.
LEMMA ParseWhole ==
    ASSUME NEW v \in Variants, NEW id, NEW other, NEW more \in BOOLEAN
    PROVE  /\ Len(Whole(id, v, more)) \in 0..4
           /\ Parse(Whole(id, v, more), id) = {v}
           /\ \A w \in Parse(Whole(id, v, more), other) : w = v /\ other = id
<1> DEFINE lines == Whole(id, v, more)
<1>1. /\ v.options \in Options /\ v.work \in WorkSizes
      /\ [options |-> v.options, work |-> v.work] = v
  BY Widths
<1>2. /\ Len(lines) \in 3..4
      /\ lines[1] = id /\ lines[2] = v.options /\ lines[3] = v.work
  <2>1. CASE more
    <3>1. lines = <<id, v.options, v.work>> \o <<"rest">> BY <2>1 DEF Whole
    <3> QED BY <3>1
  <2>2. CASE ~more
    <3>1. lines = <<id, v.options, v.work>> \o <<>> BY <2>2 DEF Whole
    <3> QED BY <3>1
  <2> QED BY <2>1, <2>2
<1> HIDE DEF lines
<1>3. HasAllLines(lines)
  BY <1>2 DEF HasAllLines
<1>4. Parse(lines, id) = {v}
  BY <1>1, <1>2, <1>3 DEF Parse, SameIdentity, AreCandidates
<1>5. \A w \in Parse(lines, other) : w = v /\ other = id
  BY <1>1, <1>2, <1>3 DEF Parse, SameIdentity, AreCandidates
<1>6. Len(lines) \in 0..4
  BY <1>2
<1> QED BY <1>4, <1>5, <1>6 DEF lines

\* An empty or missing file gives nothing.
LEMMA ParseEmpty == \A id : Parse(Empty.lines, id) = {}
  BY DEF Parse, HasAllLines, Empty

-----------------------------------------------------------------------------
(* The invariant.                                                          *)

LEMMA InvInit == Init => CacheInv
<1> SUFFICES ASSUME Init PROVE CacheInv
  OBVIOUS
<1>1. TypeOK
  BY DEF Init, TypeOK, Empty, Locations
<1>2. FileInv
  BY ParseEmpty DEF Init, FileInv
<1>3. VariantInv /\ LastStoreBelieved
  BY DEF Init, VariantInv, LastStoreBelieved
<1> QED BY <1>1, <1>2, <1>3 DEF CacheInv

\* The steps that leave the file alone: the start, the load, the build, the
\* end of a lost store and the exit of a process.
LEMMA InvReaders ==
    ASSUME CacheInv, NEW p \in Processes,
           Start(p) \/ Load(p) \/ BuildCached(p) \/ StoreLost(p) \/ Exit(p)
    PROVE  CacheInv'
<1> USE DEF CacheInv
<1>1. file' = file /\ tuned' = tuned /\ stored' = stored /\ cached' = cached
  BY DEF Start, Load, BuildCached, StoreLost, Exit, history
<1>2. FileInv' /\ LastStoreBelieved'
  BY <1>1 DEF FileInv, LastStoreBelieved, Tuned, Parse, HasAllLines, SameIdentity, AreCandidates
<1>3. CASE Start(p)
  BY <1>1, <1>2, <1>3 DEF Start, Goto, TypeOK, Locations, VariantInv, Tuned
<1>4. CASE Load(p)
  <2> DEFINE found == Parse(file.lines, identity[p])
  <2>1. /\ identity' = identity /\ variant' = [variant EXCEPT ![p] = found]
        /\ pc' = [pc EXCEPT ![p] = IF found = {} THEN "tune" ELSE "build"]
    BY <1>4 DEF Load, Goto, AfterLoad
  <2>2. identity[p] \in Identities
    BY DEF TypeOK
  <2>3. \A v \in found : Tuned(identity[p], v)
    BY <2>2 DEF FileInv
  <2>4. found \subseteq Variants /\ \A v, w \in found : v = w
    BY DEF Parse, AreCandidates, Variants
  <2> HIDE DEF found
  <2>5. TypeOK'
    BY <1>1, <2>1, <2>4 DEF TypeOK, Locations
  <2>6. VariantInv'
    BY <1>1, <2>1, <2>3 DEF TypeOK, VariantInv, Tuned
  <2> QED BY <1>2, <2>5, <2>6
<1>5. CASE BuildCached(p)
  BY <1>1, <1>2, <1>5 DEF BuildCached, Goto, TypeOK, Locations, VariantInv, Tuned
<1>6. CASE StoreLost(p)
  BY <1>1, <1>2, <1>6 DEF StoreLost, Goto, TypeOK, Locations, VariantInv, Tuned
<1>7. CASE Exit(p)
  BY <1>1, <1>2, <1>7 DEF Exit, Goto, TypeOK, Locations, VariantInv, Tuned
<1> QED BY <1>3, <1>4, <1>5, <1>6, <1>7

\* Tuning only adds to what was tuned.
LEMMA InvTune ==
    ASSUME CacheInv, NEW p \in Processes, Tune(p)
    PROVE  CacheInv'
<1> USE DEF CacheInv
<1>1. file' = file /\ identity' = identity /\ stored' = stored /\ cached' = cached
  BY DEF Tune
<1>2. identity[p] \in Identities
  BY DEF TypeOK
<1>3. CASE pc' = [pc EXCEPT ![p] = "idle"] /\ variant' = variant /\ tuned' = tuned
  <2>1. TypeOK' /\ VariantInv'
    BY <1>1, <1>3 DEF TypeOK, Locations, VariantInv, Tuned
  <2>2. FileInv' /\ LastStoreBelieved'
    BY <1>1, <1>3 DEF FileInv, LastStoreBelieved, Tuned, Parse, HasAllLines, SameIdentity, AreCandidates
  <2> QED BY <2>1, <2>2
<1>4. ASSUME NEW v \in Variants,
             variant' = [variant EXCEPT ![p] = {v}],
             tuned' = tuned \cup {[identity |-> identity[p], variant |-> v]},
             pc' = [pc EXCEPT ![p] = "open"]
      PROVE  CacheInv'
  <2>1. [identity |-> identity[p], variant |-> v] \in Entries
    BY <1>2 DEF Entries
  <2>2. TypeOK'
    BY <1>1, <1>4, <2>1 DEF TypeOK, Locations
  <2>3. VariantInv'
    BY <1>1, <1>4 DEF TypeOK, VariantInv, Tuned
  <2>4. FileInv' /\ LastStoreBelieved'
    BY <1>1, <1>4 DEF FileInv, LastStoreBelieved, Tuned, Parse, HasAllLines, SameIdentity, AreCandidates
  <2> QED BY <2>2, <2>3, <2>4
<1> QED BY <1>3, <1>4 DEF Tune, Goto

\* The truncation by StoreOpen and the deletion leave an empty file.
LEMMA InvEmptied ==
    ASSUME CacheInv, (\E p \in Processes : StoreOpen(p)) \/ Delete
    PROVE  CacheInv'
<1> USE DEF CacheInv
<1>1. /\ identity' = identity /\ variant' = variant /\ tuned' = tuned
      /\ (file' = Empty /\ stored' = {}) \/ (file' = file /\ stored' = stored)
      /\ cached' \in {{}, cached}
  BY DEF StoreOpen, Delete
<1>2. FileInv' /\ LastStoreBelieved'
  <2>1. CASE file' = Empty /\ stored' = {}
    BY <1>1, <2>1, ParseEmpty
    DEF FileInv, LastStoreBelieved, Parse, HasAllLines, SameIdentity, AreCandidates
  <2>2. CASE file' = file /\ stored' = stored
    BY <1>1, <2>2
    DEF FileInv, LastStoreBelieved, Tuned, Parse, HasAllLines, SameIdentity, AreCandidates
  <2> QED BY <1>1, <2>1, <2>2
<1>3. /\ pc' \in [Processes -> Locations]
      /\ \A q \in Processes :
            pc'[q] \in {"build", "open", "write", "lost", "use"} =>
                pc[q] \in {"build", "open", "write", "lost", "use"}
  <2>1. ASSUME NEW p \in Processes, StoreOpen(p)
        PROVE  <1>3!1 /\ <1>3!2
    BY <2>1 DEF StoreOpen, Goto, TypeOK, Locations
  <2>2. CASE Delete
    BY <2>2 DEF Delete, TypeOK, Locations
  <2> QED BY <2>1, <2>2
<1>4. file'.length \in Nat /\ Len(file'.lines) \in 0..4
  BY <1>1 DEF TypeOK, Empty
<1>5. TypeOK'
  BY <1>1, <1>3, <1>4 DEF TypeOK
<1>6. VariantInv'
  BY <1>1, <1>3 DEF VariantInv, Tuned
<1> QED BY <1>2, <1>5, <1>6

\* The write itself, whole or cut short by a full disk: what it leaves gives a
\* device nothing that was not tuned on it.
LEMMA InvWrite ==
    ASSUME CacheInv, NEW p \in Processes, StoreWrite(p)
    PROVE  CacheInv'
<1> USE DEF CacheInv
<1>1. /\ pc[p] = "write" /\ pc' = [pc EXCEPT ![p] = "use"]
      /\ identity' = identity /\ variant' = variant /\ tuned' = tuned
  BY DEF StoreWrite, Goto
<1>2. VariantInv'
  BY <1>1 DEF TypeOK, VariantInv, Tuned
<1>3. /\ identity[p] \in Identities /\ variant[p] \subseteq Variants
      /\ file.length \in Nat
  BY DEF TypeOK
<1>4. ASSUME file'.length \in Nat, Len(file'.lines) \in 0..4,
             stored' \subseteq Entries, cached' \subseteq Identities
      PROVE  TypeOK'
  BY <1>1, <1>4 DEF TypeOK, Locations
<1>5. ASSUME NEW v \in variant[p],
             \A id : \A w \in Parse(file'.lines, id) : w = v /\ id = identity[p]
      PROVE  FileInv'
  <2>1. Tuned(identity[p], v)
    BY <1>1, <1>5 DEF VariantInv
  <2>2. \A id \in Identities : \A w \in Parse(file'.lines, id) : Tuned(id, w)
    BY <1>5, <2>1
  <2> QED BY <1>1, <2>2
      DEF FileInv, Tuned, Parse, HasAllLines, SameIdentity, AreCandidates
<1>6. CASE WriteAll(p)
  <2>1. PICK v \in variant[p] :
            /\ file' = [lines |-> Whole(identity[p], v, file.length > Width(v)),
                        length |-> IF file.length > Width(v)
                                   THEN file.length ELSE Width(v)]
            /\ stored' = {[identity |-> identity[p], variant |-> v]}
            /\ cached' = cached \cup {identity[p]}
    BY <1>6 DEF WriteAll, Whole
  <2> DEFINE more == file.length > Width(v)
  <2>2. /\ more \in BOOLEAN
        /\ file'.lines = Whole(identity[p], v, more)
        /\ file'.length = IF more THEN file.length ELSE Width(v)
    BY <2>1
  <2> HIDE DEF more
  <2>v. v \in Variants
    BY <1>3
  <2>3. v \in Variants /\ Width(v) \in Nat
    BY <2>v, Widths
  <2>4. Len(file'.lines) \in 0..4 /\ file'.length \in Nat
    <3>1. Len(Whole(identity[p], v, more)) \in 0..4
      BY <2>2, <2>3, ParseWhole
    <3> QED BY <1>3, <2>2, <2>3, <3>1
  <2>5. TypeOK'
    <3>1. stored' \subseteq Entries /\ cached' \subseteq Identities
      BY <1>3, <2>1, <2>3 DEF Entries, TypeOK
    <3> QED BY <1>4, <2>4, <3>1
  <2>6. FileInv'
    BY <1>5, <2>2, <2>3, ParseWhole
  <2>7. Parse(file'.lines, identity[p]) = {v}
    BY <2>2, <2>3, ParseWhole
  <2>8. LastStoreBelieved'
    BY <2>1, <2>7
    DEF LastStoreBelieved, Parse, HasAllLines, SameIdentity, AreCandidates
  <2> QED BY <1>2, <2>5, <2>6, <2>8
<1>7. CASE WriteShort(p)
  <2>1. PICK v \in variant[p] : \E n \in file.length..(Width(v) - 1) :
            /\ file' = [lines |-> Cut(identity[p], v, n), length |-> n]
            /\ stored' = {} /\ cached' = cached
    BY <1>7 DEF WriteShort
  <2>2. PICK n \in file.length..(Width(v) - 1) :
            /\ file'.lines = Cut(identity[p], v, n) /\ file'.length = n
            /\ stored' = {} /\ cached' = cached
    BY <2>1
  <2>v. v \in Variants
    BY <1>3
  <2>3. v \in Variants /\ Width(v) \in Nat
    BY <2>v, Widths
  <2>4. n \in 0..(Width(v) - 1)
    BY <1>3, <2>2, <2>3
  <2>5. TypeOK'
    <3>0. Len(Cut(identity[p], v, n)) \in 0..4
      BY <2>3, <2>4, ParseCut
    <3>1. Len(file'.lines) \in 0..4 /\ file'.length \in Nat
      BY <2>2, <2>4, <3>0
    <3>2. stored' \subseteq Entries /\ cached' \subseteq Identities
      BY <2>2 DEF TypeOK
    <3> QED BY <1>4, <3>1, <3>2
  <2>6. FileInv'
    BY <1>5, <2>2, <2>3, <2>4, ParseCut
  <2>7. LastStoreBelieved'
    BY <2>2 DEF LastStoreBelieved
  <2> QED BY <1>2, <2>5, <2>6, <2>7
<1> QED BY <1>6, <1>7 DEF StoreWrite

LEMMA InvStep == CacheInv /\ [Next]_vars => CacheInv'
<1> SUFFICES ASSUME CacheInv, [Next]_vars PROVE CacheInv'
  OBVIOUS
<1>1. CASE UNCHANGED vars
  BY <1>1 DEF CacheInv, TypeOK, FileInv, VariantInv, LastStoreBelieved, Tuned,
              Parse, HasAllLines, SameIdentity, AreCandidates, vars, history
<1>2. CASE Delete
  BY <1>2, InvEmptied
<1>3. ASSUME NEW p \in Processes,
             \/ Start(p) \/ Load(p) \/ BuildCached(p) \/ Tune(p)
             \/ StoreOpen(p) \/ StoreWrite(p) \/ StoreLost(p) \/ Exit(p)
      PROVE  CacheInv'
  BY <1>3, InvReaders, InvTune, InvEmptied, InvWrite
<1> QED BY <1>1, <1>2, <1>3 DEF Next

LEMMA Invariance == Spec => []CacheInv
<1> QED BY InvInit, InvStep, PTL DEF Spec

-----------------------------------------------------------------------------
(* Results.                                                                *)

\* Every variable keeps its kind, for every number of processes and devices.
THEOREM TypeCorrect == Spec => []TypeOK
<1>1. CacheInv => TypeOK
  BY DEF CacheInv
<1> QED BY <1>1, Invariance, PTL

\* load_cached_variant never hands a process a variant that was not tuned on
\* its device, whoever wrote the file, whatever was cut off, in any order.
THEOREM TunedHereCorrect == Spec => []TunedHere
<1>1. CacheInv => TunedHere
  BY DEF CacheInv, VariantInv, TunedHere, Tuned
<1> QED BY <1>1, Invariance, PTL

\* The entry last written in full by store_cached_variant is what
\* load_cached_variant finds, whatever was in the file when it was written.
THEOREM LastStoreBelievedCorrect == Spec => []LastStoreBelieved
<1>1. CacheInv => LastStoreBelieved
  BY DEF CacheInv
<1> QED BY <1>1, Invariance, PTL
=============================================================================
