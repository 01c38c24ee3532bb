--------------------------- MODULE MCSearchBatch ---------------------------
(***************************************************************************)
(* Small instances of SearchBatch for TLC.                                 *)
(***************************************************************************)
EXTENDS SearchBatch, FiniteSets

Request(s, c) == [start |-> s, count |-> c]

\* Two warps of two lanes; a group of the full launch is 16 timestamps and a
\* full batch 48, in three groups, with a poll after the second.  Full batches
\* in the middle and up to the last timestamp but one, an empty range, one
\* with a padding lane, tails that end in each of the guarded candidates, and
\* one that ends with the reserved last timestamp.
MCRequests ==
    {Request(0, 48), Request(15, 48), Request(0, 0), Request(3, 1),
     Request(5, 3), Request(8, 13), Request(2, 35), Request(48, 16)}

\* Timestamps that some lane of these requests meets first, last, in a middle
\* candidate, just past the end, or as the leader of its warp.
Interesting == {0, 3, 4, 15, 20, 21, 36, 47, 48, 62, 63}
MCHitSets == {h \in SUBSET Interesting : Cardinality(h) <= 2}

\* The largest launch on a narrower timestamp: a full launch covers 32
\* timestamps, so BatchSize is capped at 31 and the full-batch kernel runs one
\* candidate past its count, the reserved timestamp.  The search of all 32
\* timestamps asks for the first 31 and then for the last one.
CappedRequests == {Request(0, 31), Request(31, 1), Request(6, 7), Request(12, 20)}
CappedHitSets ==
    {h \in SUBSET {0, 5, 9, 14, 16, 27, 30, 31} : Cardinality(h) <= 2}
=============================================================================
