---------------------------- MODULE MCHostSearch ---------------------------
(***************************************************************************)
(* Small instances of HostSearch for TLC: two keys, u32::MAX = 7.          *)
(***************************************************************************)
EXTENDS HostSearch, FiniteSets

CONSTANTS k1, k2

\* The first key matches at any two times at most; the second never, early,
\* late, or only at the reserved last timestamp.
MCHitMaps ==
    {h \in [Keys -> SUBSET Timestamps] :
        /\ Cardinality(h[k1]) <= 2
        /\ h[k2] \in {{}, {2}, {4, 6}, {7}}}

\* The same with one match per key, for an engine that answers anything.
FewHitMaps ==
    {h \in [Keys -> SUBSET Timestamps] : \A k \in Keys : Cardinality(h[k]) <= 1}

MCSeeds == {NoSeed, k1}
MCLimits == {NoLimit, 0, 1, 2}

\* Before the epoch, at it, inside a batch, at the end of one, around the
\* largest timestamp.
MCClocks == {-1, 0, 4, 5, 6, 7, 8}
=============================================================================
