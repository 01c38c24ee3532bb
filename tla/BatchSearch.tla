---------------------------- MODULE BatchSearch ----------------------------
(***************************************************************************)
(* What one GPU engine promises the host: search_batch(start, count)       *)
(* answers the earliest timestamp of the range start .. start + count - 1  *)
(* whose key ID matches the uploaded prefixes, or None when there is none, *)
(* or fails.  How the range is divided between thousands of racing lanes   *)
(* is the business of SearchBatch, which implements this module.           *)
(*                                                                         *)
(* The value 2^32 - 1 is the engine's mark for "nothing found", so a match *)
(* at that one timestamp is outside the promise.                           *)
(***************************************************************************)
EXTENDS Integers

CONSTANTS
    U32MAX,     \* u32::MAX
    Requests,   \* the (start, count) pairs the caller may ask for
    HitSets     \* the sets of timestamps that may match what is on the device

VARIABLES
    phase,      \* "idle", "searching", "returned" or "failed"
    start,      \* the arguments of the current (or last) call
    count,
    hits,       \* timestamps that match the uploaded key and prefixes
    answer      \* the value of the last search_batch that returned

vars == <<phase, start, count, hits, answer>>

NOT_FOUND_TIMESTAMP == U32MAX

\* Option::None, told apart from every timestamp.
None == -1

\* The timestamps of a request, and those of them an engine can report.
InRange(s, c) == s .. s + c - 1
Reportable(s, c, h) == (h \cap InRange(s, c)) \ {NOT_FOUND_TIMESTAMP}

\* The promise: the earliest reportable match, None if there is none.
Promised(s, c, h, a) ==
    \/ /\ a = None
       /\ Reportable(s, c, h) = {}
    \/ /\ a \in Reportable(s, c, h)
       /\ \A t \in Reportable(s, c, h) : a <= t

Init ==
    /\ phase = "idle"
    /\ start = 0 /\ count = 0
    /\ hits \in HitSets
    /\ answer = None

\* The caller uploads another key or another prefix set between calls.
Upload ==
    /\ phase \in {"idle", "returned"}
    /\ phase' = "idle"
    /\ hits' \in HitSets
    /\ UNCHANGED <<start, count, answer>>

Ask ==
    /\ phase \in {"idle", "returned"}
    /\ phase' = "searching"
    /\ \E r \in Requests : start' = r.start /\ count' = r.count
    /\ UNCHANGED <<hits, answer>>

Answer ==
    /\ phase = "searching"
    /\ phase' = "returned"
    /\ answer' \in {None} \cup (0 .. U32MAX)
    /\ Promised(start, count, hits, answer')
    /\ UNCHANGED <<start, count, hits>>

\* Any call of the engine may fail; the caller gives up at the first failure.
Fail ==
    /\ phase # "failed"
    /\ phase' = "failed"
    /\ UNCHANGED <<start, count, hits, answer>>

Next == Upload \/ Ask \/ Answer \/ Fail

Spec == Init /\ [][Next]_vars
=============================================================================
