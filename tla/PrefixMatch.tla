----------------------------- MODULE PrefixMatch -----------------------------
(***************************************************************************)
(* The prefix loop at the end of RUN_CANDIDATE (src/gpu_kernel.cu) on the  *)
(* words that HexPrefixSet::pack has put on the device: candidate after    *)
(* candidate, prefix after prefix, on the two halves of the key ID.        *)
(***************************************************************************)
EXTENDS HexPrefix

CONSTANTS
    Requests,   \* what the command line may ask for: sequences of texts
    MaxErrors   \* and numbers of wrong digits

ASSUME RequestsAssumption == Requests \subseteq Seq(Seq(Characters)) /\ MaxErrors \subseteq Nat

VARIABLES
    stage,         \* "parse", "rejected", "ready", "compare", "hit" or "miss"
    texts,         \* the prefixes as given
    prefixes,      \* the HexPrefixSet
    max_error,
    packed,        \* the kernel's prefixes argument
    key_id,        \* the candidate's key ID
    prefix_index

set == <<texts, prefixes, max_error, packed>>
match_vars == <<stage, set, key_id, prefix_index>>

MatchInit ==
    /\ stage = "parse"
    /\ texts = <<>> /\ prefixes = <<>> /\ max_error = 0 /\ packed = <<>>
    /\ key_id = {} /\ prefix_index = 0

\* HexPrefixSet::parse and with_max_error, then pack for prepare_prefixes.
Parse ==
    /\ stage = "parse"
    /\ texts' \in Requests /\ max_error' \in MaxErrors
    /\ IF IsPrefixSet(texts')
       THEN /\ prefixes' = [i \in DOMAIN texts' |-> parse(texts'[i])]
            /\ packed' = pack(prefixes')
            /\ stage' = "ready"
       ELSE stage' = "rejected" /\ UNCHANGED <<prefixes, packed>>
    /\ UNCHANGED <<key_id, prefix_index>>

\* key_id_high and key_id_low of a candidate are known: any key ID.  Nothing
\* is kept from one candidate to the next, so one is enough.
NextCandidate ==
    /\ stage = "ready"
    /\ key_id' \in KeyIds
    /\ prefix_index' = 0 /\ stage' = "compare"
    /\ UNCHANGED set

\* What the kernel reads for the prefix: word k of the four.
PrefixWord(k) == packed[prefix_index * 4 + k + 1]

diff_high == Diff(HighHalf(key_id), PrefixWord(2)) \cap PrefixWord(0)
diff_low == Diff(LowHalf(key_id), PrefixWord(3)) \cap PrefixWord(1)

\* Bug: the low half is not added.
WrongHighDigits == Cardinality(Collapse(diff_high, HALF_DIGITS))
WrongDigits ==
    Cardinality(Collapse(diff_high, HALF_DIGITS)) + Cardinality(Collapse(diff_low, HALF_DIGITS))

KernelMatches ==
    IF max_error = 0 THEN diff_high \cup diff_low = {}
                     ELSE WrongDigits <= max_error

ComparePrefix ==
    /\ stage = "compare" /\ prefix_index < Len(prefixes)
    /\ IF KernelMatches
       THEN stage' = "hit" /\ UNCHANGED prefix_index
       ELSE prefix_index' = prefix_index + 1 /\ UNCHANGED stage
    /\ UNCHANGED <<set, key_id>>

NoPrefixLeft ==
    /\ stage = "compare" /\ prefix_index = Len(prefixes)
    /\ stage' = "miss"
    /\ UNCHANGED <<set, key_id, prefix_index>>

MatchNext == Parse \/ NextCandidate \/ ComparePrefix \/ NoPrefixLeft

MatchSpec == MatchInit /\ [][MatchNext]_match_vars

-----------------------------------------------------------------------------

\* Every variable holds a value of its kind: the masks and values fit into the
\* device's words, and the loop stays within the prefixes that were uploaded.
MatchTypeOK ==
    /\ stage \in {"parse", "rejected", "ready", "compare", "hit", "miss"}
    /\ Len(prefixes) \in Nat /\ DOMAIN prefixes = 1..Len(prefixes)
    /\ \A i \in DOMAIN prefixes : {prefixes[i].mask, prefixes[i].aligned_value} \subseteq KeyIds
    /\ max_error \in Nat
    /\ packed \in Seq(Halves) /\ Len(packed) = 4 * Len(prefixes)
    /\ key_id \in KeyIds
    /\ prefix_index \in 0..Len(prefixes)

\* The kernel, on two 32-bit halves with a shortcut when no error is allowed,
\* takes exactly the candidates that the CPU, on one 64-bit word, takes for
\* matches: it neither misses one nor reports one that the host would refuse.
TakesWhatMatches ==
    /\ stage = "hit" => matches(prefixes, max_error, key_id)
    /\ stage = "miss" => ~ matches(prefixes, max_error, key_id)

Judged == stage \in {"hit", "miss"}

\* The count of errors by shifting and masking is the number of digits in
\* which the key ID differs from the prefix as the user gave it, whatever
\* follows the prefix, at every length and up to the last digit.
CountsWrongDigits ==
    Judged => \A i \in DOMAIN prefixes :
        LET digits == hex(texts[i])
        IN  error_count(prefixes[i], key_id) =
                Cardinality({n \in DOMAIN digits : digits[n] # DigitAt(key_id, n - 1)})

\* The normalized form, which is all the user sees of a prefix, is the prefix.
ShownAsGiven ==
    stage = "ready" => \A i \in DOMAIN texts : normalized(prefixes[i]) = hex(texts[i])

Matching(ps) == {id \in KeyIds : matches(ps, max_error, id)}

\* The closed formula and its running binomial coefficients count the key IDs
\* that match, also when more errors are allowed than there are digits.
MatchCountTrue ==
    stage = "ready" => \A i \in DOMAIN prefixes :
        match_count(prefixes[i], max_error) * 2^(KEY_DIGITS * DIGIT_BITS)
            = Cardinality(Matching(<<prefixes[i]>>)) * search_space_size(prefixes[i])

\* The same, prefix by prefix: a key ID counts once for each that it matches.
MatchingEach(ps) ==
    {x \in (DOMAIN ps) \X KeyIds : matches_with_error(ps[x[1]], x[2], max_error)}

\* "Expected scans before a hit, treating each prefix's matching subset as
\* disjoint. Overlapping prefixes overestimate the match probability and so this
\* returns a lower bound on the true expected count" (src/fingerprint.rs:173).
\* It is one up to roundings only, each of one part in ONE: so many of
\* them as there are prefixes and one more in the sum, and one of the reciprocal.
\* Up to these the number is at most the true count, however the prefixes overlap,
\* and it is the count for disjoint subsets, with the fraction cut off.
ExpectedUpToRounding ==
    stage = "ready" =>
        LET all == 2^(KEY_DIGITS * DIGIT_BITS)
            size == set_search_space_size(prefixes, max_error)
            rounded == Len(prefixes) + 1
        IN  /\ size * Cardinality(Matching(prefixes)) * (ONE - rounded) <= all * (ONE + 1)
            /\ all * (ONE - rounded - 1) <= (size + 1) * Cardinality(MatchingEach(prefixes)) * ONE
=============================================================================
