------------------------------ MODULE HexPrefix ------------------------------
(***************************************************************************)
(* Hex prefixes of key IDs (HexPrefix and HexPrefixSet of                  *)
(* src/fingerprint.rs): parsing, the count of wrong digits, the chances of *)
(* a match, and the words that the kernel compares with.                   *)
(*                                                                         *)
(* A word is the set of its one bits.  A bit is <<n, b>>: bit b of digit   *)
(* n, the digits counted from the most significant one, the bits from the  *)
(* least significant one.  A text is the sequence of its characters: a hex *)
(* digit is its value, whether its letter is small or capital.             *)
(***************************************************************************)
EXTENDS Integers, Sequences, FiniteSets, SequencesExt

CONSTANTS
    HALF_DIGITS,   \* digits of half a key ID, 8 in the code
    DIGIT_BITS,    \* bits of a digit, 4 in the code
    MAX_PREFIXES,  \* 64 in the code
    SIGNIFICAND    \* bits of the significand of an f64, 53

ASSUME SizesAssumption ==
    /\ HALF_DIGITS \in Nat \ {0} /\ DIGIT_BITS \in Nat \ {0} /\ MAX_PREFIXES \in Nat
    /\ SIGNIFICAND \in Nat \ {0}

KEY_DIGITS == 2 * HALF_DIGITS

Words(digits) == SUBSET ((0..digits - 1) \X (0..DIGIT_BITS - 1))
KeyIds == Words(KEY_DIGITS)
Halves == Words(HALF_DIGITS)

\* value ^ other.
Diff(v, w) == (v \ w) \cup (w \ v)

\* value >> k, for less than a digit; a bit may go over into the next digit.
ShiftRight(w, k, digits) ==
    {p \in (0..digits - 1) \X (0..DIGIT_BITS - 1) :
        IF p[2] + k < DIGIT_BITS THEN <<p[1], p[2] + k>> \in w
                                 ELSE <<p[1] - 1, p[2] + k - DIGIT_BITS>> \in w}

\* value << (4 * d); what is shifted out is lost.
ShiftLeft(w, d) == {p \in (0..KEY_DIGITS - 1) \X (0..DIGIT_BITS - 1) : <<p[1] + d, p[2]>> \in w}

\* Bug: the low bits are kept beside the high ones.
Uncut(w) == w
\* (value >> 32) as u32 and value as u32.
HighHalf(w) == {p \in (0..HALF_DIGITS - 1) \X (0..DIGIT_BITS - 1) : p \in w}
LowHalf(w) ==
    {p \in (0..HALF_DIGITS - 1) \X (0..DIGIT_BITS - 1) : <<p[1] + HALF_DIGITS, p[2]>> \in w}

\* 0x1111...: the lowest bit of every digit.
LowestBits(digits) == {p \in (0..digits - 1) \X (0..DIGIT_BITS - 1) : p[2] = 0}

\* Bug: one of the shifted copies is forgotten.
CollapseLess(diff, digits) ==
    (UNION {ShiftRight(diff, k, digits) : k \in 0..DIGIT_BITS - 2}) \cap LowestBits(digits)
\* Each digit collapsed to its lowest bit, set iff the digit is not zero.
Collapse(diff, digits) ==
    (UNION {ShiftRight(diff, k, digits) : k \in 0..DIGIT_BITS - 1}) \cap LowestBits(digits)

-----------------------------------------------------------------------------
\* HexPrefix::parse.

LetterX == -1      \* the letter x or X
Other == -2    \* any other character
Space == -3

Digits == 0..(2^DIGIT_BITS - 1)
Characters == Digits \cup {LetterX, Other, Space}

trim(text) ==
    LET kept == {i \in DOMAIN text : text[i] # Space}
    IN  IF kept = {} THEN <<>>
        ELSE SubSeq(text, CHOOSE i \in kept : \A j \in kept : i <= j,
                          CHOOSE i \in kept : \A j \in kept : j <= i)

hex(text) ==
    LET trimmed == trim(text)
    IN  IF Len(trimmed) >= 2 /\ trimmed[1] = 0 /\ trimmed[2] = LetterX
        THEN SubSeq(trimmed, 3, Len(trimmed)) ELSE trimmed

Parses(text) ==
    /\ hex(text) # <<>>
    /\ Len(hex(text)) <= KEY_DIGITS
    /\ \A i \in DOMAIN hex(text) : hex(text)[i] \in Digits

BitsOf(digit) == {b \in 0..DIGIT_BITS - 1 : (digit \div 2^b) % 2 = 1}
Nibble(digit) == {<<KEY_DIGITS - 1, b>> : b \in BitsOf(digit)}

\* The loop of parse: digit after digit is shifted in from the right.
ValueOf(digits) ==
    LET value[k \in 0..Len(digits)] ==
            IF k = 0 THEN {} ELSE ShiftLeft(value[k - 1], 1) \cup Nibble(digits[k])
    IN  value[Len(digits)]

\* Bug: the value is left where it was read, in the low digits.
Unaligned(value, unused) == value
Aligned(value, unused) == ShiftLeft(value, unused)

parse(text) ==
    LET unused == KEY_DIGITS - Len(hex(text))
    IN  [nibbles |-> Len(hex(text)),
         aligned_value |-> Aligned(ValueOf(hex(text)), unused),
         mask |-> ShiftLeft((0..KEY_DIGITS - 1) \X (0..DIGIT_BITS - 1), unused)]

\* The digit at place n of a word.
DigitAt(w, n) ==
    LET sum[k \in 0..DIGIT_BITS] ==
            IF k = 0 THEN 0 ELSE sum[k - 1] + (IF <<n, k - 1>> \in w THEN 2^(k - 1) ELSE 0)
    IN  sum[DIGIT_BITS]
normalized(p) == [n \in 1..p.nibbles |-> DigitAt(p.aligned_value, n - 1)]

\* Bug: the bits that differ are counted, not the digits.
BitErrors(p, key_id) == Cardinality(Diff(key_id, p.aligned_value) \cap p.mask)
error_count(p, key_id) ==
    Cardinality(Collapse(Diff(key_id, p.aligned_value) \cap p.mask, KEY_DIGITS))

matches_with_error(p, key_id, max_error) == error_count(p, key_id) <= max_error

search_space_size(p) == 2^(p.nibbles * DIGIT_BITS)

\* Bug: the next binomial coefficient is divided by k instead of k + 1.
NextBinomWrong(binom, n, k) == (binom * (n - k)) \div (IF k = 0 THEN 1 ELSE k)
NextBinom(binom, n, k) == (binom * (n - k)) \div (k + 1)

\* The loop of match_count: C(n, k), 15^k and the count for k from 0 on.
match_count(p, max_error) ==
    LET n == p.nibbles
        e == IF max_error < n THEN max_error ELSE n
        binom[k \in 0..e] == IF k = 0 THEN 1 ELSE NextBinom(binom[k - 1], n, k - 1)
        pow15[k \in 0..e] == IF k = 0 THEN 1 ELSE pow15[k - 1] * (2^DIGIT_BITS - 1)
        count[k \in 0..e] == IF k = 0 THEN 1 ELSE count[k - 1] + binom[k] * pow15[k]
    IN  count[e]

-----------------------------------------------------------------------------
\* HexPrefixSet: a sequence of prefixes and one max_error.

\* from_prefixes, after every item was parsed.
IsPrefixSet(texts) ==
    /\ \A i \in DOMAIN texts : Parses(texts[i])
    /\ texts # <<>> /\ Len(texts) <= MAX_PREFIXES

matches(prefixes, max_error, key_id) ==
    \E i \in DOMAIN prefixes : matches_with_error(prefixes[i], key_id, max_error)

\* The whole number nearest to a / b, the even one where two are as near.
Nearest(a, b) ==
    LET q == a \div b
        rest == a % b
    IN  IF 2 * rest > b \/ (2 * rest = b /\ q % 2 = 1) THEN q + 1 ELSE q

\* a / b as an f64: SIGNIFICAND bits of it are kept.  Of a quotient that has
\* fewer than that before its point, no more than these are kept.
f64(a, b) ==
    LET dropped == CHOOSE k \in 0..a : /\ a < b * 2^(SIGNIFICAND + k)
                                       /\ k # 0 => b * 2^(SIGNIFICAND + k - 1) <= a
    IN  Nearest(a, b * 2^dropped) * 2^dropped

\* A chance is given in units of one key ID of all.  This is a power of two, so
\* that f64 rounds the chances as it does these whole numbers.

\* Bug: the chance of the last prefix stands for all of them.
ChanceOfLast(chances) == Last(chances)
\* sum(): one addition after the other, each of them rounded.
TotalChance(chances) ==
    LET sum[k \in 0..Len(chances)] == IF k = 0 THEN 0 ELSE f64(sum[k - 1] + chances[k], 1)
    IN  sum[Len(chances)]

\* 1.0, in units of the last bit of the f64s below it.
ONE == 2^SIGNIFICAND

\* 1.0 / inv_sum in these units, and as u128.  They are too coarse only for what
\* is below 1/2, which becomes 0 in any case.  The chances are neither 0 nor out
\* of the range of f64, so that u128::MAX is never returned.
set_search_space_size(prefixes, max_error) ==
    LET all == 2^(KEY_DIGITS * DIGIT_BITS)
        chance(p) == (f64(match_count(p, max_error), 1) * all) \div search_space_size(p)
        chances == [i \in DOMAIN prefixes |-> chance(prefixes[i])]
    IN  f64(all * ONE, TotalChance(chances)) \div ONE

\* Bug: the two halves of the value are swapped.
PackSwapped(p) ==
    <<HighHalf(p.mask), LowHalf(p.mask), LowHalf(p.aligned_value), HighHalf(p.aligned_value)>>
\* mask_words and value_words.
PackWords(p) ==
    <<HighHalf(p.mask), LowHalf(p.mask), HighHalf(p.aligned_value), LowHalf(p.aligned_value)>>

pack(prefixes) ==
    [i \in 1..(4 * Len(prefixes)) |-> PackWords(prefixes[((i - 1) \div 4) + 1])[((i - 1) % 4) + 1]]
=============================================================================
