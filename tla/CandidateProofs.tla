-------------------------- MODULE CandidateProofs --------------------------
(***************************************************************************)
(* For key IDs of any even number of digits, digits of any width and any   *)
(* prefixes: the kernel's comparison on two halves, with its shortcut, is  *)
(* the CPU's comparison on one word; the errors it counts are the digits   *)
(* in which the key ID differs from the text; match_count counts the key   *)
(* IDs that match; and so many scans as set_search_space_size says are     *)
(* expected, up to the roundings of f64, which are counted.  The rounds    *)
(* before it are those of SHA-1, on every backend and in the copies of the *)
(* tests.                                                                  *)
(***************************************************************************)
EXTENDS Candidate, Induction, SequenceTheorems

Places(digits) == (0..digits - 1) \X (0..DIGIT_BITS - 1)

\* The lowest bits of the digits of w that are not zero.
NonzeroDigits(w, digits) ==
    {p \in Places(digits) : p[2] = 0 /\ \E b \in 0..DIGIT_BITS - 1 : <<p[1], b>> \in w}

\* Shifting and masking moves no bit of one digit into another's lowest bit.
LEMMA CollapseDef ==
    ASSUME NEW digits \in Nat, NEW w \in Words(digits)
    PROVE  Collapse(w, digits) = NonzeroDigits(w, digits)
<1>1. DIGIT_BITS \in Nat \ {0}
  BY SizesAssumption
<1>2. ASSUME NEW n \in 0..digits - 1, NEW b \in 0..DIGIT_BITS - 1
      PROVE  <<n, b>> \in Collapse(w, digits) <=> <<n, b>> \in NonzeroDigits(w, digits)
  <2>1. <<n, b>> \in Collapse(w, digits) <=>
            b = 0 /\ \E k \in 0..DIGIT_BITS - 1 : <<n, b>> \in ShiftRight(w, k, digits)
    BY <1>1, <1>2 DEF Collapse, LowestBits, ShiftRight
  <2>2. ASSUME b = 0, NEW k \in 0..DIGIT_BITS - 1
        PROVE  <<n, b>> \in ShiftRight(w, k, digits) <=> <<n, k>> \in w
    BY <1>1, <1>2, <2>2 DEF ShiftRight
  <2>3. <<n, b>> \in NonzeroDigits(w, digits) <=>
            b = 0 /\ \E k \in 0..DIGIT_BITS - 1 : <<n, k>> \in w
    BY <1>2 DEF NonzeroDigits, Places
  <2>4. CASE b = 0
    BY <2>1, <2>2, <2>3, <2>4
  <2>5. CASE b # 0
    BY <2>1, <2>3, <2>5
  <2> QED
    BY <2>4, <2>5
<1>3. Collapse(w, digits) \subseteq Places(digits) /\ NonzeroDigits(w, digits) \subseteq Places(digits)
  BY DEF Collapse, LowestBits, NonzeroDigits, Places
<1> HIDE DEF Collapse, NonzeroDigits
<1>4. \A p \in Places(digits) : p \in Collapse(w, digits) <=> p \in NonzeroDigits(w, digits)
  BY <1>2 DEF Places
<1> QED
  BY <1>3, <1>4

\* Words are finite sets of bits.
LEMMA WordFinite ==
    ASSUME NEW digits \in Nat, NEW w, w \subseteq Places(digits)
    PROVE  IsFiniteSet(w) /\ Cardinality(w) \in Nat
<1>1. IsFiniteSet(0..digits - 1) /\ IsFiniteSet(0..DIGIT_BITS - 1)
  BY SizesAssumption, FS_Interval
<1>2. IsFiniteSet(Places(digits))
  BY <1>1, FS_Product DEF Places
<1>3. IsFiniteSet(w)
  BY <1>2, FS_Subset
<1> QED
  BY <1>3, FS_CardinalityType

LEMMA Sizes == HALF_DIGITS \in Nat \ {0} /\ DIGIT_BITS \in Nat \ {0} /\ KEY_DIGITS = HALF_DIGITS + HALF_DIGITS
  BY SizesAssumption DEF KEY_DIGITS

\* The wrong digits of a word are those of its two halves.
LEMMA HalvesCount ==
    ASSUME NEW w \in KeyIds
    PROVE  /\ HighHalf(w) \in Halves /\ LowHalf(w) \in Halves
           /\ Cardinality(Collapse(w, KEY_DIGITS)) =
                Cardinality(Collapse(HighHalf(w), HALF_DIGITS))
                  + Cardinality(Collapse(LowHalf(w), HALF_DIGITS))
<1> DEFINE all == NonzeroDigits(w, KEY_DIGITS)
           high == NonzeroDigits(HighHalf(w), HALF_DIGITS)
           low == NonzeroDigits(LowHalf(w), HALF_DIGITS)
           moved == {p \in all : p[1] >= HALF_DIGITS}
           move == [p \in low |-> <<p[1] + HALF_DIGITS, p[2]>>]
<1>1. HighHalf(w) \in Halves /\ LowHalf(w) \in Halves
  BY DEF HighHalf, LowHalf, Halves, Words
<1>2. /\ Collapse(w, KEY_DIGITS) = all
      /\ Collapse(HighHalf(w), HALF_DIGITS) = high
      /\ Collapse(LowHalf(w), HALF_DIGITS) = low
  BY <1>1, Sizes, CollapseDef DEF KeyIds, Halves
<1>3. high = {p \in all : p[1] < HALF_DIGITS}
  <2>1. ASSUME NEW n \in 0..HALF_DIGITS - 1, NEW b \in 0..DIGIT_BITS - 1
        PROVE  <<n, b>> \in HighHalf(w) <=> <<n, b>> \in w
    BY DEF HighHalf
  <2>2. ASSUME NEW p \in Places(HALF_DIGITS)
        PROVE  p \in high <=> p \in all
    BY <2>1, <2>2, Sizes DEF NonzeroDigits, Places
  <2>3. \A p \in all : p[1] < HALF_DIGITS => p \in Places(HALF_DIGITS)
    BY Sizes DEF NonzeroDigits, Places
  <2>4. \A p \in high : p \in Places(HALF_DIGITS) /\ p[1] < HALF_DIGITS
    BY Sizes DEF NonzeroDigits, Places
  <2> QED
    BY <2>2, <2>3, <2>4
<1>4. \A p \in Places(HALF_DIGITS) :
          p \in low <=> <<p[1] + HALF_DIGITS, p[2]>> \in moved
  <2>1. ASSUME NEW n \in 0..HALF_DIGITS - 1, NEW b \in 0..DIGIT_BITS - 1
        PROVE  <<n, b>> \in LowHalf(w) <=> <<n + HALF_DIGITS, b>> \in w
    BY DEF LowHalf
  <2>2. ASSUME NEW n \in 0..HALF_DIGITS - 1, NEW b \in 0..DIGIT_BITS - 1
        PROVE  <<n, b>> \in low <=> <<n + HALF_DIGITS, b>> \in moved
    <3>1. n + HALF_DIGITS \in 0..KEY_DIGITS - 1 /\ n + HALF_DIGITS >= HALF_DIGITS
      BY Sizes
    <3>2. <<n, b>> \in low <=> b = 0 /\ \E k \in 0..DIGIT_BITS - 1 : <<n, k>> \in LowHalf(w)
      BY <2>2 DEF NonzeroDigits, Places
    <3>3. <<n + HALF_DIGITS, b>> \in moved
              <=> b = 0 /\ \E k \in 0..DIGIT_BITS - 1 : <<n + HALF_DIGITS, k>> \in w
      BY <2>2, <3>1 DEF NonzeroDigits, Places
    <3> QED
      BY <2>1, <3>2, <3>3
  <2> HIDE DEF low, moved
  <2> QED
    BY <2>2 DEF Places
<1>5. ExistsBijection(low, moved)
  <2>1. low \subseteq Places(HALF_DIGITS) /\ moved \subseteq Places(KEY_DIGITS)
    BY DEF NonzeroDigits
  <2>2. ASSUME NEW q \in moved
        PROVE  \E p \in low : move[p] = q
    <3>1. q = <<q[1], q[2]>> /\ q[1] \in HALF_DIGITS..KEY_DIGITS - 1 /\ q[2] \in 0..DIGIT_BITS - 1
      BY <2>1, <2>2, Sizes DEF Places
    <3> DEFINE p == <<q[1] - HALF_DIGITS, q[2]>>
    <3>2. p \in Places(HALF_DIGITS) /\ <<p[1] + HALF_DIGITS, p[2]>> = q
      BY <3>1, Sizes DEF Places
    <3>3. p \in low
      BY <1>4, <3>2
    <3> QED
      BY <3>2, <3>3
  <2>3. \A p, q \in low : move[p] = move[q] => p = q
    BY <2>1, Sizes DEF Places
  <2>4. move \in [low -> moved]
    BY <1>4, <2>1
  <2>5. move \in Bijection(low, moved)
    BY <2>2, <2>3, <2>4, Fun_IsBij
  <2> QED
    BY <2>5 DEF ExistsBijection
<1>6. IsFiniteSet(low) /\ IsFiniteSet(high) /\ IsFiniteSet(moved)
  BY WordFinite, Sizes DEF NonzeroDigits
<1>7. Cardinality(moved) = Cardinality(low)
  BY <1>5, <1>6, FS_Bijection
<1>8. all = high \cup moved /\ high \cap moved = {}
  BY <1>3, Sizes DEF NonzeroDigits, Places
<1>9. Cardinality(all) = Cardinality(high) + Cardinality(moved)
  <2>1. Cardinality(high \cap moved) = 0
    BY <1>8, FS_EmptySet
  <2>2. Cardinality(high \cup moved)
            = Cardinality(high) + Cardinality(moved) - Cardinality(high \cap moved)
    BY <1>6, FS_Union
  <2>3. Cardinality(high) \in Nat /\ Cardinality(moved) \in Nat
    BY <1>6, FS_CardinalityType
  <2> HIDE DEF all, high, moved
  <2> QED
    BY <1>8, <2>1, <2>2, <2>3
<1> QED
  BY <1>1, <1>2, <1>7, <1>9

\* No digit is wrong iff no bit differs.
LEMMA NoneWrong ==
    ASSUME NEW w \in KeyIds
    PROVE  /\ Cardinality(Collapse(w, KEY_DIGITS)) \in Nat
           /\ Cardinality(Collapse(w, KEY_DIGITS)) = 0 <=> w = {}
<1> DEFINE wrong == NonzeroDigits(w, KEY_DIGITS)
<1>1. KEY_DIGITS \in Nat /\ w \in Words(KEY_DIGITS)
  BY Sizes DEF KeyIds
<1>2. Collapse(w, KEY_DIGITS) = wrong
  BY <1>1, CollapseDef
<1>3. wrong \subseteq Places(KEY_DIGITS)
  BY DEF NonzeroDigits
<1>4. IsFiniteSet(wrong) /\ Cardinality(wrong) \in Nat
  BY <1>1, <1>3, WordFinite
<1>5. Cardinality(wrong) = 0 <=> wrong = {}
  BY <1>4, FS_EmptySet
<1>6. wrong = {} <=> w = {}
  <2>1. ASSUME NEW p \in w
        PROVE  <<p[1], 0>> \in wrong
    <3>1. p = <<p[1], p[2]>> /\ p[1] \in 0..KEY_DIGITS - 1 /\ p[2] \in 0..DIGIT_BITS - 1
      BY <1>1, <2>1 DEF Words
    <3>2. <<p[1], 0>> \in Places(KEY_DIGITS)
      BY <3>1, Sizes DEF Places
    <3>3. \E b \in 0..DIGIT_BITS - 1 : <<p[1], b>> \in w
      BY <2>1, <3>1
    <3> QED
      BY <3>2, <3>3 DEF NonzeroDigits
  <2>2. w = {} => wrong = {}
    BY DEF NonzeroDigits
  <2> QED
    BY <2>1, <2>2
<1> QED
  BY <1>2, <1>4, <1>5, <1>6

\* What the kernel reads at an index of a packed set.
LEMMA PackReads ==
    ASSUME NEW ps, Len(ps) \in Nat, NEW i \in 0..Len(ps) - 1, NEW k \in 0..3
    PROVE  pack(ps)[i * 4 + k + 1] = PackWords(ps[i + 1])[k + 1]
<1>1. i * 4 + k + 1 \in 1..(4 * Len(ps))
  OBVIOUS
<1>2. ((i * 4 + k + 1) - 1) \div 4 = i /\ ((i * 4 + k + 1) - 1) % 4 = k
  OBVIOUS
<1> QED
  BY <1>1, <1>2 DEF pack

-----------------------------------------------------------------------------

\* One comparison on two words says what one comparison on a whole word says,
\* also by the shortcut.
LEMMA KernelMeansMatch ==
    ASSUME MatchTypeOK, packed = pack(prefixes), prefix_index < Len(prefixes)
    PROVE  KernelMatches
               <=> matches_with_error(prefixes[prefix_index + 1], key_id, max_error)
<1> DEFINE p == prefixes[prefix_index + 1]
           diff == Diff(key_id, p.aligned_value) \cap p.mask
<1>1. /\ Len(prefixes) \in Nat /\ prefix_index \in 0..Len(prefixes) - 1 /\ max_error \in Nat
      /\ key_id \in KeyIds /\ p.mask \in KeyIds /\ p.aligned_value \in KeyIds
  BY DEF MatchTypeOK
<1>2. /\ PrefixWord(0) = HighHalf(p.mask) /\ PrefixWord(1) = LowHalf(p.mask)
      /\ PrefixWord(2) = HighHalf(p.aligned_value) /\ PrefixWord(3) = LowHalf(p.aligned_value)
  <2>1. \A k \in 0..3 : PrefixWord(k) = PackWords(p)[k + 1]
    BY <1>1, PackReads DEF PrefixWord
  <2> QED
    BY <2>1 DEF PackWords
<1>3. diff \in KeyIds /\ diff_high = HighHalf(diff) /\ diff_low = LowHalf(diff)
  <2>1. diff \in KeyIds
    BY <1>1 DEF Diff, KeyIds, Words
  <2> HIDE DEF p
  <2>2. diff_high = HighHalf(diff)
    BY <1>2 DEF diff_high, HighHalf, Diff
  <2>3. diff_low = LowHalf(diff)
    BY <1>2 DEF diff_low, LowHalf, Diff
  <2> QED
    BY <2>1, <2>2, <2>3
<1>4. error_count(p, key_id) = Cardinality(Collapse(diff, KEY_DIGITS))
  BY DEF error_count
<1> HIDE DEF diff, p
<1>5. WrongDigits = error_count(p, key_id)
  BY <1>3, <1>4, HalvesCount DEF WrongDigits
<1>6. error_count(p, key_id) \in Nat /\ (error_count(p, key_id) = 0 <=> diff = {})
  BY <1>3, <1>4, NoneWrong
<1>7. diff = {} <=> diff_high \cup diff_low = {}
  <2>1. HighHalf({}) = {} /\ LowHalf({}) = {}
    BY DEF HighHalf, LowHalf
  <2>2. ASSUME diff # {}
        PROVE  HighHalf(diff) \cup LowHalf(diff) # {}
    <3>1. PICK b \in diff : TRUE
      BY <2>2
    <3>2. b = <<b[1], b[2]>> /\ b[1] \in 0..KEY_DIGITS - 1 /\ b[2] \in 0..DIGIT_BITS - 1
      BY <1>3 DEF KeyIds, Words
    <3>3. CASE b[1] < HALF_DIGITS
      <4>1. b \in HighHalf(diff)
        BY <3>1, <3>2, <3>3, Sizes DEF HighHalf
      <4> QED
        BY <4>1
    <3>4. CASE b[1] >= HALF_DIGITS
      <4> DEFINE n == b[1] - HALF_DIGITS
      <4>1. n + HALF_DIGITS = b[1] /\ n \in 0..HALF_DIGITS - 1
        BY <3>2, <3>4, Sizes
      <4> HIDE DEF n
      <4>2. <<n + HALF_DIGITS, b[2]>> \in diff
        BY <3>1, <3>2, <4>1
      <4>3. <<n, b[2]>> \in LowHalf(diff)
        BY <3>2, <4>1, <4>2 DEF LowHalf
      <4> QED
        BY <4>3
    <3> QED
      BY <3>2, <3>3, <3>4, Sizes
  <2> QED
    BY <1>3, <2>1, <2>2
<1>8. matches_with_error(p, key_id, max_error) <=> error_count(p, key_id) <= max_error
  BY DEF matches_with_error
<1>9. KernelMatches <=> matches_with_error(p, key_id, max_error)
  BY <1>1, <1>5, <1>6, <1>7, <1>8 DEF KernelMatches
<1> QED
  BY <1>9 DEF p

-----------------------------------------------------------------------------
(* What the recursive definitions compute in a step.                       *)

LEMMA ValueSteps ==
    ASSUME NEW l \in Nat, NEW h \in [1..l -> Digits]
    PROVE  \E v \in [0..l -> KeyIds] :
               /\ v[0] = {} /\ ValueOf(h) = v[l]
               /\ \A k \in 1..l : v[k] = ShiftLeft(v[k - 1], 1) \cup Nibble(h[k])
<1> DEFINE Is(v) ==
               v = [k \in 0..Len(h) |-> IF k = 0 THEN {}
                                        ELSE ShiftLeft(v[k - 1], 1) \cup Nibble(h[k])]
           step == [k \in Nat |-> [w \in KeyIds |-> ShiftLeft(w, 1) \cup Nibble(h[k])]]
           v == CHOOSE u : Is(u)
<1>1. Len(h) = l
  OBVIOUS
<1>2. \A w, d : ShiftLeft(w, 1) \cup Nibble(d) \in KeyIds
  BY SizesAssumption DEF ShiftLeft, Nibble, BitsOf, KeyIds, Words, KEY_DIGITS
<1>3. {} \in KeyIds
  BY DEF KeyIds, Words
<1>4. step \in [Nat -> [KeyIds -> KeyIds]]
  <2>1. \A k \in Nat : [w \in KeyIds |-> ShiftLeft(w, 1) \cup Nibble(h[k])] \in [KeyIds -> KeyIds]
    BY <1>2
  <2> QED
    BY <2>1
<1>5. PICK g : Upto(g, {}, KeyIds, step, l)
  <2> HIDE DEF step
  <2> QED
    BY <1>3, <1>4, Recursion
<1>6. /\ g \in [0..l -> KeyIds] /\ g[0] = {}
      /\ \A k \in 1..l : g[k] = ShiftLeft(g[k - 1], 1) \cup Nibble(h[k])
  <2>1. g \in [0..l -> KeyIds] /\ g[0] = {} /\ \A k \in 1..l : g[k] = step[k][g[k - 1]]
    <3> HIDE DEF step
    <3> QED
      BY <1>5 DEF Upto
  <2>2. ASSUME NEW k \in 1..l
        PROVE  step[k][g[k - 1]] = ShiftLeft(g[k - 1], 1) \cup Nibble(h[k])
    <3>1. k \in Nat /\ g[k - 1] \in KeyIds
      BY <2>1
    <3> QED
      BY <3>1
  <2> HIDE DEF step
  <2> QED
    BY <2>1, <2>2
<1> HIDE DEF step
<1>7. Is(v)
  <2>1. Is(g)
    BY <1>1, <1>6
  <2> HIDE DEF Is
  <2> QED
    BY <2>1
<1>8. ValueOf(h) = v[Len(h)]
  BY Zenon DEF ValueOf
<1> HIDE DEF v
<1>9. v \in [0..l -> KeyIds]
  BY <1>1, <1>2, <1>3, <1>7
<1>10. v[0] = {}
  BY <1>1, <1>7
<1>11. ASSUME NEW k \in 1..l
       PROVE  v[k] = ShiftLeft(v[k - 1], 1) \cup Nibble(h[k])
  <2>1. k \in 0..Len(h) /\ k # 0
    BY <1>1
  <2> QED
    BY <1>7, <2>1
<1> HIDE DEF Is
<1> QED
  BY <1>1, <1>8, <1>9, <1>10, <1>11

LEMMA DigitSteps ==
    ASSUME NEW w, NEW n
    PROVE  \E s \in [0..DIGIT_BITS -> Nat] :
               /\ s[0] = 0 /\ DigitAt(w, n) = s[DIGIT_BITS]
               /\ \A k \in 1..DIGIT_BITS :
                      s[k] = s[k - 1] + (IF <<n, k - 1>> \in w THEN 2^(k - 1) ELSE 0)
<1> DEFINE Bit(k) == IF <<n, k - 1>> \in w THEN 2^(k - 1) ELSE 0
           Is(s) == s = [k \in 0..DIGIT_BITS |-> IF k = 0 THEN 0 ELSE s[k - 1] + Bit(k)]
           step == [k \in Nat |-> [x \in Nat |-> x + (IF k = 0 THEN 0 ELSE Bit(k))]]
           s == CHOOSE u : Is(u)
<1>1. DIGIT_BITS \in Nat
  BY SizesAssumption
<1>2. \A k \in Nat \ {0} : Bit(k) \in Nat
  <2>1. \A k \in Nat : 2^k \in Nat
    BY PowerSum
  <2>2. \A k \in Nat \ {0} : k - 1 \in Nat
    OBVIOUS
  <2> QED
    BY <2>1, <2>2
<1>3. DigitAt(w, n) = s[DIGIT_BITS]
  BY Zenon DEF DigitAt
<1> HIDE DEF Bit
<1>4. step \in [Nat -> [Nat -> Nat]]
  <2>1. \A k \in Nat : [x \in Nat |-> x + (IF k = 0 THEN 0 ELSE Bit(k))] \in [Nat -> Nat]
    BY <1>2
  <2> QED
    BY <2>1
<1>5. PICK g : Upto(g, 0, Nat, step, DIGIT_BITS)
  <2> HIDE DEF step
  <2> QED
    BY <1>1, <1>4, Recursion
<1>6. g \in [0..DIGIT_BITS -> Nat] /\ g[0] = 0 /\ \A k \in 1..DIGIT_BITS : g[k] = step[k][g[k - 1]]
  <2> HIDE DEF step
  <2> QED
    BY <1>5 DEF Upto
<1>7. \A k \in 1..DIGIT_BITS : \A x \in Nat : step[k][x] = x + Bit(k)
  BY <1>1
<1> HIDE DEF step
<1>8. Is(s)
  <2>1. \A k \in 1..DIGIT_BITS : g[k - 1] \in Nat
    BY <1>1, <1>6
  <2>2. Is(g)
    BY <1>1, <1>6, <1>7, <2>1
  <2> HIDE DEF Is
  <2> QED
    BY <2>2
<1> HIDE DEF s
<1>9. s[0] = 0 /\ \A k \in 1..DIGIT_BITS : s[k] = s[k - 1] + Bit(k)
  BY <1>1, <1>8
<1>10. \A k \in 0..DIGIT_BITS : s[k] \in Nat
  <2> HIDE DEF Is
  <2>1. Takes(s, 0, Nat, step, DIGIT_BITS)
    BY <1>7, <1>9 DEF Takes
  <2> QED
    BY <1>1, <1>4, <2>1, StaysIn
<1>11. s \in [0..DIGIT_BITS -> Nat]
  <2>1. s = [k \in 0..DIGIT_BITS |-> s[k]]
    BY <1>8
  <2> QED
    BY <1>10, <2>1
<1> HIDE DEF Is
<1> QED
  BY <1>3, <1>9, <1>11 DEF Bit

-----------------------------------------------------------------------------
(* Digits and their bits.                                                  *)

LEMMA Divided ==
    ASSUME NEW d \in Nat, NEW p \in Nat \ {0}
    PROVE  d \div p \in Nat /\ d % p \in 0..p - 1 /\ d = (d \div p) * p + (d % p)
OBVIOUS

LEMMA Quotient ==
    ASSUME NEW q \in Nat, NEW p \in Nat \ {0}, NEW r \in 0..p - 1
    PROVE  (q * p + r) \div p = q /\ (q * p + r) % p = r
OBVIOUS

LEMMA TopBit ==
    ASSUME NEW p \in Nat \ {0}, NEW x \in 0..p - 1
    PROVE  (p + x) \div p = 1 /\ x \div p = 0
<1>1. p + x = 1 * p + x /\ x = 0 * p + x
  OBVIOUS
<1> QED
  BY <1>1, Quotient

\* One bit more of a number.
LEMMA BitMore ==
    ASSUME NEW d \in Nat, NEW p \in Nat \ {0}
    PROVE  d % (2 * p) = (d % p) + (IF (d \div p) % 2 = 1 THEN p ELSE 0)
<1> DEFINE q == d \div p
           r == d % p
           h == q \div 2
           c == q % 2
<1>1. q \in Nat /\ r \in 0..p - 1 /\ d = q * p + r
  BY Divided
<1> HIDE DEF q, r
<1>2. h \in Nat /\ c \in 0..1 /\ q = h * 2 + c
  BY <1>1
<1> HIDE DEF h, c
<1>3. 2 * p \in Nat \ {0}
  OBVIOUS
<1>4. CASE c = 0
  <2>1. q * p = h * (2 * p)
    BY <1>1, <1>2, <1>4
  <2>2. r \in 0..(2 * p) - 1
    BY <1>1
  <2>3. d % (2 * p) = r
    BY <1>1, <1>2, <1>3, <2>1, <2>2, Quotient
  <2> QED
    BY <1>4, <2>3 DEF c, q, r
<1>5. CASE c = 1
  <2>1. q * p = h * (2 * p) + p
    BY <1>1, <1>2, <1>5
  <2>2. r + p \in 0..(2 * p) - 1
    BY <1>1
  <2>3. d = h * (2 * p) + (r + p)
    BY <1>1, <1>2, <2>1
  <2>4. d % (2 * p) = r + p
    BY <1>2, <1>3, <2>2, <2>3, Quotient
  <2> QED
    BY <1>5, <2>4 DEF c, q, r
<1> QED
  BY <1>2, <1>4, <1>5

\* A higher bit leaves a lower one alone.
LEMMA BitApart ==
    ASSUME NEW x \in Nat, NEW b \in Nat, NEW k \in Nat, b < k
    PROVE  ((x + 2^k) \div 2^b) % 2 = (x \div 2^b) % 2
<1> DEFINE m == 2^b
           e == 2^(k - b - 1)
           q == x \div m
           r == x % m
<1>1. k - b - 1 \in Nat /\ (k - b - 1) + 1 = k - b /\ k - b \in Nat /\ b + (k - b) = k
  OBVIOUS
<1>2. m \in Nat \ {0} /\ e \in Nat /\ 2^(k - b) = 2 * e
  BY <1>1, PowerSum, PowerStep
<1>3. 2^k = m * 2^(k - b)
  <2>1. \A i \in Nat : \A j \in Nat : 2^(i + j) = 2^i * 2^j
    BY PowerSum
  <2> QED
    BY <1>1, <2>1
<1> HIDE DEF m, e
<1>4. q \in Nat /\ r \in 0..m - 1 /\ x = q * m + r
  BY <1>2, Divided
<1> HIDE DEF q, r
<1>5. x + 2^k = (q + 2 * e) * m + r
  BY <1>2, <1>3, <1>4
<1>6. q + 2 * e \in Nat
  BY <1>2, <1>4
<1>7. (x + 2^k) \div m = q + 2 * e
  BY <1>2, <1>4, <1>5, <1>6, Quotient
<1>8. (q + 2 * e) % 2 = q % 2
  BY <1>2, <1>4
<1> QED
  BY <1>7, <1>8 DEF m, q

\* The bits of a digit make the digit.
LEMMA DigitOfBits ==
    ASSUME NEW d \in Digits, NEW w, NEW n, \A b \in 0..DIGIT_BITS - 1 : <<n, b>> \in w <=> b \in BitsOf(d)
    PROVE  DigitAt(w, n) = d
<1>1. DIGIT_BITS \in Nat /\ d \in Nat /\ d < 2^DIGIT_BITS
  <2>1. DIGIT_BITS \in Nat
    BY SizesAssumption
  <2>2. 2^DIGIT_BITS \in Nat
    BY <2>1, PowerSum
  <2> QED
    BY <2>1, <2>2 DEF Digits
<1>2. PICK s \in [0..DIGIT_BITS -> Nat] :
          /\ s[0] = 0 /\ DigitAt(w, n) = s[DIGIT_BITS]
          /\ \A k \in 1..DIGIT_BITS :
                 s[k] = s[k - 1] + (IF <<n, k - 1>> \in w THEN 2^(k - 1) ELSE 0)
  BY DigitSteps
<1> DEFINE S == {k \in Nat : s[k] = d % 2^k}
<1>3. 0 \in S
  <2>1. 2^0 = 1 /\ d % 1 = 0
    BY <1>1
  <2> QED
    BY <1>2, <2>1
<1>4. ASSUME NEW k \in 1..DIGIT_BITS, k - 1 \in S
      PROVE  k \in S
  <2> DEFINE p == 2^(k - 1)
  <2>1. k - 1 \in Nat /\ (k - 1) + 1 = k /\ k - 1 \in 0..DIGIT_BITS - 1
    BY <1>1
  <2>2. p \in Nat \ {0} /\ 2^k = 2 * p
    <3>1. \A i \in Nat : 2^i \in Nat \ {0} /\ 2^(i + 1) = 2 * 2^i
      BY PowerSum, PowerStep
    <3> QED
      BY <2>1, <3>1
  <2>3. s[k - 1] = d % p
    BY <1>4
  <2>4. <<n, k - 1>> \in w <=> (d \div p) % 2 = 1
    BY <2>1 DEF BitsOf
  <2>5. s[k] = s[k - 1] + (IF <<n, k - 1>> \in w THEN p ELSE 0)
    BY <1>2
  <2> HIDE DEF p
  <2>6. d % (2 * p) = (d % p) + (IF (d \div p) % 2 = 1 THEN p ELSE 0)
    BY <1>1, <2>2, BitMore
  <2> QED
    BY <2>2, <2>3, <2>4, <2>5, <2>6
<1>5. DIGIT_BITS \in S
  <2>1. \A k \in 0..DIGIT_BITS : k \in S
    <3> HIDE DEF S
    <3> QED
      BY <1>1, <1>3, <1>4, InductionUpTo
  <2> HIDE DEF S
  <2> QED
    BY <1>1, <2>1
<1>6. d % 2^DIGIT_BITS = d
  <2>1. 2^DIGIT_BITS \in Nat
    BY <1>1, PowerSum
  <2> QED
    BY <1>1, <2>1
<1> QED
  BY <1>2, <1>5, <1>6

\* The digit at a place has the bits at that place.
LEMMA BitsOfDigit ==
    ASSUME NEW w, NEW n
    PROVE  /\ DigitAt(w, n) \in Digits
           /\ BitsOf(DigitAt(w, n)) = {b \in 0..DIGIT_BITS - 1 : <<n, b>> \in w}
<1>1. DIGIT_BITS \in Nat
  BY SizesAssumption
<1>2. PICK s \in [0..DIGIT_BITS -> Nat] :
          /\ s[0] = 0 /\ DigitAt(w, n) = s[DIGIT_BITS]
          /\ \A k \in 1..DIGIT_BITS :
                 s[k] = s[k - 1] + (IF <<n, k - 1>> \in w THEN 2^(k - 1) ELSE 0)
  BY DigitSteps
<1> DEFINE S == {k \in Nat : /\ s[k] < 2^k
                             /\ \A b \in 0..k - 1 : (s[k] \div 2^b) % 2 = 1 <=> <<n, b>> \in w}
<1>3. 0 \in S
  <2>1. 2^0 = 1
    OBVIOUS
  <2> QED
    BY <1>2, <2>1
<1>4. ASSUME NEW k \in 1..DIGIT_BITS, k - 1 \in S
      PROVE  k \in S
  <2> DEFINE p == 2^(k - 1)
             x == s[k - 1]
  <2>1. k - 1 \in Nat /\ (k - 1) + 1 = k /\ k - 1 \in 0..DIGIT_BITS /\ k \in Nat
    BY <1>1
  <2>2. p \in Nat \ {0} /\ 2^k = 2 * p
    <3>1. \A i \in Nat : 2^i \in Nat \ {0} /\ 2^(i + 1) = 2 * 2^i
      BY PowerSum, PowerStep
    <3> QED
      BY <2>1, <3>1
  <2>3. x \in Nat /\ x < p /\ \A b \in 0..(k - 1) - 1 : (x \div 2^b) % 2 = 1 <=> <<n, b>> \in w
    BY <1>2, <1>4, <2>1
  <2>4. s[k] = x + (IF <<n, k - 1>> \in w THEN p ELSE 0)
    BY <1>2
  <2> HIDE DEF x
  <2>5. s[k] < 2^k
    <3> HIDE DEF p
    <3> QED
      BY <2>2, <2>3, <2>4
  <2>6. ASSUME NEW b \in 0..k - 1, b < k - 1
        PROVE  (s[k] \div 2^b) % 2 = 1 <=> <<n, b>> \in w
    <3>1. b \in Nat /\ b \in 0..(k - 1) - 1
      BY <2>1, <2>6
    <3>2. ((x + 2^(k - 1)) \div 2^b) % 2 = (x \div 2^b) % 2
      BY <2>1, <2>3, <2>6, <3>1, BitApart
    <3>3. s[k] = x + 2^(k - 1) \/ s[k] = x
      BY <2>3, <2>4
    <3> QED
      BY <2>3, <3>1, <3>2, <3>3
  <2>7. (s[k] \div p) % 2 = 1 <=> <<n, k - 1>> \in w
    <3> HIDE DEF p
    <3>1. CASE <<n, k - 1>> \in w
      <4>1. s[k] = p + x /\ x \in 0..p - 1
        BY <2>2, <2>3, <2>4, <3>1
      <4>2. (p + x) \div p = 1
        BY <2>2, <4>1, TopBit
      <4> QED
        BY <3>1, <4>1, <4>2
    <3>2. CASE <<n, k - 1>> \notin w
      <4>1. s[k] = x /\ x \in 0..p - 1
        BY <2>2, <2>3, <2>4, <3>2
      <4>2. x \div p = 0
        BY <2>2, <4>1, TopBit
      <4> QED
        BY <3>2, <4>1, <4>2
    <3> QED
      BY <3>1, <3>2
  <2>8. \A b \in 0..k - 1 : (s[k] \div 2^b) % 2 = 1 <=> <<n, b>> \in w
    <3>1. \A b \in 0..k - 1 : b < k - 1 \/ b = k - 1
      BY <2>1
    <3> QED
      BY <2>6, <2>7, <3>1
  <2> QED
    BY <2>1, <2>5, <2>8
<1>5. DIGIT_BITS \in S
  <2>1. \A k \in 0..DIGIT_BITS : k \in S
    <3> HIDE DEF S
    <3> QED
      BY <1>1, <1>3, <1>4, InductionUpTo
  <2> HIDE DEF S
  <2> QED
    BY <1>1, <2>1
<1>6. s[DIGIT_BITS] \in Nat /\ 2^DIGIT_BITS \in Nat
  BY <1>1, <1>2, PowerSum
<1>7. DigitAt(w, n) \in Digits
  BY <1>2, <1>5, <1>6 DEF Digits
<1> QED
  BY <1>2, <1>5, <1>7 DEF BitsOf

-----------------------------------------------------------------------------
(* What a prefix is parsed to.                                             *)

\* Some place of a text is the first that is kept, and some is the last.
LEMMA Outermost ==
    ASSUME NEW n \in Nat, NEW S \in SUBSET (1..n), S # {}
    PROVE  /\ \E i \in S : \A j \in S : i <= j
           /\ \E i \in S : \A j \in S : j <= i
<1>1. \E i \in S : \A j \in S : i <= j
  <2>1. S \in SUBSET Nat
    OBVIOUS
  <2> QED
    BY <2>1, Least
<1>2. \E i \in S : \A j \in S : j <= i
  <2> DEFINE T == {n - i : i \in S}
  <2>1. T \in SUBSET Nat /\ T # {}
    <3>1. \A i \in S : n - i \in Nat
      OBVIOUS
    <3>2. PICK i \in S : TRUE
      OBVIOUS
    <3>3. n - i \in T
      OBVIOUS
    <3> QED
      BY <3>1, <3>3
  <2>2. PICK m \in T : \A k \in T : m <= k
    <3> HIDE DEF T
    <3> QED
      BY <2>1, Least
  <2>3. PICK i \in S : m = n - i
    BY <2>2
  <2>4. \A j \in S : m <= n - j
    BY <2>2
  <2>5. \A j \in S : j <= i
    BY <2>3, <2>4
  <2> QED
    BY <2>5
<1> QED
  BY <1>1, <1>2

\* What is left of a text is a sequence of its characters.
LEMMA HexIsText ==
    ASSUME NEW text \in Seq(Characters)
    PROVE  hex(text) \in Seq(Characters)
<1>1. \A s \in Seq(Characters) : \A i \in 1..Len(s) + 1 : \A j \in 0..Len(s) :
          SubSeq(s, i, j) \in Seq(Characters)
  <2> TAKE s \in Seq(Characters)
  <2> TAKE i \in 1..Len(s) + 1
  <2> TAKE j \in 0..Len(s)
  <2>1. Len(s) \in Nat /\ i \in Int /\ j \in Int
    OBVIOUS
  <2>2. \A k \in i..j : s[k] \in Characters
    BY <2>1
  <2> QED
    BY <2>1, <2>2, SubSeqProperties
<1>2. trim(text) \in Seq(Characters)
  <2> DEFINE kept == {i \in DOMAIN text : text[i] # Space}
             first == CHOOSE i \in kept : \A j \in kept : i <= j
             last == CHOOSE i \in kept : \A j \in kept : j <= i
  <2>1. CASE kept = {}
    BY <2>1 DEF trim
  <2>2. CASE kept # {}
    <3>1. Len(text) \in Nat /\ kept \subseteq 1..Len(text)
      OBVIOUS
    <3>2. trim(text) = SubSeq(text, first, last)
      BY <2>2 DEF trim
    <3> HIDE DEF kept
    <3>3. first \in kept /\ last \in kept
      BY <2>2, <3>1, Outermost
    <3> HIDE DEF first, last
    <3>4. first \in 1..Len(text) + 1 /\ last \in 0..Len(text)
      BY <3>1, <3>3
    <3> QED
      BY <1>1, <3>2, <3>4
  <2> QED
    BY <2>1, <2>2
<1>3. CASE Len(trim(text)) >= 2 /\ trim(text)[1] = 0 /\ trim(text)[2] = LetterX
  <2>1. hex(text) = SubSeq(trim(text), 3, Len(trim(text)))
    BY <1>3 DEF hex
  <2>2. Len(trim(text)) \in Nat /\ 3 \in 1..Len(trim(text)) + 1 /\ Len(trim(text)) \in 0..Len(trim(text))
    BY <1>2, <1>3
  <2> QED
    BY <1>1, <1>2, <2>1, <2>2
<1>4. CASE ~ (Len(trim(text)) >= 2 /\ trim(text)[1] = 0 /\ trim(text)[2] = LetterX)
  BY <1>2, <1>4 DEF hex
<1> QED
  BY <1>3, <1>4

LEMMA HexDigits ==
    ASSUME NEW text \in Seq(Characters), Parses(text)
    PROVE  Len(hex(text)) \in 1..KEY_DIGITS /\ hex(text) \in [1..Len(hex(text)) -> Digits]
<1>1. hex(text) \in Seq(Characters)
  BY HexIsText
<1>2. hex(text) # <<>> /\ Len(hex(text)) <= KEY_DIGITS /\ \A i \in DOMAIN hex(text) : hex(text)[i] \in Digits
  BY DEF Parses
<1> QED
  BY <1>1, <1>2, Sizes

BitsAt(w, n) == {b \in 0..DIGIT_BITS - 1 : <<n, b>> \in w}

\* After k digits they fill the k lowest places of the value.
LEMMA ValueBits ==
    ASSUME NEW l \in 0..KEY_DIGITS, NEW h \in [1..l -> Digits]
    PROVE  /\ ValueOf(h) \in KeyIds
           /\ \A n \in KEY_DIGITS - l..KEY_DIGITS - 1 :
                  BitsAt(ValueOf(h), n) = BitsOf(h[n - (KEY_DIGITS - l) + 1])
<1>1. l \in Nat /\ KEY_DIGITS \in Nat \ {0} /\ DIGIT_BITS \in Nat \ {0}
  BY Sizes
<1>2. PICK v \in [0..l -> KeyIds] :
          /\ v[0] = {} /\ ValueOf(h) = v[l]
          /\ \A k \in 1..l : v[k] = ShiftLeft(v[k - 1], 1) \cup Nibble(h[k])
  BY <1>1, ValueSteps
<1> DEFINE Filled(k) == \A n \in KEY_DIGITS - k..KEY_DIGITS - 1 :
                            BitsAt(v[k], n) = BitsOf(h[n - (KEY_DIGITS - k) + 1])
           S == {k \in Nat : Filled(k)}
<1>3. 0 \in S
  BY <1>1
<1>4. ASSUME NEW k \in 1..l, k - 1 \in S
      PROVE  k \in S
  <2>1. v[k] = ShiftLeft(v[k - 1], 1) \cup Nibble(h[k])
    BY <1>2
  <2>2. ASSUME NEW n \in KEY_DIGITS - k..KEY_DIGITS - 1
        PROVE  BitsAt(v[k], n) = BitsOf(h[n - (KEY_DIGITS - k) + 1])
    <3>1. n \in 0..KEY_DIGITS - 1 /\ k \in Nat
      BY <1>1
    <3>2. CASE n = KEY_DIGITS - 1
      <4>1. ASSUME NEW b \in 0..DIGIT_BITS - 1
            PROVE  <<n, b>> \in v[k] <=> b \in BitsOf(h[k])
        <5>1. v[k - 1] \in KeyIds
          BY <1>1, <1>2
        <5>2. <<n + 1, b>> \notin v[k - 1]
          BY <1>1, <3>2, <5>1 DEF KeyIds, Words
        <5>3. <<n, b>> \notin ShiftLeft(v[k - 1], 1)
          BY <5>2 DEF ShiftLeft
        <5>4. <<n, b>> \in Nibble(h[k]) <=> b \in BitsOf(h[k])
          BY <3>2 DEF Nibble
        <5> QED
          BY <2>1, <5>3, <5>4
      <4>2. n - (KEY_DIGITS - k) + 1 = k
        BY <1>1, <3>2
      <4> QED
        BY <4>1, <4>2 DEF BitsAt, BitsOf
    <3>3. CASE n # KEY_DIGITS - 1
      <4>1. n + 1 \in KEY_DIGITS - (k - 1)..KEY_DIGITS - 1
        BY <1>1, <3>1, <3>3
      <4>2. BitsAt(v[k - 1], n + 1) = BitsOf(h[(n + 1) - (KEY_DIGITS - (k - 1)) + 1])
        BY <1>4, <4>1
      <4>3. (n + 1) - (KEY_DIGITS - (k - 1)) + 1 = n - (KEY_DIGITS - k) + 1
        BY <1>1, <3>1
      <4>4. ASSUME NEW b \in 0..DIGIT_BITS - 1
            PROVE  <<n, b>> \in v[k] <=> <<n + 1, b>> \in v[k - 1]
        <5>1. <<n, b>> \notin Nibble(h[k])
          BY <3>3 DEF Nibble
        <5>2. <<n, b>> \in ShiftLeft(v[k - 1], 1) <=> <<n + 1, b>> \in v[k - 1]
          BY <3>1 DEF ShiftLeft
        <5> QED
          BY <2>1, <5>1, <5>2
      <4>5. BitsAt(v[k], n) = BitsAt(v[k - 1], n + 1)
        BY <4>4 DEF BitsAt
      <4> QED
        BY <4>2, <4>3, <4>5
    <3> QED
      BY <3>2, <3>3
  <2> QED
    BY <2>2
<1>5. \A k \in 0..l : k \in S
  <2> HIDE DEF S
  <2> QED
    BY <1>1, <1>3, <1>4, InductionUpTo
<1>6. Filled(l)
  BY <1>1, <1>5
<1> QED
  BY <1>1, <1>2, <1>6

\* p stands for the digits h: they are its highest digits, and what its mask
\* selects.
Stands(p, h) ==
    /\ p.nibbles \in 1..KEY_DIGITS /\ h \in [1..p.nibbles -> Digits]
    /\ p.aligned_value \in KeyIds
    /\ \A n \in 0..p.nibbles - 1 : BitsAt(p.aligned_value, n) = BitsOf(h[n + 1])
    /\ p.mask = {q \in Places(KEY_DIGITS) : q[1] < p.nibbles}

LEMMA ParsedStands ==
    ASSUME NEW text \in Seq(Characters), Parses(text)
    PROVE  Stands(parse(text), hex(text))
<1> DEFINE h == hex(text)
           l == Len(h)
           p == parse(text)
           unused == KEY_DIGITS - l
<1>1. l \in 1..KEY_DIGITS /\ h \in [1..l -> Digits] /\ KEY_DIGITS \in Nat
  BY HexDigits, Sizes
<1>2. /\ p.nibbles = l
      /\ p.aligned_value = ShiftLeft(ValueOf(h), unused)
      /\ p.mask = ShiftLeft((0..KEY_DIGITS - 1) \X (0..DIGIT_BITS - 1), unused)
  BY DEF parse, Aligned
<1> HIDE DEF h, p
<1>3. /\ l \in 0..KEY_DIGITS
      /\ \A n \in KEY_DIGITS - l..KEY_DIGITS - 1 :
             BitsAt(ValueOf(h), n) = BitsOf(h[n - (KEY_DIGITS - l) + 1])
  <2> HIDE DEF l
  <2>1. l \in 0..KEY_DIGITS
    BY <1>1
  <2> QED
    BY <1>1, <2>1, ValueBits
<1> HIDE DEF l
<1>4. p.aligned_value \in KeyIds
  BY <1>2 DEF ShiftLeft, KeyIds, Words
<1>5. ASSUME NEW n \in 0..l - 1
      PROVE  BitsAt(p.aligned_value, n) = BitsOf(h[n + 1])
  <2>1. n \in 0..KEY_DIGITS - 1 /\ n + unused \in KEY_DIGITS - l..KEY_DIGITS - 1
    BY <1>1
  <2>2. (n + unused) - (KEY_DIGITS - l) + 1 = n + 1
    BY <1>1
  <2>3. BitsAt(ValueOf(h), n + unused) = BitsOf(h[n + 1])
    BY <1>3, <2>1, <2>2
  <2>4. \A b \in 0..DIGIT_BITS - 1 : <<n, b>> \in p.aligned_value <=> <<n + unused, b>> \in ValueOf(h)
    BY <1>2, <2>1 DEF ShiftLeft
  <2> QED
    BY <2>3, <2>4 DEF BitsAt
<1>6. p.mask = {q \in Places(KEY_DIGITS) : q[1] < l}
  <2>1. ASSUME NEW n \in 0..KEY_DIGITS - 1, NEW b \in 0..DIGIT_BITS - 1
        PROVE  <<n, b>> \in p.mask <=> n < l
    BY <1>1, <1>2, <2>1 DEF ShiftLeft
  <2>2. p.mask \subseteq Places(KEY_DIGITS)
    BY <1>2 DEF ShiftLeft, Places
  <2>3. \A q \in Places(KEY_DIGITS) : q \in p.mask <=> q[1] < l
    BY <2>1 DEF Places
  <2> QED
    BY <2>2, <2>3
<1> QED
  BY <1>1, <1>2, <1>4, <1>5, <1>6 DEF Stands, h, p

LEMMA ShownDigits ==
    ASSUME NEW p, NEW h, Stands(p, h)
    PROVE  normalized(p) = h
<1>1. p.nibbles \in Nat /\ h \in [1..p.nibbles -> Digits]
  BY Sizes DEF Stands
<1>2. ASSUME NEW n \in 1..p.nibbles
      PROVE  DigitAt(p.aligned_value, n - 1) = h[n]
  <2>1. n - 1 \in 0..p.nibbles - 1 /\ (n - 1) + 1 = n /\ h[n] \in Digits
    BY <1>1
  <2>2. BitsAt(p.aligned_value, n - 1) = BitsOf(h[n])
    BY <2>1 DEF Stands
  <2>3. \A b \in 0..DIGIT_BITS - 1 : <<n - 1, b>> \in p.aligned_value <=> b \in BitsOf(h[n])
    BY <2>2 DEF BitsAt
  <2> QED
    BY <2>1, <2>3, DigitOfBits
<1> QED
  BY <1>1, <1>2 DEF normalized

\* The places below n at which a word has not the digit of h.
WrongPlaces(h, n, w) == {m \in 0..n - 1 : BitsAt(w, m) # BitsOf(h[m + 1])}

LEMMA ErrorsAreWrongPlaces ==
    ASSUME NEW p, NEW h, Stands(p, h), NEW id \in KeyIds
    PROVE  /\ IsFiniteSet(WrongPlaces(h, p.nibbles, id))
           /\ error_count(p, id) = Cardinality(WrongPlaces(h, p.nibbles, id))
<1> DEFINE diff == Diff(id, p.aligned_value) \cap p.mask
           wrong == WrongPlaces(h, p.nibbles, id)
           digits == NonzeroDigits(diff, KEY_DIGITS)
           place == [m \in wrong |-> <<m, 0>>]
<1>1. p.nibbles \in 1..KEY_DIGITS /\ KEY_DIGITS \in Nat \ {0} /\ DIGIT_BITS \in Nat \ {0}
  BY Sizes DEF Stands
<1>2. diff \in KeyIds
  BY DEF Stands, Diff, KeyIds, Words
<1>3. error_count(p, id) = Cardinality(digits)
  <2>1. KEY_DIGITS \in Nat /\ diff \in Words(KEY_DIGITS)
    BY <1>1, <1>2 DEF KeyIds
  <2>2. error_count(p, id) = Cardinality(Collapse(diff, KEY_DIGITS))
    BY DEF error_count
  <2> HIDE DEF diff
  <2> QED
    BY <2>1, <2>2, CollapseDef
<1>4. \A q \in diff : q[1] < p.nibbles
  BY DEF Stands
<1>5. ASSUME NEW m \in 0..p.nibbles - 1
      PROVE  (\E b \in 0..DIGIT_BITS - 1 : <<m, b>> \in diff) <=> m \in wrong
  <2>1. ASSUME NEW b \in 0..DIGIT_BITS - 1
        PROVE  <<m, b>> \in diff <=> ~ (<<m, b>> \in id <=> <<m, b>> \in p.aligned_value)
    <3>1. <<m, b>> \in p.mask
      BY <1>1 DEF Stands, Places
    <3> QED
      BY <3>1 DEF Diff
  <2>2. BitsAt(p.aligned_value, m) = BitsOf(h[m + 1])
    BY DEF Stands
  <2>3. BitsAt(id, m) = BitsAt(p.aligned_value, m)
            <=> \A b \in 0..DIGIT_BITS - 1 : <<m, b>> \in id <=> <<m, b>> \in p.aligned_value
    BY DEF BitsAt
  <2> HIDE DEF diff
  <2> QED
    BY <2>1, <2>2, <2>3 DEF WrongPlaces
<1>6. \A m \in wrong : m \in 0..p.nibbles - 1
  BY DEF WrongPlaces
<1> HIDE DEF diff, wrong
<1>7. \A q \in digits : q = <<q[1], 0>> /\ q[1] \in wrong
  <2> TAKE q \in digits
  <2>1. q \in Places(KEY_DIGITS) /\ q[2] = 0 /\ \E b \in 0..DIGIT_BITS - 1 : <<q[1], b>> \in diff
    BY DEF NonzeroDigits
  <2>2. q = <<q[1], 0>> /\ q[1] \in 0..KEY_DIGITS - 1
    BY <2>1 DEF Places
  <2>3. q[1] < p.nibbles
    BY <1>4, <2>1
  <2>4. q[1] \in 0..p.nibbles - 1
    BY <1>1, <2>2, <2>3
  <2> QED
    BY <1>5, <2>1, <2>2, <2>4
<1>8. \A m \in wrong : <<m, 0>> \in digits
  <2> TAKE m \in wrong
  <2>1. m \in 0..KEY_DIGITS - 1 /\ \E b \in 0..DIGIT_BITS - 1 : <<m, b>> \in diff
    BY <1>1, <1>5, <1>6
  <2> QED
    BY <1>1, <2>1 DEF NonzeroDigits, Places
<1> HIDE DEF digits
<1>9. place \in Bijection(wrong, digits)
  <2>1. place \in [wrong -> digits]
    BY <1>8
  <2>2. \A m, k \in wrong : place[m] = place[k] => m = k
    OBVIOUS
  <2>3. \A q \in digits : \E m \in wrong : place[m] = q
    BY <1>7
  <2> HIDE DEF place
  <2> QED
    BY <2>1, <2>2, <2>3, Fun_IsBij
<1>10. IsFiniteSet(wrong)
  <2>1. IsFiniteSet(0..p.nibbles - 1) /\ wrong \in SUBSET (0..p.nibbles - 1)
    BY <1>1, <1>6, FS_Interval
  <2> QED
    BY <2>1, FS_Subset
<1>11. Cardinality(digits) = Cardinality(wrong)
  <2>1. ExistsBijection(wrong, digits)
    BY <1>9 DEF ExistsBijection
  <2> QED
    BY <1>10, <2>1, FS_Bijection
<1> QED
  BY <1>3, <1>10, <1>11 DEF wrong

LEMMA WrongDigitsCounted ==
    ASSUME NEW p, NEW h, Stands(p, h), NEW id \in KeyIds
    PROVE  error_count(p, id) = Cardinality({n \in DOMAIN h : h[n] # DigitAt(id, n - 1)})
<1> DEFINE wrong == WrongPlaces(h, p.nibbles, id)
           digits == {n \in DOMAIN h : h[n] # DigitAt(id, n - 1)}
           up == [m \in wrong |-> m + 1]
<1>1. p.nibbles \in Nat /\ h \in [1..p.nibbles -> Digits]
  BY Sizes DEF Stands
<1>2. ASSUME NEW n \in 1..p.nibbles
      PROVE  n - 1 \in wrong <=> n \in digits
  <2>1. n - 1 \in 0..p.nibbles - 1 /\ (n - 1) + 1 = n /\ h[n] \in Digits
    BY <1>1
  <2>2. BitsOf(DigitAt(id, n - 1)) = BitsAt(id, n - 1)
    BY BitsOfDigit DEF BitsAt
  <2>3. BitsAt(id, n - 1) = BitsOf(h[n]) => DigitAt(id, n - 1) = h[n]
    <3>1. BitsAt(id, n - 1) = BitsOf(h[n])
            => \A b \in 0..DIGIT_BITS - 1 : <<n - 1, b>> \in id <=> b \in BitsOf(h[n])
      BY DEF BitsAt
    <3> QED
      BY <2>1, <3>1, DigitOfBits
  <2>4. n - 1 \in wrong <=> BitsAt(id, n - 1) # BitsOf(h[n])
    BY <2>1 DEF WrongPlaces
  <2> QED
    BY <1>1, <2>2, <2>3, <2>4
<1>3. wrong \subseteq 0..p.nibbles - 1 /\ digits \subseteq 1..p.nibbles
  BY <1>1 DEF WrongPlaces
<1> HIDE DEF wrong, digits
<1>4. up \in Bijection(wrong, digits)
  <2>1. up \in [wrong -> digits]
    <3>1. ASSUME NEW m \in wrong
          PROVE  m + 1 \in digits
      <4>1. m + 1 \in 1..p.nibbles /\ (m + 1) - 1 = m
        BY <1>1, <1>3
      <4> QED
        BY <1>2, <4>1
    <3> QED
      BY <3>1
  <2>2. \A m, k \in wrong : up[m] = up[k] => m = k
    BY <1>3
  <2>3. ASSUME NEW n \in digits
        PROVE  \E m \in wrong : up[m] = n
    <3>1. n \in 1..p.nibbles /\ (n - 1) + 1 = n
      BY <1>3
    <3>2. n - 1 \in wrong
      BY <1>2, <3>1
    <3> QED
      BY <3>1, <3>2
  <2> HIDE DEF up
  <2> QED
    BY <2>1, <2>2, <2>3, Fun_IsBij
<1>5. IsFiniteSet(wrong) /\ error_count(p, id) = Cardinality(wrong)
  BY ErrorsAreWrongPlaces DEF wrong
<1>6. Cardinality(digits) = Cardinality(wrong)
  <2>1. ExistsBijection(wrong, digits)
    BY <1>4 DEF ExistsBijection
  <2> QED
    BY <1>5, <2>1, FS_Bijection
<1> QED
  BY <1>5, <1>6 DEF digits

-----------------------------------------------------------------------------
(* The number of key IDs that match: what match_count computes in a step.  *)

MostErrors(p, max) == IF max < p.nibbles THEN max ELSE p.nibbles

LEMMA BinomSteps ==
    ASSUME NEW n \in Nat, NEW e \in Nat
    PROVE  LET binom == CHOOSE f : f = [k \in 0..e |-> IF k = 0 THEN 1 ELSE NextBinom(f[k - 1], n, k - 1)]
           IN  /\ binom \in [0..e -> Int] /\ binom[0] = 1
               /\ \A k \in 1..e : binom[k] = NextBinom(binom[k - 1], n, k - 1)
<1> DEFINE Is(f) == f = [k \in 0..e |-> IF k = 0 THEN 1 ELSE NextBinom(f[k - 1], n, k - 1)]
           step == [k \in Nat |-> [x \in Int |-> IF k = 0 THEN x ELSE NextBinom(x, n, k - 1)]]
           b == CHOOSE f : Is(f)
<1>1. \A x \in Int : \A k \in Nat \ {0} : NextBinom(x, n, k - 1) \in Int
  <2> TAKE x \in Int
  <2> TAKE k \in Nat \ {0}
  <2>1. x * (n - (k - 1)) \in Int /\ (k - 1) + 1 \in Nat \ {0}
    OBVIOUS
  <2>2. \A a \in Int : \A d \in Nat \ {0} : a \div d \in Int
    OBVIOUS
  <2> QED
    BY <2>1, <2>2 DEF NextBinom
<1>2. step \in [Nat -> [Int -> Int]]
  <2>1. \A k \in Nat : [x \in Int |-> IF k = 0 THEN x ELSE NextBinom(x, n, k - 1)] \in [Int -> Int]
    BY <1>1
  <2> QED
    BY <2>1
<1>3. PICK g : Upto(g, 1, Int, step, e)
  <2>1. 1 \in Int
    OBVIOUS
  <2> HIDE DEF step
  <2> QED
    BY <1>2, <2>1, Recursion
<1>4. g \in [0..e -> Int] /\ g[0] = 1 /\ \A k \in 1..e : g[k] = step[k][g[k - 1]]
  <2> HIDE DEF step
  <2> QED
    BY <1>3 DEF Upto
<1>5. \A k \in 1..e : \A x \in Int : step[k][x] = NextBinom(x, n, k - 1)
  OBVIOUS
<1> HIDE DEF step
<1>6. Is(b)
  <2>1. \A k \in 1..e : g[k] = NextBinom(g[k - 1], n, k - 1)
    <3>1. \A k \in 1..e : g[k - 1] \in Int
      BY <1>4
    <3> QED
      BY <1>4, <1>5, <3>1
  <2>2. Is(g)
    BY <1>4, <2>1
  <2> HIDE DEF Is
  <2> QED
    BY <2>2
<1> HIDE DEF b
<1>7. b[0] = 1 /\ \A k \in 1..e : b[k] = NextBinom(b[k - 1], n, k - 1)
  BY <1>6
<1>8. \A k \in 0..e : b[k] \in Int
  <2> HIDE DEF Is
  <2>1. Takes(b, 1, Int, step, e)
    BY <1>5, <1>7 DEF Takes
  <2>2. 1 \in Int
    OBVIOUS
  <2> QED
    BY <1>2, <2>1, <2>2, StaysIn
<1>9. b \in [0..e -> Int]
  <2>1. b = [k \in 0..e |-> b[k]]
    BY <1>6
  <2> QED
    BY <1>8, <2>1
<1> HIDE DEF Is
<1> QED
  BY <1>7, <1>9 DEF b, Is

LEMMA PowSteps ==
    ASSUME NEW e \in Nat
    PROVE  LET pow == CHOOSE f : f = [k \in 0..e |-> IF k = 0 THEN 1 ELSE f[k - 1] * (2^DIGIT_BITS - 1)]
           IN  /\ pow \in [0..e -> Nat] /\ pow[0] = 1
               /\ \A k \in 1..e : pow[k] = pow[k - 1] * (2^DIGIT_BITS - 1)
<1> DEFINE q == 2^DIGIT_BITS - 1
           Is(f) == f = [k \in 0..e |-> IF k = 0 THEN 1 ELSE f[k - 1] * (2^DIGIT_BITS - 1)]
           step == [k \in Nat |-> [x \in Nat |-> x * q]]
           b == CHOOSE f : Is(f)
<1>1. q \in Nat
  BY SizesAssumption, PowerSum
<1>2. \A x : x * (2^DIGIT_BITS - 1) = x * q
  OBVIOUS
<1> HIDE DEF q
<1>3. step \in [Nat -> [Nat -> Nat]]
  <2>1. [x \in Nat |-> x * q] \in [Nat -> Nat]
    BY <1>1
  <2> QED
    BY <2>1
<1>4. PICK g : Upto(g, 1, Nat, step, e)
  <2> HIDE DEF step
  <2> QED
    BY <1>3, Recursion
<1>5. g \in [0..e -> Nat] /\ g[0] = 1 /\ \A k \in 1..e : g[k] = step[k][g[k - 1]]
  <2> HIDE DEF step
  <2> QED
    BY <1>4 DEF Upto
<1>6. \A k \in 1..e : \A x \in Nat : step[k][x] = x * q
  OBVIOUS
<1> HIDE DEF step
<1>7. Is(b)
  <2>1. \A k \in 1..e : g[k] = g[k - 1] * (2^DIGIT_BITS - 1)
    <3>1. \A k \in 1..e : g[k - 1] \in Nat
      BY <1>5
    <3> QED
      BY <1>2, <1>5, <1>6, <3>1
  <2>2. Is(g)
    BY <1>5, <2>1
  <2> HIDE DEF Is
  <2> QED
    BY <2>2
<1> HIDE DEF b
<1>8. b[0] = 1 /\ \A k \in 1..e : b[k] = b[k - 1] * (2^DIGIT_BITS - 1)
  BY <1>7
<1>9. \A k \in 0..e : b[k] \in Nat
  <2> HIDE DEF Is
  <2>1. Takes(b, 1, Nat, step, e)
    BY <1>2, <1>6, <1>8 DEF Takes
  <2> QED
    BY <1>3, <2>1, StaysIn
<1>10. b \in [0..e -> Nat]
  <2>1. b = [k \in 0..e |-> b[k]]
    BY <1>7
  <2> QED
    BY <1>9, <2>1
<1> HIDE DEF Is
<1> QED
  BY <1>8, <1>10 DEF b, Is

LEMMA CountSteps ==
    ASSUME NEW p, p.nibbles \in Nat, NEW m \in Nat
    PROVE  \E b \in [0..MostErrors(p, m) -> Int] :
           \E pow \in [0..MostErrors(p, m) -> Nat] :
           \E c \in [0..MostErrors(p, m) -> Int] :
               /\ b[0] = 1
               /\ \A k \in 1..MostErrors(p, m) : b[k] = NextBinom(b[k - 1], p.nibbles, k - 1)
               /\ pow[0] = 1
               /\ \A k \in 1..MostErrors(p, m) : pow[k] = pow[k - 1] * (2^DIGIT_BITS - 1)
               /\ c[0] = 1
               /\ \A k \in 1..MostErrors(p, m) : c[k] = c[k - 1] + b[k] * pow[k]
               /\ match_count(p, m) = c[MostErrors(p, m)]
<1> DEFINE n == p.nibbles
           e == MostErrors(p, m)
           b == CHOOSE f : f = [k \in 0..e |-> IF k = 0 THEN 1 ELSE NextBinom(f[k - 1], n, k - 1)]
           pow == CHOOSE f : f = [k \in 0..e |-> IF k = 0 THEN 1 ELSE f[k - 1] * (2^DIGIT_BITS - 1)]
           Is(f) == f = [k \in 0..e |-> IF k = 0 THEN 1 ELSE f[k - 1] + b[k] * pow[k]]
           c == CHOOSE f : Is(f)
<1>1. match_count(p, m) = c[e]
  BY Zenon DEF match_count, MostErrors
<1>2. e \in Nat
  BY DEF MostErrors
<1> HIDE DEF e, n
<1>3. /\ b \in [0..e -> Int] /\ b[0] = 1
      /\ \A k \in 1..e : b[k] = NextBinom(b[k - 1], n, k - 1)
  BY <1>2, BinomSteps DEF n
<1>4. /\ pow \in [0..e -> Nat] /\ pow[0] = 1
      /\ \A k \in 1..e : pow[k] = pow[k - 1] * (2^DIGIT_BITS - 1)
  BY <1>2, PowSteps
<1> HIDE DEF b, pow
<1> DEFINE add == [k \in 0..e |-> b[k] * pow[k]]
           step == [k \in Nat |-> [x \in Int |-> x + (IF k \in 0..e THEN add[k] ELSE 0)]]
<1>5. add \in [0..e -> Int] /\ \A k \in 0..e : add[k] = b[k] * pow[k]
  BY <1>3, <1>4
<1> HIDE DEF add
<1>6. step \in [Nat -> [Int -> Int]]
  <2>1. \A k \in Nat : [x \in Int |-> x + (IF k \in 0..e THEN add[k] ELSE 0)] \in [Int -> Int]
    BY <1>5
  <2> QED
    BY <2>1
<1>7. PICK g : Upto(g, 1, Int, step, e)
  <2>1. 1 \in Int
    OBVIOUS
  <2> HIDE DEF step
  <2> QED
    BY <1>2, <1>6, <2>1, Recursion
<1>8. g \in [0..e -> Int] /\ g[0] = 1 /\ \A k \in 1..e : g[k] = step[k][g[k - 1]]
  <2> HIDE DEF step
  <2> QED
    BY <1>7 DEF Upto
<1>9. \A k \in 1..e : \A x \in Int : step[k][x] = x + add[k]
  BY <1>2
<1> HIDE DEF step
<1>10. Is(c)
  <2>1. ASSUME NEW k \in 1..e
        PROVE  g[k] = g[k - 1] + b[k] * pow[k]
    <3>1. g[k - 1] \in Int /\ k \in 0..e
      BY <1>2, <1>8
    <3>2. g[k] = g[k - 1] + add[k]
      BY <1>8, <1>9, <3>1
    <3> QED
      BY <1>5, <3>1, <3>2
  <2>2. Is(g)
    BY <1>2, <1>8, <2>1
  <2> HIDE DEF Is
  <2> QED
    BY <2>2
<1> HIDE DEF c
<1>11. c[0] = 1 /\ \A k \in 1..e : c[k] = c[k - 1] + b[k] * pow[k]
  BY <1>2, <1>10
<1>12. \A k \in 0..e : c[k] \in Int
  <2> HIDE DEF Is
  <2>1. ASSUME NEW k \in 1..e, c[k - 1] \in Int
        PROVE  c[k] = step[k][c[k - 1]]
    <3>1. k \in 0..e /\ c[k] = c[k - 1] + b[k] * pow[k]
      BY <1>2, <1>11
    <3>2. add[k] = b[k] * pow[k]
      BY <1>5, <3>1
    <3>3. c[k] = c[k - 1] + add[k]
      BY <3>1, <3>2
    <3> QED
      BY <1>9, <2>1, <3>3
  <2>2. Takes(c, 1, Int, step, e)
    BY <1>11, <2>1 DEF Takes
  <2>3. 1 \in Int
    OBVIOUS
  <2> QED
    BY <1>2, <1>6, <2>2, <2>3, StaysIn
<1>13. c \in [0..e -> Int]
  <2>1. c = [k \in 0..e |-> c[k]]
    BY <1>10
  <2> QED
    BY <1>12, <2>1
<1> HIDE DEF Is
<1> QED
  BY <1>1, <1>3, <1>4, <1>11, <1>13 DEF e, n

-----------------------------------------------------------------------------
(* Binomial coefficients.                                                  *)

\* The first n + 1 rows of Pascal's triangle.
Triangle(c, n) ==
    /\ c \in [0..n -> [Nat -> Nat]]
    /\ c[0][0] = 1 /\ \A k \in Nat \ {0} : c[0][k] = 0
    /\ \A j \in 1..n : /\ c[j][0] = c[j - 1][0]
                       /\ \A k \in Nat : c[j][k + 1] = c[j - 1][k + 1] + c[j - 1][k]

LEMMA TriangleExists ==
    ASSUME NEW n \in Nat
    PROVE  \E c : Triangle(c, n)
<1> DEFINE Row == [Nat -> Nat]
           first == [k \in Nat |-> IF k = 0 THEN 1 ELSE 0]
           Below(r) == [k \in Nat |-> IF k = 0 THEN r[0] ELSE r[k] + r[k - 1]]
           step == [j \in Nat |-> [r \in Row |-> Below(r)]]
<1>1. first \in Row
  OBVIOUS
<1>2. \A r \in Row : Below(r) \in Row
  <2> TAKE r \in Row
  <2>1. \A k \in Nat : (IF k = 0 THEN r[0] ELSE r[k] + r[k - 1]) \in Nat
    OBVIOUS
  <2> QED
    BY <2>1
<1>3. step \in [Nat -> [Row -> Row]]
  <2> HIDE DEF Row, Below
  <2> QED
    BY <1>2
<1>4. PICK g : Upto(g, first, Row, step, n)
  <2> HIDE DEF step, Row, first
  <2> QED
    BY <1>1, <1>3, Recursion
<1>5. g \in [0..n -> Row] /\ g[0] = first /\ \A j \in 1..n : g[j] = step[j][g[j - 1]]
  <2> HIDE DEF step, Row, first
  <2> QED
    BY <1>4 DEF Upto
<1>6. \A j \in 1..n : g[j - 1] \in Row /\ g[j] = Below(g[j - 1])
  <2> TAKE j \in 1..n
  <2>1. j \in Nat /\ g[j - 1] \in Row /\ g[j] = step[j][g[j - 1]]
    <3> HIDE DEF step, Row
    <3> QED
      BY <1>5
  <2> HIDE DEF Row, Below
  <2> QED
    BY <2>1
<1>7. ASSUME NEW j \in 1..n
      PROVE  g[j][0] = g[j - 1][0] /\ \A k \in Nat : g[j][k + 1] = g[j - 1][k + 1] + g[j - 1][k]
  <2>1. g[j] = Below(g[j - 1])
    BY <1>6
  <2>2. g[j][0] = g[j - 1][0]
    BY <2>1
  <2>3. ASSUME NEW k \in Nat
        PROVE  g[j][k + 1] = g[j - 1][k + 1] + g[j - 1][k]
    <3>1. k + 1 \in Nat /\ k + 1 # 0 /\ (k + 1) - 1 = k
      OBVIOUS
    <3> QED
      BY <2>1, <3>1
  <2> QED
    BY <2>2, <2>3
<1>8. /\ g[0][0] = 1 /\ \A k \in Nat \ {0} : g[0][k] = 0
  BY <1>5
<1> HIDE DEF step, Below, first
<1>9. Triangle(g, n)
  BY <1>5, <1>7, <1>8 DEF Triangle
<1> QED
  BY <1>9

\* One coefficient from the one before it.
LEMMA NextCoefficient ==
    ASSUME NEW n \in Nat, NEW c, Triangle(c, n)
    PROVE  \A j \in 0..n : \A k \in Nat : (k + 1) * c[j][k + 1] = (j - k) * c[j][k]
<1> DEFINE Next1(j) == \A k \in Nat : (k + 1) * c[j][k + 1] = (j - k) * c[j][k]
           S == {j \in Nat : Next1(j)}
<1>1. \A j \in 0..n : \A k \in Nat : c[j][k] \in Nat
  BY DEF Triangle
<1>2. 0 \in S
  <2> SUFFICES ASSUME NEW k \in Nat
               PROVE  (k + 1) * c[0][k + 1] = (0 - k) * c[0][k]
    OBVIOUS
  <2>1. c[0][k + 1] = 0
    BY DEF Triangle
  <2>2. CASE k = 0
    <3>1. (k + 1) * c[0][k + 1] = 0
      BY <2>1
    <3>2. c[0][k] = 1 /\ 0 - k = 0
      BY <2>2 DEF Triangle
    <3> QED
      BY <3>1, <3>2
  <2>3. CASE k # 0
    <3>1. c[0][k] = 0
      BY <2>3 DEF Triangle
    <3> QED
      BY <2>1, <3>1
  <2> QED
    BY <2>2, <2>3
<1>3. ASSUME NEW j \in 1..n, j - 1 \in S
      PROVE  j \in S
  <2> SUFFICES ASSUME NEW k \in Nat
               PROVE  (k + 1) * c[j][k + 1] = (j - k) * c[j][k]
    OBVIOUS
  <2> DEFINE i == j - 1
             a == c[i][k + 1]
             b == c[i][k]
  <2>1. i \in 0..n /\ i \in Nat /\ j = i + 1
    OBVIOUS
  <2>2. a \in Nat /\ b \in Nat
    BY <1>1, <2>1
  <2>3. c[j][k + 1] = a + b
    BY DEF Triangle
  <2>4. (k + 1) * a = (i - k) * b
    BY <1>3
  <2>5. CASE k = 0
    <3>1. c[j][k] = b
      BY <2>5 DEF Triangle
    <3> HIDE DEF a, b, i
    <3>2. a = i * b
      BY <2>1, <2>2, <2>4, <2>5
    <3>3. (k + 1) * c[j][k + 1] = i * b + b
      BY <2>1, <2>2, <2>3, <2>5, <3>2
    <3>4. (j - k) * c[j][k] = (i + 1) * b
      BY <2>1, <2>5, <3>1
    <3>5. (i + 1) * b = i * b + b
      BY <2>1, <2>2
    <3> QED
      BY <3>3, <3>4, <3>5
  <2>6. CASE k # 0
    <3> DEFINE d == c[i][k - 1]
    <3>1. k - 1 \in Nat /\ (k - 1) + 1 = k
      BY <2>6
    <3>2. d \in Nat
      BY <1>1, <2>1, <3>1
    <3>3. c[j][(k - 1) + 1] = c[j - 1][(k - 1) + 1] + c[j - 1][k - 1]
      BY <3>1 DEF Triangle
    <3>4. c[j][k] = b + d
      BY <3>1, <3>3
    <3>5. ((k - 1) + 1) * c[i][(k - 1) + 1] = (i - (k - 1)) * c[i][k - 1]
      BY <1>3, <3>1
    <3>6. k * b = (i - (k - 1)) * d
      BY <3>1, <3>5
    <3> HIDE DEF a, b, d, i
    <3>7. (k + 1) * (a + b) = (k + 1) * a + (k + 1) * b
      BY <2>2
    <3>8. (j - k) * (b + d) = (i - k) * b + b + (i - (k - 1)) * d
      BY <2>1, <2>2, <3>2
    <3>9. (k + 1) * b = k * b + b
      BY <2>2
    <3> QED
      BY <2>1, <2>2, <2>3, <2>4, <3>2, <3>4, <3>6, <3>7, <3>8, <3>9
  <2> QED
    BY <2>5, <2>6
<1>4. \A j \in 0..n : j \in S
  <2> HIDE DEF S
  <2> QED
    BY <1>2, <1>3, InductionUpTo
<1> QED
  BY <1>4

\* The running coefficients of match_count are those of the triangle.
LEMMA RunningCoefficients ==
    ASSUME NEW n \in Nat, NEW c, Triangle(c, n), NEW e \in 0..n, NEW b \in [0..e -> Int],
           b[0] = 1, \A k \in 1..e : b[k] = NextBinom(b[k - 1], n, k - 1)
    PROVE  \A k \in 0..e : b[k] = c[n][k]
<1> DEFINE S == {k \in Nat : b[k] = c[n][k]}
<1>1. \A j \in 0..n : \A k \in Nat : c[j][k] \in Nat
  BY DEF Triangle
<1>2. 0 \in S
  <2> DEFINE T == {j \in Nat : c[j][0] = 1}
  <2>1. 0 \in T
    BY DEF Triangle
  <2>2. \A j \in 1..n : j - 1 \in T => j \in T
    <3>1. \A j \in 1..n : j \in Nat /\ c[j][0] = c[j - 1][0]
      BY DEF Triangle
    <3> QED
      BY <3>1
  <2>3. \A j \in 0..n : j \in T
    <3> HIDE DEF T
    <3> QED
      BY <2>1, <2>2, InductionUpTo
  <2>4. c[n][0] = 1
    BY <2>3
  <2> QED
    BY <2>4
<1>3. ASSUME NEW k \in 1..e, k - 1 \in S
      PROVE  k \in S
  <2> DEFINE x == c[n][k]
             y == c[n][k - 1]
  <2>1. k - 1 \in Nat /\ (k - 1) + 1 = k /\ k \in Nat \ {0}
    OBVIOUS
  <2>2. x \in Nat /\ y \in Nat
    BY <1>1, <2>1
  <2>3. ((k - 1) + 1) * c[n][(k - 1) + 1] = (n - (k - 1)) * c[n][k - 1]
    <3>1. n \in 0..n
      OBVIOUS
    <3>2. \A j \in 0..n : \A i \in Nat : (i + 1) * c[j][i + 1] = (j - i) * c[j][i]
      BY NextCoefficient
    <3>3. \A i \in Nat : (i + 1) * c[n][i + 1] = (n - i) * c[n][i]
      BY <3>1, <3>2
    <3> QED
      BY <2>1, <3>3
  <2>4. k * x = (n - (k - 1)) * y
    BY <2>1, <2>3
  <2> DEFINE z == y * (n - (k - 1))
  <2>5. b[k] = z \div k
    <3>1. b[k - 1] = y
      BY <1>3
    <3>2. b[k] = (y * (n - (k - 1))) \div ((k - 1) + 1)
      BY <3>1 DEF NextBinom
    <3> QED
      BY <2>1, <3>2, Zenon DEF NextBinom
  <2>6. z = x * k + 0
    <3> HIDE DEF x, y
    <3> QED
      BY <2>1, <2>2, <2>4
  <2> HIDE DEF x, y, z
  <2>7. (x * k + 0) \div k = x
    <3>1. 0 \in 0..k - 1
      BY <2>1
    <3> QED
      BY <2>1, <2>2, <3>1, Quotient
  <2>8. b[k] = x
    BY <2>5, <2>6, <2>7
  <2> QED
    BY <2>1, <2>8 DEF x
<1>4. \A k \in 0..e : k \in S
  <2> HIDE DEF S
  <2>1. e \in Nat
    OBVIOUS
  <2> QED
    BY <1>2, <1>3, <2>1, InductionUpTo
<1> QED
  BY <1>4

-----------------------------------------------------------------------------
(* Words with a given number of wrong digits.                              *)

Lower(w, j) == {q \in w : q[1] < j}
DigitSets == SUBSET (0..DIGIT_BITS - 1)

LEMMA WordsFinite ==
    ASSUME NEW j \in Nat
    PROVE  IsFiniteSet(Words(j)) /\ Cardinality(Words(j)) = 2^(j * DIGIT_BITS)
<1>1. IsFiniteSet(0..DIGIT_BITS - 1) /\ Cardinality(0..DIGIT_BITS - 1) = DIGIT_BITS
      /\ IsFiniteSet(0..j - 1) /\ Cardinality(0..j - 1) = j
  <2>1. DIGIT_BITS \in Nat
    BY SizesAssumption
  <2>2. \A n \in Nat : IsFiniteSet(0..n - 1) /\ Cardinality(0..n - 1) = n
    <3> TAKE n \in Nat
    <3>1. IsFiniteSet(0..n - 1) /\ Cardinality(0..n - 1) = IF 0 > n - 1 THEN 0 ELSE (n - 1) - 0 + 1
      <4>1. \A a \in Int, b \in Int : IsFiniteSet(a..b) /\ Cardinality(a..b) = IF a > b THEN 0 ELSE b - a + 1
        BY FS_Interval
      <4> QED
        BY <4>1
    <3> QED
      BY <3>1
  <2> QED
    BY <2>1, <2>2
<1>2. IsFiniteSet(Places(j)) /\ Cardinality(Places(j)) = j * DIGIT_BITS
  <2> DEFINE P == 0..j - 1
             Q == 0..DIGIT_BITS - 1
  <2>1. /\ IsFiniteSet(P) /\ Cardinality(P) = j
        /\ IsFiniteSet(Q) /\ Cardinality(Q) = DIGIT_BITS
    BY <1>1
  <2> HIDE DEF P, Q
  <2>2. IsFiniteSet(P \X Q) /\ Cardinality(P \X Q) = j * DIGIT_BITS
    BY <2>1, FS_Product
  <2> QED
    BY <2>2 DEF P, Q, Places
<1>3. Words(j) = SUBSET Places(j)
  BY DEF Words, Places
<1> QED
  BY <1>2, <1>3, FS_SUBSET

LEMMA DigitSetsFinite ==
    IsFiniteSet(DigitSets) /\ Cardinality(DigitSets) = 2^DIGIT_BITS
<1>1. DIGIT_BITS \in Nat
  BY SizesAssumption
<1>2. IsFiniteSet(0..DIGIT_BITS - 1) /\ Cardinality(0..DIGIT_BITS - 1) = DIGIT_BITS
  BY SizesAssumption, FS_Interval
<1> QED
  BY <1>2, FS_SUBSET DEF DigitSets

\* A word of one digit more is a word and the bits of the last digit.
LEMMA WordsStep ==
    ASSUME NEW j \in Nat, NEW S, S \subseteq Words(j), NEW X, X \subseteq DigitSets
    PROVE  Cardinality({w \in Words(j + 1) : Lower(w, j) \in S /\ BitsAt(w, j) \in X})
               = Cardinality(S) * Cardinality(X)
<1> DEFINE T == {w \in Words(j + 1) : Lower(w, j) \in S /\ BitsAt(w, j) \in X}
           split == [w \in T |-> <<Lower(w, j), BitsAt(w, j)>>]
<1>1. \A w \in T : w \subseteq Places(j + 1)
  BY DEF Words, Places
<1>2. ASSUME NEW w \in T, NEW n \in 0..j, NEW b \in 0..DIGIT_BITS - 1
      PROVE  <<n, b>> \in w <=> IF n = j THEN b \in BitsAt(w, j) ELSE <<n, b>> \in Lower(w, j)
  BY DEF BitsAt, Lower
<1>3. ASSUME NEW v \in T, NEW w \in T, split[v] = split[w]
      PROVE  v = w
  <2>1. Lower(v, j) = Lower(w, j) /\ BitsAt(v, j) = BitsAt(w, j)
    BY <1>3
  <2>2. \A q \in Places(j + 1) : q = <<q[1], q[2]>> /\ q[1] \in 0..j /\ q[2] \in 0..DIGIT_BITS - 1
    BY DEF Places
  <2>3. v \subseteq Places(j + 1) /\ w \subseteq Places(j + 1)
    BY <1>1
  <2> HIDE DEF T
  <2>4. \A q \in Places(j + 1) : q \in v <=> q \in w
    BY <1>2, <2>1, <2>2
  <2> QED
    BY <2>3, <2>4
<1>4. ASSUME NEW s \in S, NEW x \in X
      PROVE  \E w \in T : split[w] = <<s, x>>
  <2> DEFINE w == s \cup {<<j, b>> : b \in x}
  <2>1. s \subseteq Places(j) /\ x \subseteq 0..DIGIT_BITS - 1
    BY DEF Words, Places, DigitSets
  <2>2. \A q \in s : q[1] < j /\ q \in Places(j + 1)
    BY <2>1 DEF Places
  <2>3. w \in Words(j + 1)
    <3>1. \A b \in x : <<j, b>> \in Places(j + 1)
      BY <2>1 DEF Places
    <3>2. w \subseteq Places(j + 1)
      BY <2>2, <3>1
    <3> QED
      BY <3>2 DEF Words, Places
  <2>4. Lower(w, j) = s
    BY <2>2 DEF Lower
  <2>5. BitsAt(w, j) = x
    <3>1. \A b : <<j, b>> \notin s
      BY <2>2
    <3>2. \A b \in 0..DIGIT_BITS - 1 : <<j, b>> \in w <=> b \in x
      BY <3>1
    <3> QED
      BY <2>1, <3>2 DEF BitsAt
  <2> HIDE DEF w
  <2>6. w \in T
    BY <2>3, <2>4, <2>5
  <2> QED
    BY <2>4, <2>5, <2>6
<1>5. split \in Bijection(T, S \X X)
  <2>1. split \in [T -> S \X X]
    OBVIOUS
  <2>2. \A p \in S \X X : \E w \in T : split[w] = p
    <3> HIDE DEF split, T
    <3> QED
      BY <1>4
  <2> HIDE DEF split, T
  <2> QED
    BY <1>3, <2>1, <2>2, Fun_IsBij
<1>6. IsFiniteSet(S) /\ IsFiniteSet(X) /\ IsFiniteSet(T)
  <2>1. IsFiniteSet(Words(j)) /\ IsFiniteSet(Words(j + 1))
    <3>1. \A i \in Nat : IsFiniteSet(Words(i))
      BY WordsFinite
    <3> QED
      BY <3>1
  <2>2. T \subseteq Words(j + 1)
    OBVIOUS
  <2> HIDE DEF T
  <2> QED
    BY <2>1, <2>2, DigitSetsFinite, FS_Subset
<1> HIDE DEF split, T
<1>7. Cardinality(T) = Cardinality(S \X X)
  <2>1. ExistsBijection(T, S \X X)
    BY <1>5 DEF ExistsBijection
  <2> QED
    BY <1>6, <2>1, FS_Bijection
<1>8. Cardinality(S \X X) = Cardinality(S) * Cardinality(X)
  BY <1>6, FS_Product
<1> QED
  BY <1>7, <1>8 DEF T

\* The words of j digits with exactly k wrong ones among the first n.
WithWrong(h, j, n, k) == {w \in Words(j) : Cardinality(WrongPlaces(h, n, w)) = k}

LEMMA WrongFinite ==
    ASSUME NEW h, NEW n \in Nat, NEW w
    PROVE  IsFiniteSet(WrongPlaces(h, n, w)) /\ Cardinality(WrongPlaces(h, n, w)) \in 0..n
<1>1. IsFiniteSet(0..n - 1) /\ Cardinality(0..n - 1) = n
  BY FS_Interval
<1>2. WrongPlaces(h, n, w) \subseteq 0..n - 1
  BY DEF WrongPlaces
<1>3. IsFiniteSet(WrongPlaces(h, n, w)) /\ Cardinality(WrongPlaces(h, n, w)) <= n
      /\ Cardinality(WrongPlaces(h, n, w)) \in Nat
  BY <1>1, <1>2, FS_Subset, FS_CardinalityType
<1> QED
  BY <1>3

LEMMA WithWrongFinite ==
    ASSUME NEW h, NEW j \in Nat, NEW n \in Nat, NEW k
    PROVE  /\ IsFiniteSet(WithWrong(h, j, n, k)) /\ Cardinality(WithWrong(h, j, n, k)) \in Nat
           /\ WithWrong(h, j, n, k) \subseteq Words(j)
<1>1. IsFiniteSet(Words(j)) /\ WithWrong(h, j, n, k) \subseteq Words(j)
  BY WordsFinite DEF WithWrong
<1> QED
  BY <1>1, FS_Subset, FS_CardinalityType

\* The digits below the last one are those of the shorter word.
LEMMA WrongBelow ==
    ASSUME NEW h, NEW j \in Nat, NEW n \in 0..j, NEW w
    PROVE  WrongPlaces(h, n, w) = WrongPlaces(h, n, Lower(w, j))
<1>1. \A m \in 0..n - 1 : BitsAt(w, m) = BitsAt(Lower(w, j), m)
  BY DEF BitsAt, Lower
<1> QED
  BY <1>1 DEF WrongPlaces

\* A digit more within the prefix: right or wrong.
LEMMA PrefixDigit ==
    ASSUME NEW h, NEW j \in Nat, NEW k \in Nat
    PROVE  /\ Cardinality(WithWrong(h, j + 1, j + 1, 0)) = Cardinality(WithWrong(h, j, j, 0))
           /\ Cardinality(WithWrong(h, j + 1, j + 1, k + 1))
                  = Cardinality(WithWrong(h, j, j, k + 1))
                      + Cardinality(WithWrong(h, j, j, k)) * (2^DIGIT_BITS - 1)
<1> DEFINE t == BitsOf(h[j + 1])
           Right(i) == {w \in Words(j + 1) : Lower(w, j) \in WithWrong(h, j, j, i) /\ BitsAt(w, j) \in {t}}
           Wrong(i) == {w \in Words(j + 1) :
                            Lower(w, j) \in WithWrong(h, j, j, i) /\ BitsAt(w, j) \in DigitSets \ {t}}
           Wr(w) == WrongPlaces(h, j, Lower(w, j))
<1>1. t \in DigitSets /\ \A w : BitsAt(w, j) \in DigitSets
  BY DEF BitsOf, DigitSets, BitsAt
<1>2. ASSUME NEW w \in Words(j + 1)
      PROVE  /\ Lower(w, j) \in Words(j)
             /\ IsFiniteSet(Wr(w)) /\ Cardinality(Wr(w)) \in Nat
             /\ Cardinality(WrongPlaces(h, j + 1, w)) =
                    IF BitsAt(w, j) = t THEN Cardinality(Wr(w)) ELSE Cardinality(Wr(w)) + 1
  <2>1. Lower(w, j) \in Words(j)
    BY DEF Lower, Words
  <2>2. IsFiniteSet(Wr(w)) /\ Cardinality(Wr(w)) \in Nat
    BY WrongFinite
  <2>3. WrongPlaces(h, j, w) = Wr(w)
    <3>1. j \in 0..j
      OBVIOUS
    <3> QED
      BY <3>1, WrongBelow
  <2>4. WrongPlaces(h, j + 1, w) = WrongPlaces(h, j, w) \cup (IF BitsAt(w, j) = t THEN {} ELSE {j})
    <3>1. \A m \in 0..(j + 1) - 1 : m \in 0..j - 1 \/ m = j
      OBVIOUS
    <3>2. \A m \in 0..j - 1 : m \in 0..(j + 1) - 1
      OBVIOUS
    <3>3. j \in 0..(j + 1) - 1
      OBVIOUS
    <3> QED
      BY <3>1, <3>2, <3>3 DEF WrongPlaces
  <2>5. j \notin Wr(w)
    BY DEF WrongPlaces
  <2> HIDE DEF Wr
  <2>6. CASE BitsAt(w, j) = t
    <3>1. WrongPlaces(h, j + 1, w) = Wr(w)
      BY <2>3, <2>4, <2>6
    <3> QED
      BY <2>1, <2>2, <2>6, <3>1
  <2>7. CASE BitsAt(w, j) # t
    <3>1. WrongPlaces(h, j + 1, w) = Wr(w) \cup {j}
      BY <2>3, <2>4, <2>7
    <3>2. Cardinality(Wr(w) \cup {j}) = Cardinality(Wr(w)) + 1
      BY <2>2, <2>5, FS_AddElement
    <3> QED
      BY <2>1, <2>2, <2>7, <3>1, <3>2
  <2> QED
    BY <2>6, <2>7
<1>3. /\ WithWrong(h, j + 1, j + 1, 0) = Right(0)
      /\ WithWrong(h, j + 1, j + 1, k + 1) = Right(k + 1) \cup Wrong(k)
      /\ Right(k + 1) \cap Wrong(k) = {}
  <2>1. \A w \in Words(j + 1) : \A i : Lower(w, j) \in WithWrong(h, j, j, i) <=> Cardinality(Wr(w)) = i
    BY <1>2 DEF WithWrong
  <2> HIDE DEF Wr, t
  <2>2. ASSUME NEW w \in Words(j + 1)
        PROVE  /\ Cardinality(WrongPlaces(h, j + 1, w)) = 0 <=> w \in Right(0)
               /\ Cardinality(WrongPlaces(h, j + 1, w)) = k + 1 <=> w \in Right(k + 1) \/ w \in Wrong(k)
    BY <1>1, <1>2, <2>1
  <2>3. Right(0) \subseteq Words(j + 1) /\ Right(k + 1) \subseteq Words(j + 1) /\ Wrong(k) \subseteq Words(j + 1)
    OBVIOUS
  <2>4. Right(k + 1) \cap Wrong(k) = {}
    OBVIOUS
  <2> HIDE DEF Right, Wrong
  <2> QED
    BY <2>2, <2>3, <2>4 DEF WithWrong
<1>4. Cardinality({t}) = 1 /\ Cardinality(DigitSets \ {t}) = 2^DIGIT_BITS - 1
      /\ {t} \subseteq DigitSets /\ DigitSets \ {t} \subseteq DigitSets
  <2>1. t \in DigitSets
    BY <1>1
  <2> HIDE DEF t
  <2>2. Cardinality({t}) = 1
    BY FS_Singleton
  <2>3. Cardinality(DigitSets \ {t}) = Cardinality(DigitSets) - 1
    <3>1. IsFiniteSet(DigitSets)
      BY DigitSetsFinite
    <3> QED
      BY <2>1, <3>1, FS_RemoveElement
  <2>4. Cardinality(DigitSets) = 2^DIGIT_BITS
    BY DigitSetsFinite
  <2>5. {t} \subseteq DigitSets /\ DigitSets \ {t} \subseteq DigitSets
    BY <2>1
  <2> QED
    BY <2>2, <2>3, <2>4, <2>5
<1>5. \A i : WithWrong(h, j, j, i) \subseteq Words(j) /\ Cardinality(WithWrong(h, j, j, i)) \in Nat
  BY WithWrongFinite
<1>6. ASSUME NEW i
      PROVE  /\ Cardinality(Right(i)) = Cardinality(WithWrong(h, j, j, i))
             /\ Cardinality(Wrong(i)) = Cardinality(WithWrong(h, j, j, i)) * (2^DIGIT_BITS - 1)
  <2> DEFINE S == WithWrong(h, j, j, i)
             X == {t}
             Y == DigitSets \ {t}
  <2>1. S \subseteq Words(j) /\ Cardinality(S) \in Nat /\ X \subseteq DigitSets /\ Y \subseteq DigitSets
    BY <1>4, <1>5
  <2> HIDE DEF S, X, Y
  <2>2. /\ Cardinality({w \in Words(j + 1) : Lower(w, j) \in S /\ BitsAt(w, j) \in X})
              = Cardinality(S) * Cardinality(X)
        /\ Cardinality({w \in Words(j + 1) : Lower(w, j) \in S /\ BitsAt(w, j) \in Y})
              = Cardinality(S) * Cardinality(Y)
    BY <2>1, WordsStep
  <2>3. Cardinality(X) = 1 /\ Cardinality(Y) = 2^DIGIT_BITS - 1
    BY <1>4 DEF X, Y
  <2>4. Cardinality(S) * 1 = Cardinality(S)
    BY <2>1
  <2>5. /\ Right(i) = {w \in Words(j + 1) : Lower(w, j) \in S /\ BitsAt(w, j) \in X}
        /\ Wrong(i) = {w \in Words(j + 1) : Lower(w, j) \in S /\ BitsAt(w, j) \in Y}
    BY DEF S, X, Y
  <2> HIDE DEF Right, Wrong
  <2>6. Cardinality(Right(i)) = Cardinality(S) /\ Cardinality(Wrong(i)) = Cardinality(S) * (2^DIGIT_BITS - 1)
    BY <2>2, <2>3, <2>4, <2>5
  <2> QED
    BY <2>6 DEF S
<1>7. \A i : IsFiniteSet(Right(i)) /\ IsFiniteSet(Wrong(i))
  <2>1. IsFiniteSet(Words(j + 1))
    <3>1. \A i \in Nat : IsFiniteSet(Words(i))
      BY WordsFinite
    <3> QED
      BY <3>1
  <2>2. \A i : Right(i) \subseteq Words(j + 1) /\ Wrong(i) \subseteq Words(j + 1)
    OBVIOUS
  <2> HIDE DEF Right, Wrong
  <2> QED
    BY <2>1, <2>2, FS_Subset
<1> HIDE DEF Right, Wrong
<1>8. Cardinality(Right(k + 1) \cup Wrong(k)) = Cardinality(Right(k + 1)) + Cardinality(Wrong(k))
  <2>1. Cardinality(Right(k + 1) \cap Wrong(k)) = 0
    BY <1>3, FS_EmptySet
  <2>2. Cardinality(Right(k + 1)) \in Nat /\ Cardinality(Wrong(k)) \in Nat
    BY <1>7, FS_CardinalityType
  <2>3. Cardinality(Right(k + 1) \cup Wrong(k))
            = Cardinality(Right(k + 1)) + Cardinality(Wrong(k)) - Cardinality(Right(k + 1) \cap Wrong(k))
    BY <1>7, FS_Union
  <2> QED
    BY <2>1, <2>2, <2>3
<1> QED
  BY <1>3, <1>6, <1>8

\* A digit more after the prefix: whatever it is.
LEMMA FreeDigit ==
    ASSUME NEW h, NEW j \in Nat, NEW l \in 0..j, NEW k
    PROVE  Cardinality(WithWrong(h, j + 1, l, k)) = Cardinality(WithWrong(h, j, l, k)) * 2^DIGIT_BITS
<1> DEFINE S == WithWrong(h, j, l, k)
<1>1. WithWrong(h, j + 1, l, k)
          = {w \in Words(j + 1) : Lower(w, j) \in S /\ BitsAt(w, j) \in DigitSets}
  <2>1. ASSUME NEW w \in Words(j + 1)
        PROVE  /\ Lower(w, j) \in Words(j) /\ BitsAt(w, j) \in DigitSets
               /\ WrongPlaces(h, l, w) = WrongPlaces(h, l, Lower(w, j))
    BY WrongBelow DEF Lower, Words, BitsAt, DigitSets
  <2> QED
    BY <2>1 DEF WithWrong
<1>2. S \subseteq Words(j) /\ DigitSets \subseteq DigitSets
  BY DEF WithWrong
<1> HIDE DEF S
<1>3. Cardinality({w \in Words(j + 1) : Lower(w, j) \in S /\ BitsAt(w, j) \in DigitSets})
          = Cardinality(S) * Cardinality(DigitSets)
  BY <1>2, WordsStep
<1> QED
  BY <1>1, <1>3, DigitSetsFinite DEF S

-----------------------------------------------------------------------------
(* How many key IDs match.                                                 *)

LEMMA NoDigits ==
    ASSUME NEW h
    PROVE  /\ Cardinality(WithWrong(h, 0, 0, 0)) = 1
           /\ \A k \in Nat \ {0} : Cardinality(WithWrong(h, 0, 0, k)) = 0
<1>1. Words(0) = {{}} /\ \A w : WrongPlaces(h, 0, w) = {}
  <2>1. 0..0 - 1 = {}
    OBVIOUS
  <2> QED
    BY <2>1 DEF Words, WrongPlaces
<1>2. Cardinality({}) = 0
  BY FS_EmptySet
<1>3. WithWrong(h, 0, 0, 0) = {{}} /\ \A k \in Nat \ {0} : WithWrong(h, 0, 0, k) = {}
  BY <1>1, <1>2 DEF WithWrong
<1>4. Cardinality({{}}) = 1
  BY FS_Singleton
<1> QED
  BY <1>2, <1>3, <1>4

\* The powers of the number of wrong values of a digit.
Powers(pow, e) ==
    /\ pow \in [0..e -> Nat] /\ pow[0] = 1
    /\ \A k \in 1..e : pow[k] = pow[k - 1] * (2^DIGIT_BITS - 1)

ProductsCount(h, n, c, e, pow) ==
    \A j \in 0..n : \A k \in 0..e : Cardinality(WithWrong(h, j, j, k)) = c[j][k] * pow[k]

\* Within the prefix: any k of its digits wrong, each in any way.
LEMMA PrefixCount ==
    ASSUME NEW n \in Nat, NEW c, Triangle(c, n), NEW e \in Nat, NEW pow, Powers(pow, e), NEW h
    PROVE  ProductsCount(h, n, c, e, pow)
<1> DEFINE count(j, k) == Cardinality(WithWrong(h, j, j, k))
           S == {j \in Nat : \A k \in 0..e : count(j, k) = c[j][k] * pow[k]}
           q == 2^DIGIT_BITS - 1
<1>1. \A j \in 0..n : \A k \in Nat : c[j][k] \in Nat
  BY DEF Triangle
<1>2. q \in Nat /\ \A k \in 1..e : pow[k] = pow[k - 1] * q
  BY SizesAssumption, PowerSum DEF Powers
<1> USE DEF Powers
<1>3. 0 \in S
  <2> SUFFICES ASSUME NEW k \in 0..e
               PROVE  count(0, k) = c[0][k] * pow[k]
    OBVIOUS
  <2>1. CASE k = 0
    <3>1. c[0][0] = 1 /\ count(0, 0) = 1
      BY NoDigits DEF Triangle
    <3> QED
      BY <2>1, <3>1
  <2>2. CASE k # 0
    <3>1. c[0][k] = 0 /\ count(0, k) = 0
      <4>1. k \in Nat \ {0}
        BY <2>2
      <4>2. c[0][k] = 0
        BY <4>1 DEF Triangle
      <4>3. \A i \in Nat \ {0} : count(0, i) = 0
        BY NoDigits
      <4> QED
        BY <4>1, <4>2, <4>3
    <3>2. pow[k] \in Nat
      OBVIOUS
    <3>3. 0 * pow[k] = 0
      BY <3>2
    <3> QED
      BY <3>1, <3>3
  <2> QED
    BY <2>1, <2>2
<1>4. ASSUME NEW j \in 1..n, j - 1 \in S
      PROVE  j \in S
  <2> DEFINE i == j - 1
  <2>1. i \in Nat /\ i + 1 = j /\ i \in 0..n /\ j \in 0..n
    OBVIOUS
  <2>2. \A k \in 0..e : count(i, k) = c[i][k] * pow[k]
    BY <1>4
  <2>3. /\ count(j, 0) = count(i, 0)
        /\ \A k \in Nat : count(j, k + 1) = count(i, k + 1) + count(i, k) * q
    <3> HIDE DEF i
    <3>1. \A k \in Nat : /\ count(i + 1, 0) = count(i, 0)
                         /\ count(i + 1, k + 1) = count(i, k + 1) + count(i, k) * q
      BY <2>1, PrefixDigit
    <3>2. 0 \in Nat
      OBVIOUS
    <3> HIDE DEF count, q
    <3> QED
      BY <2>1, <3>1, <3>2
  <2>4. c[j][0] = c[i][0] /\ \A k \in Nat : c[j][k + 1] = c[i][k + 1] + c[i][k]
    BY DEF Triangle
  <2> HIDE DEF i, count, q
  <2>5. ASSUME NEW k \in 0..e
        PROVE  count(j, k) = c[j][k] * pow[k]
    <3>1. CASE k = 0
      BY <2>2, <2>3, <2>4, <3>1
    <3>2. CASE k # 0
      <4> DEFINE a == c[i][k]
                 b == c[i][k - 1]
                 r == pow[k - 1]
      <4>1. k - 1 \in Nat /\ (k - 1) + 1 = k /\ k - 1 \in 0..e /\ k \in 1..e
        BY <3>2
      <4>2. count(j, k) = count(i, k) + count(i, k - 1) * q
        BY <2>3, <4>1
      <4>3. count(i, k) = a * pow[k] /\ count(i, k - 1) = b * r
        BY <2>2, <4>1
      <4>4. pow[k] = r * q /\ c[j][k] = a + b
        BY <1>2, <2>4, <4>1
      <4>5. a \in Nat /\ b \in Nat /\ r \in Nat
        BY <1>1, <2>1, <4>1
      <4> HIDE DEF a, b, r
      <4>6. a * (r * q) + (b * r) * q = (a + b) * (r * q)
        BY <1>2, <4>5
      <4> QED
        BY <4>2, <4>3, <4>4, <4>6
    <3> QED
      BY <3>1, <3>2
  <2> QED
    BY <2>5
<1>5. \A j \in 0..n : j \in S
  <2> HIDE DEF S
  <2> QED
    BY <1>3, <1>4, InductionUpTo
<1> QED
  BY <1>5 DEF ProductsCount

\* Behind it: any digits.
LEMMA WholeCount ==
    ASSUME NEW h, NEW l \in Nat, NEW d \in Nat, NEW k
    PROVE  Cardinality(WithWrong(h, l + d, l, k)) * 2^(l * DIGIT_BITS)
               = Cardinality(WithWrong(h, l, l, k)) * 2^((l + d) * DIGIT_BITS)
<1> DEFINE count(j) == Cardinality(WithWrong(h, j, l, k))
           words(j) == 2^(j * DIGIT_BITS)
           S == {j \in Nat : count(l + j) * words(l) = count(l) * words(l + j)}
<1>1. \A j \in Nat : count(j) \in Nat /\ words(j) \in Nat /\ words(j + 1) = words(j) * 2^DIGIT_BITS
  <2> TAKE j \in Nat
  <2>1. count(j) \in Nat
    BY WithWrongFinite
  <2>2. DIGIT_BITS \in Nat /\ j * DIGIT_BITS \in Nat /\ (j + 1) * DIGIT_BITS = j * DIGIT_BITS + DIGIT_BITS
    BY SizesAssumption
  <2> DEFINE m == j * DIGIT_BITS
  <2>3. m \in Nat /\ (j + 1) * DIGIT_BITS = m + DIGIT_BITS
    BY <2>2
  <2> HIDE DEF m
  <2>4. 2^m \in Nat /\ 2^(m + DIGIT_BITS) = 2^m * 2^DIGIT_BITS
    BY <2>2, <2>3, PowerSum
  <2> QED
    BY <2>1, <2>3, <2>4 DEF m
<1>2. 0 \in S
  OBVIOUS
<1>3. ASSUME NEW j \in Nat, j \in S
      PROVE  j + 1 \in S
  <2> DEFINE i == l + j
             q == 2^DIGIT_BITS
  <2>1. i \in Nat /\ l + (j + 1) = i + 1 /\ l \in 0..i /\ q \in Nat
    BY SizesAssumption, PowerSum
  <2>2. count(i) * words(l) = count(l) * words(i)
    BY <1>3
  <2> HIDE DEF i
  <2>3. count(i + 1) = count(i) * q
    BY <2>1, FreeDigit
  <2>4. words(i + 1) = words(i) * q
    BY <1>1, <2>1
  <2>5. count(i) \in Nat /\ count(l) \in Nat /\ words(i) \in Nat /\ words(l) \in Nat
    BY <1>1, <2>1
  <2> HIDE DEF q, count, words
  <2>6. (count(i) * q) * words(l) = (count(i) * words(l)) * q
    BY <2>1, <2>5
  <2>7. count(l) * (words(i) * q) = (count(l) * words(i)) * q
    BY <2>1, <2>5
  <2> QED
    BY <2>1, <2>2, <2>3, <2>4, <2>6, <2>7
<1> HIDE DEF S
<1>4. d \in S
  BY <1>2, <1>3, Induction
<1> QED
  BY <1>4 DEF S

AtMost(h, l, k) == {id \in KeyIds : Cardinality(WrongPlaces(h, l, id)) <= k}

\* One wrong digit more.
LEMMA OneMoreWrong ==
    ASSUME NEW h, NEW l \in Nat
    PROVE  /\ AtMost(h, l, 0) = WithWrong(h, KEY_DIGITS, l, 0)
           /\ \A k \in Nat \ {0} : Cardinality(AtMost(h, l, k))
                  = Cardinality(AtMost(h, l, k - 1)) + Cardinality(WithWrong(h, KEY_DIGITS, l, k))
           /\ \A k : IsFiniteSet(AtMost(h, l, k)) /\ Cardinality(AtMost(h, l, k)) \in Nat
<1>1. \A id : Cardinality(WrongPlaces(h, l, id)) \in Nat
  BY WrongFinite
<1>2. KEY_DIGITS \in Nat
  BY Sizes
<1>3. AtMost(h, l, 0) = WithWrong(h, KEY_DIGITS, l, 0)
  BY <1>1 DEF AtMost, WithWrong, KeyIds
<1>4. \A k : IsFiniteSet(AtMost(h, l, k)) /\ Cardinality(AtMost(h, l, k)) \in Nat
  <2>1. IsFiniteSet(KeyIds)
    BY <1>2, WordsFinite DEF KeyIds
  <2>2. \A k : AtMost(h, l, k) \subseteq KeyIds
    BY DEF AtMost
  <2> QED
    BY <2>1, <2>2, FS_Subset, FS_CardinalityType
<1>5. ASSUME NEW k \in Nat \ {0}
      PROVE  Cardinality(AtMost(h, l, k))
                 = Cardinality(AtMost(h, l, k - 1)) + Cardinality(WithWrong(h, KEY_DIGITS, l, k))
  <2> DEFINE S == AtMost(h, l, k - 1)
             T == WithWrong(h, KEY_DIGITS, l, k)
  <2>1. AtMost(h, l, k) = S \cup T /\ S \cap T = {}
    BY <1>1 DEF AtMost, WithWrong, KeyIds
  <2>2. IsFiniteSet(S) /\ Cardinality(S) \in Nat
    BY <1>4
  <2>3. IsFiniteSet(T) /\ Cardinality(T) \in Nat
    BY <1>2, WithWrongFinite
  <2> HIDE DEF S, T
  <2>4. Cardinality(S \cup T) = Cardinality(S) + Cardinality(T) - Cardinality(S \cap T)
    BY <2>2, <2>3, FS_Union
  <2>5. Cardinality(S \cap T) = 0
    BY <2>1, FS_EmptySet
  <2> QED
    BY <2>1, <2>2, <2>3, <2>4, <2>5 DEF S, T
<1> QED
  BY <1>3, <1>4, <1>5

\* The key IDs that are taken for a prefix.
Taken(p, max) == {id \in KeyIds : matches_with_error(p, id, max)}

LEMMA MatchCounted ==
    ASSUME NEW p, NEW h, Stands(p, h), NEW max \in Nat
    PROVE  /\ match_count(p, max) \in Nat \ {0}
           /\ match_count(p, max) * 2^(KEY_DIGITS * DIGIT_BITS)
                  = Cardinality(Taken(p, max)) * search_space_size(p)
<1> DEFINE l == p.nibbles
           e == MostErrors(p, max)
           size == 2^(l * DIGIT_BITS)
           all == 2^(KEY_DIGITS * DIGIT_BITS)
<1>1. l \in Nat /\ l <= KEY_DIGITS /\ KEY_DIGITS \in Nat /\ DIGIT_BITS \in Nat
  BY Sizes DEF Stands
<1>2. e \in 0..l /\ (e = max \/ (e = l /\ l <= max))
  BY <1>1 DEF MostErrors
<1>3. size \in Nat /\ all \in Nat
  <2>1. \A a \in Nat : 2^a \in Nat
    BY PowerSum
  <2>2. l * DIGIT_BITS \in Nat /\ KEY_DIGITS * DIGIT_BITS \in Nat
    BY <1>1
  <2> QED
    BY <2>1, <2>2
<1>4. PICK b \in [0..e -> Int], pow \in [0..e -> Nat], cc \in [0..e -> Int] :
          /\ b[0] = 1
          /\ \A k \in 1..e : b[k] = NextBinom(b[k - 1], l, k - 1)
          /\ pow[0] = 1
          /\ \A k \in 1..e : pow[k] = pow[k - 1] * (2^DIGIT_BITS - 1)
          /\ cc[0] = 1
          /\ \A k \in 1..e : cc[k] = cc[k - 1] + b[k] * pow[k]
          /\ match_count(p, max) = cc[e]
  BY <1>1, CountSteps
<1>5. PICK c : Triangle(c, l)
  BY <1>1, TriangleExists
<1>6. \A k \in 0..e : b[k] = c[l][k] /\ b[k] \in Nat
  <2>1. \A k \in 0..e : b[k] = c[l][k]
    <3> HIDE DEF e, l
    <3> QED
      BY <1>1, <1>2, <1>4, <1>5, RunningCoefficients
  <2>2. \A k \in 0..e : c[l][k] \in Nat
    <3>1. \A j \in 0..l : \A k \in Nat : c[j][k] \in Nat
      BY <1>5 DEF Triangle
    <3>2. l \in 0..l /\ \A k \in 0..e : k \in Nat
      BY <1>1, <1>2
    <3> QED
      BY <3>1, <3>2
  <2> QED
    BY <2>1, <2>2
<1> DEFINE W(k) == Cardinality(WithWrong(h, KEY_DIGITS, l, k))
           M(k) == Cardinality(AtMost(h, l, k))
<1>7. \A k \in 0..e : W(k) * size = (b[k] * pow[k]) * all
  <2> TAKE k \in 0..e
  <2>1. Cardinality(WithWrong(h, l, l, k)) = b[k] * pow[k]
    <3>1. ProductsCount(h, l, c, e, pow)
      <4>1. e \in Nat
        BY <1>1, <1>2
      <4>2. Powers(pow, e)
        BY <1>4 DEF Powers
      <4> HIDE DEF e, l
      <4> QED
        BY <1>1, <1>5, <4>1, <4>2, PrefixCount
    <3>2. l \in 0..l
      BY <1>1
    <3> QED
      BY <1>6, <3>1, <3>2 DEF ProductsCount
  <2>2. KEY_DIGITS - l \in Nat /\ l + (KEY_DIGITS - l) = KEY_DIGITS
    BY <1>1
  <2>3. Cardinality(WithWrong(h, l + (KEY_DIGITS - l), l, k)) * 2^(l * DIGIT_BITS)
            = Cardinality(WithWrong(h, l, l, k)) * 2^((l + (KEY_DIGITS - l)) * DIGIT_BITS)
    <3> DEFINE d == KEY_DIGITS - l
    <3>1. d \in Nat
      BY <2>2
    <3> HIDE DEF l, d
    <3>2. Cardinality(WithWrong(h, l + d, l, k)) * 2^(l * DIGIT_BITS)
              = Cardinality(WithWrong(h, l, l, k)) * 2^((l + d) * DIGIT_BITS)
      BY <1>1, <3>1, WholeCount
    <3> QED
      BY <3>2 DEF d
  <2>4. Cardinality(WithWrong(h, KEY_DIGITS, l, k)) * 2^(l * DIGIT_BITS)
            = Cardinality(WithWrong(h, l, l, k)) * 2^(KEY_DIGITS * DIGIT_BITS)
    BY <2>2, <2>3
  <2> QED
    BY <2>1, <2>4
<1>8. /\ M(0) = W(0)
      /\ \A k \in Nat \ {0} : M(k) = M(k - 1) + W(k)
      /\ \A k : M(k) \in Nat
      /\ \A k : W(k) \in Nat
  <2>1. \A k : W(k) \in Nat
    BY <1>1, WithWrongFinite
  <2> QED
    BY <1>1, <2>1, OneMoreWrong
<1> HIDE DEF W, M, size, all
<1> DEFINE S == {k \in Nat : cc[k] \in Nat \ {0} /\ M(k) * size = cc[k] * all}
<1>9. 0 \in S
  <2>1. 0 \in 0..e
    BY <1>2
  <2>2. W(0) * size = (1 * 1) * all
    BY <1>4, <1>7, <2>1
  <2> QED
    BY <1>3, <1>4, <1>8, <2>2
<1>10. ASSUME NEW k \in 1..e, k - 1 \in S
       PROVE  k \in S
  <2> DEFINE x == b[k] * pow[k]
             y == cc[k - 1]
  <2>1. k \in Nat \ {0} /\ k \in 0..e /\ k \in 1..e
    BY <1>2
  <2>2. x \in Nat /\ y \in Nat \ {0} /\ cc[k] = y + x
    BY <1>4, <1>6, <1>10, <2>1
  <2>3. M(k - 1) * size = y * all /\ W(k) * size = x * all
    BY <1>7, <1>10, <2>1
  <2>4. M(k) = M(k - 1) + W(k) /\ M(k - 1) \in Nat /\ W(k) \in Nat
    BY <1>8, <2>1
  <2> HIDE DEF x, y
  <2>5. (M(k - 1) + W(k)) * size = M(k - 1) * size + W(k) * size
    BY <1>3, <2>4
  <2>6. (y + x) * all = y * all + x * all
    BY <1>3, <2>2
  <2> QED
    BY <2>1, <2>2, <2>3, <2>4, <2>5, <2>6
<1>11. e \in S
  <2>1. e \in Nat /\ e \in 0..e
    BY <1>1, <1>2
  <2> HIDE DEF S, e
  <2>2. \A k \in 0..e : k \in S
    BY <1>9, <1>10, <2>1, InductionUpTo
  <2> QED
    BY <2>1, <2>2
<1>12. Taken(p, max) = AtMost(h, l, e)
  <2>1. \A id \in KeyIds : error_count(p, id) = Cardinality(WrongPlaces(h, l, id))
    BY ErrorsAreWrongPlaces
  <2>2. \A id : Cardinality(WrongPlaces(h, l, id)) \in 0..l
    BY <1>1, WrongFinite
  <2> HIDE DEF l, e
  <2>3. \A id \in KeyIds : error_count(p, id) <= max <=> Cardinality(WrongPlaces(h, l, id)) <= e
    BY <1>1, <1>2, <2>1, <2>2
  <2> QED
    BY <2>3 DEF Taken, AtMost, matches_with_error
<1>13. search_space_size(p) = size
  BY DEF search_space_size, size
<1> QED
  BY <1>4, <1>11, <1>12, <1>13 DEF M, all

-----------------------------------------------------------------------------
(* The number of scans that is expected, with the roundings of f64.        *)

\* A product grows with its factor.
LEMMA TimesKeeps ==
    ASSUME NEW a \in Int, NEW b \in Int, NEW c \in Nat, a <= b
    PROVE  a * c <= b * c /\ a * c \in Int /\ b * c \in Int
<1>1. (b - a) * c \in Nat
  OBVIOUS
<1>2. (b - a) * c = b * c - a * c /\ a * c \in Int /\ b * c \in Int
  OBVIOUS
<1> DEFINE u == a * c
           v == b * c
           w == (b - a) * c
<1>3. w \in Nat /\ w = v - u /\ u \in Int /\ v \in Int
  BY <1>1, <1>2
<1> HIDE DEF u, v, w
<1>4. u <= v
  BY <1>3
<1> QED
  BY <1>2, <1>4 DEF u, v

LEMMA TimesCancels ==
    ASSUME NEW a \in Int, NEW b \in Int, NEW c \in Nat \ {0}, a * c <= b * c
    PROVE  a <= b
<1>1. CASE a > b
  <2>1. (a - b) * c \in Nat \ {0}
    BY <1>1
  <2>2. (a - b) * c = a * c - b * c /\ a * c \in Int /\ b * c \in Int
    OBVIOUS
  <2> DEFINE u == a * c
             v == b * c
             w == (a - b) * c
  <2>3. w \in Nat \ {0} /\ w = u - v /\ u \in Int /\ v \in Int /\ u <= v
    BY <2>1, <2>2
  <2> HIDE DEF u, v, w
  <2> QED
    BY <2>3
<1> QED
  BY <1>1

LEMMA PowerPast == \A n \in Nat : n < 2^n
<1> DEFINE S == {n \in Nat : n < 2^n}
<1>1. 0 \in S
  BY PowerStep
<1>2. ASSUME NEW n \in Nat, n \in S
      PROVE  n + 1 \in S
  <2>1. 2^(n + 1) = 2 * 2^n /\ 2^n \in Nat
    BY PowerStep, PowerSum
  <2> QED
    BY <1>2, <2>1
<1>3. \A n \in Nat : n \in S
  <2> HIDE DEF S
  <2> QED
    BY <1>1, <1>2, Induction
<1> QED
  BY <1>3

\* What f64 drops.
Drops(a, b, k) ==
    /\ a < b * 2^(SIGNIFICAND + k)
    /\ k # 0 => b * 2^(SIGNIFICAND + k - 1) <= a

\* The binary point is found: the least number of bits that is enough.
LEMMA PointExists ==
    ASSUME NEW a \in Nat, NEW b \in Nat \ {0}
    PROVE  \E k \in 0..a : Drops(a, b, k)
<1>1. SIGNIFICAND \in Nat
  BY SizesAssumption
<1>2. \A k \in Nat : 2^(SIGNIFICAND + k) \in Nat /\ b * 2^(SIGNIFICAND + k) \in Nat
  <2>1. \A k \in Nat : SIGNIFICAND + k \in Nat
    BY <1>1
  <2>2. \A k \in Nat : 2^k \in Nat
    BY PowerSum
  <2>3. \A k \in Nat : 2^(SIGNIFICAND + k) \in Nat
    BY <2>1, <2>2
  <2>4. \A x \in Nat : b * x \in Nat
    OBVIOUS
  <2> QED
    BY <2>3, <2>4
<1> DEFINE enough(k) == b * 2^(SIGNIFICAND + k)
           S == {k \in Nat : a < enough(k)}
<1>3. a \in S
  <2>1. 2^(SIGNIFICAND + a) = 2^SIGNIFICAND * 2^a /\ 2^SIGNIFICAND \in Nat \ {0}
    BY <1>1, PowerSum
  <2>2. a < 2^a /\ 2^a \in Nat
    BY PowerPast, PowerSum
  <2> DEFINE x == 2^SIGNIFICAND
             y == 2^a
  <2>3. x \in Nat \ {0} /\ y \in Nat /\ a < y /\ enough(a) = b * (x * y)
    BY <2>1, <2>2
  <2> HIDE DEF x, y, enough
  <2>4. b * (x * y) = (b * x) * y /\ b * x \in Nat /\ 1 <= b * x
    BY <2>3
  <2>5. 1 * y <= (b * x) * y
    BY <2>3, <2>4, TimesKeeps
  <2> QED
    BY <2>3, <2>4, <2>5
<1>4. PICK k \in S : \A m \in S : k <= m
  <2> HIDE DEF S
  <2>1. S \in SUBSET Nat /\ S # {}
    BY <1>3 DEF S
  <2> QED
    BY <2>1, Least
<1>5. k \in 0..a /\ a < enough(k)
  BY <1>3, <1>4
<1>6. k # 0 => enough(k - 1) <= a
  <2> SUFFICES ASSUME k # 0
               PROVE  enough(k - 1) <= a
    OBVIOUS
  <2>1. k - 1 \in Nat /\ k - 1 \notin S
    BY <1>4, <1>5
  <2>2. enough(k - 1) \in Nat
    BY <1>2, <2>1
  <2> HIDE DEF enough
  <2> QED
    BY <2>1, <2>2
<1>7. k # 0 => SIGNIFICAND + (k - 1) = SIGNIFICAND + k - 1
  BY <1>1, <1>5
<1> QED
  BY <1>5, <1>6, <1>7 DEF Drops

\* The nearest whole number is at most one half away.
LEMMA NearestIs ==
    ASSUME NEW a \in Nat, NEW b \in Nat \ {0}
    PROVE  /\ Nearest(a, b) \in Nat
           /\ 2 * (Nearest(a, b) * b) <= 2 * a + b
           /\ 2 * a <= 2 * (Nearest(a, b) * b) + b
           /\ b = 1 => Nearest(a, b) = a
<1> DEFINE q == a \div b
           rest == a % b
           N == Nearest(a, b)
<1>1. q \in Nat /\ rest \in 0..b - 1 /\ a = q * b + rest
  OBVIOUS
<1>2. N = IF 2 * rest > b \/ (2 * rest = b /\ q % 2 = 1) THEN q + 1 ELSE q
  BY DEF Nearest
<1> HIDE DEF q, rest, N
<1>3. CASE N = q /\ 2 * rest <= b
  <2>1. q * b \in Nat
    BY <1>1
  <2>2. b = 1 => q * b = q
    BY <1>1
  <2> QED
    BY <1>1, <1>3, <2>1, <2>2 DEF N
<1>4. CASE N = q + 1 /\ b <= 2 * rest
  <2>1. q * b \in Nat /\ (q + 1) * b = q * b + b
    BY <1>1
  <2>2. b # 1
    BY <1>1, <1>4
  <2> QED
    BY <1>1, <1>4, <2>1, <2>2 DEF N
<1> QED
  BY <1>1, <1>2, <1>3, <1>4

LEMMA OneIs == ONE \in Nat /\ 2 <= ONE
<1>1. SIGNIFICAND - 1 \in Nat /\ (SIGNIFICAND - 1) + 1 = SIGNIFICAND
  BY SizesAssumption
<1>2. 2^((SIGNIFICAND - 1) + 1) = 2 * 2^(SIGNIFICAND - 1) /\ 2^(SIGNIFICAND - 1) \in Nat \ {0}
  BY <1>1, PowerStep, PowerSum
<1> QED
  BY <1>1, <1>2 DEF ONE

\* It is within one part in ONE of what is rounded, if that has as many bits or
\* is a whole number.
LEMMA Rounded ==
    ASSUME NEW a \in Nat, NEW b \in Nat \ {0}
    PROVE  /\ f64(a, b) \in Nat
           /\ b = 1 \/ b * ONE <= 2 * a =>
                 /\ (f64(a, b) * b) * ONE <= a * (ONE + 1)
                 /\ a * (ONE - 1) <= (f64(a, b) * b) * ONE
           /\ 2 * a < b * ONE => 2 * f64(a, b) <= ONE
<1> DEFINE k == CHOOSE k \in 0..a : /\ a < b * 2^(SIGNIFICAND + k)
                                    /\ k # 0 => b * 2^(SIGNIFICAND + k - 1) <= a
           c == 2^k
           N == Nearest(a, b * c)
           F == f64(a, b)
<1>1. k \in 0..a /\ Drops(a, b, k)
  <2>1. \E n \in 0..a : Drops(a, b, n)
    BY PointExists
  <2> QED
    BY <2>1 DEF Drops
<1>2. F = N * c
  BY Zenon DEF f64
<1> HIDE DEF k
<1>3. c \in Nat \ {0} /\ b * c \in Nat \ {0}
  <2>1. c \in Nat \ {0}
    BY <1>1, PowerSum
  <2> HIDE DEF c
  <2> QED
    BY <2>1
<1>4. /\ N \in Nat /\ 2 * (N * (b * c)) <= 2 * a + b * c
      /\ 2 * a <= 2 * (N * (b * c)) + b * c
      /\ b * c = 1 => N = a
  <2> DEFINE d == b * c
  <2>1. d \in Nat \ {0}
    BY <1>3
  <2> HIDE DEF d
  <2>2. /\ Nearest(a, d) \in Nat /\ 2 * (Nearest(a, d) * d) <= 2 * a + d
        /\ 2 * a <= 2 * (Nearest(a, d) * d) + d
        /\ d = 1 => Nearest(a, d) = a
    BY <2>1, NearestIs
  <2> QED
    BY <2>2 DEF d
<1>5. k = 0 => c = 1
  BY PowerStep
<1>6. k # 0 => (b * c) * ONE <= 2 * a
  <2> SUFFICES ASSUME k # 0
               PROVE  (b * c) * ONE <= 2 * a
    OBVIOUS
  <2>1. k - 1 \in Nat /\ (k - 1) + 1 = k /\ SIGNIFICAND \in Nat
        /\ SIGNIFICAND + k - 1 = SIGNIFICAND + (k - 1)
    BY <1>1, SizesAssumption
  <2>2. 2^((k - 1) + 1) = 2 * 2^(k - 1) /\ 2^(k - 1) \in Nat
    BY <2>1, PowerStep, PowerSum
  <2>3. 2^(SIGNIFICAND + (k - 1)) = ONE * 2^(k - 1)
    BY <2>1, PowerSum DEF ONE
  <2> DEFINE h == 2^(k - 1)
  <2>4. h \in Nat /\ c = 2 * h /\ b * (ONE * h) <= a
    BY <1>1, <2>1, <2>2, <2>3 DEF Drops
  <2> HIDE DEF h, c
  <2>5. (b * (2 * h)) * ONE = 2 * (b * (ONE * h)) /\ b * (ONE * h) \in Nat
    BY <2>4, OneIs
  <2> QED
    BY <2>4, <2>5
<1> HIDE DEF N, c, F
<1>7. F \in Nat /\ N * (b * c) = F * b /\ F * b \in Nat
  <2>1. N * c \in Nat /\ (N * c) * b = N * (b * c) /\ (N * c) * b \in Nat
    BY <1>3, <1>4
  <2> QED
    BY <1>2, <2>1
<1> DEFINE G == F * b
           e == b * c
<1>8. G \in Nat /\ e \in Nat \ {0} /\ 2 * G <= 2 * a + e /\ 2 * a <= 2 * G + e
  BY <1>3, <1>4, <1>7
<1>9. ONE \in Nat /\ 2 <= ONE
  BY OneIs
<1>10. ASSUME e * ONE <= 2 * a
       PROVE  G * ONE <= a * (ONE + 1) /\ a * (ONE - 1) <= G * ONE
  <2> HIDE DEF G, e
  <2>1. (2 * G) * ONE <= (2 * a + e) * ONE /\ (2 * a) * ONE <= (2 * G + e) * ONE
    BY <1>8, <1>9, TimesKeeps
  <2> DEFINE u == G * ONE
             v == a * ONE
             w == e * ONE
  <2>2. /\ u \in Nat /\ v \in Nat /\ w \in Nat
        /\ (2 * G) * ONE = 2 * u /\ (2 * a + e) * ONE = 2 * v + w
        /\ (2 * a) * ONE = 2 * v /\ (2 * G + e) * ONE = 2 * u + w
        /\ a * (ONE + 1) = v + a /\ a * (ONE - 1) = v - a /\ w <= 2 * a
    BY <1>8, <1>9, <1>10
  <2> HIDE DEF u, v, w
  <2>3. u <= v + a /\ v - a <= u
    BY <2>1, <2>2
  <2> QED
    BY <2>2, <2>3 DEF u
<1>11. b = 1 \/ b * ONE <= 2 * a => G * ONE <= a * (ONE + 1) /\ a * (ONE - 1) <= G * ONE
  <2>1. CASE k # 0
    BY <1>6, <1>10, <2>1
  <2>2. CASE k = 0 /\ b * ONE <= 2 * a
    <3>1. e = b
      BY <1>5, <2>2
    <3> HIDE DEF e, G
    <3> QED
      BY <1>10, <2>2, <3>1
  <2>3. CASE k = 0 /\ b = 1
    <3>1. G = a
      <4>1. b * c = 1
        BY <1>5, <2>3
      <4>2. N = a /\ F = N * 1
        BY <1>2, <1>4, <1>5, <2>3, <4>1
      <4> QED
        BY <1>4, <2>3, <4>2
    <3>2. a * ONE \in Nat /\ a * (ONE + 1) = a * ONE + a /\ a * (ONE - 1) = a * ONE - a
      BY <1>9
    <3> HIDE DEF G
    <3> QED
      BY <1>9, <3>1, <3>2
  <2> QED
    BY <2>1, <2>2, <2>3
<1>12. 2 * a < b * ONE => 2 * F <= ONE
  <2> SUFFICES ASSUME 2 * a < b * ONE
               PROVE  2 * F <= ONE
    OBVIOUS
  <2>1. k = 0
    <3>1. CASE k # 0
      <4>1. e * ONE <= 2 * a
        BY <1>6, <3>1
      <4>2. b * ONE <= e * ONE
        <5>1. b <= e
          BY <1>3
        <5> HIDE DEF e
        <5> QED
          BY <1>8, <1>9, <5>1, TimesKeeps
      <4>3. b * ONE \in Nat /\ e * ONE \in Nat
        BY <1>8, <1>9
      <4> HIDE DEF e
      <4> QED
        BY <4>1, <4>2, <4>3
    <3> QED
      BY <3>1
  <2>2. e = b
    BY <1>5, <2>1
  <2>3. 2 * G < b * ONE + b
    <3>1. b * ONE \in Nat
      BY <1>9
    <3> HIDE DEF G, e
    <3> QED
      BY <1>8, <2>2, <3>1
  <2>4. CASE 2 * F > ONE
    <3>1. ONE + 1 <= 2 * F
      BY <1>7, <1>9, <2>4
    <3>2. (ONE + 1) * b <= (2 * F) * b
      BY <1>7, <1>9, <3>1, TimesKeeps
    <3>3. (ONE + 1) * b = b * ONE + b /\ (2 * F) * b = 2 * G /\ b * ONE \in Nat
      BY <1>7, <1>9
    <3> HIDE DEF G
    <3> QED
      BY <1>8, <2>3, <3>2, <3>3
  <2> QED
    BY <1>7, <1>9, <2>4
<1> QED
  BY <1>7, <1>11, <1>12 DEF F

\* The number of scans that is expected when the sum is T.
LEMMA Reciprocal ==
    ASSUME NEW all \in Nat, NEW T \in Nat \ {0}
    PROVE  LET size == f64(all * ONE, T) \div ONE
           IN  /\ size \in Nat
               /\ (size * T) * ONE <= all * (ONE + 1)
               /\ all * (ONE - 1) <= ((size + 1) * T) * ONE
<1> DEFINE a == all * ONE
           F == f64(a, T)
           size == F \div ONE
           r == F % ONE
<1>1. ONE \in Nat /\ 2 <= ONE /\ a \in Nat
  BY OneIs
<1> HIDE DEF a
<1>2. /\ F \in Nat
      /\ T * ONE <= 2 * a => (F * T) * ONE <= a * (ONE + 1) /\ a * (ONE - 1) <= (F * T) * ONE
      /\ 2 * a < T * ONE => 2 * F <= ONE
  BY <1>1, Rounded
<1> HIDE DEF F
<1>3. size \in Nat /\ r \in 0..ONE - 1 /\ F = size * ONE + r
  BY <1>1, <1>2
<1> HIDE DEF size, r
<1>4. CASE T * ONE <= 2 * a
  <2>1. F * T <= all * (ONE + 1) /\ all * (ONE - 1) <= F * T
    <3>1. a * (ONE + 1) = (all * (ONE + 1)) * ONE /\ a * (ONE - 1) = (all * (ONE - 1)) * ONE
      BY <1>1 DEF a
    <3>2. F * T \in Int /\ all * (ONE + 1) \in Int /\ all * (ONE - 1) \in Int
      BY <1>1, <1>2
    <3> QED
      BY <1>1, <1>2, <1>4, <3>1, <3>2, TimesCancels
  <2>2. size * ONE <= F /\ F <= (size + 1) * ONE
    <3>1. size * ONE \in Nat /\ (size + 1) * ONE = size * ONE + ONE
      BY <1>1, <1>3
    <3> QED
      BY <1>1, <1>3, <3>1
  <2>3. (size * ONE) * T <= F * T /\ F * T <= ((size + 1) * ONE) * T
    <3>1. size * ONE \in Int /\ (size + 1) * ONE \in Int
      BY <1>1, <1>3
    <3> QED
      BY <1>2, <2>2, <3>1, TimesKeeps
  <2>4. (size * ONE) * T = (size * T) * ONE /\ ((size + 1) * ONE) * T = ((size + 1) * T) * ONE
    BY <1>1, <1>3
  <2>5. /\ (size * T) * ONE \in Int /\ ((size + 1) * T) * ONE \in Int /\ F * T \in Int
        /\ all * (ONE + 1) \in Int /\ all * (ONE - 1) \in Int
    BY <1>1, <1>2, <1>3
  <2>6. (size * T) * ONE <= all * (ONE + 1) /\ all * (ONE - 1) <= ((size + 1) * T) * ONE
    BY <2>1, <2>3, <2>4, <2>5
  <2> QED
    BY <1>3, <2>6 DEF size, F, a
<1>5. CASE 2 * a < T * ONE
  <2>1. size = 0
    <3>1. F < ONE
      BY <1>1, <1>2, <1>5
    <3>2. CASE size >= 1
      <4>1. 1 * ONE <= size * ONE /\ size * ONE \in Int
        BY <1>1, <1>3, <3>2, TimesKeeps
      <4> QED
        BY <1>1, <1>3, <3>1, <4>1
    <3> QED
      BY <1>3, <3>2
  <2>2. (size * T) * ONE = 0 /\ ((size + 1) * T) * ONE = T * ONE
    BY <1>1, <2>1
  <2>3. all * (ONE + 1) \in Nat /\ all * (ONE - 1) <= a /\ a \in Nat /\ all * (ONE - 1) \in Int
        /\ T * ONE \in Nat
    BY <1>1 DEF a
  <2>4. (size * T) * ONE <= all * (ONE + 1) /\ all * (ONE - 1) <= ((size + 1) * T) * ONE
    BY <1>5, <2>2, <2>3
  <2> QED
    BY <1>3, <2>4 DEF size, F, a
<1> QED
  <2>1. T * ONE \in Nat
    BY <1>1
  <2> QED
    BY <1>1, <1>4, <1>5, <2>1

LEMMA TotalSteps ==
    ASSUME NEW l \in Nat, NEW c \in [1..l -> Nat]
    PROVE  \E s \in [0..l -> Nat] :
               s[0] = 0 /\ TotalChance(c) = s[l] /\ \A k \in 1..l : s[k] = f64(s[k - 1] + c[k], 1)
<1> DEFINE Is(s) == s = [k \in 0..Len(c) |-> IF k = 0 THEN 0 ELSE f64(s[k - 1] + c[k], 1)]
           step == [k \in Nat |-> [x \in Nat |-> f64(x + (IF k \in 1..l THEN c[k] ELSE 0), 1)]]
           s == CHOOSE u : Is(u)
<1>1. Len(c) = l
  OBVIOUS
<1>2. step \in [Nat -> [Nat -> Nat]]
  <2>1. \A x \in Nat : f64(x, 1) \in Nat
    BY Rounded
  <2>2. \A k \in Nat : \A x \in Nat : x + (IF k \in 1..l THEN c[k] ELSE 0) \in Nat
    OBVIOUS
  <2>3. \A k \in Nat : [x \in Nat |-> f64(x + (IF k \in 1..l THEN c[k] ELSE 0), 1)] \in [Nat -> Nat]
    BY <2>1, <2>2
  <2> QED
    BY <2>3
<1>3. TotalChance(c) = s[Len(c)]
  BY Zenon DEF TotalChance
<1>4. PICK g : Upto(g, 0, Nat, step, l)
  <2> HIDE DEF step
  <2> QED
    BY <1>2, Recursion
<1>5. g \in [0..l -> Nat] /\ g[0] = 0 /\ \A k \in 1..l : g[k] = step[k][g[k - 1]]
  <2> HIDE DEF step
  <2> QED
    BY <1>4 DEF Upto
<1>6. \A k \in 1..l : \A x \in Nat : step[k][x] = f64(x + c[k], 1)
  OBVIOUS
<1> HIDE DEF step
<1>7. Is(s)
  <2>1. \A k \in 1..l : g[k - 1] \in Nat
    BY <1>5
  <2>2. \A k \in 1..l : g[k] = f64(g[k - 1] + c[k], 1)
    BY <1>5, <1>6, <2>1
  <2>3. Is(g)
    BY <1>1, <1>5, <2>2
  <2> HIDE DEF Is
  <2> QED
    BY <2>3
<1> HIDE DEF s
<1>8. s[0] = 0 /\ \A k \in 1..l : s[k] = f64(s[k - 1] + c[k], 1)
  BY <1>1, <1>7
<1>9. \A k \in 0..l : s[k] \in Nat
  <2> HIDE DEF Is
  <2>1. Takes(s, 0, Nat, step, l)
    BY <1>6, <1>8 DEF Takes
  <2> QED
    BY <1>2, <2>1, StaysIn
<1>10. s \in [0..l -> Nat]
  <2>1. s = [k \in 0..l |-> s[k]]
    BY <1>1, <1>7
  <2> QED
    BY <1>9, <2>1
<1> HIDE DEF Is
<1> QED
  BY <1>1, <1>3, <1>8, <1>10

\* The number of key IDs as which a chance is given.
Chance(p, max) ==
    (f64(match_count(p, max), 1) * 2^(KEY_DIGITS * DIGIT_BITS)) \div search_space_size(p)

\* x is y up to one rounding.
Near(x, y) == x * ONE <= y * (ONE + 1) /\ y * (ONE - 1) <= x * ONE

\* The chance of a prefix is that of the key IDs taken, rounded once.
LEMMA ChanceIsTaken ==
    ASSUME NEW p, NEW h, Stands(p, h), NEW max \in Nat
    PROVE  /\ Cardinality(Taken(p, max)) \in Nat \ {0}
           /\ Chance(p, max) \in Nat
           /\ Near(Chance(p, max), Cardinality(Taken(p, max)))
<1> DEFINE size == search_space_size(p)
           all == 2^(KEY_DIGITS * DIGIT_BITS)
           taken == Cardinality(Taken(p, max))
           count == match_count(p, max)
           rest == (KEY_DIGITS - p.nibbles) * DIGIT_BITS
           m == 2^rest
           F == f64(count, 1)
<1>1. size \in Nat \ {0} /\ m \in Nat \ {0} /\ all = size * m
  <2>1. p.nibbles \in Nat /\ KEY_DIGITS \in Nat /\ DIGIT_BITS \in Nat /\ KEY_DIGITS - p.nibbles \in Nat
    BY Sizes DEF Stands
  <2> DEFINE first == p.nibbles * DIGIT_BITS
  <2>2. first \in Nat /\ rest \in Nat
    BY <2>1
  <2>3. KEY_DIGITS * DIGIT_BITS = first + rest
    BY <2>1
  <2> HIDE DEF first, rest
  <2>4. 2^first \in Nat \ {0} /\ 2^rest \in Nat \ {0} /\ 2^(first + rest) = 2^first * 2^rest
    BY <2>2, PowerSum
  <2> QED
    BY <2>3, <2>4 DEF search_space_size, first
<1>2. taken \in Nat
  <2>1. KEY_DIGITS \in Nat
    BY Sizes
  <2>2. IsFiniteSet(Words(KEY_DIGITS))
    BY <2>1, WordsFinite
  <2>3. Taken(p, max) \subseteq Words(KEY_DIGITS)
    BY DEF Taken, KeyIds
  <2> QED
    BY <2>2, <2>3, FS_Subset, FS_CardinalityType
<1>3. count \in Nat \ {0} /\ count * all = taken * size
  BY MatchCounted
<1>4. ONE \in Nat /\ 2 <= ONE
  BY OneIs
<1>5. Chance(p, max) = (F * all) \div size
  BY DEF Chance
<1> HIDE DEF size, all, taken, count, m
<1>6. F \in Nat /\ F * ONE <= count * (ONE + 1) /\ count * (ONE - 1) <= F * ONE
  <2>1. f64(count, 1) \in Nat /\ (f64(count, 1) * 1) * ONE <= count * (ONE + 1)
        /\ count * (ONE - 1) <= (f64(count, 1) * 1) * ONE
    BY <1>3, Rounded
  <2> QED
    BY <2>1
<1> HIDE DEF F
<1>7. taken = count * m
  <2>1. (count * m) * size = count * (size * m)
    BY <1>1, <1>3
  <2>2. count * m \in Nat /\ (count * m) * size <= taken * size /\ taken * size <= (count * m) * size
    BY <1>1, <1>2, <1>3, <2>1
  <2>3. count * m <= taken /\ taken <= count * m
    BY <1>1, <1>2, <2>2, TimesCancels
  <2> QED
    BY <1>2, <2>2, <2>3
<1>8. (F * all) \div size = F * m /\ F * m \in Nat
  <2>1. F * m \in Nat /\ F * (size * m) = (F * m) * size + 0
    BY <1>1, <1>6
  <2>2. ((F * m) * size + 0) \div size = F * m
    <3>1. 0 \in 0..size - 1
      BY <1>1
    <3> QED
      BY <1>1, <2>1, <3>1, Quotient
  <2> QED
    BY <1>1, <2>1, <2>2
<1>9. taken # 0
  <2>1. count * m # 0
    BY <1>1, <1>3
  <2> QED
    BY <1>7, <2>1
<1>10. Near(F * m, taken)
  <2>1. F * ONE \in Nat /\ count * (ONE + 1) \in Int /\ count * (ONE - 1) \in Int
    BY <1>3, <1>4, <1>6
  <2>2. (F * ONE) * m <= (count * (ONE + 1)) * m /\ (count * (ONE - 1)) * m <= (F * ONE) * m
    BY <1>1, <1>6, <2>1, TimesKeeps
  <2>3. /\ (F * ONE) * m = (F * m) * ONE
        /\ (count * (ONE + 1)) * m = (count * m) * (ONE + 1)
        /\ (count * (ONE - 1)) * m = (count * m) * (ONE - 1)
    BY <1>1, <1>3, <1>4, <1>6
  <2> QED
    BY <1>7, <2>2, <2>3 DEF Near
<1> QED
  BY <1>2, <1>5, <1>8, <1>9, <1>10 DEF taken

TakenForOne(ps, l, max) == {id \in KeyIds : \E i \in 1..l : matches_with_error(ps[i], id, max)}
TakenForEach(ps, l, max) == {x \in (1..l) \X KeyIds : matches_with_error(ps[x[1]], x[2], max)}

\* One prefix more: what is taken for it is counted for it, and is at most as
\* many as are taken for the first time.
LEMMA OnePrefixMore ==
    ASSUME NEW l \in Nat, NEW ps, NEW max
    PROVE  /\ Cardinality(TakenForOne(ps, l, max)) \in Nat
           /\ Cardinality(TakenForEach(ps, l, max)) \in Nat
           /\ l = 0 => /\ Cardinality(TakenForOne(ps, l, max)) = 0
                       /\ Cardinality(TakenForEach(ps, l, max)) = 0
           /\ l # 0 => /\ Cardinality(TakenForOne(ps, l, max))
                              <= Cardinality(TakenForOne(ps, l - 1, max))
                                     + Cardinality(Taken(ps[l], max))
                       /\ Cardinality(TakenForEach(ps, l, max))
                              = Cardinality(TakenForEach(ps, l - 1, max))
                                    + Cardinality(Taken(ps[l], max))
<1> DEFINE one(k) == TakenForOne(ps, k, max)
           each(k) == TakenForEach(ps, k, max)
           more == Taken(ps[l], max)
<1>1. IsFiniteSet(KeyIds)
  BY Sizes, WordsFinite DEF KeyIds
<1>2. \A k \in Nat : IsFiniteSet(one(k)) /\ Cardinality(one(k)) \in Nat
  <2>1. \A k \in Nat : one(k) \subseteq KeyIds
    BY DEF TakenForOne
  <2> HIDE DEF one
  <2> QED
    BY <1>1, <2>1, FS_Subset, FS_CardinalityType
<1>3. \A k \in Nat : IsFiniteSet(each(k)) /\ Cardinality(each(k)) \in Nat
  <2>1. \A k \in Nat : each(k) \subseteq (1..k) \X KeyIds
    BY DEF TakenForEach
  <2>2. \A k \in Nat : IsFiniteSet((1..k) \X KeyIds)
    <3> TAKE k \in Nat
    <3>1. IsFiniteSet(1..k)
      BY FS_Interval
    <3> QED
      BY <1>1, <3>1, FS_Product
  <2> HIDE DEF each
  <2> QED
    BY <2>1, <2>2, FS_Subset, FS_CardinalityType
<1>4. IsFiniteSet(more) /\ Cardinality(more) \in Nat
  <2>1. more \subseteq KeyIds
    BY DEF Taken
  <2> HIDE DEF more
  <2> QED
    BY <1>1, <2>1, FS_Subset, FS_CardinalityType
<1>5. ASSUME l = 0
      PROVE  Cardinality(one(l)) = 0 /\ Cardinality(each(l)) = 0
  <2>1. one(l) = {} /\ each(l) = {}
    BY <1>5 DEF TakenForOne, TakenForEach
  <2> QED
    BY <2>1, FS_EmptySet
<1>6. ASSUME l # 0
      PROVE  Cardinality(one(l)) <= Cardinality(one(l - 1)) + Cardinality(more)
  <2>1. one(l) = one(l - 1) \cup more
    <3>1. \A i \in 1..l : i \in 1..l - 1 \/ i = l
      OBVIOUS
    <3>2. (\A i \in 1..l - 1 : i \in 1..l) /\ l \in 1..l
      BY <1>6
    <3> QED
      BY <3>1, <3>2 DEF Taken, TakenForOne
  <2> DEFINE U == one(l - 1)
             V == more
  <2>2. l - 1 \in Nat
    BY <1>6
  <2>3. IsFiniteSet(U) /\ Cardinality(U) \in Nat /\ IsFiniteSet(V) /\ Cardinality(V) \in Nat
    BY <1>2, <1>4, <2>2
  <2> HIDE DEF U, V, one, more
  <2>4. Cardinality(U \cup V) = Cardinality(U) + Cardinality(V) - Cardinality(U \cap V)
    BY <2>3, FS_Union
  <2>5. Cardinality(U \cap V) \in Nat
    BY <2>3, FS_Intersection, FS_CardinalityType
  <2>6. Cardinality(U \cup V) <= Cardinality(U) + Cardinality(V)
    BY <2>3, <2>4, <2>5
  <2> QED
    BY <2>1, <2>6 DEF U, V
<1>7. ASSUME l # 0
      PROVE  Cardinality(each(l)) = Cardinality(each(l - 1)) + Cardinality(more)
  <2> DEFINE U == each(l - 1)
             V == {l} \X more
  <2>1. each(l) = U \cup V
    <3>1. \A i : i \in 1..l <=> i \in 1..l - 1 \/ i = l
      BY <1>7
    <3> QED
      BY <3>1 DEF Taken, TakenForEach
  <2>2. U \cap V = {}
    <3>1. l \notin 1..l - 1
      OBVIOUS
    <3> QED
      BY <3>1 DEF TakenForEach
  <2>3. IsFiniteSet(U) /\ Cardinality(U) \in Nat
    <3>1. l - 1 \in Nat
      BY <1>7
    <3> QED
      BY <1>3, <3>1
  <2>4. IsFiniteSet(V) /\ Cardinality(V) = Cardinality(more)
    <3>1. IsFiniteSet({l}) /\ Cardinality({l}) = 1
      BY FS_Singleton
    <3> HIDE DEF more
    <3>2. IsFiniteSet({l} \X more) /\ Cardinality({l} \X more) = Cardinality({l}) * Cardinality(more)
      BY <1>4, <3>1, FS_Product
    <3>3. Cardinality({l} \X more) = Cardinality(more)
      BY <1>4, <3>1, <3>2
    <3> QED
      BY <3>2, <3>3
  <2> HIDE DEF U, V, each, more
  <2>5. Cardinality(U \cup V) = Cardinality(U) + Cardinality(V) - Cardinality(U \cap V)
    BY <2>3, <2>4, FS_Union
  <2>6. Cardinality(U \cap V) = 0
    BY <2>2, FS_EmptySet
  <2>7. Cardinality(U \cup V) = Cardinality(U) + Cardinality(more)
    BY <1>4, <2>3, <2>4, <2>5, <2>6
  <2> QED
    BY <2>1, <2>7 DEF U
<1> QED
  BY <1>2, <1>3, <1>5, <1>6, <1>7

\* What is not zero is not rounded to zero.
LEMMA NotToZero ==
    ASSUME NEW x \in Nat, NEW y \in Nat \ {0}, Near(x, y)
    PROVE  x # 0
<1>1. ONE \in Nat /\ 2 <= ONE
  BY OneIs
<1>2. 1 * (ONE - 1) <= y * (ONE - 1) /\ y * (ONE - 1) \in Int
  BY <1>1, TimesKeeps
<1>3. y * (ONE - 1) <= x * ONE
  BY DEF Near
<1>4. x = 0 => x * ONE = 0
  BY <1>1
<1> QED
  BY <1>1, <1>2, <1>3, <1>4

LEMMA TotalNotZero ==
    ASSUME NEW l \in Nat \ {0}, NEW c \in [1..l -> Nat \ {0}]
    PROVE  TotalChance(c) \in Nat \ {0}
<1>1. PICK s \in [0..l -> Nat] :
          s[0] = 0 /\ TotalChance(c) = s[l] /\ \A k \in 1..l : s[k] = f64(s[k - 1] + c[k], 1)
  <2>1. c \in [1..l -> Nat] /\ l \in Nat
    OBVIOUS
  <2> QED
    BY <2>1, TotalSteps
<1> DEFINE a == s[l - 1] + c[l]
<1>2. a \in Nat \ {0} /\ s[l] = f64(a, 1)
  BY <1>1
<1> HIDE DEF a
<1>3. f64(a, 1) \in Nat /\ Near(f64(a, 1), a)
  <2>1. f64(a, 1) \in Nat /\ (f64(a, 1) * 1) * ONE <= a * (ONE + 1)
        /\ a * (ONE - 1) <= (f64(a, 1) * 1) * ONE
    BY <1>2, Rounded
  <2> QED
    BY <2>1 DEF Near
<1>4. f64(a, 1) # 0
  BY <1>2, <1>3, NotToZero
<1> QED
  BY <1>1, <1>2, <1>3, <1>4

\* x is y up to roundings that leave w of ONE parts of it.
Within(x, y, w) == y * w <= x * ONE /\ x * w <= y * ONE

\* A term more: it was rounded and the sum with it is.
LEMMA OneTermMore ==
    ASSUME NEW x \in Nat, NEW y \in Nat, NEW w \in 1..ONE - 1, Within(x, y, w),
           NEW c \in Nat, NEW t \in Nat, Near(c, t)
    PROVE  Within(f64(x + c, 1), y + t, w - 1)
<1> DEFINE s == x + c
           z == y + t
           F == f64(s, 1)
           T == ONE
<1>1. T \in Nat /\ 2 <= T /\ w \in Nat /\ w <= T - 1 /\ 1 <= w
  BY OneIs
<1>2. s \in Nat /\ z \in Nat
  OBVIOUS
<1>3. F \in Nat /\ F * T <= s * (T + 1) /\ s * (T - 1) <= F * T
  <2> HIDE DEF s
  <2>1. f64(s, 1) \in Nat /\ (f64(s, 1) * 1) * ONE <= s * (ONE + 1)
        /\ s * (ONE - 1) <= (f64(s, 1) * 1) * ONE
    BY <1>2, Rounded
  <2> QED
    BY <2>1
<1>4. y * w <= x * T /\ x * w <= y * T /\ c * T <= t * (T + 1) /\ t * (T - 1) <= c * T
  BY DEF Within, Near
<1> HIDE DEF T, F
<1>5. t * w <= c * T
  <2>1. w * t <= (T - 1) * t
    BY <1>1, TimesKeeps
  <2>2. w * t = t * w /\ (T - 1) * t = t * (T - 1) /\ t * w \in Int /\ t * (T - 1) \in Int /\ c * T \in Int
    BY <1>1
  <2> QED
    BY <1>4, <2>1, <2>2
<1>6. c * w <= t * T
  <2>1. (c * T) * w <= (t * (T + 1)) * w
    <3>1. c * T \in Int /\ t * (T + 1) \in Int
      BY <1>1
    <3> QED
      BY <1>1, <1>4, <3>1, TimesKeeps
  <2>2. (T + 1) * w <= T * T
    <3>1. w * (T + 1) <= (T - 1) * (T + 1)
      BY <1>1, TimesKeeps
    <3>2. (T - 1) * (T + 1) = T * T - 1 /\ w * (T + 1) = (T + 1) * w /\ T * T \in Int /\ (T + 1) * w \in Int
      BY <1>1
    <3> QED
      BY <3>1, <3>2
  <2>3. ((T + 1) * w) * t <= (T * T) * t
    <3>1. (T + 1) * w \in Int /\ T * T \in Int
      BY <1>1
    <3> QED
      BY <2>2, <3>1, TimesKeeps
  <2>4. /\ (c * T) * w = (c * w) * T /\ (t * (T + 1)) * w = ((T + 1) * w) * t
        /\ (T * T) * t = (t * T) * T
        /\ (c * w) * T \in Int /\ ((T + 1) * w) * t \in Int /\ (t * T) * T \in Int
    BY <1>1
  <2>5. (c * w) * T <= (t * T) * T
    BY <2>1, <2>3, <2>4
  <2>6. c * w \in Int /\ t * T \in Int /\ T \in Nat \ {0}
    BY <1>1
  <2> QED
    BY <2>5, <2>6, TimesCancels
<1>7. z * w <= s * T /\ s * w <= z * T
  <2>1. z * w = y * w + t * w /\ s * T = x * T + c * T /\ s * w = x * w + c * w /\ z * T = y * T + t * T
    BY <1>1
  <2>2. /\ y * w \in Int /\ t * w \in Int /\ x * T \in Int /\ c * T \in Int
        /\ x * w \in Int /\ c * w \in Int /\ y * T \in Int /\ t * T \in Int
    BY <1>1
  <2> QED
    BY <1>4, <1>5, <1>6, <2>1, <2>2
<1> HIDE DEF s, z
<1>8. z * (w - 1) <= F * T
  <2>1. (z * w) * (T - 1) <= (s * T) * (T - 1)
    <3>1. z * w \in Int /\ s * T \in Int /\ T - 1 \in Nat
      BY <1>1, <1>2
    <3> QED
      BY <1>7, <3>1, TimesKeeps
  <2>2. (s * (T - 1)) * T <= (F * T) * T
    <3>1. s * (T - 1) \in Int /\ F * T \in Int
      BY <1>1, <1>2, <1>3
    <3> QED
      BY <1>1, <1>3, <3>1, TimesKeeps
  <2>3. ((w - 1) * T) * z <= (w * (T - 1)) * z
    <3>1. (w - 1) * T = w * T - T /\ w * (T - 1) = w * T - w /\ w * T \in Int
      BY <1>1
    <3>2. (w - 1) * T <= w * (T - 1) /\ (w - 1) * T \in Int /\ w * (T - 1) \in Int
      BY <1>1, <3>1
    <3> QED
      BY <1>2, <3>2, TimesKeeps
  <2>4. /\ (s * T) * (T - 1) = (s * (T - 1)) * T
        /\ (z * w) * (T - 1) = (w * (T - 1)) * z
        /\ ((w - 1) * T) * z = (z * (w - 1)) * T
        /\ (s * (T - 1)) * T \in Int /\ (w * (T - 1)) * z \in Int
        /\ (z * (w - 1)) * T \in Int /\ (F * T) * T \in Int
    BY <1>1, <1>2, <1>3
  <2>5. (z * (w - 1)) * T <= (F * T) * T
    BY <2>1, <2>2, <2>3, <2>4
  <2>6. z * (w - 1) \in Int /\ F * T \in Int /\ T \in Nat \ {0}
    BY <1>1, <1>2, <1>3
  <2> QED
    BY <2>5, <2>6, TimesCancels
<1>9. F * (w - 1) <= z * T
  <2>1. (F * T) * (w - 1) <= (s * (T + 1)) * (w - 1)
    <3>1. F * T \in Int /\ s * (T + 1) \in Int /\ w - 1 \in Nat
      BY <1>1, <1>2, <1>3
    <3> QED
      BY <1>3, <3>1, TimesKeeps
  <2>2. ((T + 1) * (w - 1)) * s <= (T * w) * s
    <3>1. (T + 1) * (w - 1) = T * w - T + w - 1 /\ T * w \in Int
      BY <1>1
    <3>2. (T + 1) * (w - 1) <= T * w /\ (T + 1) * (w - 1) \in Int
      BY <1>1, <3>1
    <3> QED
      BY <1>2, <3>1, <3>2, TimesKeeps
  <2>3. (s * w) * T <= (z * T) * T
    <3>1. s * w \in Int /\ z * T \in Int
      BY <1>1, <1>2
    <3> QED
      BY <1>1, <1>7, <3>1, TimesKeeps
  <2>4. /\ (F * T) * (w - 1) = (F * (w - 1)) * T
        /\ (s * (T + 1)) * (w - 1) = ((T + 1) * (w - 1)) * s
        /\ (T * w) * s = (s * w) * T
        /\ (F * (w - 1)) * T \in Int /\ ((T + 1) * (w - 1)) * s \in Int
        /\ (s * w) * T \in Int /\ (z * T) * T \in Int
    BY <1>1, <1>2, <1>3
  <2>5. (F * (w - 1)) * T <= (z * T) * T
    BY <2>1, <2>2, <2>3, <2>4
  <2>6. F * (w - 1) \in Int /\ z * T \in Int /\ T \in Nat \ {0}
    BY <1>1, <1>2, <1>3
  <2> QED
    BY <2>5, <2>6, TimesCancels
<1> QED
  BY <1>8, <1>9 DEF Within, F, s, z, T

\* The sum of the chances is the number of key IDs taken, each counted for every
\* prefix, up to one rounding more than there are prefixes.
LEMMA SumOfTheTaken ==
    ASSUME NEW l \in Nat \ {0}, l + 1 < ONE, NEW ps, NEW max, NEW c \in [1..l -> Nat],
           \A i \in 1..l : /\ Cardinality(Taken(ps[i], max)) \in Nat \ {0}
                           /\ Near(c[i], Cardinality(Taken(ps[i], max)))
    PROVE  /\ TotalChance(c) \in Nat \ {0}
           /\ Within(TotalChance(c), Cardinality(TakenForEach(ps, l, max)), ONE - (l + 1))
           /\ Cardinality(TakenForOne(ps, l, max)) \in Nat
           /\ Cardinality(TakenForEach(ps, l, max)) \in Nat \ {0}
           /\ Cardinality(TakenForOne(ps, l, max)) <= Cardinality(TakenForEach(ps, l, max))
<1> DEFINE one(k) == Cardinality(TakenForOne(ps, k, max))
           each(k) == Cardinality(TakenForEach(ps, k, max))
           more(k) == Cardinality(Taken(ps[k], max))
<1>1. PICK s \in [0..l -> Nat] :
          s[0] = 0 /\ TotalChance(c) = s[l] /\ \A k \in 1..l : s[k] = f64(s[k - 1] + c[k], 1)
  BY TotalSteps
<1>2. ONE \in Nat
  BY OneIs
<1>3. /\ \A k \in Nat : one(k) \in Nat /\ each(k) \in Nat
      /\ one(0) = 0 /\ each(0) = 0
      /\ \A k \in 1..l : one(k) <= one(k - 1) + more(k) /\ each(k) = each(k - 1) + more(k)
  <2>1. 0 \in Nat /\ \A k \in 1..l : k \in Nat /\ k # 0
    OBVIOUS
  <2> QED
    BY <2>1, OnePrefixMore
<1>4. \A k \in 1..l : more(k) \in Nat \ {0} /\ Near(c[k], more(k))
  OBVIOUS
<1> HIDE DEF one, each, more
<1> DEFINE S == {k \in 0..l : /\ Within(s[k], each(k), ONE - (k + 1)) /\ one(k) <= each(k)
                              /\ k = 0 \/ each(k) # 0}
<1>5. 0 \in S
  <2>1. Within(0, 0, ONE - 1)
    BY <1>2 DEF Within
  <2> QED
    BY <1>1, <1>3, <2>1
<1>6. ASSUME NEW k \in 1..l, k - 1 \in S
      PROVE  k \in S
  <2>1. k - 1 \in Nat /\ k \in Nat /\ ONE - ((k - 1) + 1) = ONE - k /\ (ONE - k) - 1 = ONE - (k + 1)
    BY <1>2
  <2>2. ONE - k \in 1..ONE - 1
    BY <1>2
  <2>3. Within(s[k - 1], each(k - 1), ONE - k) /\ one(k - 1) <= each(k - 1)
    BY <1>6, <2>1
  <2>4. /\ s[k - 1] \in Nat /\ each(k - 1) \in Nat /\ c[k] \in Nat /\ more(k) \in Nat \ {0}
        /\ Near(c[k], more(k)) /\ one(k - 1) \in Nat /\ one(k) \in Nat
    BY <1>1, <1>3, <1>4, <2>1
  <2>5. Within(f64(s[k - 1] + c[k], 1), each(k - 1) + more(k), (ONE - k) - 1)
    <3> DEFINE x == s[k - 1]
               y == each(k - 1)
               w == ONE - k
               d == c[k]
               t == more(k)
    <3>1. x \in Nat /\ y \in Nat /\ w \in 1..ONE - 1 /\ d \in Nat /\ t \in Nat
          /\ Within(x, y, w) /\ Near(d, t)
      BY <2>2, <2>3, <2>4
    <3> HIDE DEF x, y, w, d, t
    <3>2. Within(f64(x + d, 1), y + t, w - 1)
      BY <3>1, OneTermMore
    <3> QED
      BY <3>2 DEF x, y, w, d, t
  <2>6. s[k] = f64(s[k - 1] + c[k], 1) /\ each(k) = each(k - 1) + more(k) /\ one(k) <= one(k - 1) + more(k)
    BY <1>1, <1>3
  <2>7. Within(s[k], each(k), ONE - (k + 1))
    BY <2>1, <2>5, <2>6
  <2>8. one(k) <= each(k) /\ each(k) # 0
    <3> DEFINE o == one(k - 1)
               e == each(k - 1)
               t == more(k)
               o1 == one(k)
               e1 == each(k)
    <3>1. /\ o \in Nat /\ e \in Nat /\ t \in Nat \ {0} /\ o1 \in Nat
          /\ o <= e /\ o1 <= o + t /\ e1 = e + t
      BY <2>3, <2>4, <2>6
    <3> HIDE DEF o, e, t, o1, e1
    <3>2. o1 <= e1 /\ e1 # 0
      BY <3>1
    <3> QED
      BY <3>2 DEF o1, e1
  <2> QED
    BY <2>7, <2>8
<1>7. l \in S
  <2> HIDE DEF S
  <2>1. \A k \in 0..l : k \in S
    BY <1>5, <1>6, InductionUpTo
  <2> QED
    BY <2>1
<1>8. s[l] # 0
  <2>1. each(l) \in Nat \ {0} /\ ONE - (l + 1) \in Nat \ {0}
    BY <1>2, <1>3, <1>7
  <2>2. each(l) * (ONE - (l + 1)) # 0
    BY <2>1
  <2>3. each(l) * (ONE - (l + 1)) \in Nat
    BY <2>1
  <2>4. each(l) * (ONE - (l + 1)) <= s[l] * ONE
    BY <1>7 DEF Within
  <2>5. s[l] = 0 => s[l] * ONE = 0
    BY <1>2
  <2> QED
    BY <2>2, <2>3, <2>4, <2>5
<1> QED
  BY <1>1, <1>3, <1>7, <1>8 DEF one, each

LEMMA ExpectedScans ==
    ASSUME NEW l \in Nat \ {0}, NEW ps, DOMAIN ps = 1..l, NEW max \in Nat,
           \A i \in 1..l : \E h : Stands(ps[i], h)
    PROVE  LET all == 2^(KEY_DIGITS * DIGIT_BITS)
               size == set_search_space_size(ps, max)
               rounded == l + 1
           IN  /\ size * Cardinality(TakenForOne(ps, l, max)) * (ONE - rounded) <= all * (ONE + 1)
               /\ all * (ONE - rounded - 1) <= (size + 1) * Cardinality(TakenForEach(ps, l, max)) * ONE
<1> DEFINE all == 2^(KEY_DIGITS * DIGIT_BITS)
           size == set_search_space_size(ps, max)
           chance(p) == (f64(match_count(p, max), 1) * all) \div search_space_size(p)
           c == [i \in DOMAIN ps |-> chance(ps[i])]
           T == TotalChance(c)
           m == Cardinality(TakenForOne(ps, l, max))
           X == Cardinality(TakenForEach(ps, l, max))
           w == ONE - (l + 1)
<1>1. size = f64(all * ONE, T) \div ONE
  BY Zenon DEF set_search_space_size
<1>2. all \in Nat
  <2>1. KEY_DIGITS * DIGIT_BITS \in Nat
    BY Sizes
  <2> QED
    BY <2>1, PowerSum
<1>3. ONE \in Nat /\ 2 <= ONE
  BY OneIs
<1>4. /\ c \in [1..l -> Nat \ {0}]
      /\ \A i \in 1..l : /\ Cardinality(Taken(ps[i], max)) \in Nat \ {0}
                         /\ Near(c[i], Cardinality(Taken(ps[i], max)))
  <2>1. \A i \in 1..l : /\ chance(ps[i]) \in Nat
                        /\ Cardinality(Taken(ps[i], max)) \in Nat \ {0}
                        /\ Near(chance(ps[i]), Cardinality(Taken(ps[i], max)))
    BY ChanceIsTaken DEF Chance
  <2> HIDE DEF chance
  <2>2. \A i \in 1..l : chance(ps[i]) # 0
    BY <2>1, NotToZero
  <2> QED
    BY <2>1, <2>2
<1>5. m \in Nat /\ X \in Nat
  BY OnePrefixMore
<1>6. T \in Nat \ {0}
  <2> HIDE DEF c
  <2> QED
    BY <1>4, TotalNotZero
<1>7. /\ size \in Nat /\ (size * T) * ONE <= all * (ONE + 1)
      /\ all * (ONE - 1) <= ((size + 1) * T) * ONE
  <2> HIDE DEF all, T
  <2> QED
    BY <1>1, <1>2, <1>6, Reciprocal
<1>8. CASE ~ (l + 1 < ONE)
  <2>1. w \in Int /\ w <= 0 /\ w - 1 <= 0
    BY <1>3, <1>8
  <2> HIDE DEF all, size, m, X, w
  <2>2. size * m \in Nat /\ w * (size * m) <= 0 * (size * m) /\ w * (size * m) = size * m * w
    BY <1>5, <1>7, <2>1, TimesKeeps
  <2>3. (w - 1) * all <= 0 * all /\ (w - 1) * all = all * (w - 1)
    BY <1>2, <2>1, TimesKeeps
  <2>4. all * (ONE + 1) \in Nat /\ (size + 1) * X * ONE \in Nat
    BY <1>2, <1>3, <1>5, <1>7
  <2>5. size * m * w <= all * (ONE + 1) /\ all * (w - 1) <= (size + 1) * X * ONE
    <3>1. 0 * (size * m) = 0 /\ 0 * all = 0 /\ w * (size * m) \in Int /\ (w - 1) * all \in Int
      BY <1>2, <2>1, <2>2
    <3> QED
      BY <2>2, <2>3, <2>4, <3>1
  <2> QED
    BY <2>5 DEF all, size, m, X, w
<1>9. CASE l + 1 < ONE
  <2>1. w \in Nat \ {0} /\ w <= ONE
    BY <1>3, <1>9
  <2>2. Within(T, X, w) /\ m <= X
    <3>1. c \in [1..l -> Nat]
      BY <1>4
    <3> HIDE DEF c
    <3> QED
      BY <1>4, <1>9, <3>1, SumOfTheTaken
  <2>3. X * w <= T * ONE /\ T * w <= X * ONE
    BY <2>2 DEF Within
  <2> DEFINE O == ONE
             k == size + 1
  <2>4. O \in Nat \ {0} /\ k \in Nat /\ w <= O
        /\ (size * T) * O <= all * (O + 1) /\ all * (O - 1) <= (k * T) * O
    BY <1>3, <1>7, <2>1
  <2>5. X * w <= T * O /\ T * w <= X * O
    BY <2>3
  <2> HIDE DEF all, size, m, X, w, T, O, k
  <2>6. size * m * w <= all * (O + 1)
    <3>1. m * (size * w) <= X * (size * w)
      <4>1. size * w \in Nat
        BY <1>7, <2>1
      <4> QED
        BY <1>5, <2>2, <4>1, TimesKeeps
    <3>2. (X * w) * size <= (T * O) * size
      <4>1. X * w \in Int /\ T * O \in Int
        BY <1>5, <1>6, <2>1, <2>4
      <4> QED
        BY <1>7, <2>5, <4>1, TimesKeeps
    <3>3. /\ m * (size * w) = size * m * w /\ X * (size * w) = (X * w) * size
          /\ (T * O) * size = (size * T) * O
          /\ size * m * w \in Int /\ (X * w) * size \in Int /\ (size * T) * O \in Int
          /\ all * (O + 1) \in Int
      BY <1>2, <1>5, <1>6, <1>7, <2>1, <2>4
    <3> QED
      BY <2>4, <3>1, <3>2, <3>3
  <2>7. all * (w - 1) <= k * X * O
    <3>1. (all * (O - 1)) * w <= ((k * T) * O) * w
      <4>1. all * (O - 1) \in Int /\ (k * T) * O \in Int
        BY <1>2, <1>6, <2>4
      <4> QED
        BY <2>1, <2>4, <4>1, TimesKeeps
    <3>2. (T * w) * (k * O) <= (X * O) * (k * O)
      <4>1. T * w \in Int /\ X * O \in Int /\ k * O \in Nat
        BY <1>5, <1>6, <2>1, <2>4
      <4> QED
        BY <2>5, <4>1, TimesKeeps
    <3>3. ((w - 1) * O) * all <= ((O - 1) * w) * all
      <4>1. (w - 1) * O = w * O - O /\ (O - 1) * w = w * O - w /\ w * O \in Int
        BY <2>1, <2>4
      <4>2. (w - 1) * O <= (O - 1) * w /\ (w - 1) * O \in Int /\ (O - 1) * w \in Int
        BY <2>1, <2>4, <4>1
      <4> QED
        BY <1>2, <4>2, TimesKeeps
    <3>4. /\ ((k * T) * O) * w = (T * w) * (k * O)
          /\ (X * O) * (k * O) = (k * X * O) * O
          /\ ((w - 1) * O) * all = (all * (w - 1)) * O
          /\ ((O - 1) * w) * all = (all * (O - 1)) * w
          /\ (all * (w - 1)) * O \in Int /\ (k * X * O) * O \in Int
          /\ (all * (O - 1)) * w \in Int /\ (T * w) * (k * O) \in Int
      BY <1>2, <1>5, <1>6, <2>1, <2>4
    <3>5. (all * (w - 1)) * O <= (k * X * O) * O
      BY <3>1, <3>2, <3>3, <3>4
    <3>6. all * (w - 1) \in Int /\ k * X * O \in Int
      BY <1>2, <1>5, <2>1, <2>4
    <3> QED
      BY <2>4, <3>5, <3>6, TimesCancels
  <2> QED
    BY <2>6, <2>7 DEF all, size, m, X, w, O, k
<1> QED
  BY <1>8, <1>9

-----------------------------------------------------------------------------
(* The invariant of the prefix loop.                                       *)

\* The prefixes are the texts as parsed, and all of these could be.
ParsedAsGiven ==
    /\ stage \in {"parse", "rejected"} => prefixes = <<>>
    /\ stage \notin {"parse", "rejected"} =>
          /\ texts \in Seq(Seq(Characters)) /\ IsPrefixSet(texts)
          /\ prefixes = [i \in DOMAIN texts |-> parse(texts[i])]

\* The prefixes are those of the texts and those that were uploaded, no prefix
\* before the current one matches, and a verdict is the CPU's verdict.
MatchInv ==
    /\ MatchTypeOK
    /\ ParsedAsGiven
    /\ packed = pack(prefixes)
    /\ stage = "parse" => prefix_index = 0
    /\ stage = "compare" =>
          \A i \in 1..prefix_index : ~ matches_with_error(prefixes[i], key_id, max_error)
    /\ TakesWhatMatches

\* At first nothing is parsed.
LEMMA MatchInvInit ==
    ASSUME MatchInit
    PROVE  MatchInv
<1>1. MatchTypeOK
  BY DEF MatchInit, MatchTypeOK, KeyIds, Words
<1>2. packed = pack(prefixes)
  BY DEF MatchInit, pack
<1> QED
  BY <1>1, <1>2 DEF MatchInit, MatchInv, TakesWhatMatches, ParsedAsGiven

\* Uploading gives the device's words of as many prefixes.
LEMMA PackTypes ==
    ASSUME NEW ps, Len(ps) \in Nat, DOMAIN ps = 1..Len(ps),
           \A i \in DOMAIN ps : {ps[i].mask, ps[i].aligned_value} \subseteq KeyIds
    PROVE  pack(ps) \in Seq(Halves) /\ Len(pack(ps)) = 4 * Len(ps)
<1>1. ASSUME NEW i \in 1..(4 * Len(ps))
      PROVE  PackWords(ps[((i - 1) \div 4) + 1])[((i - 1) % 4) + 1] \in Halves
  <2>1. ((i - 1) \div 4) + 1 \in 1..Len(ps) /\ ((i - 1) % 4) + 1 \in 1..4
    OBVIOUS
  <2>2. \A w : HighHalf(w) \in Halves /\ LowHalf(w) \in Halves
    BY DEF HighHalf, LowHalf, Halves, Words
  <2>3. \A k \in 1..4 : \A p : PackWords(p)[k] \in Halves
    BY <2>2 DEF PackWords
  <2> QED
    BY <2>1, <2>3
<1> QED
  BY <1>1 DEF pack

\* Comparing leaves the prefixes alone.
LEMMA ParsedKept ==
    ASSUME ParsedAsGiven, stage \notin {"parse", "rejected"}, stage' \notin {"parse", "rejected"},
           UNCHANGED <<texts, prefixes>>
    PROVE  ParsedAsGiven'
BY DEF ParsedAsGiven

\* Every step keeps it.
LEMMA MatchInvNext ==
    ASSUME MatchInv, [MatchNext]_match_vars
    PROVE  MatchInv'
<1> USE DEF MatchInv
<1>1. CASE Parse
  <2>1. CASE IsPrefixSet(texts')
    <3>1. texts' \in Seq(Seq(Characters)) /\ max_error' \in Nat
      BY <1>1, RequestsAssumption DEF Parse
    <3>2. prefixes' = [i \in DOMAIN texts' |-> parse(texts'[i])] /\ packed' = pack(prefixes')
      BY <1>1, <2>1 DEF Parse
    <3>3. Len(prefixes') \in Nat /\ DOMAIN prefixes' = 1..Len(prefixes')
      BY <3>1, <3>2
    <3>4. \A i \in DOMAIN prefixes' : {prefixes'[i].mask, prefixes'[i].aligned_value} \subseteq KeyIds
      BY <3>2 DEF parse, Aligned, ShiftLeft, KeyIds, Words
    <3>5. packed' \in Seq(Halves) /\ Len(packed') = 4 * Len(prefixes')
      BY <3>2, <3>3, <3>4, PackTypes
    <3>6. stage' = "ready" /\ key_id' = key_id /\ prefix_index' = prefix_index /\ prefix_index = 0
      BY <1>1, <2>1 DEF Parse
    <3>7. MatchTypeOK'
      BY <3>1, <3>3, <3>4, <3>5, <3>6 DEF MatchTypeOK
    <3>8. ParsedAsGiven'
      BY <2>1, <3>1, <3>2, <3>6 DEF ParsedAsGiven
    <3> QED
      BY <3>2, <3>6, <3>7, <3>8 DEF TakesWhatMatches, pack
  <2>2. CASE ~ IsPrefixSet(texts')
    <3>1. stage' = "rejected" /\ max_error' \in Nat /\ UNCHANGED <<prefixes, packed, key_id, prefix_index>>
      BY <1>1, <2>2, RequestsAssumption DEF Parse
    <3>2. ParsedAsGiven'
      <4>1. stage = "parse"
        BY <1>1 DEF Parse
      <4> QED
        BY <3>1, <4>1 DEF ParsedAsGiven
    <3> QED
      BY <3>1, <3>2 DEF MatchTypeOK, TakesWhatMatches, pack
  <2> QED
    BY <2>1, <2>2
<1>2. CASE NextCandidate
  <2>1. stage' = "compare" /\ prefix_index' = 0 /\ key_id' \in KeyIds /\ UNCHANGED set
    BY <1>2 DEF NextCandidate
  <2>2. MatchTypeOK'
    BY <2>1 DEF MatchTypeOK, set
  <2>3. ParsedAsGiven'
    <3>1. stage = "ready"
      BY <1>2 DEF NextCandidate
    <3> QED
      BY <2>1, <3>1, ParsedKept DEF set
  <2> QED
    BY <2>1, <2>2, <2>3 DEF TakesWhatMatches, set, pack
<1>3. CASE ComparePrefix
  <2>1. /\ stage = "compare" /\ prefix_index < Len(prefixes)
        /\ UNCHANGED <<texts, prefixes, max_error, packed, key_id>>
    BY <1>3 DEF ComparePrefix, set
  <2>2. KernelMatches <=> matches_with_error(prefixes[prefix_index + 1], key_id, max_error)
    BY <2>1, KernelMeansMatch
  <2>3. prefix_index + 1 \in DOMAIN prefixes
    BY <2>1 DEF MatchTypeOK
  <2>4. CASE KernelMatches
    <3>1. stage' = "hit" /\ prefix_index' = prefix_index
      BY <1>3, <2>4 DEF ComparePrefix
    <3>2. matches(prefixes, max_error, key_id)
      BY <2>2, <2>3, <2>4 DEF matches
    <3>3. matches(prefixes, max_error, key_id)'
      BY <2>1, <3>2 DEF matches, matches_with_error, error_count
    <3>4. ParsedAsGiven'
      BY <2>1, <3>1, ParsedKept
    <3> QED
      BY <2>1, <3>1, <3>3, <3>4 DEF MatchTypeOK, TakesWhatMatches, pack
  <2>5. CASE ~ KernelMatches
    <3>1. stage' = stage /\ prefix_index' = prefix_index + 1
      BY <1>3, <2>5 DEF ComparePrefix
    <3>2. \A i \in 1..prefix_index + 1 : ~ matches_with_error(prefixes[i], key_id, max_error)
      BY <2>1, <2>2, <2>5 DEF MatchTypeOK
    <3>3. MatchTypeOK'
      BY <2>1, <3>1 DEF MatchTypeOK
    <3>4. ParsedAsGiven'
      BY <2>1, <3>1, ParsedKept
    <3> QED
      BY <2>1, <3>1, <3>2, <3>3, <3>4
      DEF TakesWhatMatches, pack, matches_with_error, error_count
  <2> QED
    BY <2>4, <2>5
<1>4. CASE NoPrefixLeft
  <2>1. /\ stage = "compare" /\ prefix_index = Len(prefixes) /\ stage' = "miss"
        /\ UNCHANGED <<texts, prefixes, max_error, packed, key_id, prefix_index>>
    BY <1>4 DEF NoPrefixLeft, set
  <2>2. ~ matches(prefixes, max_error, key_id)
    BY <2>1 DEF matches, MatchTypeOK
  <2>3. (~ matches(prefixes, max_error, key_id))'
    BY <2>1, <2>2 DEF matches, matches_with_error, error_count
  <2>4. ParsedAsGiven'
    BY <2>1, ParsedKept
  <2> QED
    BY <2>1, <2>3, <2>4 DEF MatchTypeOK, TakesWhatMatches, pack
<1>5. CASE UNCHANGED match_vars
  BY <1>5
  DEF match_vars, set, MatchTypeOK, ParsedAsGiven, TakesWhatMatches, pack, matches,
      matches_with_error, error_count
<1> QED
  BY <1>1, <1>2, <1>3, <1>4, <1>5 DEF MatchNext

THEOREM MatchInvHolds == MatchSpec => []MatchInv
<1> QED
  BY MatchInvInit, MatchInvNext, PTL DEF MatchSpec

\* A candidate's rounds and prefixes together take the steps of the prefixes.
THEOREM CandidateMatches == Spec => MatchSpec
<1>1. Init => MatchInit
  BY DEF Init
<1>2. [Next]_vars => [MatchNext]_match_vars
  BY DEF Next, Compare, vars
<1> QED
  BY <1>1, <1>2, PTL DEF Spec, MatchSpec

\* The words of the prefixes fit into the device's, and the loop stays within
\* them.
THEOREM MatchTypeOKHolds == Spec => []MatchTypeOK
<1>1. MatchInv => MatchTypeOK
  BY DEF MatchInv
<1> QED
  BY <1>1, MatchInvHolds, CandidateMatches, PTL

\* The kernel takes a candidate iff the CPU's comparison does.
THEOREM TakesWhatMatchesHolds == Spec => []TakesWhatMatches
<1>1. MatchInv => TakesWhatMatches
  BY DEF MatchInv
<1> QED
  BY <1>1, MatchInvHolds, CandidateMatches, PTL

\* Once parsed, every prefix stands for the digits of its text.
LEMMA AllStand ==
    ASSUME ParsedAsGiven, stage \notin {"parse", "rejected"}
    PROVE  /\ Len(texts) \in Nat \ {0} /\ DOMAIN texts = 1..Len(texts) /\ DOMAIN prefixes = DOMAIN texts
           /\ \A i \in DOMAIN texts : Stands(prefixes[i], hex(texts[i]))
<1>1. /\ texts \in Seq(Seq(Characters)) /\ texts # <<>>
      /\ \A i \in DOMAIN texts : Parses(texts[i])
      /\ prefixes = [i \in DOMAIN texts |-> parse(texts[i])]
  BY DEF ParsedAsGiven, IsPrefixSet
<1>2. \A i \in DOMAIN texts : texts[i] \in Seq(Characters)
  BY <1>1
<1>3. \A i \in DOMAIN texts : Stands(parse(texts[i]), hex(texts[i]))
  BY <1>1, <1>2, ParsedStands
<1>4. Len(texts) \in Nat \ {0} /\ DOMAIN texts = 1..Len(texts)
  BY <1>1
<1> QED
  BY <1>1, <1>3, <1>4

\* What is shown of a prefix to the user is the digits of the text.
THEOREM ShownAsGivenHolds == Spec => []ShownAsGiven
<1>1. MatchInv => ShownAsGiven
  BY AllStand, ShownDigits DEF MatchInv, ShownAsGiven
<1> QED
  BY <1>1, MatchInvHolds, CandidateMatches, PTL

\* error_count counts the digits in which a key ID differs from the text.
THEOREM CountsWrongDigitsHolds == Spec => []CountsWrongDigits
<1>1. MatchInv => CountsWrongDigits
  <2> SUFFICES ASSUME MatchInv, Judged, NEW i \in DOMAIN prefixes
               PROVE  error_count(prefixes[i], key_id) =
                          Cardinality({n \in DOMAIN hex(texts[i]) :
                                           hex(texts[i])[n] # DigitAt(key_id, n - 1)})
    BY DEF CountsWrongDigits
  <2>1. Stands(prefixes[i], hex(texts[i]))
    BY AllStand DEF MatchInv, Judged
  <2>2. key_id \in KeyIds
    BY DEF MatchInv, MatchTypeOK
  <2> QED
    BY <2>1, <2>2, WrongDigitsCounted
<1> QED
  BY <1>1, MatchInvHolds, CandidateMatches, PTL

\* The formula of match_count gives the chance that a key ID matches, with its
\* running binomial coefficients, for every number of errors.
THEOREM MatchCountTrueHolds == Spec => []MatchCountTrue
<1>1. MatchInv => MatchCountTrue
  <2> SUFFICES ASSUME MatchInv, stage = "ready", NEW i \in DOMAIN prefixes
               PROVE  match_count(prefixes[i], max_error) * 2^(KEY_DIGITS * DIGIT_BITS)
                          = Cardinality(Matching(<<prefixes[i]>>)) * search_space_size(prefixes[i])
    BY DEF MatchCountTrue
  <2>1. Stands(prefixes[i], hex(texts[i])) /\ max_error \in Nat
    BY AllStand DEF MatchInv, MatchTypeOK
  <2>2. Matching(<<prefixes[i]>>) = Taken(prefixes[i], max_error)
    BY DEF Matching, Taken, matches
  <2> QED
    BY <2>1, <2>2, MatchCounted
<1> QED
  BY <1>1, MatchInvHolds, CandidateMatches, PTL

\* Among as many candidates as set_search_space_size says, no more than one match
\* is expected, also when prefixes overlap, and one more than so many bring one
\* if they do not: both up to the roundings of f64.
THEOREM ExpectedUpToRoundingHolds == Spec => []ExpectedUpToRounding
<1>1. MatchInv => ExpectedUpToRounding
  <2> SUFFICES ASSUME MatchInv, stage = "ready"
               PROVE  ExpectedUpToRounding
    BY DEF ExpectedUpToRounding
  <2> DEFINE l == Len(texts)
  <2>1. /\ l \in Nat \ {0} /\ DOMAIN prefixes = 1..l /\ Len(prefixes) = l
        /\ \A i \in 1..l : \E h : Stands(prefixes[i], h)
    <3>1. /\ Len(texts) \in Nat \ {0} /\ DOMAIN prefixes = 1..Len(texts)
          /\ \A i \in 1..Len(texts) : \E h : Stands(prefixes[i], h)
      BY AllStand DEF MatchInv
    <3>2. prefixes = [i \in 1..Len(texts) |-> prefixes[i]]
      BY <3>1 DEF MatchInv, ParsedAsGiven
    <3> QED
      BY <3>1, <3>2
  <2>2. max_error \in Nat
    BY DEF MatchInv, MatchTypeOK
  <2> HIDE DEF l
  <2>3. Matching(prefixes) = TakenForOne(prefixes, l, max_error)
    BY <2>1 DEF Matching, TakenForOne, matches
  <2>4. MatchingEach(prefixes) = TakenForEach(prefixes, l, max_error)
    BY <2>1 DEF MatchingEach, TakenForEach
  <2>5. LET all == 2^(KEY_DIGITS * DIGIT_BITS)
            size == set_search_space_size(prefixes, max_error)
            rounded == l + 1
        IN  /\ size * Cardinality(TakenForOne(prefixes, l, max_error)) * (ONE - rounded)
                   <= all * (ONE + 1)
            /\ all * (ONE - rounded - 1)
                   <= (size + 1) * Cardinality(TakenForEach(prefixes, l, max_error)) * ONE
    BY <2>1, <2>2, ExpectedScans
  <2> QED
    BY <2>1, <2>3, <2>4, <2>5, Zenon DEF ExpectedUpToRounding
<1> QED
  BY <1>1, MatchInvHolds, CandidateMatches, PTL

-----------------------------------------------------------------------------
(* Five whole key IDs at the sizes of the code.                            *)

\* Whole numbers that fit into the significand stay what they are.
LEMMA NotRounded ==
    ASSUME NEW a \in Nat, a < ONE
    PROVE  f64(a, 1) = a
<1> DEFINE k == CHOOSE k \in 0..a : /\ a < 1 * 2^(SIGNIFICAND + k)
                                    /\ k # 0 => 1 * 2^(SIGNIFICAND + k - 1) <= a
<1>1. k \in 0..a /\ Drops(a, 1, k)
  <2>1. \E n \in 0..a : Drops(a, 1, n)
    BY PointExists
  <2> QED
    BY <2>1 DEF Drops
<1>2. f64(a, 1) = Nearest(a, 1 * 2^k) * 2^k
  BY Zenon DEF f64
<1> HIDE DEF k
<1>3. CASE k # 0
  <2>1. k - 1 \in Nat /\ SIGNIFICAND \in Nat /\ SIGNIFICAND + k - 1 = SIGNIFICAND + (k - 1)
    BY <1>1, <1>3, SizesAssumption
  <2>2. 2^(SIGNIFICAND + (k - 1)) = ONE * 2^(k - 1) /\ 2^(k - 1) \in Nat \ {0}
    BY <2>1, PowerSum DEF ONE
  <2> DEFINE h == 2^(k - 1)
  <2>3. h \in Nat \ {0} /\ 1 * (ONE * h) <= a
    BY <1>1, <1>3, <2>1, <2>2 DEF Drops
  <2> HIDE DEF h
  <2>4. 1 * ONE <= h * ONE /\ ONE \in Nat
    BY <2>3, OneIs, TimesKeeps
  <2>5. h * ONE = ONE * h /\ ONE * h \in Nat
    BY <2>3, <2>4
  <2> QED
    BY <2>3, <2>4, <2>5
<1>4. CASE k = 0
  <2>1. 2^k = 1
    BY <1>4, PowerStep
  <2>2. Nearest(a, 1) = a
    BY NearestIs
  <2> QED
    BY <1>2, <2>1, <2>2
<1> QED
  BY <1>3, <1>4

Two(n) == 2^n

\* Powers of two that are not computed where they are used.
LEMMA TwoNat == \A n \in Nat : Two(n) \in Nat \ {0}
BY PowerSum DEF Two

LEMMA TwoSum == \A m, n \in Nat : Two(m + n) = Two(m) * Two(n)
BY PowerSum DEF Two

LEMMA TwoIs == Two(1) = 2 /\ Two(3) = 8 /\ Two(5) = 32 /\ Two(9) = 512 /\ Two(10) = 1024
<1>1. Two(1) = 2
  BY DEF Two
<1>2. Two(2) = 4 /\ Two(4) = 16
  <2>1. Two(1 + 1) = 2 * 2
    BY <1>1, TwoSum
  <2>2. Two(2 + 2) = Two(2) * Two(2)
    BY TwoSum
  <2> QED
    BY <2>1, <2>2
<1>3. Two(5) = 32
  <2>1. Two(4 + 1) = Two(4) * Two(1)
    BY TwoSum
  <2> QED
    BY <1>1, <1>2, <2>1
<1>4. Two(10) = 1024
  <2>1. Two(5 + 5) = Two(5) * Two(5)
    BY TwoSum
  <2> QED
    BY <1>3, <2>1
<1>5. Two(3) = 8
  <2>1. Two(2 + 1) = Two(2) * Two(1)
    BY TwoSum
  <2> QED
    BY <1>1, <1>2, <2>1
<1>6. Two(9) = 512
  <2>1. Two(5 + 4) = Two(5) * Two(4)
    BY TwoSum
  <2> QED
    BY <1>2, <1>3, <2>1
<1> QED
  BY <1>1, <1>3, <1>4, <1>5, <1>6

\* A fifth of all 64-bit numbers, rounded to 53 bits, is more than a fifth.
LEMMA OneFifth ==
    ASSUME SIGNIFICAND = 53
    PROVE  (f64(Two(64) * ONE, 5) \div ONE) * 5 = Two(64) + 1024
<1> DEFINE a == Two(64) * ONE
           k == CHOOSE k \in 0..a : /\ a < 5 * 2^(SIGNIFICAND + k)
                                    /\ k # 0 => 5 * 2^(SIGNIFICAND + k - 1) <= a
           h == Two(55)
           c == Two(62)
           q == h \div 5
           F == f64(a, 5)
<1>1. ONE = Two(53) /\ a \in Nat
  <2>1. ONE = Two(53)
    BY DEF ONE, Two
  <2>2. Two(64) \in Nat
    BY TwoNat
  <2> QED
    BY <2>1, <2>2, OneIs
<1>2. k \in 0..a /\ a < 5 * Two(53 + k) /\ (k # 0 => 5 * Two(53 + k - 1) <= a)
  <2>1. \E n \in 0..a : Drops(a, 5, n)
    <3> HIDE DEF a
    <3> QED
      BY <1>1, PointExists
  <2>2. k \in 0..a /\ Drops(a, 5, k)
    <3> HIDE DEF a
    <3> QED
      BY <2>1 DEF Drops
  <2> HIDE DEF a, k
  <2> QED
    BY <2>2 DEF Drops, Two
<1>3. F = Nearest(a, 5 * Two(k)) * Two(k)
  <2>1. F = Nearest(a, 5 * 2^k) * 2^k
    BY Zenon DEF f64
  <2> HIDE DEF a, k, F
  <2> QED
    BY <2>1 DEF Two
<1> HIDE DEF k, F
<1>4. h \in Nat /\ c \in Nat \ {0} /\ a = h * c /\ c = ONE * 512 /\ Two(64) = h * 512
  <2>1. Two(64) = Two(55) * Two(9)
    <3>1. Two(55 + 9) = Two(55) * Two(9)
      BY TwoSum
    <3> QED
      BY <3>1
  <2>2. Two(62) = Two(53) * Two(9)
    <3>1. Two(53 + 9) = Two(53) * Two(9)
      BY TwoSum
    <3> QED
      BY <3>1
  <2>3. Two(9) = 512
    BY TwoIs
  <2>4. h \in Nat /\ c \in Nat \ {0} /\ ONE \in Nat
    <3>1. Two(55) \in Nat
      BY TwoNat
    <3>2. Two(62) \in Nat \ {0}
      BY TwoNat
    <3> QED
      BY <3>1, <3>2, OneIs
  <2>5. a = (h * 512) * ONE /\ (h * 512) * ONE = h * (ONE * 512)
    BY <2>1, <2>3, <2>4
  <2> QED
    BY <1>1, <2>1, <2>2, <2>3, <2>4, <2>5
<1>5. h = 5 * q + 3 /\ q \in Nat
  <2>1. Two(15) = 32768
    <3>1. Two(5 + 10) = 32 * 1024
      BY TwoIs, TwoSum
    <3> QED
      BY <3>1
  <2>2. Two(25) = 33554432
    <3>1. Two(15 + 10) = 32768 * 1024
      BY <2>1, TwoIs, TwoSum
    <3> QED
      BY <3>1
  <2>3. Two(35) = 34359738368
    <3>1. Two(25 + 10) = 33554432 * 1024
      BY <2>2, TwoIs, TwoSum
    <3> QED
      BY <3>1
  <2>4. Two(45) = 35184372088832
    <3>1. Two(35 + 10) = 34359738368 * 1024
      BY <2>3, TwoIs, TwoSum
    <3> QED
      BY <3>1
  <2>5. Two(55) = 36028797018963968
    <3>1. Two(45 + 10) = 35184372088832 * 1024
      BY <2>4, TwoIs, TwoSum
    <3> QED
      BY <3>1
  <2> QED
    BY <2>5
<1> HIDE DEF a, h, c, q
<1>6. k = 62
  <2> DEFINE p == Two(114)
  <2>1. a = 8 * p /\ p \in Nat \ {0} /\ Two(115) = 2 * p
    <3>1. a = Two(117)
      <4>1. Two(64 + 53) = Two(64) * Two(53)
        BY TwoSum
      <4> QED
        BY <1>1, <4>1 DEF a
    <3>2. Two(115) = Two(114) * 2
      <4>1. Two(114 + 1) = Two(114) * Two(1)
        BY TwoSum
      <4> QED
        BY <4>1, TwoIs
    <3>3. Two(117) = Two(114) * 8
      <4>1. Two(114 + 3) = Two(114) * Two(3)
        BY TwoSum
      <4> QED
        BY <4>1, TwoIs
    <3>4. Two(114) \in Nat \ {0}
      BY TwoNat
    <3> QED
      BY <3>1, <3>2, <3>3, <3>4
  <2>2. ASSUME k < 62
        PROVE  FALSE
    <3>1. 61 - k \in Nat /\ 53 + k \in Nat /\ (53 + k) + (61 - k) = 114
      BY <1>2, <2>2
    <3> DEFINE x == Two(53 + k)
               y == Two(61 - k)
    <3>2. x \in Nat /\ y \in Nat \ {0} /\ p = x * y
      BY <3>1, TwoNat, TwoSum
    <3>3. a < 5 * x
      BY <1>2
    <3> HIDE DEF x, y, p
    <3>4. 1 * x <= y * x /\ y * x = x * y
      BY <3>2, TimesKeeps
    <3> QED
      BY <2>1, <3>2, <3>3, <3>4
  <2>3. ASSUME k > 62
        PROVE  FALSE
    <3>1. k - 63 \in Nat /\ 115 + (k - 63) = 53 + k - 1 /\ k # 0
      BY <1>2, <2>3
    <3> DEFINE y == Two(k - 63)
    <3>2. Two(115 + (k - 63)) = Two(115) * y /\ y \in Nat \ {0}
      BY <3>1, TwoNat, TwoSum
    <3>3. 5 * ((2 * p) * y) <= a
      BY <1>2, <2>1, <3>1, <3>2
    <3> HIDE DEF y, p
    <3>4. 1 * (2 * p) <= y * (2 * p) /\ y * (2 * p) = (2 * p) * y /\ y * (2 * p) \in Nat
      BY <2>1, <3>2, TimesKeeps
    <3> QED
      BY <2>1, <3>2, <3>3, <3>4
  <2> QED
    BY <1>2, <2>2, <2>3
<1>7. Nearest(a, 5 * c) = q + 1
  <2> DEFINE d == 5 * c
             r == 3 * c
  <2>1. a = q * d + r
    <3>1. (5 * q + 3) * c = q * (5 * c) + 3 * c
      BY <1>4, <1>5
    <3> QED
      BY <1>4, <1>5, <3>1
  <2>2. d \in Nat \ {0} /\ r \in 0..d - 1 /\ 2 * r > d
    BY <1>4
  <2> HIDE DEF d, r
  <2>3. (q * d + r) \div d = q /\ (q * d + r) % d = r
    BY <1>5, <2>2, Quotient
  <2>4. a \div d = q /\ a % d = r
    BY <2>1, <2>3
  <2>5. Nearest(a, d) = q + 1
    BY <2>2, <2>4 DEF Nearest
  <2> QED
    BY <2>5 DEF d
<1>8. F = (q + 1) * c
  BY <1>3, <1>6, <1>7 DEF c
<1>9. F \div ONE = (q + 1) * 512
  <2> DEFINE m == (q + 1) * 512
  <2>1. m \in Nat /\ (q + 1) * c = m * ONE + 0 /\ ONE \in Nat \ {0} /\ 0 \in 0..ONE - 1
    BY <1>4, <1>5, OneIs
  <2> HIDE DEF m
  <2>2. (m * ONE + 0) \div ONE = m
    BY <2>1, Quotient
  <2> QED
    BY <1>8, <2>1, <2>2 DEF m
<1>10. ((q + 1) * 512) * 5 = h * 512 + 1024
  BY <1>5
<1>11. (F \div ONE) * 5 = Two(64) + 1024
  BY <1>4, <1>9, <1>10
<1> QED
  BY <1>11 DEF F, a

LEMMA FiveKept ==
    ASSUME SIGNIFICAND = 53
    PROVE  \A a \in 0..5 : f64(a, 1) = a
<1>1. 5 < ONE
  <2>1. ONE = Two(3 + 50)
    BY DEF ONE, Two
  <2>2. Two(3 + 50) = 8 * Two(50)
    <3>1. Two(3 + 50) = Two(3) * Two(50)
      BY TwoSum
    <3> QED
      BY <3>1, TwoIs
  <2> DEFINE p == Two(50)
  <2>3. p \in Nat \ {0}
    BY TwoNat
  <2>4. ONE = 8 * p
    BY <2>1, <2>2
  <2> HIDE DEF p
  <2> QED
    BY <2>3, <2>4
<1> QED
  BY <1>1, OneIs, NotRounded

LEMMA FiveOnes ==
    ASSUME SIGNIFICAND = 53, NEW c, c = [i \in 1..5 |-> 1]
    PROVE  TotalChance(c) = 5
<1>1. PICK s \in [0..5 -> Nat] :
          s[0] = 0 /\ TotalChance(c) = s[5] /\ \A k \in 1..5 : s[k] = f64(s[k - 1] + c[k], 1)
  <2>1. c \in [1..5 -> Nat] /\ 5 \in Nat
    OBVIOUS
  <2> QED
    BY <2>1, TotalSteps
<1> DEFINE S == {k \in 0..5 : s[k] = k}
<1>2. 0 \in S
  BY <1>1
<1>3. ASSUME NEW k \in 1..5, k - 1 \in S
      PROVE  k \in S
  <2>1. s[k] = f64((k - 1) + 1, 1)
    BY <1>1, <1>3
  <2>2. (k - 1) + 1 = k /\ k \in 0..5
    OBVIOUS
  <2> QED
    BY <2>1, <2>2, FiveKept
<1> HIDE DEF S
<1>4. \A k \in 0..5 : k \in S
  <2>1. 5 \in Nat
    OBVIOUS
  <2> QED
    BY <1>2, <1>3, <2>1, InductionUpTo
<1> QED
  BY <1>1, <1>4 DEF S

\* Without errors a prefix has one way to match.
LEMMA OneWay ==
    ASSUME NEW p, p.nibbles \in Nat
    PROVE  match_count(p, 0) = 1
<1>1. MostErrors(p, 0) = 0
  BY DEF MostErrors
<1>2. 0 \in Nat
  OBVIOUS
<1> QED
  BY <1>1, <1>2, CountSteps

\* A whole key ID matches itself only.
LEMMA ItselfOnly ==
    ASSUME NEW p, NEW h, Stands(p, h), p.nibbles = KEY_DIGITS, NEW id \in KeyIds
    PROVE  matches_with_error(p, id, 0) <=> id = p.aligned_value
<1> DEFINE v == p.aligned_value
           diff == Diff(id, v) \cap p.mask
<1>1. v \in KeyIds /\ p.mask = {x \in Places(KEY_DIGITS) : x[1] < KEY_DIGITS}
  BY Zenon DEF Stands
<1>2. Diff(id, v) \subseteq Places(KEY_DIGITS)
  BY <1>1 DEF Diff, KeyIds, Words, Places
<1>3. p.mask = Places(KEY_DIGITS)
  BY <1>1, Sizes DEF Places
<1>4. diff = Diff(id, v) /\ diff \in KeyIds
  <2>1. diff = Diff(id, v)
    BY <1>2, <1>3, Zenon
  <2>2. Diff(id, v) \in KeyIds
    BY <1>2 DEF KeyIds, Words, Places
  <2> QED
    BY <2>1, <2>2, Zenon
<1>5. error_count(p, id) = Cardinality(Collapse(diff, KEY_DIGITS))
  BY DEF error_count
<1>6. diff = {} <=> id = v
  BY <1>4 DEF Diff
<1> HIDE DEF diff, v
<1>7. Cardinality(Collapse(diff, KEY_DIGITS)) \in Nat
      /\ (Cardinality(Collapse(diff, KEY_DIGITS)) = 0 <=> diff = {})
  BY <1>4, NoneWrong
<1> QED
  BY <1>5, <1>6, <1>7 DEF matches_with_error, v

\* The promise of a lower bound (src/fingerprint.rs:174) is not kept to the last
\* candidate: of key IDs of 16 digits, five that are asked for whole are expected
\* once in a fifth of all, and more than that is returned.
THEOREM FiveKeyIds ==
    ASSUME HALF_DIGITS = 8, DIGIT_BITS = 4, SIGNIFICAND = 53,
           NEW given \in [1..5 -> Seq(Characters)],
           \A i \in 1..5 : Parses(given[i]) /\ Len(hex(given[i])) = KEY_DIGITS,
           \A i, j \in 1..5 : hex(given[i]) = hex(given[j]) => i = j
    PROVE  LET ps == [i \in 1..5 |-> parse(given[i])]
           IN  set_search_space_size(ps, 0) * Cardinality({id \in KeyIds : matches(ps, 0, id)})
                   = 2^(KEY_DIGITS * DIGIT_BITS) + 1024
<1> DEFINE ps == [i \in 1..5 |-> parse(given[i])]
           all == 2^(KEY_DIGITS * DIGIT_BITS)
           chance(p) == (f64(match_count(p, 0), 1) * all) \div search_space_size(p)
           c == [i \in DOMAIN ps |-> chance(ps[i])]
           M == {id \in KeyIds : matches(ps, 0, id)}
           value == [i \in 1..5 |-> ps[i].aligned_value]
<1>1. KEY_DIGITS = 16 /\ KEY_DIGITS * DIGIT_BITS = 64
  BY DEF KEY_DIGITS
<1>2. all \in Nat \ {0}
  <2>1. KEY_DIGITS * DIGIT_BITS \in Nat
    BY <1>1
  <2> QED
    BY <2>1, PowerSum
<1>3. \A i \in 1..5 : /\ Stands(ps[i], hex(given[i])) /\ ps[i].nibbles = KEY_DIGITS
                      /\ ps[i].aligned_value \in KeyIds
  <2> TAKE i \in 1..5
  <2>1. given[i] \in Seq(Characters) /\ Parses(given[i]) /\ ps[i] = parse(given[i])
    OBVIOUS
  <2>2. Stands(ps[i], hex(given[i]))
    BY <2>1, ParsedStands
  <2>3. ps[i].nibbles = KEY_DIGITS
    BY <2>1 DEF parse
  <2> HIDE DEF ps
  <2> QED
    BY <2>2, <2>3 DEF Stands
<1> DOMAIN ps = 1..5
  OBVIOUS
<1> HIDE DEF ps
<1>4. ASSUME NEW i \in 1..5, NEW id \in KeyIds
      PROVE  matches_with_error(ps[i], id, 0) <=> id = ps[i].aligned_value
  BY <1>3, ItselfOnly
<1>5. Cardinality(M) = 5
  <2>1. M = {value[i] : i \in 1..5}
    BY <1>3, <1>4 DEF matches
  <2>2. value \in Bijection(1..5, M)
    <3>1. value \in [1..5 -> M]
      BY <2>1
    <3>2. \A x \in M : \E i \in 1..5 : value[i] = x
      BY <2>1
    <3>3. ASSUME NEW i \in 1..5, NEW j \in 1..5, value[i] = value[j]
          PROVE  i = j
      <4>1. ps[i].nibbles = ps[j].nibbles /\ ps[i].aligned_value = ps[j].aligned_value
        BY <1>3, <3>3
      <4>2. normalized(ps[i]) = normalized(ps[j])
        BY <4>1 DEF normalized
      <4>3. normalized(ps[i]) = hex(given[i]) /\ normalized(ps[j]) = hex(given[j])
        BY <1>3, ShownDigits
      <4> QED
        BY <4>2, <4>3
    <3> HIDE DEF value, M
    <3> QED
      BY <3>1, <3>2, <3>3, Fun_IsBij
  <2>3. IsFiniteSet(1..5) /\ Cardinality(1..5) = 5
    <3>1. IsFiniteSet(1..5) /\ Cardinality(1..5) = IF 1 > 5 THEN 0 ELSE 5 - 1 + 1
      <4>1. \A a, b \in Int :
                IsFiniteSet(a..b) /\ Cardinality(a..b) = IF a > b THEN 0 ELSE b - a + 1
        BY FS_Interval
      <4>2. 1 \in Int /\ 5 \in Int
        OBVIOUS
      <4> QED
        BY <4>1, <4>2, Zenon
    <3> QED
      BY <3>1
  <2> HIDE DEF value, M
  <2>4. ExistsBijection(1..5, M)
    BY <2>2 DEF ExistsBijection
  <2> QED
    BY <2>3, <2>4, FS_Bijection
<1>6. \A i \in 1..5 : chance(ps[i]) = 1
  <2> TAKE i \in 1..5
  <2>1. match_count(ps[i], 0) = 1
    <3>1. ps[i].nibbles = KEY_DIGITS
      BY <1>3, Zenon
    <3>2. KEY_DIGITS \in Nat
      BY Sizes
    <3> QED
      BY <3>1, <3>2, OneWay, Zenon
  <2>2. search_space_size(ps[i]) = all
    BY <1>3 DEF search_space_size
  <2>3. f64(1, 1) = 1
    BY OneIs, NotRounded
  <2> HIDE DEF all
  <2>4. (1 * all) \div all = 1
    BY <1>2
  <2> QED
    BY <2>1, <2>2, <2>3, <2>4
<1>7. c = [i \in 1..5 |-> 1]
  <2> HIDE DEF chance
  <2> QED
    BY <1>6
<1> HIDE DEF c, chance, M, all
<1>8. TotalChance(c) = 5
  BY <1>7, FiveOnes
<1>9. set_search_space_size(ps, 0) = f64(all * ONE, TotalChance(c)) \div ONE
  BY Zenon DEF set_search_space_size, c, chance, all
<1>10. set_search_space_size(ps, 0) * Cardinality(M) = all + 1024
  <2> DEFINE size == set_search_space_size(ps, 0)
             m == Cardinality(M)
             two == Two(64)
             rounded == f64(two * ONE, 5) \div ONE
  <2>1. all = two
    BY <1>1, Zenon DEF all, Two
  <2>2. size = rounded
    BY <1>8, <1>9, <2>1, Zenon
  <2>3. rounded * 5 = two + 1024
    BY OneFifth
  <2>4. m = 5
    BY <1>5
  <2> HIDE DEF size, m, two, rounded
  <2>5. size * m = all + 1024
    BY <2>1, <2>2, <2>3, <2>4
  <2> QED
    BY <2>5 DEF size, m
<1> QED
  BY <1>10, Zenon DEF ps, all, M

-----------------------------------------------------------------------------
(* The table of rotations.                                                 *)

\* The rotations of w1 in a word that follows four with these.
Rises(p, q, r, s) == {(n + 1) % 32 : n \in Xor(Xor(Xor(p, q), r), s)}

\* No rotation of the table goes past the end of a word.
LEMMA RisesTo ==
    ASSUME NEW p \in SUBSET (0..30), NEW q \in SUBSET (0..30),
           NEW r \in SUBSET (0..30), NEW s \in SUBSET (0..30)
    PROVE  Rises(p, q, r, s) =
               {m \in 1..31 : ~ ((m - 1 \in p <=> m - 1 \in q) <=> (m - 1 \in r <=> m - 1 \in s))}
<1> DEFINE X == Xor(Xor(Xor(p, q), r), s)
           Y == {m \in 1..31 : ~ ((m - 1 \in p <=> m - 1 \in q) <=> (m - 1 \in r <=> m - 1 \in s))}
<1>1. X \subseteq 0..30
  BY DEF Xor
<1>2. \A n \in 0..30 : n \in X <=> ~ ((n \in p <=> n \in q) <=> (n \in r <=> n \in s))
  BY DEF Xor
<1> HIDE DEF X
<1>3. \A n \in X : (n + 1) % 32 = n + 1
  BY <1>1
<1>4. ASSUME NEW m \in Y
      PROVE  \E n \in X : m = (n + 1) % 32
  <2>1. m \in 1..31 /\ m - 1 \in 0..30 /\ m - 1 \in X
    BY <1>2
  <2>2. ((m - 1) + 1) % 32 = m
    BY <2>1
  <2> QED
    BY <2>1, <2>2
<1>5. ASSUME NEW n \in X
      PROVE  (n + 1) % 32 \in Y
  <2>1. n \in 0..30 /\ (n + 1) - 1 = n /\ n + 1 \in 1..31
    BY <1>1
  <2> QED
    BY <1>2, <1>3, <2>1
<1> HIDE DEF Y
<1>6. {(n + 1) % 32 : n \in X} = Y
  BY <1>4, <1>5
<1> QED
  BY <1>6 DEF Rises, X, Y

\* The rotations of w1 in the words, counted from 1.
Rotation(i) == IF i > 16 THEN KernelRotations[i - 16] ELSE IF i = 2 THEN {0} ELSE {}

\* The table, entry by entry.
LEMMA RotationIs ==
    /\ Rotation(1) = {} /\ Rotation(2) = {0} /\ Rotation(3) = {} /\ Rotation(4) = {}
    /\ Rotation(5) = {} /\ Rotation(6) = {} /\ Rotation(7) = {} /\ Rotation(8) = {}
    /\ Rotation(9) = {} /\ Rotation(10) = {} /\ Rotation(11) = {} /\ Rotation(12) = {}
    /\ Rotation(13) = {} /\ Rotation(14) = {} /\ Rotation(15) = {} /\ Rotation(16) = {}
    /\ Rotation(17) = {} /\ Rotation(18) = {1} /\ Rotation(19) = {} /\ Rotation(20) = {}
    /\ Rotation(21) = {2} /\ Rotation(22) = {} /\ Rotation(23) = {} /\ Rotation(24) = {3}
    /\ Rotation(25) = {} /\ Rotation(26) = {2} /\ Rotation(27) = {4} /\ Rotation(28) = {}
    /\ Rotation(29) = {} /\ Rotation(30) = {5} /\ Rotation(31) = {} /\ Rotation(32) = {2, 4}
    /\ Rotation(33) = {6} /\ Rotation(34) = {2, 3} /\ Rotation(35) = {} /\ Rotation(36) = {7}
    /\ Rotation(37) = {4} /\ Rotation(38) = {4, 6} /\ Rotation(39) = {8} /\ Rotation(40) = {4}
    /\ Rotation(41) = {} /\ Rotation(42) = {4, 9} /\ Rotation(43) = {} /\ Rotation(44) = {6, 8}
    /\ Rotation(45) = {10} /\ Rotation(46) = {3, 6, 7} /\ Rotation(47) = {}
    /\ Rotation(48) = {4, 11} /\ Rotation(49) = {4, 8} /\ Rotation(50) = {3, 4, 5, 8, 10}
    /\ Rotation(51) = {12} /\ Rotation(52) = {8} /\ Rotation(53) = {4, 6}
    /\ Rotation(54) = {4, 8, 13} /\ Rotation(55) = {} /\ Rotation(56) = {7, 10, 12}
    /\ Rotation(57) = {14} /\ Rotation(58) = {4, 6, 7, 10, 11} /\ Rotation(59) = {8}
    /\ Rotation(60) = {4, 8, 15} /\ Rotation(61) = {8, 12} /\ Rotation(62) = {4, 7, 8, 12, 14}
    /\ Rotation(63) = {16} /\ Rotation(64) = {4, 6, 8, 12} /\ Rotation(65) = {8}
    /\ Rotation(66) = {4, 6, 7, 8, 12, 17} /\ Rotation(67) = {} /\ Rotation(68) = {14, 16}
    /\ Rotation(69) = {8, 18} /\ Rotation(70) = {11, 14, 15} /\ Rotation(71) = {}
    /\ Rotation(72) = {12, 19} /\ Rotation(73) = {12, 16}
    /\ Rotation(74) = {5, 11, 12, 13, 16, 18} /\ Rotation(75) = {20} /\ Rotation(76) = {8, 16}
    /\ Rotation(77) = {6, 12, 14}
<1>1. /\ KernelRotations[1] = {} /\ KernelRotations[2] = {1} /\ KernelRotations[3] = {}
      /\ KernelRotations[4] = {} /\ KernelRotations[5] = {2} /\ KernelRotations[6] = {}
      /\ KernelRotations[7] = {} /\ KernelRotations[8] = {3} /\ KernelRotations[9] = {}
      /\ KernelRotations[10] = {2} /\ KernelRotations[11] = {4} /\ KernelRotations[12] = {}
      /\ KernelRotations[13] = {} /\ KernelRotations[14] = {5} /\ KernelRotations[15] = {}
      /\ KernelRotations[16] = {2, 4} /\ KernelRotations[17] = {6} /\ KernelRotations[18] = {2, 3}
      /\ KernelRotations[19] = {} /\ KernelRotations[20] = {7} /\ KernelRotations[21] = {4}
      /\ KernelRotations[22] = {4, 6} /\ KernelRotations[23] = {8} /\ KernelRotations[24] = {4}
      /\ KernelRotations[25] = {} /\ KernelRotations[26] = {4, 9} /\ KernelRotations[27] = {}
      /\ KernelRotations[28] = {6, 8} /\ KernelRotations[29] = {10}
      /\ KernelRotations[30] = {3, 6, 7} /\ KernelRotations[31] = {}
      /\ KernelRotations[32] = {4, 11} /\ KernelRotations[33] = {4, 8}
      /\ KernelRotations[34] = {3, 4, 5, 8, 10} /\ KernelRotations[35] = {12}
      /\ KernelRotations[36] = {8} /\ KernelRotations[37] = {4, 6}
      /\ KernelRotations[38] = {4, 8, 13} /\ KernelRotations[39] = {}
      /\ KernelRotations[40] = {7, 10, 12} /\ KernelRotations[41] = {14}
      /\ KernelRotations[42] = {4, 6, 7, 10, 11} /\ KernelRotations[43] = {8}
      /\ KernelRotations[44] = {4, 8, 15} /\ KernelRotations[45] = {8, 12}
      /\ KernelRotations[46] = {4, 7, 8, 12, 14} /\ KernelRotations[47] = {16}
      /\ KernelRotations[48] = {4, 6, 8, 12} /\ KernelRotations[49] = {8}
      /\ KernelRotations[50] = {4, 6, 7, 8, 12, 17} /\ KernelRotations[51] = {}
      /\ KernelRotations[52] = {14, 16} /\ KernelRotations[53] = {8, 18}
      /\ KernelRotations[54] = {11, 14, 15} /\ KernelRotations[55] = {}
      /\ KernelRotations[56] = {12, 19} /\ KernelRotations[57] = {12, 16}
      /\ KernelRotations[58] = {5, 11, 12, 13, 16, 18} /\ KernelRotations[59] = {20}
      /\ KernelRotations[60] = {8, 16} /\ KernelRotations[61] = {6, 12, 14}
  BY DEF KernelRotations, w1s04_06, w1s04_08, w1s08_12, w1s04_06_07
<1> QED
  BY <1>1 DEF Rotation

\* The schedule takes the rotations of a word from those of four before it.
Follows(i) ==
    Rotation(i) = Rises(Rotation(i - 3), Rotation(i - 8), Rotation(i - 14), Rotation(i - 16))

\* Every entry of the table follows from the four the schedule takes for it.
LEMMA RotationsFollow == \A i \in 17..77 : Follows(i)
<1>1. /\ Rises({}, {}, {}, {}) = {} /\ Rises({}, {}, {}, {0}) = {1} /\ Rises({}, {}, {}, {}) = {}
      /\ Rises({}, {}, {}, {}) = {} /\ Rises({1}, {}, {}, {}) = {2}
  BY RisesTo
<1>2. /\ Rises({}, {}, {}, {}) = {} /\ Rises({}, {}, {}, {}) = {} /\ Rises({2}, {}, {}, {}) = {3}
      /\ Rises({}, {}, {}, {}) = {} /\ Rises({}, {1}, {}, {}) = {2}
  BY RisesTo
<1>3. /\ Rises({3}, {}, {}, {}) = {4} /\ Rises({}, {}, {}, {}) = {}
      /\ Rises({2}, {2}, {}, {}) = {} /\ Rises({4}, {}, {}, {}) = {5}
      /\ Rises({}, {}, {}, {}) = {}
  BY RisesTo
<1>4. /\ Rises({}, {3}, {1}, {}) = {2, 4} /\ Rises({5}, {}, {}, {}) = {6}
      /\ Rises({}, {2}, {}, {1}) = {2, 3} /\ Rises({2, 4}, {4}, {2}, {}) = {}
      /\ Rises({6}, {}, {}, {}) = {7}
  BY RisesTo
<1>5. /\ Rises({2, 3}, {}, {}, {2}) = {4} /\ Rises({}, {5}, {3}, {}) = {4, 6}
      /\ Rises({7}, {}, {}, {}) = {8} /\ Rises({4}, {2, 4}, {2}, {3}) = {4}
      /\ Rises({4, 6}, {6}, {4}, {}) = {}
  BY RisesTo
<1>6. /\ Rises({8}, {2, 3}, {}, {2}) = {4, 9} /\ Rises({4}, {}, {}, {4}) = {}
      /\ Rises({}, {7}, {5}, {}) = {6, 8} /\ Rises({4, 9}, {4}, {}, {}) = {10}
      /\ Rises({}, {4, 6}, {2, 4}, {5}) = {3, 6, 7}
  BY RisesTo
<1>7. /\ Rises({6, 8}, {8}, {6}, {}) = {} /\ Rises({10}, {4}, {2, 3}, {2, 4}) = {4, 11}
      /\ Rises({3, 6, 7}, {}, {}, {6}) = {4, 8}
      /\ Rises({}, {4, 9}, {7}, {2, 3}) = {3, 4, 5, 8, 10} /\ Rises({4, 11}, {}, {4}, {}) = {12}
  BY RisesTo
<1>8. /\ Rises({4, 8}, {6, 8}, {4, 6}, {7}) = {8}
      /\ Rises({3, 4, 5, 8, 10}, {10}, {8}, {4}) = {4, 6}
      /\ Rises({12}, {3, 6, 7}, {4}, {4, 6}) = {4, 8, 13} /\ Rises({8}, {}, {}, {8}) = {}
      /\ Rises({4, 6}, {4, 11}, {4, 9}, {4}) = {7, 10, 12}
  BY RisesTo
<1>9. /\ Rises({4, 8, 13}, {4, 8}, {}, {}) = {14}
      /\ Rises({}, {3, 4, 5, 8, 10}, {6, 8}, {4, 9}) = {4, 6, 7, 10, 11}
      /\ Rises({7, 10, 12}, {12}, {10}, {}) = {8}
      /\ Rises({14}, {8}, {3, 6, 7}, {6, 8}) = {4, 8, 15}
      /\ Rises({4, 6, 7, 10, 11}, {4, 6}, {}, {10}) = {8, 12}
  BY RisesTo
<1>10. /\ Rises({8}, {4, 8, 13}, {4, 11}, {3, 6, 7}) = {4, 7, 8, 12, 14}
       /\ Rises({4, 8, 15}, {}, {4, 8}, {}) = {16}
       /\ Rises({8, 12}, {7, 10, 12}, {3, 4, 5, 8, 10}, {4, 11}) = {4, 6, 8, 12}
       /\ Rises({4, 7, 8, 12, 14}, {14}, {12}, {4, 8}) = {8}
       /\ Rises({16}, {4, 6, 7, 10, 11}, {8}, {3, 4, 5, 8, 10}) = {4, 6, 7, 8, 12, 17}
  BY RisesTo
<1>11. /\ Rises({4, 6, 8, 12}, {8}, {4, 6}, {12}) = {}
       /\ Rises({8}, {4, 8, 15}, {4, 8, 13}, {8}) = {14, 16}
       /\ Rises({4, 6, 7, 8, 12, 17}, {8, 12}, {}, {4, 6}) = {8, 18}
       /\ Rises({}, {4, 7, 8, 12, 14}, {7, 10, 12}, {4, 8, 13}) = {11, 14, 15}
       /\ Rises({14, 16}, {16}, {14}, {}) = {}
  BY RisesTo
<1>12. /\ Rises({8, 18}, {4, 6, 8, 12}, {4, 6, 7, 10, 11}, {7, 10, 12}) = {12, 19}
       /\ Rises({11, 14, 15}, {8}, {8}, {14}) = {12, 16}
       /\ Rises({}, {4, 6, 7, 8, 12, 17}, {4, 8, 15}, {4, 6, 7, 10, 11}) = {5, 11, 12, 13, 16, 18}
       /\ Rises({12, 19}, {}, {8, 12}, {8}) = {20}
       /\ Rises({12, 16}, {14, 16}, {4, 7, 8, 12, 14}, {4, 8, 15}) = {8, 16}
  BY RisesTo
<1>13. /\ Rises({5, 11, 12, 13, 16, 18}, {8, 18}, {16}, {8, 12}) = {6, 12, 14}
  BY RisesTo
<1>14. Rotation(17) = Rises(Rotation(14), Rotation(9), Rotation(3), Rotation(1))
  BY RotationIs, <1>1
<1>15. Rotation(18) = Rises(Rotation(15), Rotation(10), Rotation(4), Rotation(2))
  BY RotationIs, <1>1
<1>16. Rotation(19) = Rises(Rotation(16), Rotation(11), Rotation(5), Rotation(3))
  BY RotationIs, <1>1
<1>17. Rotation(20) = Rises(Rotation(17), Rotation(12), Rotation(6), Rotation(4))
  BY RotationIs, <1>1
<1>18. Rotation(21) = Rises(Rotation(18), Rotation(13), Rotation(7), Rotation(5))
  BY RotationIs, <1>1
<1>19. Rotation(22) = Rises(Rotation(19), Rotation(14), Rotation(8), Rotation(6))
  BY RotationIs, <1>2
<1>20. Rotation(23) = Rises(Rotation(20), Rotation(15), Rotation(9), Rotation(7))
  BY RotationIs, <1>2
<1>21. Rotation(24) = Rises(Rotation(21), Rotation(16), Rotation(10), Rotation(8))
  BY RotationIs, <1>2
<1>22. Rotation(25) = Rises(Rotation(22), Rotation(17), Rotation(11), Rotation(9))
  BY RotationIs, <1>2
<1>23. Rotation(26) = Rises(Rotation(23), Rotation(18), Rotation(12), Rotation(10))
  BY RotationIs, <1>2
<1>24. Rotation(27) = Rises(Rotation(24), Rotation(19), Rotation(13), Rotation(11))
  BY RotationIs, <1>3
<1>25. Rotation(28) = Rises(Rotation(25), Rotation(20), Rotation(14), Rotation(12))
  BY RotationIs, <1>3
<1>26. Rotation(29) = Rises(Rotation(26), Rotation(21), Rotation(15), Rotation(13))
  BY RotationIs, <1>3
<1>27. Rotation(30) = Rises(Rotation(27), Rotation(22), Rotation(16), Rotation(14))
  BY RotationIs, <1>3
<1>28. Rotation(31) = Rises(Rotation(28), Rotation(23), Rotation(17), Rotation(15))
  BY RotationIs, <1>3
<1>29. Rotation(32) = Rises(Rotation(29), Rotation(24), Rotation(18), Rotation(16))
  BY RotationIs, <1>4
<1>30. Rotation(33) = Rises(Rotation(30), Rotation(25), Rotation(19), Rotation(17))
  BY RotationIs, <1>4
<1>31. Rotation(34) = Rises(Rotation(31), Rotation(26), Rotation(20), Rotation(18))
  BY RotationIs, <1>4
<1>32. Rotation(35) = Rises(Rotation(32), Rotation(27), Rotation(21), Rotation(19))
  BY RotationIs, <1>4
<1>33. Rotation(36) = Rises(Rotation(33), Rotation(28), Rotation(22), Rotation(20))
  BY RotationIs, <1>4
<1>34. Rotation(37) = Rises(Rotation(34), Rotation(29), Rotation(23), Rotation(21))
  BY RotationIs, <1>5
<1>35. Rotation(38) = Rises(Rotation(35), Rotation(30), Rotation(24), Rotation(22))
  BY RotationIs, <1>5
<1>36. Rotation(39) = Rises(Rotation(36), Rotation(31), Rotation(25), Rotation(23))
  BY RotationIs, <1>5
<1>37. Rotation(40) = Rises(Rotation(37), Rotation(32), Rotation(26), Rotation(24))
  BY RotationIs, <1>5
<1>38. Rotation(41) = Rises(Rotation(38), Rotation(33), Rotation(27), Rotation(25))
  BY RotationIs, <1>5
<1>39. Rotation(42) = Rises(Rotation(39), Rotation(34), Rotation(28), Rotation(26))
  BY RotationIs, <1>6
<1>40. Rotation(43) = Rises(Rotation(40), Rotation(35), Rotation(29), Rotation(27))
  BY RotationIs, <1>6
<1>41. Rotation(44) = Rises(Rotation(41), Rotation(36), Rotation(30), Rotation(28))
  BY RotationIs, <1>6
<1>42. Rotation(45) = Rises(Rotation(42), Rotation(37), Rotation(31), Rotation(29))
  BY RotationIs, <1>6
<1>43. Rotation(46) = Rises(Rotation(43), Rotation(38), Rotation(32), Rotation(30))
  BY RotationIs, <1>6
<1>44. Rotation(47) = Rises(Rotation(44), Rotation(39), Rotation(33), Rotation(31))
  BY RotationIs, <1>7
<1>45. Rotation(48) = Rises(Rotation(45), Rotation(40), Rotation(34), Rotation(32))
  BY RotationIs, <1>7
<1>46. Rotation(49) = Rises(Rotation(46), Rotation(41), Rotation(35), Rotation(33))
  BY RotationIs, <1>7
<1>47. Rotation(50) = Rises(Rotation(47), Rotation(42), Rotation(36), Rotation(34))
  BY RotationIs, <1>7
<1>48. Rotation(51) = Rises(Rotation(48), Rotation(43), Rotation(37), Rotation(35))
  BY RotationIs, <1>7
<1>49. Rotation(52) = Rises(Rotation(49), Rotation(44), Rotation(38), Rotation(36))
  BY RotationIs, <1>8
<1>50. Rotation(53) = Rises(Rotation(50), Rotation(45), Rotation(39), Rotation(37))
  BY RotationIs, <1>8
<1>51. Rotation(54) = Rises(Rotation(51), Rotation(46), Rotation(40), Rotation(38))
  BY RotationIs, <1>8
<1>52. Rotation(55) = Rises(Rotation(52), Rotation(47), Rotation(41), Rotation(39))
  BY RotationIs, <1>8
<1>53. Rotation(56) = Rises(Rotation(53), Rotation(48), Rotation(42), Rotation(40))
  BY RotationIs, <1>8
<1>54. Rotation(57) = Rises(Rotation(54), Rotation(49), Rotation(43), Rotation(41))
  BY RotationIs, <1>9
<1>55. Rotation(58) = Rises(Rotation(55), Rotation(50), Rotation(44), Rotation(42))
  BY RotationIs, <1>9
<1>56. Rotation(59) = Rises(Rotation(56), Rotation(51), Rotation(45), Rotation(43))
  BY RotationIs, <1>9
<1>57. Rotation(60) = Rises(Rotation(57), Rotation(52), Rotation(46), Rotation(44))
  BY RotationIs, <1>9
<1>58. Rotation(61) = Rises(Rotation(58), Rotation(53), Rotation(47), Rotation(45))
  BY RotationIs, <1>9
<1>59. Rotation(62) = Rises(Rotation(59), Rotation(54), Rotation(48), Rotation(46))
  BY RotationIs, <1>10
<1>60. Rotation(63) = Rises(Rotation(60), Rotation(55), Rotation(49), Rotation(47))
  BY RotationIs, <1>10
<1>61. Rotation(64) = Rises(Rotation(61), Rotation(56), Rotation(50), Rotation(48))
  BY RotationIs, <1>10
<1>62. Rotation(65) = Rises(Rotation(62), Rotation(57), Rotation(51), Rotation(49))
  BY RotationIs, <1>10
<1>63. Rotation(66) = Rises(Rotation(63), Rotation(58), Rotation(52), Rotation(50))
  BY RotationIs, <1>10
<1>64. Rotation(67) = Rises(Rotation(64), Rotation(59), Rotation(53), Rotation(51))
  BY RotationIs, <1>11
<1>65. Rotation(68) = Rises(Rotation(65), Rotation(60), Rotation(54), Rotation(52))
  BY RotationIs, <1>11
<1>66. Rotation(69) = Rises(Rotation(66), Rotation(61), Rotation(55), Rotation(53))
  BY RotationIs, <1>11
<1>67. Rotation(70) = Rises(Rotation(67), Rotation(62), Rotation(56), Rotation(54))
  BY RotationIs, <1>11
<1>68. Rotation(71) = Rises(Rotation(68), Rotation(63), Rotation(57), Rotation(55))
  BY RotationIs, <1>11
<1>69. Rotation(72) = Rises(Rotation(69), Rotation(64), Rotation(58), Rotation(56))
  BY RotationIs, <1>12
<1>70. Rotation(73) = Rises(Rotation(70), Rotation(65), Rotation(59), Rotation(57))
  BY RotationIs, <1>12
<1>71. Rotation(74) = Rises(Rotation(71), Rotation(66), Rotation(60), Rotation(58))
  BY RotationIs, <1>12
<1>72. Rotation(75) = Rises(Rotation(72), Rotation(67), Rotation(61), Rotation(59))
  BY RotationIs, <1>12
<1>73. Rotation(76) = Rises(Rotation(73), Rotation(68), Rotation(62), Rotation(60))
  BY RotationIs, <1>12
<1>74. Rotation(77) = Rises(Rotation(74), Rotation(69), Rotation(63), Rotation(61))
  BY RotationIs, <1>13
<1>75. \A i \in 17..26 : Follows(i)
  BY <1>14, <1>15, <1>16, <1>17, <1>18, <1>19, <1>20, <1>21, <1>22, <1>23 DEF Follows
<1>76. \A i \in 27..36 : Follows(i)
  BY <1>24, <1>25, <1>26, <1>27, <1>28, <1>29, <1>30, <1>31, <1>32, <1>33 DEF Follows
<1>77. \A i \in 37..46 : Follows(i)
  BY <1>34, <1>35, <1>36, <1>37, <1>38, <1>39, <1>40, <1>41, <1>42, <1>43 DEF Follows
<1>78. \A i \in 47..56 : Follows(i)
  BY <1>44, <1>45, <1>46, <1>47, <1>48, <1>49, <1>50, <1>51, <1>52, <1>53 DEF Follows
<1>79. \A i \in 57..66 : Follows(i)
  BY <1>54, <1>55, <1>56, <1>57, <1>58, <1>59, <1>60, <1>61, <1>62, <1>63 DEF Follows
<1>80. \A i \in 67..76 : Follows(i)
  BY <1>64, <1>65, <1>66, <1>67, <1>68, <1>69, <1>70, <1>71, <1>72, <1>73 DEF Follows
<1>81. \A i \in 77..77 : Follows(i)
  BY <1>74 DEF Follows
<1> QED
  BY <1>75, <1>76, <1>77, <1>78, <1>79, <1>80, <1>81

\* The copies of the tests have the same table.
LEMMA SameTables == PortRotations = KernelRotations /\ EmulationRotations = KernelRotations
<1>1. PortRotations = KernelRotations
  BY DEF KernelRotations, PortRotations, w1s04_06, w1s04_08, w1s08_12, w1s04_06_07
<1>2. EmulationRotations = KernelRotations
  BY DEF KernelRotations, EmulationRotations
<1> QED
  BY <1>1, <1>2

-----------------------------------------------------------------------------
(* The message words and what the schedule does with them.                 *)

\* The terms of a word: a message word and a rotation of it.
MessageWords == SUBSET ((0..15) \X (0..31))

\* Words are closed under what the schedule does.
LEMMA XorIsAWord == \A v, w \in MessageWords : Xor(v, w) \in MessageWords
  BY DEF Xor, MessageWords

\* Every term of a word is such a pair.
LEMMA TermIs ==
    ASSUME NEW w \in MessageWords, NEW t \in w
    PROVE  t = <<t[1], t[2]>> /\ t[1] \in 0..15 /\ t[2] \in 0..31
  BY DEF MessageWords

\* A term of a rotated word is a term of the word, rotated.
LEMMA RotatedTerm ==
    ASSUME NEW w \in MessageWords
    PROVE  /\ rotl_word(w, 1) \in MessageWords
           /\ \A j \in 0..15 : \A m \in 0..31 :
                  <<j, m>> \in rotl_word(w, 1) <=> <<j, IF m = 0 THEN 31 ELSE m - 1>> \in w
<1>1. \A t \in w : /\ t = <<t[1], t[2]>> /\ t[1] \in 0..15 /\ t[2] \in 0..31
                   /\ rotl(t, 1) = <<t[1], IF t[2] = 31 THEN 0 ELSE t[2] + 1>>
  <2> SUFFICES ASSUME NEW t \in w
               PROVE  /\ t = <<t[1], t[2]>> /\ t[1] \in 0..15 /\ t[2] \in 0..31
                      /\ rotl(t, 1) = <<t[1], IF t[2] = 31 THEN 0 ELSE t[2] + 1>>
    OBVIOUS
  <2>1. t = <<t[1], t[2]>> /\ t[1] \in 0..15 /\ t[2] \in 0..31
    BY TermIs
  <2>2. (t[2] + 1) % 32 = IF t[2] = 31 THEN 0 ELSE t[2] + 1
    BY <2>1
  <2> QED
    BY <2>1, <2>2 DEF rotl
<1>2. rotl_word(w, 1) \in MessageWords
  BY <1>1 DEF rotl_word, MessageWords
<1>3. ASSUME NEW j \in 0..15, NEW m \in 0..31
      PROVE  <<j, m>> \in rotl_word(w, 1) <=> <<j, IF m = 0 THEN 31 ELSE m - 1>> \in w
  <2> DEFINE before == <<j, IF m = 0 THEN 31 ELSE m - 1>>
  <2>1. ASSUME before \in w
        PROVE  <<j, m>> \in rotl_word(w, 1)
    <3>1. rotl(before, 1) = <<j, m>>
      BY <1>1, <2>1
    <3> QED
      BY <2>1, <3>1 DEF rotl_word
  <2>2. ASSUME <<j, m>> \in rotl_word(w, 1)
        PROVE  before \in w
    <3>1. PICK t \in w : rotl(t, 1) = <<j, m>>
      BY <2>2 DEF rotl_word
    <3>2. t[1] = j /\ m = IF t[2] = 31 THEN 0 ELSE t[2] + 1
      BY <1>1, <3>1
    <3>3. t = before
      BY <1>1, <3>2
    <3> QED
      BY <3>3
  <2> QED
    BY <2>1, <2>2
<1> QED
  BY <1>2, <1>3

\* What the rotations of w1 add to a word.
Timestamp(rotations) == {<<1, n>> : n \in rotations}

\* They are terms of w1 only.
LEMMA TimestampTerm ==
    ASSUME NEW p \in SUBSET (0..31)
    PROVE  /\ Timestamp(p) \in MessageWords
           /\ \A j \in 0..15 : \A m \in 0..31 : <<j, m>> \in Timestamp(p) <=> j = 1 /\ m \in p
<1>1. Timestamp(p) \in MessageWords
  BY DEF Timestamp, MessageWords
<1>2. ASSUME NEW j \in 0..15, NEW m \in 0..31
      PROVE  <<j, m>> \in Timestamp(p) <=> j = 1 /\ m \in p
  BY DEF Timestamp
<1> QED
  BY <1>1, <1>2

\* Two words with the same terms.
LEMMA SameTerms ==
    ASSUME NEW v \in MessageWords, NEW w \in MessageWords,
           \A j \in 0..15 : \A m \in 0..31 : <<j, m>> \in v <=> <<j, m>> \in w
    PROVE  v = w
<1>1. /\ \A t \in v : t = <<t[1], t[2]>> /\ t[1] \in 0..15 /\ t[2] \in 0..31
      /\ \A t \in w : t = <<t[1], t[2]>> /\ t[1] \in 0..15 /\ t[2] \in 0..31
  BY TermIs
<1>2. ASSUME NEW t \in v
      PROVE  t \in w
  <2>1. t[1] \in 0..15 /\ t[2] \in 0..31 /\ <<t[1], t[2]>> \in v
    BY <1>1
  <2> QED
    BY <1>1, <2>1
<1>3. ASSUME NEW t \in w
      PROVE  t \in v
  <2>1. t[1] \in 0..15 /\ t[2] \in 0..31 /\ <<t[1], t[2]>> \in w
    BY <1>1
  <2> QED
    BY <1>1, <2>1
<1> QED
  BY <1>2, <1>3

\* A word of the schedule, of the four it is made from.
Sum4(a, b, c, d) == rotl_word(Xor(Xor(Xor(a, b), c), d), 1)

\* Rotations that one more does not take past the end of the word.
LowRotations == SUBSET (0..30)

\* w is a constant and rotations of w1.
ApartFrom(w, c, rotations) ==
    c \in MessageWords /\ rotations \in LowRotations /\ w = Xor(c, Timestamp(rotations))

\* The schedule takes the constants and the rotations of w1 apart.
LEMMA TakesApart ==
    ASSUME NEW u, NEW v, NEW w, NEW x, NEW a, NEW b, NEW c, NEW d,
           NEW p, NEW q, NEW r, NEW s,
           ApartFrom(u, a, p), ApartFrom(v, b, q), ApartFrom(w, c, r), ApartFrom(x, d, s)
    PROVE  Sum4(u, v, w, x) = Xor(Sum4(a, b, c, d), Timestamp(Rises(p, q, r, s)))
<1> USE DEF LowRotations
<1>1. /\ a \in MessageWords /\ b \in MessageWords /\ c \in MessageWords /\ d \in MessageWords
      /\ p \in LowRotations /\ q \in LowRotations /\ r \in LowRotations /\ s \in LowRotations
  BY DEF ApartFrom
<1> DEFINE a1 == Xor(a, Timestamp(p))
           b1 == Xor(b, Timestamp(q))
           c1 == Xor(c, Timestamp(r))
           d1 == Xor(d, Timestamp(s))
           whole == Xor(Xor(Xor(a1, b1), c1), d1)
           part == Xor(Xor(Xor(a, b), c), d)
           R == Rises(p, q, r, s)
<1>2. /\ a1 \in MessageWords /\ b1 \in MessageWords /\ c1 \in MessageWords /\ d1 \in MessageWords
  <2>1. \A y \in SUBSET (0..30) : Timestamp(y) \in MessageWords
    <3>1. \A y \in SUBSET (0..31) : Timestamp(y) \in MessageWords
      BY TimestampTerm
    <3> QED
      BY <3>1
  <2> QED
    BY <1>1, <2>1, XorIsAWord
<1>3. whole \in MessageWords /\ part \in MessageWords
  <2> HIDE DEF a1, b1, c1, d1
  <2> QED
    BY <1>1, <1>2, XorIsAWord
<1>4. R \in SUBSET (0..31)
  BY <1>1, RisesTo
<1>5. ASSUME NEW j \in 0..15, NEW m \in 0..31
      PROVE  <<j, m>> \in rotl_word(whole, 1) <=> <<j, m>> \in Xor(rotl_word(part, 1), Timestamp(R))
  <2> DEFINE k == IF m = 0 THEN 31 ELSE m - 1
             t == <<j, k>>
  <2>1. k \in 0..31
    OBVIOUS
  <2>2. <<j, m>> \in rotl_word(whole, 1) <=> t \in whole
    <3> HIDE DEF whole
    <3> QED
      BY <1>3, RotatedTerm
  <2>3. <<j, m>> \in rotl_word(part, 1) <=> t \in part
    <3> HIDE DEF part
    <3> QED
      BY <1>3, RotatedTerm
  <2>4. <<j, m>> \in Timestamp(R) <=> j = 1 /\ m \in R
    <3> HIDE DEF R
    <3> QED
      BY <1>4, TimestampTerm
  <2>5. m \in R <=> m # 0 /\ ~ ((k \in p <=> k \in q) <=> (k \in r <=> k \in s))
    <3>1. R = {n \in 1..31 : ~ ((n - 1 \in p <=> n - 1 \in q) <=> (n - 1 \in r <=> n - 1 \in s))}
      BY <1>1, RisesTo
    <3> HIDE DEF R
    <3> QED
      BY <3>1
  <2>6. /\ t \in Timestamp(p) <=> j = 1 /\ k \in p
        /\ t \in Timestamp(q) <=> j = 1 /\ k \in q
        /\ t \in Timestamp(r) <=> j = 1 /\ k \in r
        /\ t \in Timestamp(s) <=> j = 1 /\ k \in s
    <3> HIDE DEF k
    <3>1. \A y \in SUBSET (0..31) : t \in Timestamp(y) <=> j = 1 /\ k \in y
      BY <2>1, TimestampTerm
    <3>2. SUBSET (0..30) \subseteq SUBSET (0..31)
      OBVIOUS
    <3> HIDE DEF t
    <3> QED
      BY <1>1, <3>1, <3>2
  <2>7. m = 0 => k \notin p /\ k \notin q /\ k \notin r /\ k \notin s
    BY <1>1
  <2> HIDE DEF k, t
  <2>8. /\ t \in a1 <=> ~ (t \in a <=> t \in Timestamp(p))
        /\ t \in b1 <=> ~ (t \in b <=> t \in Timestamp(q))
        /\ t \in c1 <=> ~ (t \in c <=> t \in Timestamp(r))
        /\ t \in d1 <=> ~ (t \in d <=> t \in Timestamp(s))
    BY DEF Xor
  <2>9. t \in whole <=> ~ ((t \in a1 <=> t \in b1) <=> (t \in c1 <=> t \in d1))
    <3> HIDE DEF a1, b1, c1, d1
    <3> QED
      BY DEF Xor
  <2>10. t \in part <=> ~ ((t \in a <=> t \in b) <=> (t \in c <=> t \in d))
    BY DEF Xor
  <2>11. <<j, m>> \in Xor(rotl_word(part, 1), Timestamp(R))
             <=> ~ (<<j, m>> \in rotl_word(part, 1) <=> <<j, m>> \in Timestamp(R))
    BY DEF Xor
  <2> HIDE DEF a1, b1, c1, d1, whole, part, R
  <2> QED
    BY <2>2, <2>3, <2>4, <2>5, <2>6, <2>7, <2>8, <2>9, <2>10, <2>11
<1> HIDE DEF whole, part, R
<1>6. /\ rotl_word(whole, 1) \in MessageWords
      /\ Xor(rotl_word(part, 1), Timestamp(R)) \in MessageWords
  BY <1>3, <1>4, RotatedTerm, TimestampTerm, XorIsAWord
<1>7. rotl_word(whole, 1) = Xor(rotl_word(part, 1), Timestamp(R))
  BY <1>5, <1>6, SameTerms
<1>8. Sum4(u, v, w, x) = rotl_word(whole, 1)
  BY DEF ApartFrom, whole, Sum4
<1> QED
  BY <1>7, <1>8 DEF part, R, Sum4

\* Sequences of words.
WordSeqs == Seq(MessageWords)

\* w continues the 16 words by n more.
Continues(words, w, n) ==
    /\ w \in WordSeqs /\ Len(w) = 16 + n
    /\ \A i \in 1..16 : w[i] = words[i]
    /\ \A i \in 17..16 + n :
           w[i] = Sum4(w[i - 3], w[i - 8], w[i - 14], w[i - 16])

\* Such a word is a word.
LEMMA SumIsAWord ==
    \A a, b, c, d \in MessageWords : Sum4(a, b, c, d) \in MessageWords
<1>1. ASSUME NEW w \in MessageWords
      PROVE  rotl_word(w, 1) \in MessageWords
  BY RotatedTerm
<1> QED
  BY <1>1, XorIsAWord DEF Sum4

\* A turn of the loop adds one.
LEMMA OneMoreWord ==
    ASSUME NEW words, NEW w, NEW n \in Nat, Continues(words, w, n)
    PROVE  Continues(words, Append(w, NextWord(w, n + 17)), n + 1)
<1> DEFINE new == NextWord(w, n + 17)
           more == Append(w, new)
<1>1. w \in WordSeqs /\ Len(w) = 16 + n
  BY DEF Continues
<1>2. new = Sum4(w[(n + 17) - 3], w[(n + 17) - 8], w[(n + 17) - 14], w[(n + 17) - 16])
  BY DEF NextWord, Sum4
<1>3. \A i \in 1..16 + n : w[i] \in MessageWords
  BY <1>1 DEF WordSeqs
<1>4. new \in MessageWords
  <2>1. /\ (n + 17) - 3 \in 1..16 + n /\ (n + 17) - 8 \in 1..16 + n
        /\ (n + 17) - 14 \in 1..16 + n /\ (n + 17) - 16 \in 1..16 + n
    OBVIOUS
  <2> HIDE DEF new
  <2> QED
    BY <1>2, <1>3, <2>1, SumIsAWord
<1> HIDE DEF new
<1>5. /\ more \in WordSeqs /\ Len(more) = 17 + n
      /\ \A i \in 1..16 + n : more[i] = w[i]
      /\ more[n + 17] = new
  BY <1>1, <1>4 DEF WordSeqs
<1> HIDE DEF more
<1>6. ASSUME NEW i \in 17..17 + n
      PROVE  more[i] = Sum4(more[i - 3], more[i - 8], more[i - 14], more[i - 16])
  <2>1. /\ i - 3 \in 1..16 + n /\ i - 8 \in 1..16 + n
        /\ i - 14 \in 1..16 + n /\ i - 16 \in 1..16 + n
    OBVIOUS
  <2>2. /\ more[i - 3] = w[i - 3] /\ more[i - 8] = w[i - 8]
        /\ more[i - 14] = w[i - 14] /\ more[i - 16] = w[i - 16]
    BY <1>5, <2>1
  <2>3. CASE i = n + 17
    BY <1>2, <1>5, <2>2, <2>3
  <2>4. CASE i # n + 17
    <3>1. i \in 17..16 + n /\ i \in 1..16 + n
      BY <2>4
    <3>2. w[i] = Sum4(w[i - 3], w[i - 8], w[i - 14], w[i - 16])
      BY <3>1 DEF Continues
    <3> QED
      BY <1>5, <2>2, <3>1, <3>2
  <2> QED
    BY <2>3, <2>4
<1>7. \A i \in 1..16 : more[i] = words[i]
  BY <1>5 DEF Continues
<1>8. 16 + (n + 1) = 17 + n
  OBVIOUS
<1>9. Continues(words, more, n + 1)
  BY <1>5, <1>6, <1>7, <1>8 DEF Continues
<1> QED
  BY <1>9 DEF more, new

\* Expand takes all its turns: the recursive function exists, and each of its
\* values continues the one before it.
LEMMA ExpandContinues ==
    ASSUME NEW words \in WordSeqs, Len(words) = 16
    PROVE  Continues(words, Expand(words), 64)
<1> DEFINE Grown(w, n) == Append(w, NextWord(w, n + 16))
           Is(e) == e = [n \in 0..64 |-> IF n = 0 THEN words
                                         ELSE LET w == e[n - 1] IN Append(w, NextWord(w, n + 16))]
           step == [n \in Nat |-> [w \in WordSeqs |->
                        IF n # 0 /\ Continues(words, w, n - 1) THEN Grown(w, n) ELSE w]]
           e == CHOOSE f : Is(f)
<1>1. Continues(words, words, 0)
  BY DEF Continues
<1>2. ASSUME NEW n \in Nat \ {0}, NEW w, Continues(words, w, n - 1)
      PROVE  Continues(words, Grown(w, n), n)
  <2>1. n - 1 \in Nat /\ (n - 1) + 17 = n + 16 /\ (n - 1) + 1 = n
    OBVIOUS
  <2>2. Continues(words, Append(w, NextWord(w, (n - 1) + 17)), (n - 1) + 1)
    BY <1>2, <2>1, OneMoreWord
  <2> QED
    BY <2>1, <2>2
<1>3. step \in [Nat -> [WordSeqs -> WordSeqs]]
  <2>1. ASSUME NEW n \in Nat, NEW w \in WordSeqs, n # 0, Continues(words, w, n - 1)
        PROVE  Grown(w, n) \in WordSeqs
    <3>1. n \in Nat \ {0}
      BY <2>1
    <3> HIDE DEF Grown
    <3>2. Continues(words, Grown(w, n), n)
      BY <1>2, <2>1, <3>1
    <3> QED
      BY <3>2 DEF Continues
  <2> HIDE DEF Grown
  <2> QED
    BY <2>1
<1> HIDE DEF Grown
<1>4. PICK g : Upto(g, words, WordSeqs, step, 64)
  <2> HIDE DEF step
  <2> QED
    BY <1>3, Recursion
<1>5. /\ g \in [0..64 -> WordSeqs] /\ g[0] = words
      /\ \A n \in 1..64 : g[n] = step[n][g[n - 1]]
  <2> HIDE DEF step
  <2> QED
    BY <1>4 DEF Upto
<1>6. ASSUME NEW n \in 1..64, Continues(words, g[n - 1], n - 1)
      PROVE  g[n] = Grown(g[n - 1], n) /\ Continues(words, g[n], n)
  <2>1. n \in Nat \ {0} /\ n - 1 \in 0..64
    OBVIOUS
  <2>2. g[n - 1] \in WordSeqs
    BY <1>5, <2>1
  <2>3. step[n][g[n - 1]] = Grown(g[n - 1], n)
    BY <1>6, <2>1, <2>2
  <2>4. g[n] = Grown(g[n - 1], n)
    <3> HIDE DEF step
    <3> QED
      BY <1>5, <2>3
  <2>5. Continues(words, Grown(g[n - 1], n), n)
    BY <1>2, <1>6, <2>1
  <2> QED
    BY <2>4, <2>5
<1>7. \A n \in 0..64 : Continues(words, g[n], n)
  <2> DEFINE S == {n \in 0..64 : Continues(words, g[n], n)}
  <2>1. 0 \in S
    BY <1>1, <1>5
  <2>2. \A n \in 1..64 : n - 1 \in S => n \in S
    BY <1>6
  <2>3. \A n \in 0..64 : n \in S
    <3> HIDE DEF S
    <3> QED
      BY <2>1, <2>2, InductionUpTo
  <2> QED
    BY <2>3
<1>8. Is(g)
  <2>1. \A n \in 1..64 : g[n] = Append(g[n - 1], NextWord(g[n - 1], n + 16))
    <3>1. ASSUME NEW n \in 1..64
          PROVE  g[n] = Grown(g[n - 1], n)
      <4>1. n - 1 \in 0..64
        OBVIOUS
      <4> QED
        BY <1>6, <1>7, <4>1
    <3> QED
      BY <3>1 DEF Grown
  <2>2. ASSUME NEW n \in 0..64
        PROVE  g[n] = IF n = 0 THEN words ELSE LET w == g[n - 1] IN Append(w, NextWord(w, n + 16))
    <3>1. CASE n = 0
      BY <1>5, <3>1
    <3>2. CASE n # 0
      <4>1. n \in 1..64
        BY <3>2
      <4> HIDE DEF step
      <4> QED
        BY <2>1, <3>2, <4>1
    <3> QED
      BY <3>1, <3>2
  <2>3. g \in [0..64 -> WordSeqs]
    BY <1>5
  <2> HIDE DEF step
  <2> QED
    BY <2>2, <2>3
<1>9. Is(e)
  <2> HIDE DEF Is
  <2> QED
    BY <1>8
<1>10. Expand(words) = e[64]
  BY Zenon DEF Expand
<1> HIDE DEF e
<1>11. e[0] = words /\ \A n \in 1..64 : e[n] = Grown(e[n - 1], n)
  <2>1. e[0] = words
    <3>1. 0 \in 0..64
      OBVIOUS
    <3> QED
      BY <1>9, <3>1
  <2>2. ASSUME NEW n \in 1..64
        PROVE  e[n] = Append(e[n - 1], NextWord(e[n - 1], n + 16))
    <3>1. n \in 0..64 /\ n # 0
      OBVIOUS
    <3> QED
      BY <1>9, <3>1
  <2> QED
    BY <2>1, <2>2 DEF Grown
<1> HIDE DEF Is
<1>12. \A n \in 0..64 : Continues(words, e[n], n)
  <2> DEFINE S == {n \in 0..64 : Continues(words, e[n], n)}
  <2>1. 0 \in S
    BY <1>1, <1>11
  <2>2. ASSUME NEW n \in 1..64, n - 1 \in S
        PROVE  n \in S
    <3>1. Continues(words, e[n - 1], n - 1) /\ n \in Nat \ {0}
      BY <2>2
    <3>2. Continues(words, Grown(e[n - 1], n), n)
      BY <1>2, <3>1
    <3> QED
      BY <1>11, <3>2
  <2>3. \A n \in 0..64 : n \in S
    <3> HIDE DEF S
    <3> QED
      BY <2>1, <2>2, InductionUpTo
  <2> QED
    BY <2>3
<1>13. Continues(words, e[64], 64)
  BY <1>12
<1> QED
  BY <1>10, <1>13

\* The 16 words of the message, and those without the timestamp.
LEMMA Bases ==
    /\ Base \in WordSeqs /\ Len(Base) = 16
    /\ \A i \in 1..16 : Base[i] = {<<i - 1, 0>>}
    /\ [Base EXCEPT ![2] = {}] \in WordSeqs /\ Len([Base EXCEPT ![2] = {}]) = 16
    /\ \A i \in 1..16 : [Base EXCEPT ![2] = {}][i] = IF i = 2 THEN {} ELSE {<<i - 1, 0>>}
<1>1. Base \in [1..16 -> MessageWords] /\ \A i \in 1..16 : Base[i] = {<<i - 1, 0>>}
  BY DEF Base, MessageWords
<1>2. [Base EXCEPT ![2] = {}] \in [1..16 -> MessageWords]
  <2>1. {} \in MessageWords
    BY DEF MessageWords
  <2> QED
    BY <1>1, <2>1
<1>3. ASSUME NEW f \in [1..16 -> MessageWords]
      PROVE  f \in WordSeqs /\ Len(f) = 16
  <2>1. f \in Seq(MessageWords)
    <3>1. [1..16 -> MessageWords] \in {[1..n -> MessageWords] : n \in Nat}
      OBVIOUS
    <3> QED
      BY <3>1, SeqDef
  <2>2. DOMAIN f = 1..16
    OBVIOUS
  <2>3. DOMAIN f = 1..Len(f) /\ Len(f) \in Nat
    BY <2>1, LenProperties
  <2> QED
    BY <2>1, <2>2, <2>3 DEF WordSeqs
<1> QED
  BY <1>1, <1>2, <1>3

\* A word of the schedule is its constant with the rotations of w1 in the table.
Apart(i) == ApartFrom(schedule[i], Constants[i], Rotation(i))

\* No rotation of the table is by 31.
LEMMA Rotations == \A i \in 1..77 : Rotation(i) \in LowRotations
  BY RotationIs DEF LowRotations

\* By induction over the words: the table follows the schedule.
LEMMA ScheduleApart == \A i \in 1..77 : Apart(i)
<1> DEFINE c == Constants
           s == schedule
           masked == [Base EXCEPT ![2] = {}]
           S == {n \in 0..77 : \A i \in 1..n : Apart(i)}
<1>1. Continues(Base, s, 64) /\ Continues(masked, c, 64)
  <2> HIDE DEF masked
  <2>1. masked \in WordSeqs /\ Len(masked) = 16
    BY Bases DEF masked
  <2> QED
    BY <2>1, Bases, ExpandContinues DEF schedule, Constants, masked
<1>2. \A i \in 1..80 : s[i] \in MessageWords /\ c[i] \in MessageWords
  <2>1. ASSUME NEW words, NEW w, Continues(words, w, 64), NEW i \in 1..80
        PROVE  w[i] \in MessageWords
    <3>1. w \in Seq(MessageWords) /\ i \in 1..Len(w)
      BY <2>1 DEF Continues, WordSeqs
    <3> QED
      BY <3>1
  <2> HIDE DEF s, c, masked
  <2> QED
    BY <1>1, <2>1
<1>3. ASSUME NEW i \in 1..16
      PROVE  Apart(i)
  <2>1. s[i] = {<<i - 1, 0>>} /\ c[i] = IF i = 2 THEN {} ELSE {<<i - 1, 0>>}
    <3> HIDE DEF s, c
    <3> QED
      BY <1>1, Bases DEF Continues, masked
  <2>4. c[i] \in MessageWords /\ Rotation(i) \in LowRotations
    <3> HIDE DEF s, c
    <3> QED
      BY <1>2, Rotations
  <2>2. CASE i = 2
    <3>1. Timestamp(Rotation(i)) = {<<1, 0>>}
      BY <2>2 DEF Timestamp, Rotation
    <3> HIDE DEF s, c
    <3> QED
      BY <2>4, <2>1, <2>2, <3>1 DEF Apart, ApartFrom, Xor, s, c
  <2>3. CASE i # 2
    <3>1. Timestamp(Rotation(i)) = {}
      BY <2>3 DEF Timestamp, Rotation
    <3> HIDE DEF s, c
    <3> QED
      BY <2>4, <2>1, <2>3, <3>1 DEF Apart, ApartFrom, Xor, s, c
  <2> QED
    BY <2>2, <2>3
<1>4. ASSUME NEW n \in 1..77, n - 1 \in S
      PROVE  n \in S
  <2>1. CASE n <= 16
    BY <1>3, <2>1
  <2>2. CASE n > 16
    <3> DEFINE p == n - 3
               q == n - 8
               r == n - 14
               t == n - 16
    <3>1. /\ p \in 1..77 /\ p \in 1..n - 1 /\ q \in 1..77 /\ q \in 1..n - 1
          /\ r \in 1..77 /\ r \in 1..n - 1 /\ t \in 1..77 /\ t \in 1..n - 1
          /\ n \in 17..77 /\ n \in 17..80
      BY <2>2
    <3>2. Apart(p) /\ Apart(q) /\ Apart(r) /\ Apart(t)
      <4> HIDE DEF p, q, r, t
      <4> QED
        BY <1>4, <3>1
    <3>3. /\ s[n] = Sum4(s[p], s[q], s[r], s[t])
          /\ c[n] = Sum4(c[p], c[q], c[r], c[t])
      BY <1>1, <3>1 DEF Continues
    <3>4. Rotation(n) = Rises(Rotation(p), Rotation(q), Rotation(r), Rotation(t))
      BY <3>1, RotationsFollow DEF Follows
    <3> HIDE DEF p, q, r, t, s, c
    <3>5. /\ ApartFrom(s[p], c[p], Rotation(p)) /\ ApartFrom(s[q], c[q], Rotation(q))
          /\ ApartFrom(s[r], c[r], Rotation(r)) /\ ApartFrom(s[t], c[t], Rotation(t))
      BY <3>2 DEF Apart, s, c
    <3>6. s[n] = Xor(c[n], Timestamp(Rotation(n)))
      BY <3>3, <3>4, <3>5, TakesApart
    <3>7. c[n] \in MessageWords /\ Rotation(n) \in LowRotations
      BY <1>2, <3>1, Rotations
    <3>8. Apart(n)
      BY <3>6, <3>7 DEF Apart, ApartFrom, s, c
    <3> QED
      BY <1>4, <3>8
  <2> QED
    BY <2>1, <2>2
<1>5. 77 \in S
  <2>1. 0 \in S
    OBVIOUS
  <2> HIDE DEF S
  <2>2. \A n \in 0..77 : n \in S
    BY <1>4, <2>1, InductionUpTo
  <2> QED
    BY <2>2
<1> QED
  BY <1>5

-----------------------------------------------------------------------------
(* The round functions and their constants.                                *)

\* The kernel's round functions have the reference's truth tables.
LEMMA Choice ==
    ASSUME NEW p
    PROVE  sha1_ch(p) = Bits(LAMBDA b, c, d : (b /\ c) \/ (~b /\ d))
<1>1. \A x, y, z \in BOOLEAN : xor(z, x /\ xor(y, z)) = ((x /\ y) \/ (~x /\ z))
  BY Zenon DEF xor
<1>2. \A x, y, z \in BOOLEAN : v_bfi_b32(x, y, z) = ((x /\ y) \/ (~x /\ z))
  BY DEF v_bfi_b32
<1>3. CASE p = "hip"
  BY <1>2, <1>3 DEF sha1_ch, Bits
<1>4. CASE p # "hip"
  BY <1>1, <1>4 DEF sha1_ch, Bits
<1> QED
  BY <1>3, <1>4

\* Three inputs differ in an odd number of places, whatever the order.
LEMMA Parity == sha1_parity = Bits(LAMBDA b, c, d : (b # c) # d)
  BY DEF sha1_parity, Bits, xor

\* Two of three, on either backend.
LEMMA Majority ==
    ASSUME NEW p
    PROVE  sha1_maj(p) = Bits(LAMBDA b, c, d : (b /\ c) \/ (b /\ d) \/ (c /\ d))
<1>1. \A x, y, z \in BOOLEAN :
          v_bfi_b32(xor(x, z), y, z) = ((x /\ y) \/ (x /\ z) \/ (y /\ z))
  BY Zenon DEF v_bfi_b32, xor
<1>2. \A x, y, z \in BOOLEAN :
          ((x /\ y) \/ (z /\ xor(x, y))) = ((x /\ y) \/ (x /\ z) \/ (y /\ z))
  BY Zenon DEF xor
<1>3. CASE p = "hip"
  BY <1>1, <1>3 DEF sha1_maj, Bits
<1>4. CASE p # "hip"
  BY <1>2, <1>4 DEF sha1_maj, Bits
<1> QED
  BY <1>3, <1>4

\* In every round.
LEMMA SameFunctions ==
    ASSUME NEW p, NEW r \in 0..76
    PROVE  RoundF(p, r) = RefF(r)
<1>1. r <= 19 <=> r \in 0..19
  OBVIOUS
<1> QED
  BY <1>1, Choice, Parity, Majority DEF RoundF, RefF

\* The constants added in advance are those of the rounds.
LEMMA AddedInAdvance == \A r \in DOMAIN c_K : c_K[r] = r \div 20
  BY DEF c_K

-----------------------------------------------------------------------------
(* The registers.                                                          *)

Fields == {"a", "b", "c", "d", "e"}
Values == Int \X (0..31)
States == [Fields -> Values]

\* A rotated value is a value.
LEMMA Turned ==
    ASSUME NEW v \in Values
    PROVE  rotl(v, 5) \in Values /\ rotl(v, 30) \in Values
<1>1. \A n \in 0..31 : (n + 5) % 32 \in 0..31 /\ (n + 30) % 32 \in 0..31
  OBVIOUS
<1> QED
  BY <1>1 DEF rotl, Values

\* Five values are a state of the registers.
LEMMA StateFields ==
    ASSUME NEW a \in Values, NEW b \in Values, NEW c \in Values, NEW d \in Values, NEW e \in Values
    PROVE  [a |-> a, b |-> b, c |-> c, d |-> d, e |-> e] \in States
  BY DEF States, Fields

\* The reference's round leaves a state.
LEMMA ShiftedState ==
    ASSUME NEW s \in States, NEW r \in Int
    PROVE  Shift(s, r) \in States
<1>1. /\ s.a \in Values /\ rotl(s.b, 30) \in Values /\ s.c \in Values /\ s.d \in Values
      /\ <<r, 0>> \in Values
  <2>1. s.a \in Values /\ s.b \in Values /\ s.c \in Values /\ s.d \in Values
    BY DEF States, Fields
  <2> QED
    BY <2>1, Turned DEF Values
<1> QED
  BY <1>1, StateFields DEF Shift

\* The reference's registers before each round: the recursive function exists.
LEMMA StateSteps ==
    /\ sha1_state[0] = InitialState
    /\ \A r \in 1..80 : sha1_state[r] = Shift(sha1_state[r - 1], r - 1)
    /\ \A r \in 0..80 : sha1_state[r] \in States
<1> DEFINE Is(s) == s = [r \in 0..80 |-> IF r = 0 THEN InitialState ELSE Shift(s[r - 1], r - 1)]
           step == [r \in Nat |-> [s \in States |-> Shift(s, r - 1)]]
           s == CHOOSE u : Is(u)
<1>1. InitialState \in States
  <2>1. /\ <<A, 0>> \in Values /\ <<B, 0>> \in Values /\ <<C, 0>> \in Values
        /\ <<D, 0>> \in Values /\ <<E, 0>> \in Values
    BY DEF Values, A, B, C, D, E
  <2> QED
    BY <2>1, StateFields DEF InitialState
<1>2. step \in [Nat -> [States -> States]]
  <2>1. \A r \in Nat : [t \in States |-> Shift(t, r - 1)] \in [States -> States]
    BY ShiftedState
  <2> QED
    BY <2>1
<1>3. PICK g : Upto(g, InitialState, States, step, 80)
  <2> HIDE DEF step
  <2> QED
    BY <1>1, <1>2, Recursion
<1>4. /\ g \in [0..80 -> States] /\ g[0] = InitialState
      /\ \A r \in 1..80 : g[r] = step[r][g[r - 1]]
  <2> HIDE DEF step
  <2> QED
    BY <1>3 DEF Upto
<1>5. \A r \in 1..80 : g[r] = Shift(g[r - 1], r - 1)
  <2> SUFFICES ASSUME NEW r \in 1..80
               PROVE  step[r][g[r - 1]] = Shift(g[r - 1], r - 1)
    <3> HIDE DEF step
    <3> QED
      BY <1>4
  <2>1. r \in Nat /\ g[r - 1] \in States
    BY <1>4
  <2> QED
    BY <2>1
<1> HIDE DEF step
<1>6. Is(s)
  <2>1. Is(g)
    BY <1>4, <1>5
  <2> HIDE DEF Is
  <2> QED
    BY <2>1
<1>7. sha1_state = s
  BY Zenon DEF sha1_state
<1> HIDE DEF s
<1>8. s[0] = InitialState
  BY <1>6
<1>9. ASSUME NEW r \in 1..80
      PROVE  s[r] = Shift(s[r - 1], r - 1)
  <2>1. r \in 0..80 /\ r # 0
    OBVIOUS
  <2> QED
    BY <1>6, <2>1
<1> HIDE DEF Is
<1>10. \A r \in 0..80 : s[r] \in States
  <2> DEFINE S == {r \in 0..80 : s[r] \in States}
  <2>1. 0 \in S
    BY <1>1, <1>8
  <2>2. ASSUME NEW r \in 1..80, r - 1 \in S
        PROVE  r \in S
    <3>1. Shift(s[r - 1], r - 1) \in States
      BY <2>2, ShiftedState
    <3> QED
      BY <1>9, <3>1
  <2>3. \A r \in 0..80 : r \in S
    <3> HIDE DEF S
    <3> QED
      BY <2>1, <2>2, InductionUpTo
  <2> QED
    BY <2>3
<1> QED
  BY <1>7, <1>8, <1>9, <1>10

\* Before each round the names move on by one.
LEMMA NamesCycle ==
    ASSUME NEW r \in Nat
    PROVE  \E a, b, c, d, e \in Fields :
               /\ Names(r) = <<a, b, c, d, e>> /\ Names(r + 1) = <<e, a, b, c, d>>
               /\ a # b /\ a # c /\ a # d /\ a # e /\ b # c /\ b # d /\ b # e
               /\ c # d /\ c # e /\ d # e
<1>1. \/ r % 5 = 0 /\ (r + 1) % 5 = 1
      \/ r % 5 = 1 /\ (r + 1) % 5 = 2
      \/ r % 5 = 2 /\ (r + 1) % 5 = 3
      \/ r % 5 = 3 /\ (r + 1) % 5 = 4
      \/ r % 5 = 4 /\ (r + 1) % 5 = 0
  OBVIOUS
<1>2. CASE r % 5 = 0 /\ (r + 1) % 5 = 1
  <2>1. Names(r) = <<"a", "b", "c", "d", "e">> /\ Names(r + 1) = <<"e", "a", "b", "c", "d">>
    BY <1>2 DEF Names
  <2> QED
    BY <2>1 DEF Fields
<1>3. CASE r % 5 = 1 /\ (r + 1) % 5 = 2
  <2>1. Names(r) = <<"e", "a", "b", "c", "d">> /\ Names(r + 1) = <<"d", "e", "a", "b", "c">>
    BY <1>3 DEF Names
  <2> QED
    BY <2>1 DEF Fields
<1>4. CASE r % 5 = 2 /\ (r + 1) % 5 = 3
  <2>1. Names(r) = <<"d", "e", "a", "b", "c">> /\ Names(r + 1) = <<"c", "d", "e", "a", "b">>
    BY <1>4 DEF Names
  <2> QED
    BY <2>1 DEF Fields
<1>5. CASE r % 5 = 3 /\ (r + 1) % 5 = 4
  <2>1. Names(r) = <<"c", "d", "e", "a", "b">> /\ Names(r + 1) = <<"b", "c", "d", "e", "a">>
    BY <1>5 DEF Names
  <2> QED
    BY <2>1 DEF Fields
<1>6. CASE r % 5 = 4 /\ (r + 1) % 5 = 0
  <2>1. Names(r) = <<"b", "c", "d", "e", "a">> /\ Names(r + 1) = <<"a", "b", "c", "d", "e">>
    BY <1>6 DEF Names
  <2> QED
    BY <2>1 DEF Fields
<1> QED
  BY <1>1, <1>2, <1>3, <1>4, <1>5, <1>6

\* What the kernel adds in a round is the word of the schedule.
LEMMA SameWord == \A r \in 2..76 : Word(KernelRotations, r) = schedule[r + 1]
<1> SUFFICES ASSUME NEW r \in 2..76
             PROVE  Word(KernelRotations, r) = schedule[r + 1]
  OBVIOUS
<1>1. Apart(r + 1) /\ r + 1 \in 1..77
  BY ScheduleApart
<1>2. CASE r < 16
  <2>1. r + 1 \in 1..16
    BY <1>2
  <2>2. schedule[r + 1] = Base[r + 1]
    <3>1. Continues(Base, schedule, 64)
      BY Bases, ExpandContinues DEF schedule
    <3> QED
      BY <2>1, <3>1 DEF Continues
  <2> QED
    BY <1>2, <2>2 DEF Word
<1>3. CASE ~ (r < 16)
  <2>1. Rotation(r + 1) = Entry(KernelRotations, r)
    <3>1. r + 1 > 16 /\ (r + 1) - 16 = r - 15
      BY <1>3
    <3> QED
      BY <3>1 DEF Rotation, Entry
  <2> QED
    BY <1>1, <1>3, <2>1 DEF Word, Apart, ApartFrom, Timestamp
<1> QED
  BY <1>2, <1>3

-----------------------------------------------------------------------------
(* The invariant of the rounds.                                            *)

\* The registers that stand for a .. e in the round to come.
Current == IF path = "port" THEN Names(0) ELSE Names(round)

\* They are the reference's.  After the last round only the two new sums are,
\* since that step leaves out the rotation.
Follow(registers, n, s, r) ==
    /\ registers[n[1]] = s.a /\ registers[n[2]] = s.b
    /\ r <= 76 => /\ registers[n[3]] = s.c /\ registers[n[4]] = s.d
                   /\ registers[n[5]] = s.e

\* The registers are the reference's under the names of the round, and what was
\* computed so far is the reference's.
RoundsInv ==
    /\ path \in Paths /\ round \in 2..77 /\ regs \in States
    /\ Follow(regs, Current, sha1_state[round], round)
    /\ SameRounds /\ SameKeyWords

\* The sum of a step is the reference's when everything that it adds up is.
LEMMA SameSum ==
    ASSUME NEW r \in 2..76, NEW n, Follow(regs, n, sha1_state[r], r)
    PROVE  StepSum(n, RoundF(path, r), r \div 20, Word(KernelRotations, r))
               = RefSum(sha1_state[r], r)
<1>1. RoundF(path, r) = RefF(r)
  BY SameFunctions
<1>2. Word(KernelRotations, r) = schedule[r + 1]
  BY SameWord
<1> QED
  BY <1>1, <1>2 DEF StepSum, RefSum, Follow

\* A step in place leaves the reference's registers under the next names.
LEMMA InPlaceFollows ==
    ASSUME NEW r \in 2..76, regs \in States, Follow(regs, Names(r), sha1_state[r], r),
           regs' = InPlace(Names(r), r)
    PROVE  regs' \in States /\ Follow(regs', Names(r + 1), sha1_state[r + 1], r + 1)
<1> DEFINE s == sha1_state[r]
           t == sha1_state[r + 1]
<1>1. t = Shift(s, r)
  <2>1. r + 1 \in 1..80 /\ (r + 1) - 1 = r
    OBVIOUS
  <2> QED
    BY <2>1, StateSteps
<1>2. t.a = <<r, 0>> /\ t.b = s.a /\ t.c = rotl(s.b, 30) /\ t.d = s.c /\ t.e = s.d
  BY <1>1 DEF Shift
<1> HIDE DEF s, t
<1>3. PICK a, b, c, d, e \in Fields :
          /\ Names(r) = <<a, b, c, d, e>> /\ Names(r + 1) = <<e, a, b, c, d>>
          /\ a # b /\ a # c /\ a # d /\ a # e /\ b # c /\ b # d /\ b # e
          /\ c # d /\ c # e /\ d # e
  BY NamesCycle
<1>4. regs[a] = s.a /\ regs[b] = s.b /\ regs[c] = s.c /\ regs[d] = s.d /\ regs[e] = s.e
  BY <1>3 DEF Follow, s
<1> DEFINE summed == [regs EXCEPT ![e] = <<r, 0>>]
<1>5. <<r, 0>> \in Values /\ rotl(regs[b], 30) \in Values
  <2>1. regs[b] \in Values
    BY DEF States
  <2> QED
    BY <2>1, Turned DEF Values
<1>6. /\ summed \in States /\ summed[e] = <<r, 0>> /\ summed[a] = regs[a]
      /\ summed[b] = regs[b] /\ summed[c] = regs[c] /\ summed[d] = regs[d]
  BY <1>3, <1>5 DEF States
<1> HIDE DEF summed
<1>7. CASE r # 76
  <2> DEFINE turned == [summed EXCEPT ![b] = rotl(summed[b], 30)]
  <2>1. regs' = turned
    BY <1>3, <1>7 DEF InPlace, Rotates, summed
  <2>2. /\ turned \in States /\ turned[e] = <<r, 0>> /\ turned[a] = regs[a]
        /\ turned[b] = rotl(regs[b], 30) /\ turned[c] = regs[c] /\ turned[d] = regs[d]
    BY <1>3, <1>5, <1>6 DEF States
  <2> HIDE DEF turned
  <2>3. /\ regs'[e] = t.a /\ regs'[a] = t.b /\ regs'[b] = t.c
        /\ regs'[c] = t.d /\ regs'[d] = t.e
    BY <1>2, <1>4, <2>1, <2>2
  <2> QED
    BY <1>3, <2>1, <2>2, <2>3 DEF Follow, t
<1>8. CASE r = 76
  <2>1. regs' = summed
    BY <1>3, <1>8 DEF InPlace, Rotates, summed
  <2>2. ~ (r + 1 <= 76)
    BY <1>8
  <2>3. regs'[e] = t.a /\ regs'[a] = t.b
    BY <1>2, <1>4, <1>6, <2>1
  <2> QED
    BY <1>3, <1>6, <2>1, <2>2, <2>3 DEF Follow, t
<1> QED
  BY <1>7, <1>8

\* So does the shift of the registers in the loop.
LEMMA ShiftFollows ==
    ASSUME NEW r \in 2..76, regs \in States, Follow(regs, Names(0), sha1_state[r], r),
           regs' = Shift(regs, r)
    PROVE  regs' \in States /\ Follow(regs', Names(0), sha1_state[r + 1], r + 1)
<1> DEFINE s == sha1_state[r]
           t == sha1_state[r + 1]
<1>1. t = Shift(s, r)
  <2>1. r + 1 \in 1..80 /\ (r + 1) - 1 = r
    OBVIOUS
  <2> QED
    BY <2>1, StateSteps
<1>2. t.a = <<r, 0>> /\ t.b = s.a /\ t.c = rotl(s.b, 30) /\ t.d = s.c /\ t.e = s.d
  BY <1>1 DEF Shift
<1>3. Names(0) = <<"a", "b", "c", "d", "e">>
  <2>1. 0 % 5 = 0
    OBVIOUS
  <2> QED
    BY <2>1 DEF Names
<1> HIDE DEF s, t
<1>4. regs.a = s.a /\ regs.b = s.b /\ regs.c = s.c /\ regs.d = s.d /\ regs.e = s.e
  BY <1>3 DEF Follow, s
<1>5. /\ regs'["a"] = t.a /\ regs'["b"] = t.b /\ regs'["c"] = t.c
      /\ regs'["d"] = t.d /\ regs'["e"] = t.e
  BY <1>2, <1>4 DEF Shift
<1>6. regs' \in States
  BY ShiftedState
<1> QED
  BY <1>3, <1>5, <1>6 DEF Follow, t

\* The hoisted rounds leave the reference's registers of round 2.
LEMMA HoistedFollows ==
    ASSUME Sha1Init
    PROVE  regs \in States /\ Follow(regs, Current, sha1_state[2], 2)
<1> DEFINE s0 == sha1_state[0]
           s1 == sha1_state[1]
           s2 == sha1_state[2]
<1>1. s0 = InitialState /\ s1 = Shift(s0, 0) /\ s2 = Shift(s1, 1)
  <2>1. 1 \in 1..80 /\ 2 \in 1..80 /\ 1 - 1 = 0 /\ 2 - 1 = 1
    OBVIOUS
  <2> QED
    BY <2>1, StateSteps
<1> HIDE DEF s0, s1, s2
<1>2. s2 = [a |-> <<1, 0>>, b |-> <<0, 0>>, c |-> rotl(<<A, 0>>, 30),
            d |-> rotl(<<B, 0>>, 30), e |-> <<C, 0>>]
  <2>1. s1 = [a |-> <<0, 0>>, b |-> <<A, 0>>, c |-> rotl(<<B, 0>>, 30),
              d |-> <<C, 0>>, e |-> <<D, 0>>]
    BY <1>1 DEF Shift, InitialState
  <2> QED
    BY <1>1, <2>1 DEF Shift
<1>3. path \in Paths /\ round = 2 /\ regs = Hoisted(path)
  BY DEF Sha1Init
<1>4. Names(0) = <<"a", "b", "c", "d", "e">> /\ Names(2) = <<"d", "e", "a", "b", "c">>
  <2>1. 0 % 5 = 0 /\ 2 % 5 = 2
    OBVIOUS
  <2> QED
    BY <2>1 DEF Names
<1>5. regs \in States
  <2>1. /\ <<1, 0>> \in Values /\ <<0, 0>> \in Values /\ <<C, 0>> \in Values
        /\ hr_a \in Values /\ hr_b \in Values
    <3>1. <<A, 0>> \in Values /\ <<B, 0>> \in Values
      BY DEF Values, A, B
    <3> QED
      BY <3>1, Turned DEF Values, C, hr_a, hr_b
  <2> QED
    BY <1>3, <2>1, StateFields DEF Hoisted
<1>6. Follow(regs, Current, s2, 2)
  BY <1>2, <1>3, <1>4 DEF Current, Follow, Hoisted, hr_a, hr_b
<1> QED
  BY <1>5, <1>6 DEF s2

\* The hoisted rounds add up what the reference does.
LEMMA HoistedSums == Sha1Init => SameRounds
<1> SUFFICES ASSUME Sha1Init
             PROVE  SameRounds
  OBVIOUS
<1> DEFINE s0 == sha1_state[0]
           s1 == sha1_state[1]
<1>1. s0 = InitialState /\ s1 = Shift(s0, 0)
  <2>1. 1 \in 1..80 /\ 1 - 1 = 0
    OBVIOUS
  <2> QED
    BY <2>1, StateSteps
<1>2. schedule[1] = {<<0, 0>>} /\ schedule[2] = {<<1, 0>>} /\ Base[1] = {<<0, 0>>}
  <2>1. Continues(Base, schedule, 64)
    BY Bases, ExpandContinues DEF schedule
  <2> QED
    BY <2>1, Bases DEF Continues
<1>3. 0 \div 20 = 0 /\ 1 \div 20 = 0 /\ 0 + 1 = 1 /\ 1 + 1 = 2
  OBVIOUS
<1>4. sha1_ch(path) = RefF(0) /\ sha1_ch(path) = RefF(1)
  <2>1. RoundF(path, 0) = RefF(0) /\ RoundF(path, 1) = RefF(1)
    BY SameFunctions
  <2>2. RoundF(path, 0) = sha1_ch(path) /\ RoundF(path, 1) = sha1_ch(path)
    BY DEF RoundF
  <2> QED
    BY <2>1, <2>2
<1> HIDE DEF s0, s1
<1>5. hr_e(path) = RefSum(s0, 0)
  <2>1. s0.a = <<A, 0>> /\ s0.b = <<B, 0>> /\ s0.c = <<C, 0>> /\ s0.d = <<D, 0>> /\ s0.e = <<E, 0>>
    BY <1>1 DEF InitialState
  <2>2. RefSum(s0, 0) = Added(s0.a, RefF(0), s0.b, s0.c, s0.d, s0.e, 0 \div 20, schedule[0 + 1])
    BY DEF RefSum
  <2> QED
    BY <1>2, <1>3, <1>4, <2>1, <2>2 DEF hr_e
<1>6. hr_d(path) = RefSum(s1, 1)
  <2>1. s1.a = <<0, 0>> /\ s1.b = <<A, 0>> /\ s1.c = hr_b /\ s1.d = <<C, 0>> /\ s1.e = <<D, 0>>
    BY <1>1 DEF InitialState, Shift, hr_b
  <2>2. RefSum(s1, 1) = Added(s1.a, RefF(1), s1.b, s1.c, s1.d, s1.e, 1 \div 20, schedule[1 + 1])
    BY DEF RefSum
  <2> QED
    BY <1>2, <1>3, <1>4, <2>1, <2>2 DEF hr_d
<1>7. computed = [r \in {0, 1} |-> IF r = 0 THEN hr_e(path) ELSE hr_d(path)]
  BY DEF Sha1Init
<1> QED
  BY <1>5, <1>6, <1>7 DEF SameRounds, s0, s1

\* The tests' copies have the kernel's table.
LEMMA OneTable ==
    \A r \in 2..76 : /\ Word(PortRotations, r) = Word(KernelRotations, r)
                     /\ Word(EmulationRotations, r) = Word(KernelRotations, r)
  BY SameTables

\* The hoisted rounds establish it.
LEMMA RoundsInvInit == Sha1Init => RoundsInv
<1>1. Sha1Init => SameKeyWords
  BY DEF Sha1Init, SameKeyWords
<1> QED
  BY <1>1, HoistedFollows, HoistedSums DEF RoundsInv, Sha1Init

\* A round that sums what the reference does and leaves its registers.
LEMMA RoundKeeps ==
    ASSUME NEW r \in 2..76, round = r, round' = r + 1, path \in Paths, UNCHANGED <<path, key_words>>,
           SameKeyWords,
           computed' = [q \in {r} |-> RefSum(sha1_state[r], r)],
           regs' \in States, Follow(regs', Current', sha1_state[r + 1], r + 1)
    PROVE  RoundsInv'
<1>1. SameRounds'
  BY DEF SameRounds
<1>2. SameKeyWords'
  BY DEF SameKeyWords
<1>3. round' \in 2..77
  OBVIOUS
<1> QED
  BY <1>1, <1>2, <1>3 DEF RoundsInv

\* A round of the kernel, with some constants added in advance.
LEMMA KernelStepKeeps == RoundsInv /\ KernelStep => RoundsInv'
<1> SUFFICES ASSUME RoundsInv, KernelStep
             PROVE  RoundsInv'
  OBVIOUS
<1> DEFINE r == round
           k == IF r \in DOMAIN c_K THEN c_K[r] ELSE r \div 20
<1>1. /\ path \in Paths /\ path # "port" /\ r \in 2..76 /\ regs \in States
      /\ SameKeyWords /\ Follow(regs, Names(r), sha1_state[r], r)
      /\ round' = r + 1 /\ UNCHANGED <<path, key_words>>
  BY DEF RoundsInv, KernelStep, Current
<1>2. k = r \div 20
  BY AddedInAdvance
<1>3. /\ computed' = [q \in {r} |-> StepSum(Names(r), RoundF(path, q), k, Word(KernelRotations, q))]
      /\ regs' = InPlace(Names(r), r)
  BY DEF KernelStep
<1> HIDE DEF k
<1>4. computed' = [q \in {r} |-> RefSum(sha1_state[r], r)]
  <2>1. StepSum(Names(r), RoundF(path, r), k, Word(KernelRotations, r)) = RefSum(sha1_state[r], r)
    BY <1>1, <1>2, SameSum
  <2> QED
    BY <1>3, <2>1
<1>5. regs' \in States /\ Follow(regs', Current', sha1_state[r + 1], r + 1)
  BY <1>1, <1>3, InPlaceFollows DEF Current
<1> QED
  BY <1>1, <1>4, <1>5, RoundKeeps

\* A round of the emulation in the tests.
LEMMA EmulationStepKeeps == RoundsInv /\ EmulationStep => RoundsInv'
<1> SUFFICES ASSUME RoundsInv, EmulationStep
             PROVE  RoundsInv'
  OBVIOUS
<1> DEFINE r == round
<1>1. /\ path \in Paths /\ path # "port" /\ r \in 2..76 /\ regs \in States
      /\ SameKeyWords /\ Follow(regs, Names(r), sha1_state[r], r)
      /\ round' = r + 1 /\ UNCHANGED <<path, key_words>>
  BY DEF RoundsInv, EmulationStep, Current
<1>2. /\ computed' = [q \in {r} |->
             StepSum(Names(r), RoundF(path, q), q \div 20, Word(EmulationRotations, q))]
      /\ regs' = InPlace(Names(r), r)
  BY DEF EmulationStep
<1>3. computed' = [q \in {r} |-> RefSum(sha1_state[r], r)]
  <2>1. StepSum(Names(r), RoundF(path, r), r \div 20, Word(EmulationRotations, r))
            = RefSum(sha1_state[r], r)
    BY <1>1, SameSum, OneTable
  <2> QED
    BY <1>2, <2>1
<1>4. regs' \in States /\ Follow(regs', Current', sha1_state[r + 1], r + 1)
  BY <1>1, <1>2, InPlaceFollows DEF Current
<1> QED
  BY <1>1, <1>3, <1>4, RoundKeeps

\* A round of the port in the tests, which shifts the registers.
LEMMA PortStepKeeps == RoundsInv /\ PortStep => RoundsInv'
<1> SUFFICES ASSUME RoundsInv, PortStep
             PROVE  RoundsInv'
  OBVIOUS
<1> DEFINE r == round
<1>1. /\ path \in Paths /\ path = "port" /\ r \in 2..76 /\ regs \in States
      /\ SameKeyWords /\ Follow(regs, Names(0), sha1_state[r], r)
      /\ round' = r + 1 /\ UNCHANGED <<path, key_words>>
  BY DEF RoundsInv, PortStep, Current
<1>2. /\ computed' = [q \in {r} |->
             StepSum(Names(0), RoundF(path, q), q \div 20, Word(PortRotations, q))]
      /\ regs' = Shift(regs, r)
  BY DEF PortStep
<1>3. computed' = [q \in {r} |-> RefSum(sha1_state[r], r)]
  <2>1. StepSum(Names(0), RoundF(path, r), r \div 20, Word(PortRotations, r))
            = RefSum(sha1_state[r], r)
    BY <1>1, SameSum, OneTable
  <2> QED
    BY <1>2, <2>1
<1>4. regs' \in States /\ Follow(regs', Current', sha1_state[r + 1], r + 1)
  BY <1>1, <1>2, ShiftFollows DEF Current
<1> QED
  BY <1>1, <1>3, <1>4, RoundKeeps

\* The last eight bytes are those of the fourth and fifth word.
LEMMA LastBytes ==
    ASSUME NEW d, NEW e, NEW words, words = <<words[1], words[2], words[3], d, e>>
    PROVE  BytesOf(<<d, e>>) = SubSeq(BytesOf(words), 13, 20)
<1> DEFINE all == BytesOf(words)
           last == BytesOf(<<d, e>>)
<1>1. /\ Len(words) = 5 /\ words[4] = d /\ words[5] = e
  OBVIOUS
<1>2. all = [n \in 1..20 |-> <<words[((n - 1) \div 4) + 1], (n - 1) % 4>>]
  <2>1. 4 * 5 = 20
    OBVIOUS
  <2> QED
    BY <1>1, <2>1 DEF BytesOf
<1>3. last = [n \in 1..8 |-> <<(<<d, e>>)[((n - 1) \div 4) + 1], (n - 1) % 4>>]
  <2>1. Len(<<d, e>>) = 2 /\ 4 * 2 = 8
    OBVIOUS
  <2> QED
    BY <2>1 DEF BytesOf
<1>4. \A n \in 1..8 : /\ n + 12 \in 1..20 /\ ((n + 12) - 1) % 4 = (n - 1) % 4
                      /\ ((n + 12) - 1) \div 4 = (n - 1) \div 4 + 3
                      /\ (n - 1) \div 4 \in {0, 1}
  OBVIOUS
<1> HIDE DEF all, last
<1>5. ASSUME NEW n \in 1..8
      PROVE  last[n] = all[n + 12]
  <2>1. words[(((n + 12) - 1) \div 4) + 1] = (<<d, e>>)[((n - 1) \div 4) + 1]
    <3>1. CASE (n - 1) \div 4 = 0
      BY <1>1, <1>4, <3>1
    <3>2. CASE (n - 1) \div 4 = 1
      BY <1>1, <1>4, <3>2
    <3> QED
      BY <1>4, <3>1, <3>2
  <2> QED
    BY <1>2, <1>3, <1>4, <2>1
<1>6. SubSeq(all, 13, 20) = [n \in 1..8 |-> all[n + 12]]
  <2>1. 20 - 13 + 1 = 8 /\ \A n \in 1..8 : 13 + n - 1 = n + 12
    OBVIOUS
  <2> QED
    BY <2>1
<1>7. last = SubSeq(all, 13, 20)
  BY <1>3, <1>5, <1>6
<1> QED
  BY <1>7 DEF all, last

\* The last three rounds only move the two sums that the key ID is made of.
LEMMA RecoverKeeps == RoundsInv /\ Recover => RoundsInv'
<1> SUFFICES ASSUME RoundsInv, Recover
             PROVE  RoundsInv'
  OBVIOUS
<1> DEFINE s == sha1_state[77]
           t == sha1_state[80]
           u == sha1_state[78]
           v == sha1_state[79]
<1>1. t.d = rotl(s.a, 30) /\ t.e = rotl(s.b, 30)
  <2>1. 78 \in 1..80 /\ 79 \in 1..80 /\ 80 \in 1..80 /\ 78 - 1 = 77 /\ 79 - 1 = 78 /\ 80 - 1 = 79
    OBVIOUS
  <2>2. u = Shift(s, 77) /\ v = Shift(u, 78) /\ t = Shift(v, 79)
    BY <2>1, StateSteps
  <2> HIDE DEF s, t, u, v
  <2> QED
    BY <2>2 DEF Shift
<1>2. round = 77 /\ Follow(regs, Current, s, 77) /\ path \in Paths
  BY DEF RoundsInv, Recover
<1> HIDE DEF s
<1>3. Names(0) = <<"a", "b", "c", "d", "e">> /\ Names(77) = <<"d", "e", "a", "b", "c">>
  <2>1. 0 % 5 = 0 /\ 77 % 5 = 2
    OBVIOUS
  <2> QED
    BY <2>1 DEF Names
<1>4. IF path = "port" THEN regs.a = s.a /\ regs.b = s.b ELSE regs.d = s.a /\ regs.e = s.b
  BY <1>2, <1>3 DEF Follow, Current
<1> HIDE DEF t
<1>5. key_words' = <<<<D, t.d>>, <<E, t.e>>>>
  BY <1>1, <1>4 DEF Recover, ThreeRoundsOn
<1>6. BytesOf(key_words') = key_id_from_fingerprint
  <2> DEFINE words == <<<<A, t.a>>, <<B, t.b>>, <<C, t.c>>, <<D, t.d>>, <<E, t.e>>>>
  <2>1. words = <<words[1], words[2], words[3], <<D, t.d>>, <<E, t.e>>>>
    OBVIOUS
  <2>2. BytesOf(<<<<D, t.d>>, <<E, t.e>>>>) = SubSeq(BytesOf(words), 13, 20)
    <3> HIDE DEF words
    <3> QED
      BY <2>1, LastBytes
  <2>3. Digest = BytesOf(words)
    BY DEF Digest, t
  <2> HIDE DEF words
  <2> QED
    BY <1>5, <2>2, <2>3 DEF key_id_from_fingerprint
<1>7. SameKeyWords'
  BY <1>6 DEF SameKeyWords
<1>8. UNCHANGED <<path, round, regs, computed>>
  BY DEF Recover
<1>9. SameRounds' /\ Current' = Current
  BY <1>8 DEF RoundsInv, SameRounds, Current
<1> QED
  BY <1>7, <1>8, <1>9 DEF RoundsInv

\* Every step keeps it.
LEMMA RoundsInvNext == RoundsInv /\ [Next]_vars => RoundsInv'
<1> SUFFICES ASSUME RoundsInv, [Next]_vars
             PROVE  RoundsInv'
  OBVIOUS
<1>1. CASE KernelStep
  BY <1>1, KernelStepKeeps
<1>2. CASE EmulationStep
  BY <1>2, EmulationStepKeeps
<1>3. CASE PortStep
  BY <1>3, PortStepKeeps
<1>4. CASE Recover
  BY <1>4, RecoverKeeps
<1>5. CASE UNCHANGED sha1_vars
  <2>1. UNCHANGED <<path, round, regs, computed, key_words>>
    BY <1>5 DEF sha1_vars
  <2>2. Current' = Current /\ SameRounds' /\ SameKeyWords'
    BY <2>1 DEF RoundsInv, Current, SameRounds, SameKeyWords
  <2> QED
    BY <2>1, <2>2 DEF RoundsInv
<1> QED
  BY <1>1, <1>2, <1>3, <1>4, <1>5 DEF Next, Sha1Next, Compare, vars

\* The registers of every copy of the rounds are SHA-1's, under the names of the
\* round, from the hoisted rounds to the last sum.
THEOREM RoundsInvHolds == Spec => []RoundsInv
<1>1. Init => RoundsInv
  BY RoundsInvInit DEF Init
<1> QED
  BY <1>1, RoundsInvNext, PTL DEF Spec

\* Every round adds up what SHA-1 does: round function, constant, and the word,
\* taken apart into a constant and rotations of the timestamp.
THEOREM SameRoundsHolds == Spec => []SameRounds
<1>1. RoundsInv => SameRounds
  BY DEF RoundsInv
<1> QED
  BY <1>1, RoundsInvHolds, PTL

\* The two words a candidate ends with are the last eight bytes of SHA-1's
\* fingerprint, although the last three rounds are left out.
THEOREM SameKeyWordsHolds == Spec => []SameKeyWords
<1>1. RoundsInv => SameKeyWords
  BY DEF RoundsInv
<1> QED
  BY <1>1, RoundsInvHolds, PTL
=============================================================================
