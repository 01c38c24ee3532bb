----------------------------- MODULE Sha1Rounds -----------------------------
(***************************************************************************)
(* The SHA-1 of RUN_CANDIDATE (src/gpu_kernel.cu), round by round, beside  *)
(* sha1_state of src/fingerprint.rs and the two CPU copies of the kernel   *)
(* that its tests run instead of it.  The kernel starts at round 2, ends   *)
(* at round 76, keeps the five registers in place under cycling names, and *)
(* splits every message word into a constant, prepared once per key, and   *)
(* a hand-written set of rotations of w1, the timestamp.                   *)
(*                                                                         *)
(* Values are symbolic.  A message word is a set of <<i, n>>, the XOR of   *)
(* base word i rotated left by n; XOR is the symmetric difference.  A      *)
(* register holds <<t, n>>, the sum of round t rotated left by n, where    *)
(* t = -1 .. -5 are the initial values A .. E.  So what agrees here agrees *)
(* for every key and every timestamp.                                      *)
(***************************************************************************)
EXTENDS Integers, Sequences

VARIABLES
    path,      \* whose rounds are run: the kernel's on either backend, or
               \* those of a test's copy, "port" or "emulation"
    round,     \* the next round
    regs,      \* the five registers
    computed,  \* the rounds computed by the last step, with what they summed
    key_words  \* <<key_id_high, key_id_low>>, at the end

sha1_vars == <<path, round, regs, computed, key_words>>

Paths == {"cuda", "hip", "port", "emulation"}

rotl(value, n) == <<value[1], (value[2] + n) % 32>>
rotl_word(word, n) == {rotl(term, n) : term \in word}
Xor(v, w) == (v \ w) \cup (w \ v)

A == -1
B == -2
C == -3
D == -4
E == -5

\* The sum of a round: everything that is added up.
Added(a, f, b, c, d, e, k, word) ==
    [a |-> rotl(a, 5), f |-> f, x |-> <<b, c, d>>, e |-> e, k |-> k, word |-> word]

\* A round function, bit by bit.
Bits(F(_, _, _)) ==
    [x \in BOOLEAN |-> [y \in BOOLEAN |-> [z \in BOOLEAN |-> F(x, y, z)]]]

-----------------------------------------------------------------------------
\* The reference, sha1_state.

\* The word that follows those from w[i - 16] to w[i - 1].
NextWord(w, i) == rotl_word(Xor(Xor(Xor(w[i - 3], w[i - 8]), w[i - 14]), w[i - 16]), 1)

\* After n turns of the loop there are 16 + n words: schedule[i] is Expand(words)[i + 1].
Expand(words) ==
    LET expanded[n \in 0..64] ==
            IF n = 0 THEN words
            ELSE LET w == expanded[n - 1] IN Append(w, NextWord(w, n + 16))
    IN  expanded[64]
Base == [n \in 1..16 |-> {<<n - 1, 0>>}]
schedule == Expand(Base)

RefF(r) ==
    IF r \in 0..19 THEN Bits(LAMBDA b, c, d : (b /\ c) \/ (~b /\ d))
    ELSE IF r \in 40..59 THEN Bits(LAMBDA b, c, d : (b /\ c) \/ (b /\ d) \/ (c /\ d))
    ELSE Bits(LAMBDA b, c, d : (b # c) # d)

RefSum(s, r) == Added(s.a, RefF(r), s.b, s.c, s.d, s.e, r \div 20, schedule[r + 1])
Shift(s, r) == [a |-> <<r, 0>>, b |-> s.a, c |-> rotl(s.b, 30), d |-> s.c, e |-> s.d]
InitialState == [a |-> <<A, 0>>, b |-> <<B, 0>>, c |-> <<C, 0>>, d |-> <<D, 0>>, e |-> <<E, 0>>]

\* The registers before round r.
sha1_state[r \in 0..80] == IF r = 0 THEN InitialState ELSE Shift(sha1_state[r - 1], r - 1)

\* words_to_digest, and the eight last bytes as the key ID.
BytesOf(words) == [n \in 1..(4 * Len(words)) |-> <<words[((n - 1) \div 4) + 1], (n - 1) % 4>>]
Digest ==
    LET s == sha1_state[80]
    IN  BytesOf(<<<<A, s.a>>, <<B, s.b>>, <<C, s.c>>, <<D, s.d>>, <<E, s.e>>>>)
key_id_from_fingerprint == SubSeq(Digest, 13, 20)

-----------------------------------------------------------------------------
\* What the kernel prepares.

\* c_16s .. c_76s, the schedule with w1 taken as zero.
Constants == Expand([Base EXCEPT ![2] = {}])

\* The rounds 16..76 whose word has no part of w1 have K added in advance.
c_K == [r \in {16, 18, 19, 21, 22, 24, 27, 28, 30, 34, 40, 42, 46, 54, 66, 70} |->
           IF r <= 19 THEN 0 ELSE IF r <= 34 THEN 1 ELSE IF r <= 54 THEN 2 ELSE 3]

w1s04_06 == {4, 6}
w1s04_08 == {4, 8}
w1s08_12 == {8, 12}
w1s04_06_07 == {4, 6, 7}

\* The rotations of w1 in the words of the rounds 16..76.
KernelRotations ==
    <<{}, {1}, {}, {}, {2}, {}, {}, {3}, {}, {2}, {4}, {}, {}, {5}, {}, {2, 4}, {6}, {2, 3}, {},
      {7}, {4}, w1s04_06, {8}, {4}, {}, {4, 9}, {}, {6, 8}, {10}, {3, 6, 7}, {}, {4, 11},
      w1s04_08, {3, 5, 10} \cup w1s04_08, {12}, {8}, w1s04_06, {13} \cup w1s04_08, {},
      {7, 10, 12}, {14}, {10, 11} \cup w1s04_06_07, {8}, {15} \cup w1s04_08, w1s08_12,
      {4, 7, 14} \cup w1s08_12, {16}, w1s04_06 \cup w1s08_12, {8},
      {17} \cup w1s04_06_07 \cup w1s08_12, {}, {14, 16}, {8, 18}, {11, 14, 15}, {}, {12, 19},
      {12, 16}, {5, 11, 12, 13, 16, 18}, {20}, {8, 16}, {6, 12, 14}>>

\* The same table in the two copies of the tests.
PortRotations ==
    <<{}, {1}, {}, {}, {2}, {}, {}, {3}, {}, {2}, {4}, {}, {}, {5}, {}, {2, 4}, {6}, {2, 3}, {},
      {7}, {4}, {4, 6}, {8}, {4}, {}, {4, 9}, {}, {6, 8}, {10}, {3, 6, 7}, {}, {4, 11}, {4, 8},
      {3, 4, 5, 8, 10}, {12}, {8}, {4, 6}, {4, 8, 13}, {}, {7, 10, 12}, {14},
      {4, 6, 7, 10, 11}, {8}, {4, 8, 15}, {8, 12}, {4, 7, 8, 12, 14}, {16}, {4, 6, 8, 12}, {8},
      {4, 6, 7, 8, 12, 17}, {}, {14, 16}, {8, 18}, {11, 14, 15}, {}, {12, 19}, {12, 16},
      {5, 11, 12, 13, 16, 18}, {20}, {8, 16}, {6, 12, 14}>>
EmulationRotations ==
    <<{}, {1}, {}, {}, {2}, {}, {}, {3}, {}, {2}, {4}, {}, {}, {5}, {}, {2, 4}, {6}, {2, 3}, {},
      {7}, {4}, w1s04_06, {8}, {4}, {}, {4, 9}, {}, {6, 8}, {10}, {3, 6, 7}, {}, {4, 11},
      w1s04_08, {3, 5, 10} \cup w1s04_08, {12}, {8}, w1s04_06, {13} \cup w1s04_08, {},
      {7, 10, 12}, {14}, {10, 11} \cup w1s04_06_07, {8}, {15} \cup w1s04_08, w1s08_12,
      {4, 7, 14} \cup w1s08_12, {16}, w1s04_06 \cup w1s08_12, {8},
      {17} \cup w1s04_06_07 \cup w1s08_12, {}, {14, 16}, {8, 18}, {11, 14, 15}, {}, {12, 19},
      {12, 16}, {5, 11, 12, 13, 16, 18}, {20}, {8, 16}, {6, 12, 14}>>

\* Bug: the table as for a variable word 0, not shifted by one round.
EntryUnshifted(table, r) == IF r = 16 THEN {} ELSE table[r - 16]
Entry(table, r) == table[r - 15]

\* The message word of round r, 2..76.
Word(table, r) ==
    IF r < 16 THEN Base[r + 1]
    ELSE Xor(Constants[r + 1], {<<1, n>> : n \in Entry(table, r)})

-----------------------------------------------------------------------------
\* The kernel's round functions; AMD's bit select replaces two of them.

xor(x, y) == x # y
v_bfi_b32(x, y, z) == (x /\ y) \/ (~x /\ z)
sha1_ch(p) ==
    IF p = "hip" THEN Bits(v_bfi_b32)
    ELSE Bits(LAMBDA x, y, z : xor(z, x /\ xor(y, z)))
sha1_parity == Bits(LAMBDA x, y, z : xor(xor(x, y), z))
sha1_maj(p) ==
    IF p = "hip" THEN Bits(LAMBDA x, y, z : v_bfi_b32(xor(x, z), y, z))
    ELSE Bits(LAMBDA x, y, z : (x /\ y) \/ (z /\ xor(x, y)))

RoundF(p, r) ==
    IF r <= 19 THEN sha1_ch(p)
    ELSE IF r \in 40..59 THEN sha1_maj(p)
    ELSE sha1_parity

\* hr_a, hr_b, hr_e and hr_d_offset + w1, the sums of rounds 0 and 1.
hr_a == rotl(<<A, 0>>, 30)
hr_b == rotl(<<B, 0>>, 30)
hr_e(p) == Added(<<A, 0>>, sha1_ch(p), <<B, 0>>, <<C, 0>>, <<D, 0>>, <<E, 0>>, 0, Base[1])
hr_d(p) == Added(<<0, 0>>, sha1_ch(p), <<A, 0>>, hr_b, <<C, 0>>, <<D, 0>>, 0, {<<1, 0>>})

Hoisted(p) ==
    IF p = "port" THEN [a |-> <<1, 0>>, b |-> <<0, 0>>, c |-> hr_a, d |-> hr_b, e |-> <<C, 0>>]
    ELSE [a |-> hr_a, b |-> hr_b, c |-> <<C, 0>>, d |-> <<1, 0>>, e |-> <<0, 0>>]

Sha1Init ==
    /\ path \in Paths
    /\ round = 2
    /\ regs = Hoisted(path)
    /\ computed = [r \in {0, 1} |-> IF r = 0 THEN hr_e(path) ELSE hr_d(path)]
    /\ key_words = <<>>

\* The registers that stand for a .. e in the step of round r.
Names(r) ==
    <<<<"a", "b", "c", "d", "e">>, <<"e", "a", "b", "c", "d">>, <<"d", "e", "a", "b", "c">>,
      <<"c", "d", "e", "a", "b">>, <<"b", "c", "d", "e", "a">>>>[(r % 5) + 1]

StepSum(n, f, k, word) ==
    Added(regs[n[1]], f, regs[n[2]], regs[n[3]], regs[n[4]], regs[n[5]], k, word)

\* Bug: the step without the rotation is used one round too early.
RotatesNever(r) == r < 75
\* SHA1_STEP and SHA1_STEP_K, but SHA1_STEP_FINAL in round 76.
Rotates(r) == r # 76

\* A step in place: e becomes the sum, b is rotated for the rounds to come.
InPlace(n, r) ==
    LET summed == [regs EXCEPT ![n[5]] = <<r, 0>>]
    IN  IF Rotates(r) THEN [summed EXCEPT ![n[2]] = rotl(@, 30)] ELSE summed

KernelStep ==
    /\ path \in {"cuda", "hip"} /\ round <= 76
    /\ LET n == Names(round)
           k == IF round \in DOMAIN c_K THEN c_K[round] ELSE round \div 20
       IN  /\ computed' = [r \in {round} |->
                              StepSum(n, RoundF(path, r), k, Word(KernelRotations, r))]
           /\ regs' = InPlace(n, round)
    /\ round' = round + 1
    /\ UNCHANGED <<path, key_words>>

\* run_step of kernel_emulated_d_e.
EmulationStep ==
    /\ path = "emulation" /\ round <= 76
    /\ LET n == Names(round)
       IN  /\ computed' = [r \in {round} |->
                  StepSum(n, RoundF(path, r), r \div 20, Word(EmulationRotations, r))]
           /\ regs' = InPlace(n, round)
    /\ round' = round + 1
    /\ UNCHANGED <<path, key_words>>

\* The loop of optimized_kernel_d_e, which shifts the registers.
PortStep ==
    /\ path = "port" /\ round <= 76
    /\ computed' = [r \in {round} |->
           StepSum(Names(0), RoundF(path, r), r \div 20, Word(PortRotations, r))]
    /\ regs' = Shift(regs, round)
    /\ round' = round + 1
    /\ UNCHANGED <<path, key_words>>

\* Bug: the words of the skipped rounds are taken as they are.
AsTheyAre(value) == value
ThreeRoundsOn(value) == rotl(value, 30)

\* key_id_high and key_id_low: rounds 77, 78 and 79 would only move and rotate
\* the last two sums.  The tests compare without the initial values.
Recover ==
    /\ round = 77 /\ key_words = <<>>
    /\ key_words' = IF path = "port"
                    THEN <<<<D, ThreeRoundsOn(regs.a)>>, <<E, ThreeRoundsOn(regs.b)>>>>
                    ELSE <<<<D, ThreeRoundsOn(regs.d)>>, <<E, ThreeRoundsOn(regs.e)>>>>
    /\ UNCHANGED <<path, round, regs, computed>>

Sha1Next == KernelStep \/ EmulationStep \/ PortStep \/ Recover

-----------------------------------------------------------------------------

\* Every round of the kernel, and of the tests' copies of it, sums exactly what
\* the reference's round does: the same registers, rotated as often, the same
\* function bit by bit, constant and message word.  The names that cycle, the
\* values rotated in place, the constants added in advance, the table of
\* rotations and the two hoisted rounds all have to fit together.
SameRounds == \A r \in DOMAIN computed : computed[r] = RefSum(sha1_state[r], r)

\* The two words the kernel compares are the last eight bytes of the
\* fingerprint, although it computes neither the first three words of the hash
\* nor its last three rounds.
SameKeyWords == key_words # <<>> => BytesOf(key_words) = key_id_from_fingerprint
=============================================================================
