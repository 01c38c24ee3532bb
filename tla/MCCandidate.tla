---------------------------- MODULE MCCandidate ----------------------------
(***************************************************************************)
(* Small requests for Candidate: key IDs of four digits of two bits.       *)
(***************************************************************************)
EXTENDS Candidate

\* Every length from one digit to a whole key ID, zeros and equal digits,
\* across the two halves, with the marker and with spaces around.
GoodTexts ==
    {<<0>>, <<3>>, <<1, 2>>, <<0, 0>>, <<3, 1, 2>>, <<2, 2, 3>>, <<1, 0, 3, 2>>, <<3, 3, 3, 3>>,
     <<0, LetterX, 2>>, <<Space, 0, LetterX, 1, 2, 0, 3, Space, Space>>}

\* Nothing at all or only the marker, a digit too many, characters that are no
\* digits, and a marker twice or not at the start.
BadTexts ==
    {<<>>, <<Space>>, <<0, LetterX>>, <<1, 1, 1, 1, 1>>, <<1, Other>>, <<LetterX, 1>>,
     <<0, LetterX, 0, LetterX, 1>>, <<1, Space, 2>>}

MCRequests ==
    {<<>>} \cup {<<t>> : t \in GoodTexts \cup BadTexts}
        \cup {<<<<1, 2>>, t>> : t \in GoodTexts \cup {<<Other>>}}
        \cup {<<t, <<3, 1, 2, 0>>>> : t \in GoodTexts}
        \cup {<<<<0>>, <<1>>, <<2>>>>}
=============================================================================
