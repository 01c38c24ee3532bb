------------------------------ MODULE Candidate ------------------------------
(***************************************************************************)
(* RUN_CANDIDATE (src/gpu_kernel.cu) as a whole: the rounds of Sha1Rounds, *)
(* then the prefix loop of PrefixMatch on the two words they give.  The    *)
(* prefixes are read only then, so the command line is parsed only then,   *)
(* and the key ID, which depends on the key, may be any.  The copies of    *)
(* the rounds in the tests end with the two words.                         *)
(***************************************************************************)
EXTENDS Sha1Rounds, PrefixMatch

vars == <<sha1_vars, match_vars>>

Init == Sha1Init /\ MatchInit

Compare ==
    /\ key_words # <<>> /\ path \in {"cuda", "hip"}
    /\ MatchNext
    /\ UNCHANGED sha1_vars

Next == (Sha1Next /\ UNCHANGED match_vars) \/ Compare

Spec == Init /\ [][Next]_vars
=============================================================================
