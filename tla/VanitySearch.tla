---------------------------- MODULE VanitySearch ---------------------------
(***************************************************************************)
(* What `search' promises its user, with no GPU, batches or counters in    *)
(* sight: keys are tried one after the other; a key is either accepted     *)
(* with its earliest matching creation time that is not in the future, or  *)
(* turned down because it has none.  HostSearch implements this module.    *)
(***************************************************************************)
EXTENDS Integers

CONSTANTS
    U32MAX,     \* u32::MAX
    Keys,       \* the keys a seed can give
    NoSeed,     \* --seed-hex was not given
    NoLimit     \* --max-key-attempts was not given

VARIABLES
    hits,       \* the creation times at which each key has a wanted key ID
    fixed_seed, \* the configuration of the search
    max_key_attempts,
    horizon,    \* number of creation times that are not in the future; 0 at first
    tried,      \* keys turned down
    verdict,    \* "running", "found", "exhausted", "limit" or "error"
    found       \* the accepted key and its creation time

vars == <<hits, fixed_seed, max_key_attempts, horizon, tried, verdict, found>>

Nothing == <<>>
Timestamps == 0 .. U32MAX

\* Creation times of k the search can report: the last u32 value is reserved.
Reportable(k) == {t \in hits[k] : t < horizon /\ t # U32MAX}

Candidate(k) == fixed_seed \in {NoSeed, k}

Init ==
    /\ hits \in [Keys -> SUBSET Timestamps]
    /\ fixed_seed \in Keys \cup {NoSeed}
    /\ max_key_attempts \in Nat \cup {NoLimit}
    /\ horizon = 0
    /\ tried = 0
    /\ verdict = "running"
    /\ found = Nothing

\* The clock is read, once, before the first key.
Begin ==
    /\ verdict = "running" /\ horizon = 0 /\ tried = 0
    /\ horizon' \in 1 .. U32MAX + 1
    /\ UNCHANGED <<hits, fixed_seed, max_key_attempts, tried, verdict, found>>

Running == verdict = "running" /\ horizon > 0
MayTry == max_key_attempts # NoLimit => tried < max_key_attempts

Accept ==
    /\ Running /\ MayTry
    /\ \E k \in Keys : \E t \in Reportable(k) :
          /\ Candidate(k)
          /\ \A u \in Reportable(k) : t <= u
          /\ found' = <<k, t>>
    /\ verdict' = "found"
    /\ UNCHANGED <<hits, fixed_seed, max_key_attempts, horizon, tried>>

TurnDown ==
    /\ Running /\ MayTry
    /\ fixed_seed = NoSeed
    /\ \E k \in Keys : Reportable(k) = {}
    /\ tried' = tried + 1
    /\ UNCHANGED <<hits, fixed_seed, max_key_attempts, horizon, verdict, found>>

\* The only key there is has no wanted creation time.
Exhaust ==
    /\ Running /\ MayTry
    /\ fixed_seed # NoSeed /\ Reportable(fixed_seed) = {}
    /\ verdict' = "exhausted"
    /\ UNCHANGED <<hits, fixed_seed, max_key_attempts, horizon, tried, found>>

ReachLimit ==
    /\ Running
    /\ tried = max_key_attempts
    /\ verdict' = "limit"
    /\ UNCHANGED <<hits, fixed_seed, max_key_attempts, horizon, tried, found>>

Fail ==
    /\ verdict = "running"
    /\ verdict' = "error"
    /\ UNCHANGED <<hits, fixed_seed, max_key_attempts, horizon, tried, found>>

Next == Begin \/ Accept \/ TurnDown \/ Exhaust \/ ReachLimit \/ Fail

Spec == Init /\ [][Next]_vars
=============================================================================
