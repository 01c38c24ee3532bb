----------------------------- MODULE NvrtcSearch -----------------------------
(***************************************************************************)
(* How the CUDA engine finds NVRTC (load_nvrtc, nvrtc_candidates_in,       *)
(* nvrtc_dlls_in_dir and prepend_to_path_env of src/gpu/cuda.rs): the      *)
(* builds in the directories under CUDA_PATH and CUDA_HOME and in those of *)
(* PATH, then two names left to the loader, are tried in turn.             *)
(*                                                                         *)
(* A file name is what follows "libnvrtc.so.": the digits of the version,  *)
(* none for the bare name.  What is installed, and what of it the loader   *)
(* accepts, is looked at when the search begins.                           *)
(***************************************************************************)
EXTENDS Integers, Sequences, FiniteSets, SequencesExt

CONSTANTS
    Directories,  \* the directories there are
    Versions,     \* the versions that may be installed, as digits
    MaxPlaces     \* bound on the directories to look into

ASSUME NvrtcAssumption ==
    /\ Versions \subseteq Seq(Nat) /\ IsFiniteSet(Versions) /\ MaxPlaces \in Nat

VARIABLES
    outcome,      \* "idle", "searching", "loaded" (the candidate) or "nothing"
    contents,     \* the builds in each directory
    usable,       \* the files the loader accepts
    places,       \* the directories of CUDA_PATH, CUDA_HOME, PATH, in order
    candidates,   \* the files to try
    next,         \* the candidate to try next
    tried,        \* the files that were refused
    search_path   \* LD_LIBRARY_PATH

machine == <<contents, usable, places>>
nvrtc_vars == <<outcome, machine, candidates, next, tried, search_path>>

Here == ""  \* the empty parent of a bare name
Bare == {[dir |-> Here, name |-> <<>>], [dir |-> Here, name |-> <<1>>]}
Files == [dir : Directories, name : Versions] \cup Bare

Installed(where) == {f \in Files : f.dir \in Directories /\ f.name \in where[f.dir]}

\* At most one directory with builds under each root, and in PATH; the same one
\* may be found twice.
Places == UNION {[1..n -> Directories] : n \in 0..MaxPlaces}

Idle ==
    /\ outcome = "idle"
    /\ contents = [d \in Directories |-> {}] /\ usable = {} /\ places = <<>>
    /\ candidates = <<>> /\ next = 0 /\ tried = {} /\ search_path = <<>>

\* load_nvrtc has returned; its locals are gone.
Forget ==
    /\ outcome' = "idle"
    /\ contents' = [d \in Directories |-> {}] /\ usable' = {} /\ places' = <<>>
    /\ candidates' = <<>> /\ next' = 0 /\ tried' = {} /\ search_path' = <<>>

\* The byte order of two names, which differ.
Less(a, b) ==
    \E n \in 0..Len(a) :
        /\ n <= Len(b) /\ \A k \in 1..n : a[k] = b[k]
        /\ n < Len(b) /\ (n = Len(a) \/ a[n + 1] < b[n + 1])

\* The names sorted, then reversed.
NewestFirst(names) ==
    CHOOSE s \in [1..Cardinality(names) -> names] :
        \A i, j \in DOMAIN s : i < j => Less(s[j], s[i])

\* nvrtc_dlls_in_dir.
InDirectory(d, where) ==
    LET names == NewestFirst(where[d])
    IN  [k \in 1..Len(names) |-> [dir |-> d, name |-> names[k]]]

Collect ==
    /\ outcome = "idle" /\ outcome' = "searching"
    /\ contents' \in [Directories -> SUBSET Versions]
    /\ usable' \in SUBSET (Installed(contents') \cup Bare)
    /\ places' \in Places
    /\ candidates' = FlattenSeq([k \in 1..Len(places') |-> InDirectory(places'[k], contents')])
                         \o <<[dir |-> Here, name |-> <<>>], [dir |-> Here, name |-> <<1>>]>>
    /\ next' = 1
    /\ UNCHANGED <<tried, search_path>>

prepend_to_path_env(d) ==
    IF d \in ToSet(search_path) THEN search_path ELSE <<d>> \o search_path

File == candidates[next]

\* Bug: a file is taken for another one of the same name.
SeenName(f) == \E t \in tried : t.name = f.name
Seen(f) == f \in tried

Skip ==
    /\ outcome = "searching" /\ next <= Len(candidates)
    /\ Seen(File)
    /\ next' = next + 1
    /\ UNCHANGED <<outcome, machine, candidates, tried, search_path>>

Try ==
    /\ outcome = "searching" /\ next <= Len(candidates)
    /\ ~ Seen(File)
    /\ search_path' = prepend_to_path_env(File.dir)
    /\ IF File \in usable
       THEN outcome' = "loaded" /\ UNCHANGED <<next, tried>>
       ELSE tried' = tried \cup {File} /\ next' = next + 1 /\ UNCHANGED outcome
    /\ UNCHANGED <<machine, candidates>>

GiveUp ==
    /\ outcome = "searching" /\ next > Len(candidates)
    /\ outcome' = "nothing"
    /\ UNCHANGED <<machine, candidates, next, tried, search_path>>

NvrtcNext == Collect \/ Skip \/ Try \/ GiveUp

NvrtcSpec == Idle /\ [][NvrtcNext]_nvrtc_vars

-----------------------------------------------------------------------------

\* The CUDA engine is given up for want of NVRTC only when neither the loader
\* nor any of the directories has a usable build, although what was refused
\* once is skipped; and the build that is loaded finds what is beside it.
UsableNotMissed ==
    /\ outcome = "nothing" =>
          \A f \in usable : f \notin Bare /\ f.dir \notin ToSet(places)
    /\ outcome = "loaded" => File \in usable /\ File.dir \in ToSet(search_path)

Value(name) == FoldLeft(LAMBDA n, digit : 10 * n + digit, 0, name)

\* "Prefer the highest-versioned NVRTC build so repeated runs converge on the
\* newest toolkit available in PATH" (src/gpu/cuda.rs:1389): no usable build in
\* the directory of the one that was loaded has a higher version.
NewestPreferred ==
    outcome = "loaded" /\ File \notin Bare =>
        \A f \in usable : f.dir = File.dir => Value(f.name) <= Value(File.name)
=============================================================================
