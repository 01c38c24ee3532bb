---------------------------- MODULE MCTuningCache ----------------------------
(***************************************************************************)
(* Small values for TuningCache: compile options and work sizes of         *)
(* different length, the shorter not the beginning of the longer.  Nothing *)
(* tells the processes or the devices apart, so the symmetry is sound.     *)
(***************************************************************************)
EXTENDS TuningCache, TLC

MCOptions == {<<8>>, <<1, 6>>}
MCWorkSizes == {<<5>>, <<1, 0>>}

MCSymmetry == Permutations(Processes) \cup Permutations(Identities)
=============================================================================
