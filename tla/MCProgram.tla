----------------------------- MODULE MCProgram -----------------------------
(***************************************************************************)
(* Small values for Program: two versions of NVRTC, one with fewer digits. *)
(***************************************************************************)
EXTENDS Program

MCVersions == {<<9>>, <<1, 2>>}
=============================================================================
