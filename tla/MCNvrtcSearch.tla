---------------------------- MODULE MCNvrtcSearch ----------------------------
(***************************************************************************)
(* Small values for NvrtcSearch: two versions, one with fewer digits.      *)
(***************************************************************************)
EXTENDS NvrtcSearch

MCVersions == {<<9>>, <<1, 2>>}
=============================================================================
