-------------------------- MODULE MCDirectoryCoverage --------------------------
(***************************************************************************)
(* Two directories, so that one can be lost while the other is put back;   *)
(* five changes: one of them lost and replaced twice, the other one lost.  *)
(***************************************************************************)
EXTENDS DirectoryCoverage

CONSTANTS d1, d2

MCDirectory == {d1, d2}
===============================================================================
