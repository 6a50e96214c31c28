--------------------------- MODULE MCSettleTracker ---------------------------
(***************************************************************************)
(* Three files and room for two, so that the tracker evicts; quiet and      *)
(* ceiling two ticks away, so that a file touched at every tick meets the  *)
(* ceiling before it is quiet.                                             *)
(***************************************************************************)
EXTENDS SettleTracker

CONSTANTS f1, f2, f3

MCPath == {f1, f2, f3}

Symmetry == Permutations({f1, f2, f3})
===============================================================================
