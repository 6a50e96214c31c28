---------------------------- MODULE MCFilePipeline ----------------------------
(***************************************************************************)
(* Two files; room for one entry in the tracker and one in the hash queue, *)
(* so that both overflow; one reintroduction and two delivery attempts, so *)
(* that both limits are met.                                               *)
(***************************************************************************)
EXTENDS FilePipeline

CONSTANTS a, b

MCPath == {a, b}

Symmetry == Permutations({a, b})
===============================================================================
