---------------------------- MODULE MCEventDelivery ----------------------------
(***************************************************************************)
(* Three events and room for two, so that the spool evicts under the       *)
(* dispatcher; batches of two, so that a batch outlives a change.          *)
(***************************************************************************)
EXTENDS EventDelivery

CONSTANTS e1, e2, e3

MCEvent == {e1, e2, e3}

Symmetry == Permutations(MCEvent)
===============================================================================
