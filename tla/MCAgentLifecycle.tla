--------------------------- MODULE MCAgentLifecycle ---------------------------
(***************************************************************************)
(* The setups: one start with a configured name, whose first two requests  *)
(* the ledger follows; three starts of a machine with a fingerprint and    *)
(* two of one without, with mishaps between them, and to keep them small   *)
(* without a spool, so that no threads are started.  For the overflow, one *)
(* start of a process whose loops count beyond an exponent that is made    *)
(* small.                                                                  *)
(***************************************************************************)
EXTENDS AgentLifecycle

CONSTANTS here, there

MCSizes == {1}
MCHostnames == {here, there}

\* The heartbeat loop is told apart that failed; the others need no more.
MCFailures == [l \in Loop |-> IF l = "heartbeat" THEN 1 ELSE 0]
MCFailuresLong == [l \in Loop |-> IF l = "registration" THEN 4 ELSE 0]

Machines(fingerprints, names) ==
    [hostname : {here}, fingerprinted : fingerprints, configured : names]
Setup(machines, n, k, storage) ==
    [machine : machines, requests : {n}, starts : {k}, storage : {storage}]

MCSetups ==
    Setup(Machines({TRUE}, {Chosen}), 2, 1, TRUE)
      \cup Setup(Machines({TRUE}, {Nobody}), 0, 3, FALSE)
      \cup Setup(Machines({FALSE}, {Nobody}), 0, 2, FALSE)
MCSetupsOnce == Setup(Machines({TRUE}, {Nobody}), 0, 1, TRUE)
===============================================================================
