------------------------------ MODULE EventLedger ------------------------------
(***************************************************************************)
(* What the file pipeline promises, without its lists and threads: each    *)
(* observation of watchdog is settled at most once, as part of one event   *)
(* that reached the spool or of one that was given up with an ERROR.       *)
(***************************************************************************)
EXTENDS Naturals

VARIABLES seen, spooled, dropped

ledger == <<seen, spooled, dropped>>

Open == 1..seen \ (spooled \cup dropped)

Init == seen = 0 /\ spooled = {} /\ dropped = {}

Arrive == seen' = seen + 1 /\ UNCHANGED <<spooled, dropped>>

\* One event settles all the observations it stands for.
Settle ==
    \E event \in SUBSET Open :
        \/ spooled' = spooled \cup event /\ UNCHANGED <<seen, dropped>>
        \/ dropped' = dropped \cup event /\ UNCHANGED <<seen, spooled>>

Next == Arrive \/ Settle

Spec == Init /\ [][Next]_ledger
===============================================================================
