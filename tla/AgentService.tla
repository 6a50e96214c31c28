------------------------------ MODULE AgentService ------------------------------
(***************************************************************************)
(* What the agent promises to those who rely on it, without its threads:   *)
(* once it collects it goes on collecting, served, refused or out of       *)
(* reach, until something that is taken for a reason to end has happened.  *)
(* Only a process that is killed ends without one.                         *)
(***************************************************************************)

VARIABLES
    phase,     \* "down", "starting", "collecting" or "stopping"
    justified  \* a stop was requested, the server refused for good or answered what
               \* cannot be understood, or the start failed

service == <<phase, justified>>

Init == phase = "down" /\ ~justified

\* The process starts, prepares, and begins to collect.
Start == phase = "down" /\ phase' = "starting" /\ justified' = FALSE
Collect == phase = "starting" /\ phase' = "collecting" /\ UNCHANGED justified

Justify == phase # "down" /\ justified' /\ UNCHANGED phase

Stop == phase \in {"starting", "collecting"} /\ justified' /\ phase' = "stopping"

End == phase # "down" /\ phase' = "down" /\ justified' = FALSE

Next == Start \/ Collect \/ Justify \/ Stop \/ End

Spec == Init /\ [][Next]_service
===============================================================================
