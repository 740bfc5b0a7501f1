----------------------------- MODULE MCVoqHwq -----------------------------
(***************************************************************************)
(* VoqHwq for TLC.                                                         *)
(***************************************************************************)
EXTENDS VoqHwq, TLC

\* Port 0 is near the second lcore and port 1 near the first, so that an rx
\* queue has not the number of its port; or both ports are near the first lcore,
\* which then has two tx queues while the second one returns.
Machine(lcores, ports) ==
  [lcore |-> [l \in Slaves |-> IF l \in lcores THEN 1 ELSE 0],
   port |-> [p \in Ports |-> IF p \in ports THEN 1 ELSE 0]]
TwoMachines == {Machine({1}, {1}), Machine({1}, {0, 1})}

\* One rule for a port of the switch, one for a port it does not have.
TwoRules == <<[ip |-> "a", port |-> 1], [ip |-> "b", port |-> 9]>>

TwoAndNone == 0 :> 2 @@ 1 :> 0
=============================================================================
