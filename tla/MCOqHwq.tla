------------------------------ MODULE MCOqHwq ------------------------------
(***************************************************************************)
(* OqHwq for TLC.                                                          *)
(***************************************************************************)
EXTENDS OqHwq, TLC

OneRule == <<[ip |-> "a", port |-> 1]>>

\* Rules for a port of the switch and for one that it does not have.
TwoRules == <<[ip |-> "a", port |-> 1], [ip |-> "m", port |-> 2]>>

\* All lcores and ports on one node.
OneNode == {[lcore |-> [l \in Lcores |-> 0], port |-> [p \in Ports |-> 0]]}

\* Ports on a node that the first two lcores are not on; a port on a node without an
\* lcore; ports on a node with a single lcore.
Machine(lcores, ports) ==
  [lcore |-> [l \in Lcores |-> IF l \in lcores THEN 1 ELSE 0],
   port |-> [p \in Ports |-> IF p \in ports THEN 1 ELSE 0]]
ThreeMachines == {Machine({1, 2}, {}), Machine({}, {0}), Machine({1, 2, 3}, {})}

FiveAndNone == 0 :> 5 @@ 1 :> 0

\* Up to two fours and three single packets to two ports, fewer to three.
Bursts == UNION {[1 .. n -> {0, 1}] : n \in 1 .. 11} \cup UNION {[1 .. n -> {0, 1, 2}] : n \in 1 .. 6}
NoBursts == {}
=============================================================================
