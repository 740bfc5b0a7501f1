----------------------------- MODULE LcoreInit -----------------------------
(***************************************************************************)
(* Start-up of the voq_swq datapath: init_lcores gives each slave lcore a  *)
(* type and deals the ports of the switch to the data rx and the data tx   *)
(* lcores (daqswitch/dp/voq_swq/dp_voq_swq.c).                             *)
(*                                                                         *)
(* The machine is whatever it is: any number of slave lcores and ports on  *)
(* any NUMA nodes.  The master lcore takes no part.  VoqSwq starts where   *)
(* this module ends: a data lcore serves the ports in its list and no      *)
(* other lcore of its type does, for the rings allow one consumer only.    *)
(***************************************************************************)
EXTENDS Integers, Sequences, FiniteSets

CONSTANTS
  MaxLcores,     \* DAQSWITCH_MAX_LCORES: slave lcores a machine has at most
  MaxPorts,      \* DAQSWITCH_MAX_PORTS
  Nodes,         \* NUMA nodes; a port may be on one that has no lcore
  LcorePortMax   \* DP_LCORE_PORT_MAX, 16

ASSUME InitAssumption ==
  MaxLcores \in Nat \ {0} /\ MaxPorts \in Nat \ {0} /\ LcorePortMax \in Nat \ {0}

Data == {"rx", "tx"}

VARIABLES
  nb_lcores, lcore_socket,  \* the machine: slave lcores and their nodes
  nb_ports, port_numa,      \* its ports and their nodes
  type,                     \* dp.lcores[].type
  port_list,                \* dp.lcores[].rx.port_list or tx.port_list
  pc,                       \* "types", "rx", "tx", "done" or "panic"
  i,                        \* the next lcore to get a type
  port_id, prev             \* the next port to deal, the lcore dealt to last

machine == <<nb_lcores, lcore_socket, nb_ports, port_numa>>
vars == <<machine, type, port_list, pc, i, port_id, prev>>

Lcores == 0 .. nb_lcores - 1
Ports == 0 .. nb_ports - 1
OfType(t) == {l \in Lcores : type[l] = t}

\* init_lcore_default takes lcore 0; RTE_VERIFY wants two more.
Init ==
  /\ nb_lcores \in 0 .. MaxLcores /\ lcore_socket \in [Lcores -> Nodes]
  /\ nb_ports \in 1 .. MaxPorts /\ port_numa \in [Ports -> Nodes]
  /\ type = [l \in Lcores |-> IF l = 0 THEN "default" ELSE "unused"]
  /\ port_list = [l \in Lcores |-> <<>>]
  /\ pc = IF nb_lcores < 3 THEN "panic" ELSE "types"
  /\ i = 0 /\ port_id = 0 /\ prev = 0

\* One rx, one tx, as long as there are lcores.
SetTypes ==
  /\ pc = "types" /\ i < nb_lcores
  /\ \/ /\ type[i] # "unused" /\ i' = i + 1
        /\ UNCHANGED type
     \/ /\ type[i] = "unused" /\ i' = i + 2
        /\ type' = [l \in Lcores |-> CASE l = i -> "rx"
                                [] l = i + 1 -> "tx"
                                [] OTHER -> type[l]]
  /\ UNCHANGED <<machine, port_list, pc, port_id, prev>>

TypesSet ==
  /\ pc = "types" /\ i >= nb_lcores
  /\ pc' = "rx" /\ port_id' = 0 /\ prev' = 0
  /\ UNCHANGED <<machine, type, port_list, i>>

\* get_next_lcore: the candidates of type t that have room for a port; of
\* those on the port's node, or else of all, the first one after lcore prev.
HasRoomUnchecked(t) == OfType(t)        \* fault: no look at nb_ports
HasRoom(t) == {l \in OfType(t) : Len(port_list[l]) < LcorePortMax}
OnNode(L, p) == {l \in L : lcore_socket[l] = port_numa[p]}
CandidatesAnyNode(t, p) == HasRoom(t)        \* fault: the node is not looked at
Candidates(t, p) ==
  IF OnNode(HasRoom(t), p) # {} THEN OnNode(HasRoom(t), p) ELSE HasRoom(t)

\* How far lcore l is from prev, going up and round; prev itself comes last.
DistanceFromDefault(l) == (l - 1) % nb_lcores      \* fault: always starts over
Distance(l) == (l - prev - 1) % nb_lcores
GetNextLcore(t, p) ==
  CHOOSE l \in Candidates(t, p) : \A k \in Candidates(t, p) : Distance(l) <= Distance(k)

\* Fault: an lcore is not looked at when the search comes to the end of the list.
NoLcoreNoWrap(t, p) == {l \in Candidates(t, p) : l > prev} = {}
NoLcore(t, p) == Candidates(t, p) = {}

\* init_lcores_data_rx and init_lcores_data_tx: deal the next port, or fail.
DealPort(t) ==
  /\ pc = t /\ port_id < nb_ports /\ ~NoLcore(t, port_id)
  /\ LET l == GetNextLcore(t, port_id)
     IN  /\ port_list' = [port_list EXCEPT ![l] = Append(@, port_id)]
         /\ prev' = l
  /\ port_id' = port_id + 1
  /\ UNCHANGED <<machine, type, pc, i>>

NoLcoreLeft(t) ==
  /\ pc = t /\ port_id < nb_ports /\ NoLcore(t, port_id)
  /\ pc' = "panic"
  /\ UNCHANGED <<machine, type, port_list, i, port_id, prev>>

\* Fault: the last port is forgotten.
AllDealtEarly(t) ==
  /\ pc = t /\ port_id >= nb_ports - 1
  /\ pc' = IF t = "rx" THEN "tx" ELSE "done"
  /\ port_id' = 0 /\ prev' = 0
  /\ UNCHANGED <<machine, type, port_list, i>>

AllDealt(t) ==
  /\ pc = t /\ port_id >= nb_ports
  /\ pc' = IF t = "rx" THEN "tx" ELSE "done"
  /\ port_id' = 0 /\ prev' = 0
  /\ UNCHANGED <<machine, type, port_list, i>>

\* The main loops start, or the process is dead.
Ended == pc \in {"done", "panic"} /\ UNCHANGED vars

Next ==
  \/ SetTypes \/ TypesSet
  \/ \E t \in Data : DealPort(t) \/ NoLcoreLeft(t) \/ AllDealt(t)
  \/ Ended

Spec == Init /\ [][Next]_vars
-----------------------------------------------------------------------------
\* The types of the variables; no list is longer than its array.
TypeOK ==
  /\ nb_lcores \in Nat /\ lcore_socket \in [Lcores -> Nodes]
  /\ nb_ports \in Nat /\ port_numa \in [Ports -> Nodes]
  /\ type \in [Lcores -> {"unused", "default", "rx", "tx"}]
  /\ port_list \in [Lcores -> Seq(Ports)]
  /\ \A l \in Lcores : Len(port_list[l]) <= LcorePortMax
  /\ pc \in {"types", "rx", "tx", "done", "panic"}
  /\ i \in Nat /\ port_id \in 0 .. nb_ports /\ prev \in Nat

Serves(l, p) == \E n \in DOMAIN port_list[l] : port_list[l][n] = p

\* The ports that have been dealt to lcores of type t.
Dealt(t) ==
  IF pc = "done" \/ (t = "rx" /\ pc = "tx") THEN Ports
  ELSE IF pc = t THEN 0 .. port_id - 1 ELSE {}

\* A port is served by one lcore of each type once it was dealt, and by none
\* before: its rings have one consumer (RING_F_SC_DEQ), its rx queues one
\* reader.  Breaks when the two rounds or two searches disagree.
ServedByOne ==
  pc # "panic" =>
    \A t \in Data : \A p \in Ports :
      IF p \in Dealt(t)
      THEN \E l \in OfType(t) : Serves(l, p) /\ \A k \in OfType(t) : Serves(k, p) => k = l
      ELSE \A l \in OfType(t) : ~Serves(l, p)

\* An lcore serves a port of another node only when each lcore of its type on
\* the port's node has as many ports as it can take.
RemoteOnlyWhenFull ==
  \A t \in Data : \A l \in OfType(t) : \A p \in Ports :
    Serves(l, p) /\ lcore_socket[l] # port_numa[p] => OnNode(HasRoom(t), p) = {}

\* The start fails only on a machine with too few lcores or too little room.
FailsOnlyWhenShort ==
  pc = "panic" => nb_lcores < 3 \/ \E t \in Data : nb_ports > LcorePortMax * Cardinality(OfType(t))

\* On a machine of one node the ports are dealt evenly.
OneNode == Cardinality({lcore_socket[l] : l \in Lcores} \cup {port_numa[p] : p \in Ports}) = 1
EvenOnOneNode ==
  OneNode => \A t \in Data : \A k, l \in OfType(t) : Len(port_list[k]) <= Len(port_list[l]) + 1
=============================================================================
