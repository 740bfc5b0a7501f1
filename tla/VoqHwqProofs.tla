-------------------------- MODULE VoqHwqProofs ---------------------------
(***************************************************************************)
(* Theorems about VoqHwq, for every number of ports and lcores, every      *)
(* machine and every list of rules.                                        *)
(*                                                                         *)
(* The set-up.  Tx queues are listed port by port, each once; ids are then *)
(* counted over the lists.  So far as lcores are configured, ids and tx    *)
(* queues go together one to one: no two tx queues have one id, and as     *)
(* each id has a port of its own there are no more ids than ports.         *)
(*                                                                         *)
(* The steering.  The lists of tx queues are settled before the first port *)
(* is started, and nothing moves before.  From then on each packet carries *)
(* its history: in front of the card's filters, in an rx queue, in the     *)
(* burst of an lcore or behind it, it is one that may be there (Inbound,   *)
(* Queued, Leaving), and a step only takes it to the next of these sets.   *)
(*                                                                         *)
(* The refinement.  Each output has an rx queue of its own and one reader, *)
(* so the tx queue, the burst its reader holds and the rx queue are, in    *)
(* this order, one line for each pair of ports.  The steps of an lcore     *)
(* leave every line as it is.                                              *)
(***************************************************************************)
EXTENDS VoqHwq, Recursion, FiniteSetTheorems

SetUpTypes ==
  /\ master \in Stages /\ portid \in 0 .. NbPorts
  /\ lcoreid \in Slaves /\ prev_lcoreid \in Slaves
  /\ lcore_params \in Seq(Slaves) /\ Len(lcore_params) <= NbPorts
  /\ next \in 0 .. NbPorts
  /\ tx_queue_list \in [Slaves -> Seq([port_id : Ports, rx_queue_id : Nat])]
  /\ \A l \in Slaves : Len(tx_queue_list[l]) <= MaxTxQueue
  /\ conf_lcore \in 1 .. NbSlaves + 1 /\ rxqueueid \in Nat

\* Each port up to the next one to list is in one place.
PortsBelow == \A t \in TxQueues : TxQueue(t).port_id < next
PortsDistinct == \A s, t \in TxQueues : TxQueue(s).port_id = TxQueue(t).port_id => s = t
PortsOnce == PortsBelow /\ PortsDistinct

\* The ids dealt so far are those below rxqueueid, each in one place.
Configured == {t \in TxQueues : t[1] < conf_lcore}
IdsBelow == \A t \in Configured : TxQueue(t).rx_queue_id < rxqueueid
IdsDistinct == \A s, t \in Configured : TxQueue(s).rx_queue_id = TxQueue(t).rx_queue_id => s = t
IdsUsed == \A x \in 0 .. rxqueueid - 1 : \E t \in Configured : TxQueue(t).rx_queue_id = x
IdsOnce == IdsBelow /\ IdsDistinct /\ IdsUsed

InOrder ==
  /\ master \in {"init", "dp_init"} => conf_lcore = 1 /\ rxqueueid = 0
  /\ master \in {"init", "dp_init", "dp_configure"} => portid = 0
  /\ master \in {"configure", "start", "launch", "tables", "up"} => conf_lcore > NbSlaves

PortsAreSet ==
  /\ port_conf \in [Ports -> PortConf] /\ dev \in [Ports -> Dev]
  /\ initialized => \A p \in Ports : port_conf[p].nb_rxq = NbPorts
  /\ master = "configure" => \A p \in Ports : p < portid => dev[p].rxq = NbPorts
  /\ master \in {"start", "launch", "tables", "up"} => \A p \in Ports : dev[p].rxq = NbPorts

SetUpInv == SetUpTypes /\ PortsOnce /\ IdsOnce /\ InOrder /\ PortsAreSet

\* What SetUpInv is about: lists and lcores, and ports.
listVars == <<lcoreid, prev_lcoreid, lcore_params, next, tx_queue_list, conf_lcore, rxqueueid>>
portVars == <<portid, port_conf, dev>>

LEMMA ListsUnchanged ==
  ASSUME SetUpInv, UNCHANGED <<tx_queue_list, next, conf_lcore, rxqueueid>>
  PROVE  PortsOnce' /\ IdsOnce'
<1>1. TxQueues' = TxQueues /\ \A t : TxQueue(t)' = TxQueue(t)
  BY DEF TxQueues, TxQueue
<1>2. Configured' = Configured
  BY <1>1 DEF Configured
<1>3. PortsOnce'
  BY <1>1 DEF SetUpInv, PortsOnce, PortsBelow, PortsDistinct
<1>4. IdsOnce'
  BY <1>1, <1>2 DEF SetUpInv, IdsOnce, IdsBelow, IdsDistinct, IdsUsed
<1> QED
  BY <1>3, <1>4

LEMMA InvUnchanged ==
  ASSUME SetUpInv, UNCHANGED <<listVars, portVars, master>>
  PROVE  SetUpInv'
<1>1. UNCHANGED listVars /\ UNCHANGED portVars /\ UNCHANGED master
  BY DEF listVars, portVars
<1>2. PortsOnce' /\ IdsOnce'
  BY <1>1, ListsUnchanged DEF listVars
<1> QED
  BY <1>1, <1>2 DEF SetUpInv, SetUpTypes, InOrder, PortsAreSet, initialized, listVars, portVars

LEMMA QueueTypes ==
  ASSUME SetUpInv, NEW t \in TxQueues
  PROVE  /\ t = <<t[1], t[2]>> /\ t[1] \in Slaves /\ t[2] \in 1 .. Len(tx_queue_list[t[1]])
         /\ TxQueue(t).port_id \in Ports /\ TxQueue(t).rx_queue_id \in Nat
<1> DEFINE Queue == [port_id : Ports, rx_queue_id : Nat]
<1>1. tx_queue_list \in [Slaves -> Seq(Queue)]
  BY DEF SetUpInv, SetUpTypes
<1> HIDE DEF Queue
<1>2. t \in Slaves \X (1 .. MaxTxQueue) /\ t[2] <= Len(tx_queue_list[t[1]])
  BY DEF TxQueues
<1>3. t = <<t[1], t[2]>> /\ t[1] \in Slaves /\ t[2] \in 1 .. Len(tx_queue_list[t[1]])
  BY <1>1, <1>2
<1>4. TxQueue(t) \in Queue
  BY <1>1, <1>3 DEF TxQueue
<1> QED
  BY <1>3, <1>4 DEF Queue

LEMMA InitSetUp == Init => SetUpInv
<1> SUFFICES ASSUME Init PROVE SetUpInv
  OBVIOUS
<1> USE NbPortsAssumption, SizesAssumption
<1>1. SetUpTypes
  BY DEF Init, CoreInit, SetUpTypes, Slaves, Stages, Ports
<1>2. TxQueues = {}
  BY DEF Init, TxQueues, Slaves
<1>3. PortsOnce /\ IdsOnce
  <2>1. \A x \in 0 .. rxqueueid - 1 : FALSE
    BY DEF Init
  <2>2. PortsOnce /\ IdsBelow /\ IdsDistinct
    BY <1>2 DEF PortsOnce, PortsBelow, PortsDistinct, IdsBelow, IdsDistinct, Configured
  <2>3. IdsUsed
    BY <2>1 DEF IdsUsed
  <2> QED
    BY <2>2, <2>3 DEF IdsOnce
<1>4. InOrder
  BY DEF Init, CoreInit, InOrder
<1>5. PortsAreSet
  BY DEF Init, CoreInit, PortsAreSet, PortConf, Dev, initialized, Ports
<1> QED
  BY <1>1, <1>3, <1>4, <1>5 DEF SetUpInv

\* The steps of the core change no list.
LEMMA CoreSetUp ==
  ASSUME SetUpInv, Core
  PROVE  SetUpInv'
<1> USE NbPortsAssumption
<1>1. UNCHANGED listVars
  BY DEF Core, listVars, deal, lists
<1>2. PortsOnce' /\ IdsOnce'
  BY <1>1, ListsUnchanged DEF listVars
<1>3. CASE InitPorts
  <2>1. master = "init" /\ master' = "dp_init" /\ UNCHANGED <<portid, dev>>
        /\ port_conf' \in [Ports -> PortConf]
    BY <1>3 DEF InitPorts, port_conf_default, PortConf
  <2> QED
    BY <1>1, <1>2, <2>1 DEF SetUpInv, SetUpTypes, InOrder, PortsAreSet, initialized, Stages, listVars
<1>4. CASE ConfigurePort
  <2>1. master = "configure" /\ portid \in Ports /\ UNCHANGED port_conf
    BY <1>4 DEF ConfigurePort, SetUpInv, SetUpTypes, Ports
  <2>2. CASE master' = "exit" /\ UNCHANGED <<portid, dev>>
    BY <1>1, <1>2, <2>1, <2>2 DEF SetUpInv, SetUpTypes, InOrder, PortsAreSet, initialized, Stages, listVars
  <2>3. CASE /\ dev' = [dev EXCEPT ![portid] =
                  [@ EXCEPT !.rxq = port_conf[portid].nb_rxq, !.txq = port_conf[portid].nb_txq]]
             /\ portid' = portid + 1 /\ UNCHANGED master
    <3>1. port_conf[portid].nb_rxq = NbPorts /\ port_conf[portid].nb_txq \in Nat
      BY <2>1 DEF SetUpInv, PortsAreSet, PortConf, initialized
    <3>2. dev' \in [Ports -> Dev] /\ dev'[portid].rxq = NbPorts
          /\ \A p \in Ports : p # portid => dev'[p] = dev[p]
      BY <2>1, <2>3, <3>1 DEF SetUpInv, PortsAreSet, Dev
    <3>3. portid' \in 0 .. NbPorts /\ \A p \in Ports : p < portid' => p = portid \/ p < portid
      BY <2>1, <2>3 DEF Ports
    <3>4. PortsAreSet'
      BY <2>1, <2>3, <3>2, <3>3 DEF SetUpInv, PortsAreSet, initialized
    <3> QED
      BY <1>1, <1>2, <2>1, <2>3, <3>3, <3>4 DEF SetUpInv, SetUpTypes, InOrder, listVars
  <2> QED
    BY <1>4, <2>2, <2>3 DEF ConfigurePort
<1>5. CASE AllConfigured
  <2>1. \A p \in Ports : p < portid
    BY <1>5 DEF AllConfigured, Ports
  <2>2. master = "configure" /\ master' = "start" /\ portid' \in 0 .. NbPorts /\ UNCHANGED <<port_conf, dev>>
    BY <1>5 DEF AllConfigured
  <2>3. SetUpTypes' /\ InOrder'
    BY <1>1, <2>2 DEF SetUpInv, SetUpTypes, InOrder, Stages, listVars
  <2>4. PortsAreSet'
    BY <2>1, <2>2 DEF SetUpInv, PortsAreSet, initialized
  <2> QED
    BY <1>2, <2>3, <2>4 DEF SetUpInv
<1>6. CASE StartPort
  <2>1. master = "start" /\ portid \in Ports /\ UNCHANGED port_conf
    BY <1>6 DEF StartPort, SetUpInv, SetUpTypes, Ports
  <2>2. dev' \in [Ports -> Dev] /\ \A p \in Ports : dev'[p].rxq = dev[p].rxq
    BY <1>6, <2>1 DEF StartPort, SetUpInv, PortsAreSet, Dev
  <2>3. master' \in {"start", "exit"} /\ portid' \in 0 .. NbPorts
    BY <1>6, <2>1 DEF StartPort, Ports
  <2> QED
    BY <1>1, <1>2, <2>1, <2>2, <2>3 DEF SetUpInv, SetUpTypes, InOrder, PortsAreSet, initialized, Stages, listVars
<1>7. CASE AllStarted
  <2>1. master = "start" /\ master' = "launch" /\ portid' \in 0 .. NbPorts /\ UNCHANGED <<port_conf, dev>>
    BY <1>7 DEF AllStarted
  <2>2. SetUpTypes' /\ InOrder'
    BY <1>1, <2>1 DEF SetUpInv, SetUpTypes, InOrder, Stages, listVars
  <2>3. PortsAreSet'
    BY <2>1 DEF SetUpInv, PortsAreSet, initialized
  <2> QED
    BY <1>2, <2>2, <2>3 DEF SetUpInv
<1>8. CASE Launch
  BY <1>1, <1>2, <1>8 DEF Launch, SetUpInv, SetUpTypes, InOrder, PortsAreSet, initialized, Stages, listVars
<1> QED
  BY <1>3, <1>4, <1>5, <1>6, <1>7, <1>8 DEF Core, CoreNext

LEMMA DealSetUp ==
  ASSUME SetUpInv, DealPort
  PROVE  SetUpInv'
<1> USE SizesAssumption
<1>1. \A l \in Slaves, k \in 0 .. NbSlaves : Nth(l, k) \in Slaves
  BY DEF Nth, Slaves
<1>2. Back \in 0 .. NbSlaves
  BY DEF Back, Slaves, SetUpInv, SetUpTypes
<1>3. PICK k \in 0 .. Back : /\ lcore_params' = Append(lcore_params, Nth(lcoreid, k))
                             /\ prev_lcoreid' = Nth(lcoreid, k) /\ lcoreid' = Nth(Nth(lcoreid, k), 1)
  BY DEF DealPort
<1>4. k \in 0 .. NbSlaves /\ 1 \in 0 .. NbSlaves
  BY <1>2, <1>3
<1>5. Nth(lcoreid, k) \in Slaves /\ lcoreid' \in Slaves
  BY <1>1, <1>3, <1>4 DEF SetUpInv, SetUpTypes
<1>6. lcore_params' \in Seq(Slaves) /\ Len(lcore_params') <= NbPorts
  BY <1>3, <1>5, NbPortsAssumption DEF DealPort, SetUpInv, SetUpTypes
<1>7. UNCHANGED <<master, portVars, next, lists>>
  BY DEF DealPort, core, portVars, lists
<1>8. PortsOnce' /\ IdsOnce'
  <2>1. UNCHANGED <<tx_queue_list, conf_lcore, rxqueueid, next>>
    BY <1>7 DEF lists
  <2> QED
    BY <2>1, ListsUnchanged
<1> QED
  BY <1>3, <1>5, <1>6, <1>7, <1>8 DEF SetUpInv, SetUpTypes, InOrder, PortsAreSet, initialized, lists, portVars

LEMMA ListSetUp ==
  ASSUME SetUpInv, AddTxQueue
  PROVE  SetUpInv'
<1> USE SizesAssumption, NbPortsAssumption
<1> DEFINE Queue == [port_id : Ports, rx_queue_id : Nat]
<1>0. lcore_params[next + 1] \in Slaves
  BY DEF AddTxQueue, SetUpInv, SetUpTypes
<1> PICK l \in Slaves : l = lcore_params[next + 1]
  BY <1>0
<1>1. master = "dp_init" /\ next \in Ports
  BY DEF AddTxQueue, SetUpInv, SetUpTypes, Ports
<1> PICK new \in Queue : new = [port_id |-> next, rx_queue_id |-> 0]
  BY <1>1
<1>5. Len(tx_queue_list[l]) \in Nat
  BY DEF SetUpInv, SetUpTypes
<1>6. <<l, Len(tx_queue_list[l]) + 1>> \in Slaves \X Nat
  BY <1>5
<1> PICK place \in Slaves \X Nat : place = <<l, Len(tx_queue_list[l]) + 1>>
  BY <1>6, Zenon
<1>2. UNCHANGED <<portVars, lcoreid, prev_lcoreid, lcore_params, conf_lcore, rxqueueid>>
      /\ conf_lcore = 1 /\ rxqueueid = 0
  BY <1>1 DEF AddTxQueue, portVars, SetUpInv, InOrder
<1>3. CASE NoRoom(l)
  <2>1. master' = "exit" /\ UNCHANGED <<listVars, portVars>>
    BY <1>2, <1>3 DEF AddTxQueue, listVars
  <2>2. PortsOnce' /\ IdsOnce'
    BY <2>1, ListsUnchanged DEF listVars
  <2> QED
    BY <2>1, <2>2 DEF SetUpInv, SetUpTypes, InOrder, PortsAreSet, initialized, Stages, listVars, portVars
<1>4. CASE ~NoRoom(l)
  <2>1. /\ tx_queue_list' = [tx_queue_list EXCEPT ![l] = Append(@, new)]
        /\ next' = next + 1 /\ UNCHANGED master
    BY <1>4 DEF AddTxQueue
  <2>2. next' \in 0 .. NbPorts
    BY <1>1, <2>1 DEF Ports
  <2>3. tx_queue_list \in [Slaves -> Seq(Queue)] /\ Len(tx_queue_list[l]) < MaxTxQueue
    <3>1. tx_queue_list \in [Slaves -> Seq(Queue)]
      BY DEF SetUpInv, SetUpTypes
    <3>3. Len(tx_queue_list[l]) < MaxTxQueue
      BY <1>4, <1>5 DEF NoRoom
    <3> QED
      BY <3>1, <3>3
  <2> HIDE DEF Queue
  <2>4. /\ \A m \in Slaves : m # l => tx_queue_list'[m] = tx_queue_list[m]
        /\ tx_queue_list'[l] = Append(tx_queue_list[l], new)
        /\ Append(tx_queue_list[l], new) \in Seq(Queue)
        /\ Len(tx_queue_list'[l]) = Len(tx_queue_list[l]) + 1
        /\ DOMAIN tx_queue_list' = Slaves
    BY <1>1, <2>1, <2>2, <2>3
  <2>5. tx_queue_list' \in [Slaves -> Seq(Queue)]
    BY <1>1, <2>1, <2>3, <2>4
  <2>6. \A m \in Slaves : Len(tx_queue_list'[m]) <= MaxTxQueue
    <3>1. Len(tx_queue_list[l]) \in Nat
      BY <1>1, <2>3
    <3>2. Len(tx_queue_list'[l]) <= MaxTxQueue
      BY <2>3, <2>4, <3>1
    <3>3. \A m \in Slaves : Len(tx_queue_list[m]) <= MaxTxQueue
      BY DEF SetUpInv, SetUpTypes
    <3> QED
      BY <2>4, <3>2, <3>3
  <2>7. SetUpTypes'
    BY <1>2, <2>1, <2>2, <2>5, <2>6 DEF SetUpInv, SetUpTypes, portVars, Queue
  <2>8. \A t \in TxQueues' : t = place \/ (t \in TxQueues /\ TxQueue(t)' = TxQueue(t))
    <3> SUFFICES ASSUME NEW t \in TxQueues', t # place
                 PROVE  t \in TxQueues /\ TxQueue(t)' = TxQueue(t)
      OBVIOUS
    <3>1. t \in Slaves \X (1 .. MaxTxQueue) /\ t[2] <= Len(tx_queue_list'[t[1]])
      BY DEF TxQueues
    <3>2. t[1] \in Slaves /\ t[2] \in 1 .. MaxTxQueue /\ t = <<t[1], t[2]>>
      BY <3>1
    <3>3. CASE t[1] # l
      BY <2>4, <3>1, <3>2, <3>3 DEF TxQueues, TxQueue
    <3>4. CASE t[1] = l
      <4>1. t[2] # Len(tx_queue_list[l]) + 1
        BY <3>2, <3>4
      <4>2. Len(tx_queue_list[l]) \in Nat
        BY <1>1, <2>3
      <4>3. t[2] <= Len(tx_queue_list[l])
        BY <2>4, <3>1, <3>2, <3>4, <4>1, <4>2
      <4>4. Append(tx_queue_list[l], new)[t[2]] = tx_queue_list[l][t[2]]
        BY <1>1, <2>3, <3>2, <4>3
      <4> QED
        BY <2>4, <3>1, <3>4, <4>3, <4>4 DEF TxQueues, TxQueue
    <3> QED
      BY <3>3, <3>4
  <2>9. TxQueue(place)' = new
    <3>1. Append(tx_queue_list[l], new)[Len(tx_queue_list[l]) + 1] = new
      BY <1>1, <2>3
    <3>2. place[1] = l /\ place[2] = Len(tx_queue_list[l]) + 1
      OBVIOUS
    <3> QED
      BY <2>4, <3>1, <3>2 DEF TxQueue
  <2>10. new.port_id = next
    OBVIOUS
  <2>11. \A t \in TxQueues : TxQueue(t) \in Queue
    BY <2>3 DEF TxQueues, TxQueue
  <2>12. \A t \in TxQueues : TxQueue(t).port_id < next /\ TxQueue(t).port_id # next
    BY <1>1, <2>11 DEF SetUpInv, PortsOnce, PortsBelow, Queue, Ports
  <2>13. PortsBelow'
    <3> SUFFICES ASSUME NEW t \in TxQueues' PROVE TxQueue(t)'.port_id < next'
      BY DEF PortsBelow
    <3>1. CASE t = place
      BY <1>1, <2>1, <2>9, <2>10, <3>1 DEF Ports
    <3>2. CASE t \in TxQueues /\ TxQueue(t)' = TxQueue(t)
      BY <1>1, <2>1, <2>11, <2>12, <3>2 DEF Ports, Queue
    <3> QED
      BY <2>8, <3>1, <3>2
  <2>14. PortsDistinct'
    <3> SUFFICES ASSUME NEW s \in TxQueues', NEW t \in TxQueues', TxQueue(s)'.port_id = TxQueue(t)'.port_id
                 PROVE  s = t
      BY DEF PortsDistinct
    <3> QED
      BY <2>8, <2>9, <2>10, <2>12 DEF SetUpInv, PortsOnce, PortsDistinct
  <2>15. IdsOnce'
    <3>1. \A x \in 0 .. rxqueueid' - 1 : FALSE
      BY <1>2
    <3>2. IdsUsed'
      BY <3>1 DEF IdsUsed
    <3>3. \A t \in TxQueues' : ~(t[1] < conf_lcore')
      BY <1>2 DEF TxQueues, Slaves
    <3>4. Configured' = {}
      BY <3>3 DEF Configured
    <3>5. IdsBelow' /\ IdsDistinct'
      BY <3>4 DEF IdsBelow, IdsDistinct
    <3> QED
      BY <3>2, <3>5 DEF IdsOnce
  <2>16. InOrder' /\ PortsAreSet'
    BY <1>2, <2>1 DEF SetUpInv, InOrder, PortsAreSet, initialized, portVars
  <2> QED
    BY <2>7, <2>13, <2>14, <2>15, <2>16 DEF SetUpInv, PortsOnce
<1> QED
  BY <1>3, <1>4

LEMMA SetNbSetUp ==
  ASSUME SetUpInv, SetNbQueues
  PROVE  SetUpInv'
<1> USE NbPortsAssumption
<1>1. master = "dp_init" /\ master' = "dp_configure" /\ UNCHANGED <<portid, dev, listVars>>
  BY DEF SetNbQueues, deal, lists, listVars
<1>2. port_conf' \in [Ports -> PortConf] /\ \A p \in Ports : port_conf'[p].nb_rxq = NbPorts
  BY DEF SetNbQueues, SetPorts, NbRxQueues, PortConf
<1>3. PortsOnce' /\ IdsOnce'
  BY <1>1, ListsUnchanged DEF listVars
<1> QED
  BY <1>1, <1>2, <1>3 DEF SetUpInv, SetUpTypes, InOrder, PortsAreSet, Stages, listVars

\* The queues of the lcore get the ids from rxqueueid on, in their order.
LEMMA ConfigureSetUp ==
  ASSUME SetUpInv, ConfigureLcore
  PROVE  SetUpInv'
<1> USE SizesAssumption, NbPortsAssumption
<1> DEFINE Queue == [port_id : Ports, rx_queue_id : Nat]
<1>1. conf_lcore \in Slaves /\ rxqueueid \in Nat
  BY DEF ConfigureLcore, SetUpInv, SetUpTypes, Slaves
<1>2. tx_queue_list \in [Slaves -> Seq(Queue)] /\ \A m \in Slaves : Len(tx_queue_list[m]) <= MaxTxQueue
  BY DEF SetUpInv, SetUpTypes
<1> PICK c \in Slaves : c = conf_lcore
  BY <1>1
<1> PICK base \in Nat : base = rxqueueid
  BY <1>1
<1>3. Len(tx_queue_list[c]) \in 0 .. MaxTxQueue
  BY <1>2
<1> PICK n \in 0 .. MaxTxQueue : n = Len(tx_queue_list[c])
  BY <1>3
<1>4. UNCHANGED <<master, portVars, lcoreid, prev_lcoreid, lcore_params, next>>
      /\ conf_lcore' = c + 1 /\ rxqueueid' = base + n /\ master = "dp_configure"
  BY DEF ConfigureLcore, core, portVars, deal
<1> DEFINE Numbered == [k \in 1 .. n |-> [tx_queue_list[c][k] EXCEPT !.rx_queue_id = base + k - 1]]
<1>5. DOMAIN tx_queue_list[c] = 1 .. n /\ \A k \in 1 .. n : tx_queue_list[c][k] \in Queue
  <2> HIDE DEF Queue
  <2>1. tx_queue_list[c] \in Seq(Queue)
    BY <1>2
  <2> QED
    BY <2>1
<1>6. tx_queue_list' = [tx_queue_list EXCEPT ![c] = Numbered]
  BY <1>5 DEF ConfigureLcore, QueueId
<1>7. \A k \in 1 .. n : /\ Numbered[k] \in Queue
                        /\ Numbered[k].port_id = tx_queue_list[c][k].port_id
                        /\ Numbered[k].rx_queue_id = base + k - 1
  <2> SUFFICES ASSUME NEW k \in 1 .. n
               PROVE  /\ Numbered[k] \in Queue
                      /\ Numbered[k].port_id = tx_queue_list[c][k].port_id
                      /\ Numbered[k].rx_queue_id = base + k - 1
    OBVIOUS
  <2>1. base + k - 1 \in Nat
    OBVIOUS
  <2>2. tx_queue_list[c][k] \in Queue
    BY <1>5
  <2>3. Numbered[k] = [tx_queue_list[c][k] EXCEPT !.rx_queue_id = base + k - 1]
    OBVIOUS
  <2> QED
    BY <2>1, <2>2, <2>3
<1>8. Numbered \in Seq(Queue) /\ Len(Numbered) = n
  <2>1. Numbered \in [1 .. n -> Queue] /\ DOMAIN Numbered = 1 .. n
    BY <1>7
  <2> HIDE DEF Numbered, Queue
  <2> QED
    BY <2>1
<1>9. /\ tx_queue_list' \in [Slaves -> Seq(Queue)]
      /\ tx_queue_list'[c] = Numbered
      /\ \A m \in Slaves : m # c => tx_queue_list'[m] = tx_queue_list[m]
      /\ \A m \in Slaves : Len(tx_queue_list'[m]) = Len(tx_queue_list[m])
  <2> HIDE DEF Numbered, Queue
  <2> QED
    BY <1>2, <1>6, <1>8
<1>10. SetUpTypes'
  <2>1. \A m \in Slaves : Len(tx_queue_list'[m]) <= MaxTxQueue
    BY <1>2, <1>9
  <2>2. c + 1 \in 1 .. NbSlaves + 1 /\ base + n \in Nat
    BY DEF Slaves
  <2> QED
    BY <1>4, <1>9, <2>1, <2>2 DEF SetUpInv, SetUpTypes, portVars
<1> HIDE DEF Numbered, Queue
<1>11. TxQueues' = TxQueues
  BY <1>9 DEF TxQueues
<1>12. \A t \in TxQueues : /\ t = <<t[1], t[2]>> /\ t[1] \in Slaves /\ t[2] \in Nat \ {0}
                           /\ TxQueue(t).rx_queue_id \in Nat
                           /\ (t[1] = c => t[2] \in 1 .. n)
  BY QueueTypes
<1>13. \A t \in TxQueues : TxQueue(t)'.port_id = TxQueue(t).port_id
  <2> SUFFICES ASSUME NEW t \in TxQueues PROVE TxQueue(t)'.port_id = TxQueue(t).port_id
    OBVIOUS
  <2>1. CASE t[1] = c
    BY <1>7, <1>9, <1>12, <2>1 DEF TxQueue
  <2>2. CASE t[1] # c
    BY <1>9, <1>12, <2>2 DEF TxQueue
  <2> QED
    BY <2>1, <2>2
<1>14. \A t \in TxQueues : t[1] # c => TxQueue(t)' = TxQueue(t)
  BY <1>9, <1>12 DEF TxQueue
<1>15. \A t \in TxQueues : t[1] = c => TxQueue(t)'.rx_queue_id = base + t[2] - 1
  BY <1>7, <1>9, <1>12 DEF TxQueue
<1>16. PortsOnce'
  BY <1>4, <1>11, <1>13 DEF SetUpInv, PortsOnce, PortsBelow, PortsDistinct
<1>17. \A t \in Configured' : t \in TxQueues /\ (t[1] = c \/ t \in Configured)
  BY <1>4, <1>11, <1>12 DEF Configured, Slaves
<1>18. \A t \in Configured : t \in TxQueues /\ t[1] # c /\ t \in Configured'
  BY <1>4, <1>11, <1>12 DEF Configured, Slaves
<1>19. \A t \in Configured : TxQueue(t)'.rx_queue_id = TxQueue(t).rx_queue_id /\ TxQueue(t).rx_queue_id \in 0 .. base - 1
  <2>1. \A t \in Configured : TxQueue(t).rx_queue_id < base /\ TxQueue(t).rx_queue_id \in Nat
    BY <1>12, <1>18 DEF SetUpInv, IdsOnce, IdsBelow
  <2> QED
    BY <1>14, <1>18, <2>1
<1>20. \A t \in TxQueues : t[1] = c => TxQueue(t)'.rx_queue_id \in base .. base + n - 1
  <2> SUFFICES ASSUME NEW t \in TxQueues, t[1] = c PROVE TxQueue(t)'.rx_queue_id \in base .. base + n - 1
    OBVIOUS
  <2>1. t[2] \in 1 .. n /\ n \in Nat
    BY <1>12
  <2>2. base + t[2] - 1 \in base .. base + n - 1
    BY <2>1
  <2> QED
    BY <1>15, <2>2
<1>21. IdsBelow'
  BY <1>4, <1>17, <1>19, <1>20 DEF IdsBelow
<1>22. IdsDistinct'
  <2> SUFFICES ASSUME NEW s \in Configured', NEW t \in Configured', TxQueue(s)'.rx_queue_id = TxQueue(t)'.rx_queue_id
               PROVE  s = t
    BY DEF IdsDistinct
  <2>1. CASE s \in Configured /\ t \in Configured
    <3>1. TxQueue(s).rx_queue_id = TxQueue(t).rx_queue_id
      BY <1>19, <2>1 DEF TxQueue
    <3> QED
      BY <2>1, <3>1 DEF SetUpInv, IdsOnce, IdsDistinct
  <2>2. CASE s[1] = c /\ t[1] = c
    <3>1. s[2] \in Nat /\ t[2] \in Nat /\ s = <<c, s[2]>> /\ t = <<c, t[2]>>
      BY <1>12, <1>17, <2>2
    <3>2. base + s[2] - 1 = base + t[2] - 1
      BY <1>15, <1>17, <2>2
    <3>3. s[2] = t[2]
      BY <3>1, <3>2
    <3> QED
      BY <3>1, <3>3
  <2>3. CASE s \in Configured /\ t[1] = c
    BY <1>17, <1>19, <1>20, <2>3
  <2>4. CASE s[1] = c /\ t \in Configured
    BY <1>17, <1>19, <1>20, <2>4
  <2> QED
    BY <1>17, <2>1, <2>2, <2>3, <2>4
<1>23. IdsUsed'
  <2> SUFFICES ASSUME NEW x \in 0 .. base + n - 1 PROVE \E t \in Configured' : TxQueue(t)'.rx_queue_id = x
    BY <1>4 DEF IdsUsed
  <2>1. CASE x < base
    <3>1. x \in 0 .. rxqueueid - 1
      BY <2>1
    <3>2. PICK t \in Configured : TxQueue(t).rx_queue_id = x
      BY <3>1 DEF SetUpInv, IdsOnce, IdsUsed
    <3> QED
      BY <1>18, <1>19, <3>2
  <2>2. CASE ~(x < base)
    <3>1. x - base + 1 \in 1 .. n /\ x = base + (x - base + 1) - 1
      BY <2>2
    <3>2. PICK k \in 1 .. n : x = base + k - 1
      BY <3>1
    <3>3. <<c, k>> \in TxQueues
      BY <1>3, <3>2 DEF TxQueues
    <3>4. <<c, k>> \in Configured'
      BY <1>4, <1>11, <3>3 DEF Configured, Slaves
    <3>5. TxQueue(<<c, k>>)'.rx_queue_id = x
      BY <1>15, <3>2, <3>3
    <3> QED
      BY <3>4, <3>5
  <2> QED
    BY <2>1, <2>2
<1>24. InOrder' /\ PortsAreSet'
  BY <1>4 DEF SetUpInv, InOrder, PortsAreSet, initialized, portVars
<1> QED
  BY <1>10, <1>16, <1>21, <1>22, <1>23, <1>24 DEF SetUpInv, IdsOnce

LEMMA ConfiguredSetUp ==
  ASSUME SetUpInv, LcoresConfigured
  PROVE  SetUpInv'
<1>1. master = "dp_configure" /\ master' = "configure" /\ UNCHANGED <<portVars, listVars>> /\ conf_lcore > NbSlaves
  BY DEF LcoresConfigured, deal, lists, listVars, portVars
<1>2. PortsOnce' /\ IdsOnce'
  BY <1>1, ListsUnchanged DEF listVars
<1>3. \A p \in Ports : ~(p < portid')
  BY <1>1, NbPortsAssumption DEF SetUpInv, InOrder, portVars, Ports
<1> QED
  BY <1>1, <1>2, <1>3 DEF SetUpInv, SetUpTypes, InOrder, PortsAreSet, initialized, Stages, listVars, portVars

LEMMA FilterSetUp ==
  ASSUME SetUpInv, AddFilter
  PROVE  SetUpInv'
<1>1. master = "tables" /\ UNCHANGED <<master, port_conf, dev, listVars>>
  BY DEF AddFilter, deal, lists, listVars
<1>2. portid' \in 0 .. NbPorts
  BY NbPortsAssumption DEF AddFilter, SetUpInv, SetUpTypes
<1>3. PortsOnce' /\ IdsOnce'
  BY <1>1, ListsUnchanged DEF listVars
<1> QED
  BY <1>1, <1>2, <1>3 DEF SetUpInv, SetUpTypes, InOrder, PortsAreSet, initialized, listVars

LEMMA TablesSetUp ==
  ASSUME SetUpInv, TablesInstalled
  PROVE  SetUpInv'
<1>1. master = "tables" /\ master' = "up" /\ UNCHANGED <<portVars, listVars>>
  BY DEF TablesInstalled, deal, lists, listVars, portVars
<1>2. PortsOnce' /\ IdsOnce'
  BY <1>1, ListsUnchanged DEF listVars
<1> QED
  BY <1>1, <1>2 DEF SetUpInv, SetUpTypes, InOrder, PortsAreSet, initialized, Stages, listVars, portVars

LEMMA SetUpInductive == SetUpInv /\ [Next]_vars => SetUpInv'
<1> SUFFICES ASSUME SetUpInv, [Next]_vars PROVE SetUpInv'
  OBVIOUS
<1>1. CASE Core
  BY <1>1, CoreSetUp
<1>2. CASE DealPort
  BY <1>2, DealSetUp
<1>3. CASE AddTxQueue
  BY <1>3, ListSetUp
<1>4. CASE SetNbQueues
  BY <1>4, SetNbSetUp
<1>5. CASE ConfigureLcore
  BY <1>5, ConfigureSetUp
<1>6. CASE LcoresConfigured
  BY <1>6, ConfiguredSetUp
<1>7. CASE AddFilter
  BY <1>7, FilterSetUp
<1>8. CASE TablesInstalled
  BY <1>8, TablesSetUp
<1>9. CASE Exited \/ UNCHANGED vars
  <2>1. UNCHANGED <<listVars, portVars, master>>
    BY <1>9 DEF Exited, vars, core, deal, lists, listVars, portVars
  <2> QED
    BY <2>1, InvUnchanged
<1>10. ASSUME NEW p \in Ports, Arrive(p) \/ Steer(p) \/ Transmit(p)
       PROVE  SetUpInv'
  <2>1. UNCHANGED <<listVars, portVars, master>>
    BY <1>10 DEF Arrive, Steer, Transmit, core, deal, lists, listVars, portVars
  <2> QED
    BY <2>1, InvUnchanged
<1>11. ASSUME NEW l \in Slaves, MainLoop(l)
       PROVE  SetUpInv'
  <2>1. UNCHANGED <<listVars, portVars, master>>
    BY <1>11 DEF MainLoop, Clock, Poll, TxBurst, core, deal, lists, listVars, portVars
  <2> QED
    BY <2>1, InvUnchanged
<1> QED
  BY <1>1, <1>2, <1>3, <1>4, <1>5, <1>6, <1>7, <1>8, <1>9, <1>10, <1>11 DEF Next, Master

\* SetUpInv holds always: lists, ids and settings of ports agree (dp_init, dp_configure).
THEOREM SetUpAlways == Spec => []SetUpInv
<1> QED
  BY InitSetUp, SetUpInductive, PTL DEF Spec

\* Once all lcores are configured, every tx queue is.
LEMMA AllInConfigured ==
  ASSUME SetUpInv, conf_lcore > NbSlaves
  PROVE  Configured = TxQueues
BY SizesAssumption DEF Configured, TxQueues, Slaves, SetUpInv, SetUpTypes

\* However many ports and lcores there are and wherever they are, once
\* dp_configure is over no two tx queues, of one lcore or of two, poll the same
\* rx queue or send to the same port.
THEOREM OneReaderAlways == Spec => []OneReader
<1>1. SetUpInv => OneReader
  BY AllInConfigured DEF SetUpInv, PortsOnce, PortsDistinct, IdsOnce, IdsDistinct, OneReader
<1> QED
  BY <1>1, SetUpAlways, PTL

\* Each id belongs to a port of its own.
LEMMA NoMoreIdsThanPorts ==
  ASSUME SetUpInv
  PROVE  rxqueueid <= NbPorts
<1> USE NbPortsAssumption
<1> DEFINE Ids == 0 .. rxqueueid - 1
           Place(x) == CHOOSE t \in Configured : TxQueue(t).rx_queue_id = x
           PortOf == [x \in Ids |-> TxQueue(Place(x)).port_id]
<1>1. rxqueueid \in Nat
  BY DEF SetUpInv, SetUpTypes
<1>2. \A x \in Ids : Place(x) \in Configured /\ TxQueue(Place(x)).rx_queue_id = x
  BY DEF SetUpInv, IdsOnce, IdsUsed
<1>3. \A t \in Configured : t \in TxQueues /\ TxQueue(t).port_id \in Ports
  BY QueueTypes DEF Configured
<1>4. PortOf \in Injection(Ids, Ports)
  <2>1. PortOf \in [Ids -> Ports]
    BY <1>2, <1>3
  <2>2. ASSUME NEW x \in Ids, NEW y \in Ids, PortOf[x] = PortOf[y]
        PROVE  x = y
    <3> HIDE DEF Place, Ids
    <3>1. TxQueue(Place(x)).port_id = TxQueue(Place(y)).port_id
      BY <2>2
    <3>2. Place(x) = Place(y)
      BY <1>2, <1>3, <3>1 DEF SetUpInv, PortsOnce, PortsDistinct
    <3> QED
      BY <1>2, <3>2
  <2> HIDE DEF PortOf
  <2> QED
    BY <2>1, <2>2 DEF Injection, IsInjective
<1>5. IsFiniteSet(Ports) /\ Cardinality(Ports) = NbPorts
  BY FS_Interval DEF Ports
<1>6. IsFiniteSet(Ids) /\ Cardinality(Ids) = rxqueueid
  BY <1>1, FS_Interval
<1> HIDE DEF Ids, PortOf
<1>7. Cardinality(Ids) <= Cardinality(Ports)
  BY <1>4, <1>5, <1>6, FS_Injection
<1> QED
  BY <1>5, <1>6, <1>7

\* However the ports are dealt to the lcores, the rx queues that an lcore polls
\* are all set up on every port when the lcores are launched.
THEOREM QueuesSetUp == Spec => []QueuesAreSetUp
<1>1. ASSUME SetUpInv, launched PROVE conf_lcore > NbSlaves /\ \A p \in Ports : dev[p].rxq = NbPorts
  BY <1>1 DEF SetUpInv, InOrder, PortsAreSet, launched
<1>2. SetUpInv => QueuesAreSetUp
  <2> SUFFICES ASSUME SetUpInv, launched, NEW t \in TxQueues, NEW p \in Ports
               PROVE  TxQueue(t).rx_queue_id < dev[p].rxq
    BY DEF QueuesAreSetUp
  <2>1. TxQueue(t).rx_queue_id < rxqueueid
    BY <1>1, AllInConfigured DEF SetUpInv, IdsOnce, IdsBelow
  <2>2. TxQueue(t).rx_queue_id \in Nat /\ rxqueueid \in Nat
    BY QueueTypes DEF SetUpInv, SetUpTypes
  <2> QED
    BY <1>1, <2>1, <2>2, NoMoreIdsThanPorts, NbPortsAssumption
<1> QED
  BY <1>2, SetUpAlways, PTL

-----------------------------------------------------------------------------
(* The steering of packets. *)

Settled == next = NbPorts /\ conf_lcore > NbSlaves

\* Ports that were listed have a tx queue; the start goes on when all were.
ListInv ==
  /\ \A p \in Ports : p < next => \E t \in TxQueues : TxQueue(t).port_id = p
  /\ initialized => next = NbPorts
  /\ master \in {"launch", "tables", "up"} => portid \in Ports

DevInv ==
  /\ master \in {"init", "dp_init", "dp_configure", "configure"} => \A p \in Ports : ~dev[p].started
  /\ \A p \in Ports : dev[p].started => Settled /\ \A r \in Ports : dev[r].rxq = NbPorts
  /\ \A p \in Ports : input[p] # <<>> => dev[p].started

\* Packets that may be in front of the filters of port p, in rx queues with an
\* id, and on their way out by port q.
Inbound(p) == {m \in Packet : m.miss = ReadsDefault /\ (m.hit => filters[p][m.ip] # Unset)}
Ruled(ip, id) == \E k \in DOMAIN Rules : Rules[k].ip = ip /\ id = RxQueueId(Rules[k].port)
Queued(id) == {m \in Packet : m.miss = ReadsDefault /\ ((~m.hit /\ id = 0) \/ Ruled(m.ip, id))}
Leaving(q) == {m \in Packet : q \in Allowed(m)}

CardTypes ==
  /\ filters \in [Ports -> [Address -> QueueIds \cup {Unset}]]
  /\ input \in [Ports -> Seq(Packet)]
  /\ rxq \in [Ports -> [QueueIds -> Seq(Packet)]]
  /\ txq \in [Ports -> Seq(Packet)] /\ wire \in [Ports -> Seq(Packet)]
Bounds ==
  /\ \A p, q \in Ports : Len(rxq[p][q]) <= RxRing
  /\ \A p \in Ports : Len(txq[p]) <= TxRing
Steering ==
  /\ \A p \in Ports, a \in Address : filters[p][a] # Unset => Ruled(a, filters[p][a])
  /\ \A p \in Ports : input[p] \in Seq(Inbound(p))
  /\ \A p \in Ports, q \in QueueIds : rxq[p][q] \in Seq(Queued(q))
  /\ \A q \in Ports : txq[q] \in Seq(Leaving(q)) /\ wire[q] \in Seq(Leaving(q))
\* Before the lists are settled nothing is under way.
Silent ==
  ~Settled =>
    /\ \A p \in Ports, a \in Address : filters[p][a] = Unset
    /\ \A p \in Ports : input[p] = <<>> /\ txq[p] = <<>> /\ wire[p] = <<>>
    /\ \A p \in Ports, q \in QueueIds : rxq[p][q] = <<>>
    /\ \A l \in Slaves : burst[l] = <<>> /\ i[l] = 1
CardInv == CardTypes /\ Bounds /\ Steering /\ Silent

LoopInv ==
  /\ pc \in [Slaves -> {"clock", "poll", "send"}] /\ j \in [Slaves -> Ports]
  /\ i \in [Slaves -> 1 .. MaxTxQueue]
  /\ \A l \in Slaves : i[l] = 1 \/ i[l] <= Len(tx_queue_list[l])
  /\ elapsed \in [Slaves -> [1 .. MaxTxQueue -> 0 .. PollTsc + 1]]
  /\ burst \in [Slaves -> Seq(Packet)]
  /\ \A l \in Slaves : pc[l] # "send" => burst[l] = <<>>
  /\ \A l \in Slaves : burst[l] # <<>> => burst[l] \in Seq(Queued(Cur(l).rx_queue_id))

OtherTypes ==
  /\ machine \in Machines /\ numa_ok \in BOOLEAN
  /\ rule \in 1 .. Len(Rules) + 1 /\ arrived \in [Ports -> Nat]

FullInv == SetUpInv /\ ListInv /\ DevInv /\ CardInv /\ LoopInv /\ OtherTypes
-----------------------------------------------------------------------------
(* Sequences. *)

LEMMA SeqSubset ==
  ASSUME NEW S, NEW T, S \subseteq T, NEW s \in Seq(S)
  PROVE  s \in Seq(T)
OBVIOUS

LEMMA TailIn ==
  ASSUME NEW S, NEW s \in Seq(S), s # <<>>
  PROVE  Head(s) \in S /\ Tail(s) \in Seq(S) /\ Len(Tail(s)) = Len(s) - 1 /\ Len(s) \in Nat
OBVIOUS

LEMMA AppendIn ==
  ASSUME NEW S, NEW s \in Seq(S), NEW e \in S
  PROVE  Append(s, e) \in Seq(S) /\ Len(Append(s, e)) = Len(s) + 1 /\ Len(s) \in Nat
OBVIOUS

LEMMA CutIn ==
  ASSUME NEW S, NEW s \in Seq(S), NEW k \in 0 .. Len(s)
  PROVE  /\ First(s, k) \in Seq(S) /\ Len(First(s, k)) = k
         /\ From(s, k) \in Seq(S) /\ Len(From(s, k)) = Len(s) - k
BY DEF First, From

LEMMA ConcatIn ==
  ASSUME NEW S, NEW s \in Seq(S), NEW t \in Seq(S)
  PROVE  s \o t \in Seq(S) /\ Len(s \o t) = Len(s) + Len(t)
OBVIOUS
-----------------------------------------------------------------------------
(* Tx queues, once they are settled. *)

LEMMA IdsAreQueues ==
  ASSUME SetUpInv, Settled, NEW t \in TxQueues
  PROVE  TxQueue(t).rx_queue_id \in Ports
<1>1. TxQueue(t).rx_queue_id < rxqueueid
  BY AllInConfigured DEF SetUpInv, IdsOnce, IdsBelow, Settled
<1>2. rxqueueid <= NbPorts /\ rxqueueid \in Nat
  BY NoMoreIdsThanPorts DEF SetUpInv, SetUpTypes
<1> QED
  BY <1>1, <1>2, QueueTypes, NbPortsAssumption DEF Ports

LEMMA DefaultReader ==
  ASSUME SetUpInv, ListInv, Settled
  PROVE  /\ ReadsDefault \in Ports
         /\ \A t \in TxQueues : TxQueue(t).rx_queue_id = 0 => TxQueue(t).port_id = ReadsDefault
<1>1. 0 \in Ports /\ 0 < next
  BY NbPortsAssumption DEF Ports, Settled
<1>2. PICK s \in TxQueues : TxQueue(s).port_id = 0
  BY <1>1 DEF ListInv
<1>3. TxQueue(s).rx_queue_id < rxqueueid /\ TxQueue(s).rx_queue_id \in Nat
  BY AllInConfigured, QueueTypes DEF SetUpInv, IdsOnce, IdsBelow, Settled
<1>4. 0 \in 0 .. rxqueueid - 1
  BY <1>3 DEF SetUpInv, SetUpTypes
<1>5. \E t \in TxQueues : TxQueue(t).rx_queue_id = 0
  BY <1>4, AllInConfigured DEF SetUpInv, IdsOnce, IdsUsed, Settled
<1> DEFINE r == CHOOSE t \in TxQueues : TxQueue(t).rx_queue_id = 0
<1>6. r \in TxQueues /\ TxQueue(r).rx_queue_id = 0
  BY <1>5
<1>7. ReadsDefault = TxQueue(r).port_id
  BY DEF ReadsDefault
<1> HIDE DEF r
<1>8. \A t \in TxQueues : TxQueue(t).rx_queue_id = 0 => t = r
  BY <1>6, AllInConfigured DEF SetUpInv, IdsOnce, IdsDistinct, Settled
<1> QED
  BY <1>6, <1>7, <1>8, QueueTypes

\* get_rxqueues_id finds the tx queue of a port of the switch, and no other.
LEMMA FoundQueue ==
  ASSUME SetUpInv, Settled, NEW p
  PROVE  /\ RxQueueId(p) \in QueueIds
         /\ \A t \in TxQueues : TxQueue(t).rx_queue_id = RxQueueId(p) => TxQueue(t).port_id = p
<1> DEFINE found == {t \in TxQueues : TxQueue(t).port_id = p}
           r == CHOOSE t \in found : TRUE
<1>1. CASE found = {}
  <2>1. RxQueueId(p) = NoQueue
    BY <1>1 DEF RxQueueId
  <2> QED
    BY <2>1, IdsAreQueues, PortIdsAssumption DEF QueueIds
<1>2. CASE found # {}
  <2>1. r \in found
    BY <1>2
  <2>2. RxQueueId(p) = TxQueue(r).rx_queue_id
    BY <1>2 DEF RxQueueId
  <2> HIDE DEF r
  <2>3. \A t \in TxQueues : TxQueue(t).rx_queue_id = TxQueue(r).rx_queue_id => t = r
    BY <2>1, AllInConfigured DEF SetUpInv, IdsOnce, IdsDistinct, Settled
  <2> QED
    BY <2>1, <2>2, <2>3, IdsAreQueues DEF QueueIds
<1> QED
  BY <1>1, <1>2

\* What may wait in the rx queue of a tx queue may leave by its port.
LEMMA ReadForItsPort ==
  ASSUME SetUpInv, ListInv, Settled, NEW t \in TxQueues, NEW m \in Queued(TxQueue(t).rx_queue_id)
  PROVE  m \in Leaving(TxQueue(t).port_id)
<1>1. m \in Packet /\ m.miss = ReadsDefault
  BY DEF Queued
<1>2. CASE ~m.hit /\ TxQueue(t).rx_queue_id = 0
  BY <1>1, <1>2, DefaultReader DEF Leaving, Allowed
<1>3. CASE Ruled(m.ip, TxQueue(t).rx_queue_id)
  <2>1. PICK k \in DOMAIN Rules : Rules[k].ip = m.ip /\ TxQueue(t).rx_queue_id = RxQueueId(Rules[k].port)
    BY <1>3 DEF Ruled
  <2>2. TxQueue(t).port_id = Rules[k].port /\ TxQueue(t).port_id \in Ports
    BY <2>1, FoundQueue, QueueTypes
  <2>3. TxQueue(t).port_id \in Target(m)
    BY <2>1, <2>2 DEF Target
  <2> QED
    BY <1>1, <2>3 DEF Leaving, Allowed
<1> QED
  BY <1>2, <1>3 DEF Queued

\* Where the lists do not change, neither does what may be where.
LEMMA SetsUnchanged ==
  ASSUME UNCHANGED tx_queue_list
  PROVE  /\ TxQueues' = TxQueues /\ \A t : TxQueue(t)' = TxQueue(t)
         /\ ReadsDefault' = ReadsDefault
         /\ \A p : RxQueueId(p)' = RxQueueId(p)
         /\ \A a, id : Ruled(a, id)' = Ruled(a, id)
         /\ \A id : Queued(id)' = Queued(id)
<1>1. TxQueues' = TxQueues /\ \A t : TxQueue(t)' = TxQueue(t)
  BY DEF TxQueues, TxQueue
<1>2. ReadsDefault' = ReadsDefault
  BY DEF ReadsDefault, TxQueues, TxQueue
<1>3. \A p : RxQueueId(p)' = RxQueueId(p)
  BY DEF RxQueueId, TxQueues, TxQueue
<1>4. \A a, id : Ruled(a, id)' = Ruled(a, id)
  BY <1>3 DEF Ruled
<1>5. \A id : Queued(id)' = Queued(id)
  BY <1>2, <1>4 DEF Queued
<1> QED
  BY <1>1, <1>2, <1>3, <1>4, <1>5
-----------------------------------------------------------------------------
(* Steps of the master lcore. *)

\* What the card and the loops hold is not touched, ports may have been started.
LEMMA CardUnchanged ==
  ASSUME FullInv, UNCHANGED <<tx_queue_list, tables, card, loop>>, Settled => Settled'
  PROVE  CardInv' /\ LoopInv'
<1>1. UNCHANGED <<filters, input, rxq, txq, wire, pc, i, j, elapsed, burst, tx_queue_list>>
  BY DEF tables, card, loop
<1>2. \A p \in Ports : Inbound(p)' = Inbound(p)
  BY <1>1, SetsUnchanged DEF Inbound
<1>3. CardTypes' /\ Bounds'
  BY <1>1 DEF FullInv, CardInv, CardTypes, Bounds
<1>4. Steering'
  <2>1. \A p \in Ports, a \in Address : filters[p][a] # Unset => Ruled(a, filters[p][a])'
    BY <1>1, SetsUnchanged DEF FullInv, CardInv, Steering
  <2>2. \A p \in Ports, q \in QueueIds : rxq[p][q] \in Seq(Queued(q)')
    BY <1>1, SetsUnchanged DEF FullInv, CardInv, Steering
  <2>3. \A p \in Ports : input[p] \in Seq(Inbound(p)')
    BY <1>1, <1>2 DEF FullInv, CardInv, Steering
  <2>4. \A q \in Ports : txq[q] \in Seq(Leaving(q)') /\ wire[q] \in Seq(Leaving(q)')
    BY DEF FullInv, CardInv, Steering, Leaving, Allowed, Target
  <2> QED
    BY <1>1, <2>1, <2>2, <2>3, <2>4 DEF Steering
<1>5. Silent'
  BY <1>1 DEF FullInv, CardInv, Silent
<1>6. LoopInv'
  <2>1. \A l \in Slaves : Cur(l)' = Cur(l)
    BY <1>1 DEF Cur
  <2>2. \A l \in Slaves : burst'[l] # <<>> => burst'[l] \in Seq(Queued(Cur(l).rx_queue_id)')
    BY <1>1, <2>1, SetsUnchanged DEF FullInv, LoopInv
  <2> QED
    BY <1>1, <2>1, <2>2 DEF FullInv, LoopInv
<1> QED
  BY <1>3, <1>4, <1>5, <1>6 DEF CardInv

LEMMA CoreFull ==
  ASSUME FullInv, Core
  PROVE  FullInv'
<1> USE NbPortsAssumption
<1>1. UNCHANGED <<deal, lists, tables, card, loop>>
  BY DEF Core
<1>2. UNCHANGED <<machine, numa_ok, next, tx_queue_list, conf_lcore, rule, arrived, input>>
  BY <1>1 DEF deal, lists, tables, card
<1>3. SetUpInv'
  BY CoreSetUp DEF FullInv
<1>4. CardInv' /\ LoopInv'
  BY <1>1, <1>2, CardUnchanged DEF Settled
<1>5. OtherTypes'
  BY <1>2 DEF FullInv, OtherTypes
<1>6. \A p \in Ports : p < next' => \E t \in TxQueues' : TxQueue(t)'.port_id = p
  BY <1>2, SetsUnchanged DEF FullInv, ListInv
<1>7. ListInv'
  <2>1. initialized' => initialized \/ master = "init"
    BY DEF Core, CoreNext, InitPorts, ConfigurePort, AllConfigured, StartPort, AllStarted, Launch, initialized
  <2>2. ~(master = "init" /\ initialized')
    BY DEF Core, CoreNext, InitPorts, ConfigurePort, AllConfigured, StartPort, AllStarted, Launch, initialized
  <2>3. master' \in {"launch", "tables", "up"} => portid' \in Ports
    <3>1. 0 \in Ports
      BY DEF Ports
    <3> QED
      BY <3>1 DEF Core, CoreNext, InitPorts, ConfigurePort, AllConfigured, StartPort, AllStarted, Launch, FullInv, ListInv
  <2>4. initialized' => next' = NbPorts
    BY <1>2, <2>1, <2>2 DEF FullInv, ListInv
  <2> QED
    BY <1>6, <2>3, <2>4 DEF ListInv
<1>8. DevInv'
  <2>1. CASE InitPorts \/ AllConfigured \/ AllStarted \/ Launch
    BY <1>2, <2>1 DEF InitPorts, AllConfigured, AllStarted, Launch, FullInv, DevInv, Settled
  <2>2. CASE ConfigurePort
    <3>1. master = "configure" /\ \A p \in Ports : ~dev[p].started /\ input[p] = <<>>
      BY <2>2 DEF ConfigurePort, FullInv, DevInv
    <3>2. \A p \in Ports : ~dev'[p].started
      BY <2>2, <3>1 DEF ConfigurePort, FullInv, SetUpInv, PortsAreSet, Dev
    <3> QED
      BY <1>2, <3>1, <3>2 DEF DevInv
  <2>3. CASE StartPort
    <3>1. master = "start" /\ master' \in {"start", "exit"}
      BY <2>3 DEF StartPort
    <3>2. Settled' /\ \A r \in Ports : dev[r].rxq = NbPorts
      BY <1>2, <3>1 DEF FullInv, SetUpInv, InOrder, PortsAreSet, ListInv, initialized, Settled
    <3>3. \A r \in Ports : dev'[r].rxq = dev[r].rxq /\ (dev[r].started => dev'[r].started)
      BY <2>3 DEF StartPort, FullInv, SetUpInv, PortsAreSet, Dev
    <3> QED
      BY <1>2, <3>1, <3>2, <3>3 DEF FullInv, DevInv
  <2> QED
    BY <2>1, <2>2, <2>3 DEF Core, CoreNext
<1> QED
  BY <1>3, <1>4, <1>5, <1>7, <1>8 DEF FullInv

\* A step of the set-up that changes no tx queue.
LEMMA SetUpFull ==
  ASSUME FullInv, DealPort \/ SetNbQueues \/ LcoresConfigured
  PROVE  FullInv'
<1>1. UNCHANGED <<machine, portid, dev, next, lists, tables, card, loop>>
  BY DEF DealPort, SetNbQueues, LcoresConfigured, deal, core
<1>2. UNCHANGED <<tx_queue_list, conf_lcore, rule, arrived, input>>
  BY <1>1 DEF lists, tables, card
<1>3. SetUpInv'
  BY DealSetUp, SetNbSetUp, ConfiguredSetUp DEF FullInv
<1>4. CardInv' /\ LoopInv'
  BY <1>1, <1>2, CardUnchanged DEF Settled
<1>5. OtherTypes'
  BY <1>1, <1>2 DEF DealPort, SetNbQueues, LcoresConfigured, deal, FullInv, OtherTypes
<1>6. \A p \in Ports : p < next' => \E t \in TxQueues' : TxQueue(t)'.port_id = p
  BY <1>1, <1>2, SetsUnchanged DEF FullInv, ListInv
<1>7. master \in {"dp_init", "dp_configure"} /\ master' \in {"dp_init", "dp_configure", "configure"}
  BY DEF DealPort, SetNbQueues, LcoresConfigured, core
<1>8. initialized' => next' = NbPorts
  BY <1>1 DEF DealPort, SetNbQueues, LcoresConfigured, core, initialized, FullInv, ListInv
<1>9. ListInv'
  BY <1>6, <1>7, <1>8 DEF ListInv
<1>10. DevInv'
  BY <1>1, <1>2, <1>7 DEF FullInv, DevInv, Settled
<1> QED
  BY <1>3, <1>4, <1>5, <1>9, <1>10 DEF FullInv

\* While the lists change nothing is under way.
LEMMA SilentCard ==
  ASSUME FullInv, ~Settled, UNCHANGED <<tables, card, loop>>
  PROVE  CardInv' /\ LoopInv'
<1>1. UNCHANGED <<filters, input, rxq, txq, wire, pc, i, j, elapsed, burst>>
  BY DEF tables, card, loop
<1>2. /\ \A p \in Ports, a \in Address : filters'[p][a] = Unset
      /\ \A p \in Ports : input'[p] = <<>> /\ txq'[p] = <<>> /\ wire'[p] = <<>>
      /\ \A p \in Ports, q \in QueueIds : rxq'[p][q] = <<>>
      /\ \A l \in Slaves : burst'[l] = <<>> /\ i'[l] = 1
  BY <1>1 DEF FullInv, CardInv, Silent
<1>3. \A S : <<>> \in Seq(S)
  OBVIOUS
<1>4. CardTypes' /\ Bounds'
  BY <1>1 DEF FullInv, CardInv, CardTypes, Bounds
<1>5. Steering'
  BY <1>2, <1>3 DEF Steering
<1>6. Silent'
  BY <1>2 DEF Silent
<1>7. LoopInv'
  BY <1>1, <1>2 DEF FullInv, LoopInv
<1> QED
  BY <1>4, <1>5, <1>6, <1>7 DEF CardInv

LEMMA ListFull ==
  ASSUME FullInv, AddTxQueue
  PROVE  FullInv'
<1> USE NbPortsAssumption
<1>1. master = "dp_init" /\ master' \in {"dp_init", "exit"} /\ next \in Ports /\ ~Settled
  BY DEF AddTxQueue, FullInv, SetUpInv, SetUpTypes, Settled, Ports
<1>2. UNCHANGED <<machine, numa_ok, dev, tables, card, loop>>
  BY DEF AddTxQueue
<1>3. SetUpInv'
  BY ListSetUp DEF FullInv
<1>4. CardInv' /\ LoopInv'
  BY <1>1, <1>2, SilentCard
<1>5. OtherTypes' /\ DevInv'
  BY <1>1, <1>2 DEF FullInv, OtherTypes, DevInv, tables, card
<1>6. \A p \in Ports : p < next' => \E t \in TxQueues' : TxQueue(t)'.port_id = p
  <2>1. CASE UNCHANGED <<tx_queue_list, next>>
    BY <2>1, SetsUnchanged DEF FullInv, ListInv
  <2>2. CASE ~NoRoom(lcore_params[next + 1])
    <3>1. lcore_params[next + 1] \in Slaves
      BY DEF AddTxQueue, FullInv, SetUpInv, SetUpTypes
    <3> PICK l \in Slaves : l = lcore_params[next + 1]
      BY <3>1
    <3> DEFINE Queue == [port_id : Ports, rx_queue_id : Nat]
    <3>2. tx_queue_list \in [Slaves -> Seq(Queue)] /\ Len(tx_queue_list[l]) \in Nat
      <4>1. tx_queue_list \in [Slaves -> Seq(Queue)]
        BY DEF FullInv, SetUpInv, SetUpTypes
      <4> HIDE DEF Queue
      <4> QED
        BY <4>1
    <3> PICK n \in Nat : n = Len(tx_queue_list[l])
      BY <3>2
    <3> PICK new \in Queue : new = [port_id |-> next, rx_queue_id |-> 0]
      BY <1>1
    <3>3. tx_queue_list' = [tx_queue_list EXCEPT ![l] = Append(@, new)] /\ next' = next + 1
      BY <2>2 DEF AddTxQueue
    <3>4. n + 1 <= MaxTxQueue
      BY <2>2, SizesAssumption DEF NoRoom
    <3>5. new.port_id = next
      OBVIOUS
    <3> HIDE DEF Queue
    <3>6. /\ Append(tx_queue_list[l], new) \in Seq(Queue)
          /\ Len(Append(tx_queue_list[l], new)) = n + 1 /\ Append(tx_queue_list[l], new)[n + 1] = new
          /\ \A k \in 1 .. n : Append(tx_queue_list[l], new)[k] = tx_queue_list[l][k]
      BY <3>2
    <3>7. \A m \in Slaves : m # l => tx_queue_list'[m] = tx_queue_list[m]
      BY <3>2, <3>3
    <3>8. tx_queue_list'[l] = Append(tx_queue_list[l], new)
      BY <3>2, <3>3
    <3>9. <<l, n + 1>> \in TxQueues' /\ TxQueue(<<l, n + 1>>)' = new
      BY <3>4, <3>6, <3>8 DEF TxQueues, TxQueue
    <3>10. ASSUME NEW t \in TxQueues PROVE t \in TxQueues' /\ TxQueue(t)' = TxQueue(t)
      <4>1. t \in Slaves \X (1 .. MaxTxQueue) /\ t[1] \in Slaves /\ t[2] \in 1 .. Len(tx_queue_list[t[1]])
        BY QueueTypes DEF TxQueues, FullInv
      <4>2. CASE t[1] # l
        BY <3>7, <4>1, <4>2 DEF TxQueues, TxQueue
      <4>3. CASE t[1] = l
        BY <3>6, <3>8, <4>1, <4>3 DEF TxQueues, TxQueue
      <4> QED
        BY <4>2, <4>3
    <3> SUFFICES ASSUME NEW p \in Ports, p < next' PROVE \E t \in TxQueues' : TxQueue(t)'.port_id = p
      OBVIOUS
    <3>11. CASE p = next
      BY <3>5, <3>9, <3>11
    <3>12. CASE p # next
      <4>1. p < next
        BY <1>1, <3>3, <3>12 DEF Ports
      <4> QED
        BY <3>10, <4>1 DEF FullInv, ListInv
    <3> QED
      BY <3>11, <3>12
  <2> QED
    BY <2>1, <2>2 DEF AddTxQueue
<1>7. ListInv'
  BY <1>1, <1>6 DEF ListInv, initialized
<1> QED
  BY <1>3, <1>4, <1>5, <1>7 DEF FullInv

LEMMA ConfigureFull ==
  ASSUME FullInv, ConfigureLcore
  PROVE  FullInv'
<1>1. master = "dp_configure" /\ ~Settled
  BY SizesAssumption DEF ConfigureLcore, FullInv, SetUpInv, SetUpTypes, Settled, Slaves
<1>2. UNCHANGED <<core, deal, tables, card, loop>>
  BY DEF ConfigureLcore
<1>3. UNCHANGED <<master, portid, dev, machine, numa_ok, next, rule, arrived, input>>
  BY <1>2 DEF core, deal, tables, card
<1>4. SetUpInv'
  BY ConfigureSetUp DEF FullInv
<1>5. CardInv' /\ LoopInv'
  BY <1>1, <1>2, SilentCard
<1>6. OtherTypes' /\ DevInv'
  BY <1>1, <1>3 DEF FullInv, OtherTypes, DevInv
<1>7. \A t \in TxQueues : t \in TxQueues' /\ TxQueue(t)'.port_id = TxQueue(t).port_id
  <2> SUFFICES ASSUME NEW t \in TxQueues PROVE t \in TxQueues' /\ TxQueue(t)'.port_id = TxQueue(t).port_id
    OBVIOUS
  <2> DEFINE Queue == [port_id : Ports, rx_queue_id : Nat]
  <2>1. tx_queue_list \in [Slaves -> Seq(Queue)]
    BY DEF FullInv, SetUpInv, SetUpTypes
  <2>2. t \in Slaves \X (1 .. MaxTxQueue) /\ t[1] \in Slaves /\ t[2] \in 1 .. Len(tx_queue_list[t[1]])
    BY QueueTypes DEF TxQueues, FullInv
  <2>3. CASE t[1] # conf_lcore
    BY <2>1, <2>2, <2>3 DEF ConfigureLcore, TxQueues, TxQueue
  <2>4. CASE t[1] = conf_lcore
    <3> PICK s \in Seq(Queue) : s = tx_queue_list[t[1]]
      BY <2>1, <2>2
    <3>1. s[t[2]] \in Queue
      <4> HIDE DEF Queue
      <4> QED
        BY <2>2
    <3> DEFINE new == [k \in DOMAIN s |-> [s[k] EXCEPT !.rx_queue_id = QueueId(k)]]
    <3>2. tx_queue_list'[t[1]] = new
      BY <2>1, <2>2, <2>4 DEF ConfigureLcore
    <3>3. new[t[2]].port_id = s[t[2]].port_id
      BY <2>2, <3>1
    <3>4. DOMAIN new = 1 .. Len(s) /\ Len(s) \in Nat
      OBVIOUS
    <3>5. Len(new) = Len(s)
      BY <3>4
    <3> HIDE DEF new
    <3> QED
      BY <2>2, <3>2, <3>3, <3>5 DEF TxQueues, TxQueue
  <2> QED
    BY <2>3, <2>4
<1>8. ListInv'
  BY <1>3, <1>7 DEF FullInv, ListInv, initialized
<1> QED
  BY <1>4, <1>5, <1>6, <1>8 DEF FullInv

LEMMA TablesFull ==
  ASSUME FullInv, TablesInstalled
  PROVE  FullInv'
<1>1. /\ master = "tables" /\ master' = "up" /\ UNCHANGED <<tx_queue_list, tables, card, loop, lists>>
      /\ UNCHANGED <<machine, numa_ok, portid, dev, next, conf_lcore, rule, arrived, input>>
  BY DEF TablesInstalled, deal, lists, tables, card
<1>2. SetUpInv'
  BY TablesSetUp DEF FullInv
<1>3. CardInv' /\ LoopInv'
  BY <1>1, CardUnchanged DEF Settled
<1>4. OtherTypes' /\ DevInv'
  BY <1>1 DEF FullInv, OtherTypes, DevInv, Settled
<1>5. ListInv'
  BY <1>1, SetsUnchanged DEF FullInv, ListInv, initialized
<1> QED
  BY <1>2, <1>3, <1>4, <1>5 DEF FullInv

\* Steps that change no list, no port and nothing that the start goes by.
LEMMA StartUnchanged ==
  ASSUME FullInv, UNCHANGED <<master, portid, port_conf, dev, deal, lists>>
  PROVE  SetUpInv' /\ ListInv' /\ (Settled' = Settled)
<1>1. UNCHANGED <<master, portid, port_conf, dev, lcoreid, prev_lcoreid, lcore_params, next, tx_queue_list,
                  conf_lcore, rxqueueid>>
  BY DEF deal, lists
<1>2. SetUpInv'
  BY <1>1, InvUnchanged DEF FullInv, listVars, portVars
<1>3. ListInv'
  BY <1>1, SetsUnchanged DEF FullInv, ListInv, initialized
<1> QED
  BY <1>1, <1>2, <1>3 DEF Settled

LEMMA LaunchedSettled ==
  ASSUME FullInv, launched
  PROVE  Settled
BY DEF FullInv, SetUpInv, InOrder, ListInv, launched, initialized, Settled

LEMMA FilterFull ==
  ASSUME FullInv, AddFilter
  PROVE  FullInv'
<1> USE NbPortsAssumption
<1>1. master = "tables" /\ launched /\ portid \in Ports /\ rule \in DOMAIN Rules
  BY RulesAssumption DEF AddFilter, FullInv, ListInv, OtherTypes, launched
<1>2. Settled
  BY <1>1, LaunchedSettled
<1>3. UNCHANGED <<master, dev, machine, numa_ok, next, conf_lcore, tx_queue_list, input, rxq, txq, wire, arrived>>
      /\ UNCHANGED loop
  BY DEF AddFilter, deal, lists, card
<1>4. SetUpInv'
  BY FilterSetUp DEF FullInv
<1> DEFINE id == RxQueueId(Rules[rule].port)
           ip == Rules[rule].ip
<1>5. id \in QueueIds /\ ip \in Address /\ Ruled(ip, id)
  <2>1. id \in QueueIds
    BY <1>2, FoundQueue DEF FullInv
  <2>3. ip \in Address
    <3> DEFINE Rule == [ip : Address, port : Nat]
    <3>1. Rules \in Seq(Rule)
      BY RulesAssumption
    <3>2. \A r \in Rule : r.ip \in Address
      OBVIOUS
    <3> HIDE DEF Rule
    <3>3. Rules[rule] \in Rule
      BY <1>1, <3>1
    <3> QED
      BY <3>2, <3>3
  <2>4. Ruled(ip, id)
    BY <1>1 DEF Ruled
  <2> QED
    BY <2>1, <2>3, <2>4
<1>6. id # Unset
  BY <1>5 DEF QueueIds, Ports, NoQueue, Unset
<1> HIDE DEF id, ip
<1>7. /\ filters' \in [Ports -> [Address -> QueueIds \cup {Unset}]]
      /\ \A p \in Ports, a \in Address : filters'[p][a] = filters[p][a] \/ (a = ip /\ filters'[p][a] = id)
  <2>1. CASE filters' = [filters EXCEPT ![portid][ip] = id]
    BY <1>1, <1>5, <2>1 DEF FullInv, CardInv, CardTypes
  <2>2. CASE UNCHANGED filters
    BY <2>2 DEF FullInv, CardInv, CardTypes
  <2> QED
    BY <2>1, <2>2 DEF AddFilter, FilterQueue, id, ip
<1>8. CardInv'
  <2>1. CardTypes' /\ Bounds'
    BY <1>3, <1>7 DEF FullInv, CardInv, CardTypes, Bounds
  <2>2. \A p \in Ports, a \in Address : filters'[p][a] # Unset => Ruled(a, filters'[p][a])
    BY <1>5, <1>7 DEF FullInv, CardInv, Steering
  <2>3. \A p \in Ports : Inbound(p) \subseteq Inbound(p)'
    <3>1. \A p \in Ports, a \in Address : filters[p][a] # Unset => filters'[p][a] # Unset
      BY <1>6, <1>7
    <3> QED
      BY <1>3, <3>1, SetsUnchanged DEF Inbound, Packet
  <2>4. \A p \in Ports : input[p] \in Seq(Inbound(p)')
    BY <2>3, SeqSubset DEF FullInv, CardInv, Steering
  <2>5. Steering'
    BY <1>3, <2>2, <2>4, SetsUnchanged DEF FullInv, CardInv, Steering, Leaving, Allowed, Target
  <2>6. Silent'
    BY <1>2, <1>3 DEF Silent, Settled
  <2> QED
    BY <2>1, <2>5, <2>6 DEF CardInv
<1>9. LoopInv'
  BY <1>3, SetsUnchanged DEF loop, FullInv, LoopInv, Cur
<1>10. OtherTypes' /\ DevInv'
  <2>1. rule' \in 1 .. Len(Rules) + 1
    BY <1>1, RulesAssumption DEF AddFilter
  <2> QED
    BY <1>3, <2>1 DEF FullInv, OtherTypes, DevInv, Settled
<1>11. ListInv'
  <2>1. portid' \in Ports
    BY <1>1 DEF AddFilter, Ports
  <2> QED
    BY <1>1, <1>3, <2>1, SetsUnchanged DEF FullInv, ListInv, initialized
<1> QED
  BY <1>4, <1>8, <1>9, <1>10, <1>11 DEF FullInv
-----------------------------------------------------------------------------
(* Steps of the card. *)

LEMMA ArriveFull ==
  ASSUME FullInv, NEW p \in Ports, Arrive(p)
  PROVE  FullInv'
<1>1. UNCHANGED <<master, portid, port_conf, dev, deal, lists, tables, loop, rxq, txq, wire>> /\ dev[p].started
  BY DEF Arrive, core
<1>2. UNCHANGED <<machine, numa_ok, tx_queue_list, filters, rule>>
  BY <1>1 DEF deal, lists, tables
<1>3. Settled
  BY <1>1 DEF FullInv, DevInv
<1>4. SetUpInv' /\ ListInv' /\ Settled'
  BY <1>1, <1>3, StartUnchanged
<1>5. arrived' \in [Ports -> Nat]
  BY DEF Arrive, FullInv, OtherTypes
<1>6. PICK a \in Address :
        input' = [input EXCEPT ![p] = Append(@,
          [in |-> p, n |-> arrived'[p], ip |-> a, hit |-> filters[p][a] # Unset, miss |-> ReadsDefault])]
  BY DEF Arrive
<1> DEFINE m == [in |-> p, n |-> arrived'[p], ip |-> a, hit |-> filters[p][a] # Unset, miss |-> ReadsDefault]
<1>7. m \in Inbound(p)
  BY <1>3, <1>5, DefaultReader DEF FullInv, Inbound, Packet
<1> HIDE DEF m
<1>8. input[p] \in Seq(Inbound(p)) /\ input \in [Ports -> Seq(Packet)]
  BY DEF FullInv, CardInv, CardTypes, Steering
<1>9. Append(input[p], m) \in Seq(Inbound(p)) /\ Append(input[p], m) \in Seq(Packet)
  BY <1>7, <1>8, AppendIn DEF Inbound
<1>10. /\ input' \in [Ports -> Seq(Packet)] /\ input'[p] \in Seq(Inbound(p))
       /\ \A r \in Ports : r # p => input'[r] = input[r]
  BY <1>6, <1>8, <1>9 DEF m
<1>11. \A r \in Ports : Inbound(r)' = Inbound(r)
  BY <1>2, SetsUnchanged DEF Inbound
<1>12. CardInv'
  <2>1. CardTypes' /\ Bounds'
    BY <1>1, <1>2, <1>10 DEF FullInv, CardInv, CardTypes, Bounds
  <2>2. \A r \in Ports : input'[r] \in Seq(Inbound(r)')
    BY <1>10, <1>11 DEF FullInv, CardInv, Steering
  <2>3. Steering'
    BY <1>1, <1>2, <2>2, SetsUnchanged DEF FullInv, CardInv, Steering, Leaving, Allowed, Target
  <2> QED
    BY <1>4, <2>1, <2>3 DEF CardInv, Silent
<1>13. LoopInv'
  BY <1>1, <1>2, SetsUnchanged DEF loop, FullInv, LoopInv, Cur
<1>14. OtherTypes' /\ DevInv'
  BY <1>1, <1>2, <1>4, <1>5, <1>10 DEF FullInv, OtherTypes, DevInv
<1> QED
  BY <1>4, <1>12, <1>13, <1>14 DEF FullInv

LEMMA SteerFull ==
  ASSUME FullInv, NEW p \in Ports, Steer(p)
  PROVE  FullInv'
<1> USE NbPortsAssumption, SizesAssumption
<1>1. UNCHANGED <<master, portid, port_conf, dev, deal, lists, tables, loop, arrived, txq, wire>> /\ input[p] # <<>>
  BY DEF Steer, core
<1>2. UNCHANGED <<machine, numa_ok, tx_queue_list, filters, rule>>
  BY <1>1 DEF deal, lists, tables
<1>3. dev[p].started /\ Settled /\ \A r \in Ports : dev[r].rxq = NbPorts
  BY <1>1 DEF FullInv, DevInv
<1>4. SetUpInv' /\ ListInv' /\ Settled'
  BY <1>1, <1>3, StartUnchanged
<1> DEFINE m == Head(input[p])
           q == IF filters[p][m.ip] = Unset THEN 0 ELSE filters[p][m.ip]
<1>5. input[p] \in Seq(Inbound(p)) /\ input[p] \in Seq(Packet)
  BY DEF FullInv, CardInv, CardTypes, Steering
<1>6. /\ m \in Inbound(p) /\ Tail(input[p]) \in Seq(Inbound(p)) /\ Tail(input[p]) \in Seq(Packet)
  BY <1>1, <1>5, TailIn
<1>7. q \in QueueIds /\ m \in Queued(q) /\ m \in Packet
  <2>1. m \in Packet /\ m.ip \in Address /\ m.miss = ReadsDefault /\ (m.hit => filters[p][m.ip] # Unset)
    BY <1>6 DEF Inbound, Packet
  <2>2. CASE filters[p][m.ip] = Unset
    <3>1. q = 0 /\ 0 \in QueueIds
      BY <2>2 DEF QueueIds, Ports
    <3> QED
      BY <2>1, <2>2, <3>1 DEF Queued
  <2>3. CASE filters[p][m.ip] # Unset
    <3>1. q = filters[p][m.ip] /\ Ruled(m.ip, q)
      BY <2>1, <2>3 DEF FullInv, CardInv, Steering
    <3>2. q \in QueueIds
      BY <2>1, <2>3 DEF FullInv, CardInv, CardTypes
    <3> QED
      BY <2>1, <3>1, <3>2 DEF Queued
  <2> QED
    BY <2>2, <2>3
<1>8. /\ rxq' = [rxq EXCEPT ![p][q] = Append(@, m)]
      /\ input' = [input EXCEPT ![p] = Tail(@)]
      /\ q < dev[p].rxq => Len(rxq[p][q]) < RxRing
  BY DEF Steer
<1> HIDE DEF q, m
<1>9. /\ input' \in [Ports -> Seq(Packet)] /\ input'[p] \in Seq(Inbound(p))
      /\ \A r \in Ports : r # p => input'[r] = input[r]
  BY <1>6, <1>8 DEF FullInv, CardInv, CardTypes
<1>10. rxq[p][q] \in Seq(Queued(q)) /\ rxq[p][q] \in Seq(Packet)
  BY <1>7 DEF FullInv, CardInv, CardTypes, Steering
<1>11. /\ Append(rxq[p][q], m) \in Seq(Queued(q)) /\ Append(rxq[p][q], m) \in Seq(Packet)
       /\ Len(Append(rxq[p][q], m)) = Len(rxq[p][q]) + 1 /\ Len(rxq[p][q]) \in Nat
  BY <1>7, <1>10, AppendIn
<1>12. /\ rxq' \in [Ports -> [QueueIds -> Seq(Packet)]] /\ rxq'[p][q] = Append(rxq[p][q], m)
       /\ \A r \in Ports, k \in QueueIds : <<r, k>> # <<p, q>> => rxq'[r][k] = rxq[r][k]
  BY <1>7, <1>8, <1>11 DEF FullInv, CardInv, CardTypes
<1>13. \A r \in Ports : Inbound(r)' = Inbound(r)
  BY <1>2, SetsUnchanged DEF Inbound
<1>14. CardTypes'
  BY <1>1, <1>2, <1>9, <1>12 DEF FullInv, CardInv, CardTypes
<1>15. Bounds'
  <2>1. q \in Ports => Len(rxq'[p][q]) <= RxRing
    <3> SUFFICES ASSUME q \in Ports PROVE Len(rxq'[p][q]) <= RxRing
      OBVIOUS
    <3>1. q < dev[p].rxq
      BY <1>3 DEF Ports
    <3> QED
      BY <1>8, <1>11, <1>12, <3>1
  <2>2. \A r, k \in Ports : Len(rxq'[r][k]) <= RxRing
    BY <1>12, <2>1 DEF FullInv, CardInv, Bounds, QueueIds
  <2> QED
    BY <1>1, <2>2 DEF FullInv, CardInv, Bounds
<1>16. Steering'
  <2>1. \A r \in Ports : input'[r] \in Seq(Inbound(r)')
    BY <1>9, <1>13 DEF FullInv, CardInv, Steering
  <2>2. \A r \in Ports, k \in QueueIds : rxq'[r][k] \in Seq(Queued(k))
    BY <1>11, <1>12 DEF FullInv, CardInv, Steering
  <2> QED
    BY <1>1, <1>2, <2>1, <2>2, SetsUnchanged DEF FullInv, CardInv, Steering, Leaving, Allowed, Target
<1>17. LoopInv'
  BY <1>1, <1>2, SetsUnchanged DEF loop, FullInv, LoopInv, Cur
<1>18. OtherTypes' /\ DevInv'
  BY <1>1, <1>2, <1>3, <1>4, <1>9 DEF FullInv, OtherTypes, DevInv
<1> QED
  BY <1>4, <1>14, <1>15, <1>16, <1>17, <1>18 DEF FullInv, CardInv, Silent

LEMMA TransmitFull ==
  ASSUME FullInv, NEW p \in Ports, Transmit(p)
  PROVE  FullInv'
<1> USE SizesAssumption
<1>1. UNCHANGED <<master, portid, port_conf, dev, deal, lists, tables, loop, arrived, input, rxq>> /\ txq[p] # <<>>
  BY DEF Transmit, core
<1>2. UNCHANGED <<machine, numa_ok, next, conf_lcore, tx_queue_list, filters, rule>>
  BY <1>1 DEF deal, lists, tables
<1>3. Settled
  BY <1>1 DEF FullInv, CardInv, Silent
<1>4. SetUpInv' /\ ListInv' /\ Settled'
  BY <1>1, <1>3, StartUnchanged
<1>5. /\ txq[p] \in Seq(Leaving(p)) /\ txq[p] \in Seq(Packet)
      /\ wire[p] \in Seq(Leaving(p)) /\ wire[p] \in Seq(Packet)
  BY DEF FullInv, CardInv, CardTypes, Steering
<1>6. /\ Tail(txq[p]) \in Seq(Leaving(p)) /\ Tail(txq[p]) \in Seq(Packet)
      /\ Head(txq[p]) \in Leaving(p) /\ Head(txq[p]) \in Packet
      /\ Len(Tail(txq[p])) = Len(txq[p]) - 1 /\ Len(txq[p]) \in Nat
  BY <1>1, <1>5, TailIn
<1>7. Append(wire[p], Head(txq[p])) \in Seq(Leaving(p)) /\ Append(wire[p], Head(txq[p])) \in Seq(Packet)
  BY <1>5, <1>6, AppendIn
<1>8. /\ txq' \in [Ports -> Seq(Packet)] /\ txq'[p] = Tail(txq[p])
      /\ wire' \in [Ports -> Seq(Packet)] /\ wire'[p] = Append(wire[p], Head(txq[p]))
      /\ \A r \in Ports : r # p => txq'[r] = txq[r] /\ wire'[r] = wire[r]
  BY <1>6, <1>7 DEF Transmit, FullInv, CardInv, CardTypes
<1>9. CardTypes' /\ Bounds'
  <2>1. Len(txq'[p]) <= TxRing
    BY <1>6, <1>8 DEF FullInv, CardInv, Bounds
  <2> QED
    BY <1>1, <1>2, <1>8, <2>1 DEF FullInv, CardInv, CardTypes, Bounds
<1>10. Steering'
  <2>1. \A r \in Ports : txq'[r] \in Seq(Leaving(r)) /\ wire'[r] \in Seq(Leaving(r))
    BY <1>6, <1>7, <1>8 DEF FullInv, CardInv, Steering
  <2>2. \A r \in Ports : Inbound(r)' = Inbound(r) /\ Leaving(r)' = Leaving(r)
    BY <1>2, SetsUnchanged DEF Inbound, Leaving, Allowed, Target
  <2> QED
    BY <1>1, <1>2, <2>1, <2>2, SetsUnchanged DEF FullInv, CardInv, Steering
<1>11. LoopInv'
  BY <1>1, <1>2, SetsUnchanged DEF loop, FullInv, LoopInv, Cur
<1>12. OtherTypes' /\ DevInv'
  BY <1>1, <1>2 DEF FullInv, OtherTypes, DevInv, Settled
<1> QED
  BY <1>4, <1>9, <1>10, <1>11, <1>12 DEF FullInv, CardInv, Silent
-----------------------------------------------------------------------------
(* Steps of an lcore. *)

LEMMA AtQueue ==
  ASSUME FullInv, NEW l \in Slaves, tx_queue_list[l] # <<>>
  PROVE  /\ <<l, i[l]>> \in TxQueues /\ Cur(l) = TxQueue(<<l, i[l]>>)
         /\ NextQueue(l) \in 1 .. MaxTxQueue /\ NextQueue(l) <= Len(tx_queue_list[l])
<1> DEFINE Queue == [port_id : Ports, rx_queue_id : Nat]
<1>1. tx_queue_list[l] \in Seq(Queue) /\ Len(tx_queue_list[l]) <= MaxTxQueue
  BY DEF FullInv, SetUpInv, SetUpTypes
<1> HIDE DEF Queue
<1>2. Len(tx_queue_list[l]) \in Nat \ {0}
  BY <1>1
<1>3. i[l] \in 1 .. MaxTxQueue /\ i[l] <= Len(tx_queue_list[l])
  BY <1>2 DEF FullInv, LoopInv
<1>4. <<l, i[l]>> \in TxQueues
  BY <1>3 DEF TxQueues
<1> QED
  BY <1>1, <1>2, <1>3, <1>4, SizesAssumption DEF Cur, TxQueue, NextQueue

\* Where the loop of lcore l goes on.
LEMMA OnTo ==
  ASSUME FullInv, NEW l \in Slaves, tx_queue_list[l] # <<>>, NextPort(l)
  PROVE  /\ pc' \in [Slaves -> {"clock", "poll", "send"}] /\ j' \in [Slaves -> Ports]
         /\ i' \in [Slaves -> 1 .. MaxTxQueue] /\ pc'[l] # "send"
         /\ (i'[l] = 1 \/ i'[l] <= Len(tx_queue_list[l]))
         /\ \A k \in Slaves : k # l => pc'[k] = pc[k] /\ i'[k] = i[k]
<1>1. /\ pc \in [Slaves -> {"clock", "poll", "send"}] /\ j \in [Slaves -> Ports]
      /\ i \in [Slaves -> 1 .. MaxTxQueue] /\ (i[l] = 1 \/ i[l] <= Len(tx_queue_list[l]))
  BY DEF FullInv, LoopInv
<1>2. NextQueue(l) \in 1 .. MaxTxQueue /\ NextQueue(l) <= Len(tx_queue_list[l])
  BY AtQueue
<1> HIDE DEF NextQueue
<1>3. CASE MorePorts(l)
  <2>1. j[l] + 1 \in Ports
    BY <1>1, <1>3, NbPortsAssumption DEF MorePorts, Ports
  <2>2. j' = [j EXCEPT ![l] = j[l] + 1] /\ pc' = [pc EXCEPT ![l] = "poll"] /\ i' = i
    BY <1>3 DEF NextPort
  <2> QED
    BY <1>1, <2>1, <2>2
<1>4. CASE ~MorePorts(l)
  <2>1. 0 \in Ports
    BY NbPortsAssumption DEF Ports
  <2>2. /\ j' = [j EXCEPT ![l] = 0] /\ pc' = [pc EXCEPT ![l] = "clock"]
        /\ i' = [i EXCEPT ![l] = NextQueue(l)]
    BY <1>4 DEF NextPort
  <2> QED
    BY <1>1, <1>2, <2>1, <2>2
<1> QED
  BY <1>3, <1>4

\* What a step of an lcore leaves as it is.
LEMMA LoopFrame ==
  ASSUME FullInv, launched, UNCHANGED <<core, deal, lists, tables, arrived, input, wire>>
  PROVE  /\ SetUpInv' /\ ListInv' /\ DevInv' /\ OtherTypes' /\ Settled /\ Settled'
         /\ UNCHANGED <<tx_queue_list, filters>>
<1>1. UNCHANGED <<machine, numa_ok, tx_queue_list, filters, rule, dev, master, portid, port_conf>>
  BY DEF deal, lists, tables, core
<1>2. Settled
  BY LaunchedSettled
<1>3. SetUpInv' /\ ListInv' /\ Settled'
  BY <1>1, <1>2, StartUnchanged
<1>4. DevInv' /\ OtherTypes'
  BY <1>1, <1>3 DEF FullInv, DevInv, OtherTypes
<1> QED
  BY <1>1, <1>2, <1>3, <1>4

\* Such a step keeps the card's part when it keeps rx and tx queues in bounds.
LEMMA CardKept ==
  ASSUME FullInv, Settled', UNCHANGED <<tx_queue_list, filters, input, wire>>,
         rxq' \in [Ports -> [QueueIds -> Seq(Packet)]],
         \A p \in Ports, q \in QueueIds : rxq'[p][q] \in Seq(Queued(q)),
         \A p, q \in Ports : Len(rxq'[p][q]) <= RxRing,
         txq' \in [Ports -> Seq(Packet)],
         \A p \in Ports : txq'[p] \in Seq(Leaving(p)) /\ Len(txq'[p]) <= TxRing
  PROVE  CardInv'
<1>1. CardTypes' /\ Bounds'
  BY DEF FullInv, CardInv, CardTypes, Bounds
<1>2. \A p \in Ports : Inbound(p)' = Inbound(p) /\ Leaving(p)' = Leaving(p)
  BY SetsUnchanged DEF Inbound, Leaving, Allowed, Target
<1>4. Steering'
  <2>1. \A p \in Ports, a \in Address : filters[p][a] # Unset => Ruled(a, filters[p][a])'
    BY SetsUnchanged DEF FullInv, CardInv, Steering
  <2>2. \A p \in Ports, q \in QueueIds : rxq'[p][q] \in Seq(Queued(q)')
    BY SetsUnchanged
  <2>3. \A p \in Ports : input[p] \in Seq(Inbound(p)')
    BY <1>2 DEF FullInv, CardInv, Steering
  <2>4. \A q \in Ports : txq'[q] \in Seq(Leaving(q)') /\ wire[q] \in Seq(Leaving(q)')
    BY <1>2 DEF FullInv, CardInv, Steering
  <2> QED
    BY <2>1, <2>2, <2>3, <2>4 DEF Steering
<1> QED
  BY <1>1, <1>4 DEF CardInv, Silent

LEMMA ClockFull ==
  ASSUME FullInv, NEW l \in Slaves, Clock(l)
  PROVE  FullInv'
<1> USE SizesAssumption
<1>1. /\ launched /\ tx_queue_list[l] # <<>> /\ pc[l] = "clock"
      /\ UNCHANGED <<core, deal, lists, tables, card, j, burst>>
  BY DEF Clock, At
<1>2. UNCHANGED <<arrived, input, rxq, txq, wire>>
  BY <1>1 DEF card
<1>3. /\ SetUpInv' /\ ListInv' /\ DevInv' /\ OtherTypes' /\ Settled /\ Settled'
      /\ UNCHANGED <<tx_queue_list, filters>>
  BY <1>1, <1>2, LoopFrame
<1>4. CardInv'
  BY <1>2, <1>3, CardKept DEF FullInv, CardInv, CardTypes, Bounds, Steering
<1>5. NextQueue(l) \in 1 .. MaxTxQueue /\ NextQueue(l) <= Len(tx_queue_list[l])
  BY <1>1, AtQueue
<1>6. i[l] \in 1 .. MaxTxQueue /\ i \in [Slaves -> 1 .. MaxTxQueue]
      /\ pc \in [Slaves -> {"clock", "poll", "send"}]
      /\ elapsed \in [Slaves -> [1 .. MaxTxQueue -> 0 .. PollTsc + 1]]
      /\ burst[l] = <<>>
  BY <1>1 DEF FullInv, LoopInv
<1>7. PICK d \in 1 .. MaxTick :
        LET clock == [k \in 1 .. MaxTxQueue |-> Lesser(elapsed[l][k] + d, PollTsc + 1)]
        IN  IF clock[i[l]] > PollTsc
            THEN /\ elapsed' = [elapsed EXCEPT ![l] = PollNow(l, clock)]
                 /\ pc' = [pc EXCEPT ![l] = "poll"] /\ UNCHANGED i
            ELSE /\ elapsed' = [elapsed EXCEPT ![l] = clock]
                 /\ i' = [i EXCEPT ![l] = NextQueue(l)] /\ UNCHANGED pc
  BY DEF Clock
<1> DEFINE clock == [k \in 1 .. MaxTxQueue |-> Lesser(elapsed[l][k] + d, PollTsc + 1)]
<1>8. clock \in [1 .. MaxTxQueue -> 0 .. PollTsc + 1]
  <2> SUFFICES ASSUME NEW k \in 1 .. MaxTxQueue PROVE Lesser(elapsed[l][k] + d, PollTsc + 1) \in 0 .. PollTsc + 1
    OBVIOUS
  <2>1. elapsed[l][k] \in 0 .. PollTsc + 1
    BY <1>6
  <2> QED
    BY <2>1 DEF Lesser
<1>9. PollNow(l, clock) \in [1 .. MaxTxQueue -> 0 .. PollTsc + 1]
  <2> HIDE DEF clock
  <2> QED
    BY <1>6, <1>8 DEF PollNow
<1>10. \/ /\ elapsed' = [elapsed EXCEPT ![l] = PollNow(l, clock)]
          /\ pc' = [pc EXCEPT ![l] = "poll"] /\ UNCHANGED i
       \/ /\ elapsed' = [elapsed EXCEPT ![l] = clock]
          /\ i' = [i EXCEPT ![l] = NextQueue(l)] /\ UNCHANGED pc
  BY <1>7
<1> HIDE DEF clock, NextQueue, PollNow
<1>11. /\ pc' \in [Slaves -> {"clock", "poll", "send"}] /\ i' \in [Slaves -> 1 .. MaxTxQueue]
       /\ elapsed' \in [Slaves -> [1 .. MaxTxQueue -> 0 .. PollTsc + 1]]
       /\ \A k \in Slaves : pc'[k] # "send" => burst[k] = <<>>
       /\ \A k \in Slaves : i'[k] = 1 \/ i'[k] <= Len(tx_queue_list[k])
       /\ \A k \in Slaves : k # l => i'[k] = i[k]
  <2>1. elapsed' \in [Slaves -> [1 .. MaxTxQueue -> 0 .. PollTsc + 1]]
    BY <1>6, <1>8, <1>9, <1>10
  <2>2. /\ pc' \in [Slaves -> {"clock", "poll", "send"}] /\ i' \in [Slaves -> 1 .. MaxTxQueue]
        /\ \A k \in Slaves : k # l => i'[k] = i[k] /\ pc'[k] = pc[k]
        /\ i'[l] = i[l] \/ i'[l] <= Len(tx_queue_list[l])
    BY <1>5, <1>6, <1>10
  <2>3. \A k \in Slaves : i'[k] = 1 \/ i'[k] <= Len(tx_queue_list[k])
    BY <2>2 DEF FullInv, LoopInv
  <2>4. \A k \in Slaves : pc'[k] # "send" => burst[k] = <<>>
    BY <1>6, <2>2 DEF FullInv, LoopInv
  <2> QED
    BY <2>1, <2>2, <2>3, <2>4
<1>12. \A k \in Slaves : burst[k] # <<>> => burst[k] \in Seq(Queued(Cur(k).rx_queue_id)')
  <2> SUFFICES ASSUME NEW k \in Slaves, burst[k] # <<>> PROVE burst[k] \in Seq(Queued(Cur(k).rx_queue_id)')
    OBVIOUS
  <2>1. k # l
    BY <1>6
  <2>2. Cur(k)' = Cur(k)
    BY <1>3, <1>11, <2>1 DEF Cur
  <2> QED
    BY <1>3, <2>2, SetsUnchanged DEF FullInv, LoopInv
<1>13. LoopInv'
  BY <1>1, <1>3, <1>11, <1>12 DEF FullInv, LoopInv
<1> QED
  BY <1>3, <1>4, <1>13 DEF FullInv

\* The bursts of the other lcores stay what they were.
LEMMA LoopKept ==
  ASSUME FullInv, NEW l \in Slaves, UNCHANGED tx_queue_list,
         pc' \in [Slaves -> {"clock", "poll", "send"}], j' \in [Slaves -> Ports],
         i' \in [Slaves -> 1 .. MaxTxQueue], i'[l] = 1 \/ i'[l] <= Len(tx_queue_list[l]),
         \A k \in Slaves : k # l => pc'[k] = pc[k] /\ i'[k] = i[k] /\ burst'[k] = burst[k],
         elapsed' \in [Slaves -> [1 .. MaxTxQueue -> 0 .. PollTsc + 1]],
         burst' \in [Slaves -> Seq(Packet)],
         pc'[l] # "send" => burst'[l] = <<>>,
         burst'[l] # <<>> => i'[l] = i[l] /\ burst'[l] \in Seq(Queued(Cur(l).rx_queue_id))
  PROVE  LoopInv'
<1>1. \A k \in Slaves : i'[k] = 1 \/ i'[k] <= Len(tx_queue_list'[k])
  BY DEF FullInv, LoopInv
<1>2. \A k \in Slaves : pc'[k] # "send" => burst'[k] = <<>>
  BY DEF FullInv, LoopInv
<1>3. \A k \in Slaves : burst'[k] # <<>> => burst'[k] \in Seq(Queued(Cur(k).rx_queue_id)')
  <2> SUFFICES ASSUME NEW k \in Slaves, burst'[k] # <<>>
               PROVE  burst'[k] \in Seq(Queued(Cur(k).rx_queue_id)')
    OBVIOUS
  <2>1. i'[k] = i[k] /\ burst'[k] \in Seq(Queued(Cur(k).rx_queue_id))
    BY DEF FullInv, LoopInv
  <2>2. Cur(k)' = Cur(k)
    BY <2>1 DEF Cur
  <2> QED
    BY <2>1, <2>2, SetsUnchanged
<1> QED
  BY <1>1, <1>2, <1>3 DEF LoopInv

LEMMA PollFull ==
  ASSUME FullInv, NEW l \in Slaves, Poll(l)
  PROVE  FullInv'
<1> USE SizesAssumption
<1> DEFINE q == Cur(l).rx_queue_id
           s == rxq[j[l]][q]
           n == Lesser(Len(s), MaxBurst)
<1>1. /\ launched /\ tx_queue_list[l] # <<>> /\ pc[l] = "poll"
      /\ UNCHANGED <<core, deal, lists, tables, arrived, input, txq, wire>>
  BY DEF Poll, At
<1>2. /\ SetUpInv' /\ ListInv' /\ DevInv' /\ OtherTypes' /\ Settled /\ Settled'
      /\ UNCHANGED <<tx_queue_list, filters>>
  BY <1>1, LoopFrame
<1>3. q \in Ports /\ q \in QueueIds
  BY <1>1, <1>2, AtQueue, IdsAreQueues DEF FullInv, QueueIds
<1>4. /\ burst' = [burst EXCEPT ![l] = First(s, n)] /\ rxq' = [rxq EXCEPT ![j[l]][q] = From(@, n)]
      /\ elapsed' = IF n = MaxBurst THEN [elapsed EXCEPT ![l][i[l]] = PollTsc + 1] ELSE elapsed
      /\ IF n = 0 THEN NextPort(l) ELSE pc' = [pc EXCEPT ![l] = "send"] /\ UNCHANGED <<i, j>>
  BY DEF Poll
<1> HIDE DEF q
<1>5. /\ pc \in [Slaves -> {"clock", "poll", "send"}] /\ j \in [Slaves -> Ports]
      /\ i \in [Slaves -> 1 .. MaxTxQueue] /\ (i[l] = 1 \/ i[l] <= Len(tx_queue_list[l]))
      /\ elapsed \in [Slaves -> [1 .. MaxTxQueue -> 0 .. PollTsc + 1]]
      /\ burst \in [Slaves -> Seq(Packet)]
  BY DEF FullInv, LoopInv
<1>6. /\ s \in Seq(Queued(q)) /\ s \in Seq(Packet) /\ Len(s) \in Nat
      /\ rxq \in [Ports -> [QueueIds -> Seq(Packet)]]
  BY <1>3, <1>5 DEF FullInv, CardInv, CardTypes, Steering
<1> HIDE DEF s
<1>7. n \in 0 .. Len(s)
  BY <1>6 DEF Lesser
<1> HIDE DEF n
<1>8. /\ First(s, n) \in Seq(Queued(q)) /\ First(s, n) \in Seq(Packet) /\ Len(First(s, n)) = n
      /\ From(s, n) \in Seq(Queued(q)) /\ From(s, n) \in Seq(Packet) /\ Len(From(s, n)) = Len(s) - n
  BY <1>6, <1>7, CutIn
<1>9. n = 0 => First(s, n) = <<>>
  <2> DEFINE f == First(s, n)
  <2>1. f \in Seq(Packet) /\ Len(f) = n
    BY <1>8
  <2> HIDE DEF f
  <2>2. n = 0 => f = <<>>
    BY <2>1
  <2> QED
    BY <2>2 DEF f
<1>10. /\ rxq' \in [Ports -> [QueueIds -> Seq(Packet)]] /\ rxq'[j[l]][q] = From(s, n)
       /\ \A p \in Ports, k \in QueueIds : <<p, k>> # <<j[l], q>> => rxq'[p][k] = rxq[p][k]
  <2> HIDE DEF First, From
  <2>1. rxq' = [rxq EXCEPT ![j[l]][q] = From(s, n)]
    BY <1>4 DEF s
  <2>2. j[l] \in Ports
    BY <1>5
  <2> QED
    BY <1>3, <1>6, <1>8, <2>1, <2>2
<1>11. CardInv'
  <2>1. \A p \in Ports, k \in QueueIds : rxq'[p][k] \in Seq(Queued(k))
    BY <1>8, <1>10 DEF FullInv, CardInv, Steering
  <2>2. \A p, k \in Ports : Len(rxq'[p][k]) <= RxRing
    <3> SUFFICES ASSUME NEW p \in Ports, NEW k \in Ports PROVE Len(rxq'[p][k]) <= RxRing
      OBVIOUS
    <3>1. CASE <<p, k>> = <<j[l], q>>
      <4>1. Len(s) <= RxRing
        BY <1>3, <1>5 DEF FullInv, CardInv, Bounds, s
      <4>2. rxq'[p][k] = From(s, n)
        BY <1>10, <3>1
      <4> QED
        BY <1>6, <1>7, <1>8, <4>1, <4>2
    <3>2. CASE <<p, k>> # <<j[l], q>>
      BY <1>10, <3>2 DEF FullInv, CardInv, Bounds, QueueIds
    <3> QED
      BY <3>1, <3>2
  <2>3. txq' \in [Ports -> Seq(Packet)] /\ \A p \in Ports : txq'[p] \in Seq(Leaving(p)) /\ Len(txq'[p]) <= TxRing
    BY <1>1 DEF FullInv, CardInv, CardTypes, Bounds, Steering
  <2> QED
    BY <1>1, <1>2, <1>10, <2>1, <2>2, <2>3, CardKept
<1>12. elapsed' \in [Slaves -> [1 .. MaxTxQueue -> 0 .. PollTsc + 1]]
  <2>1. PollTsc + 1 \in 0 .. PollTsc + 1 /\ i[l] \in 1 .. MaxTxQueue
    BY <1>5
  <2> QED
    BY <1>4, <1>5, <2>1
<1>13. /\ burst' \in [Slaves -> Seq(Packet)] /\ burst'[l] = First(s, n)
       /\ \A k \in Slaves : k # l => burst'[k] = burst[k]
  <2> HIDE DEF First
  <2> QED
    BY <1>4, <1>5, <1>8
<1>14. LoopInv'
  <2>1. CASE n = 0
    <3>1. NextPort(l)
      BY <1>4, <2>1
    <3> QED
      BY <1>1, <1>2, <1>9, <1>12, <1>13, <2>1, <3>1, OnTo, LoopKept
  <2>2. CASE n # 0
    <3>1. pc' = [pc EXCEPT ![l] = "send"] /\ i' = i /\ j' = j
      BY <1>4, <2>2
    <3>2. pc' \in [Slaves -> {"clock", "poll", "send"}] /\ pc'[l] = "send" /\ \A k \in Slaves : k # l => pc'[k] = pc[k]
      BY <1>5, <3>1
    <3>3. burst'[l] \in Seq(Queued(Cur(l).rx_queue_id))
      BY <1>8, <1>13 DEF q
    <3> QED
      BY <1>2, <1>5, <1>12, <1>13, <3>1, <3>2, <3>3, LoopKept
  <2> QED
    BY <2>1, <2>2
<1> QED
  BY <1>2, <1>11, <1>14 DEF FullInv

LEMMA TxBurstFull ==
  ASSUME FullInv, NEW l \in Slaves, TxBurst(l)
  PROVE  FullInv'
<1> USE SizesAssumption
<1> DEFINE p == Cur(l).port_id
           id == Cur(l).rx_queue_id
           b == burst[l]
           s == txq[p]
<1>1. /\ launched /\ tx_queue_list[l] # <<>> /\ pc[l] = "send"
      /\ UNCHANGED <<core, deal, lists, tables, arrived, input, rxq, wire, elapsed>>
  BY DEF TxBurst, At
<1>2. /\ SetUpInv' /\ ListInv' /\ DevInv' /\ OtherTypes' /\ Settled /\ Settled'
      /\ UNCHANGED <<tx_queue_list, filters>>
  BY <1>1, LoopFrame
<1>3. p \in Ports /\ Queued(id) \subseteq Leaving(p)
  <2>1. <<l, i[l]>> \in TxQueues /\ Cur(l) = TxQueue(<<l, i[l]>>)
    BY <1>1, AtQueue
  <2>2. p \in Ports
    BY <2>1, QueueTypes DEF FullInv
  <2>3. \A m \in Queued(id) : m \in Leaving(p)
    BY <1>2, <2>1, ReadForItsPort DEF FullInv
  <2> QED
    BY <2>2, <2>3
<1>4. PICK n \in 1 .. Lesser(Len(b), TxRing - Len(s)) :
        /\ txq' = [txq EXCEPT ![p] = @ \o First(b, n)]
        /\ IF SentAll(n, Len(b))
           THEN burst' = [burst EXCEPT ![l] = <<>>] /\ NextPort(l)
           ELSE burst' = [burst EXCEPT ![l] = From(@, n)] /\ UNCHANGED <<pc, i, j>>
  BY DEF TxBurst
<1>5. /\ pc \in [Slaves -> {"clock", "poll", "send"}] /\ j \in [Slaves -> Ports]
      /\ i \in [Slaves -> 1 .. MaxTxQueue] /\ (i[l] = 1 \/ i[l] <= Len(tx_queue_list[l]))
      /\ elapsed \in [Slaves -> [1 .. MaxTxQueue -> 0 .. PollTsc + 1]]
      /\ burst \in [Slaves -> Seq(Packet)]
  BY DEF FullInv, LoopInv
<1> HIDE DEF p, id
<1>6. /\ s \in Seq(Leaving(p)) /\ s \in Seq(Packet) /\ Len(s) \in Nat /\ txq \in [Ports -> Seq(Packet)]
      /\ b \in Seq(Packet) /\ Len(b) \in Nat
  BY <1>3, <1>5 DEF FullInv, CardInv, CardTypes, Steering
<1>7. b # <<>> => b \in Seq(Queued(id))
  BY DEF FullInv, LoopInv, id
<1> HIDE DEF b, s
<1>8. n \in 0 .. Len(b) /\ n <= TxRing - Len(s) /\ Len(b) > 0
  BY <1>6 DEF Lesser
<1>9. b \in Seq(Queued(id))
  <2>1. b # <<>>
    BY <1>8
  <2> QED
    BY <1>7, <2>1
<1>10. /\ First(b, n) \in Seq(Queued(id)) /\ First(b, n) \in Seq(Packet) /\ Len(First(b, n)) = n
       /\ From(b, n) \in Seq(Queued(id)) /\ From(b, n) \in Seq(Packet)
  BY <1>6, <1>8, <1>9, CutIn
<1>11. First(b, n) \in Seq(Leaving(p))
  BY <1>3, <1>10, SeqSubset
<1> HIDE DEF First, From
<1>12. /\ s \o First(b, n) \in Seq(Leaving(p)) /\ s \o First(b, n) \in Seq(Packet)
       /\ Len(s \o First(b, n)) = Len(s) + n
  BY <1>6, <1>10, <1>11, ConcatIn
<1>13. /\ txq' \in [Ports -> Seq(Packet)] /\ txq'[p] = s \o First(b, n)
       /\ \A r \in Ports : r # p => txq'[r] = txq[r]
  <2>1. txq' = [txq EXCEPT ![p] = s \o First(b, n)]
    BY <1>4 DEF s
  <2> QED
    BY <1>3, <1>6, <1>12, <2>1
<1>14. CardInv'
  <2>1. \A r \in Ports : txq'[r] \in Seq(Leaving(r)) /\ Len(txq'[r]) <= TxRing
    <3> SUFFICES ASSUME NEW r \in Ports PROVE txq'[r] \in Seq(Leaving(r)) /\ Len(txq'[r]) <= TxRing
      OBVIOUS
    <3>1. CASE r = p
      <4>1. Len(s) + n <= TxRing
        BY <1>6, <1>8
      <4> QED
        BY <1>12, <1>13, <3>1, <4>1
    <3>2. CASE r # p
      BY <1>13, <3>2 DEF FullInv, CardInv, Bounds, Steering
    <3> QED
      BY <3>1, <3>2
  <2>2. /\ rxq' \in [Ports -> [QueueIds -> Seq(Packet)]]
        /\ \A r \in Ports, k \in QueueIds : rxq'[r][k] \in Seq(Queued(k))
        /\ \A r, k \in Ports : Len(rxq'[r][k]) <= RxRing
    BY <1>1 DEF FullInv, CardInv, CardTypes, Bounds, Steering
  <2> QED
    BY <1>1, <1>2, <1>13, <2>1, <2>2, CardKept
<1>15. LoopInv'
  <2>1. CASE SentAll(n, Len(b))
    <3>1. NextPort(l) /\ burst' = [burst EXCEPT ![l] = <<>>]
      BY <1>4, <2>1 DEF b
    <3>2. /\ burst' \in [Slaves -> Seq(Packet)] /\ burst'[l] = <<>>
          /\ \A k \in Slaves : k # l => burst'[k] = burst[k]
      <4>1. <<>> \in Seq(Packet)
        OBVIOUS
      <4> HIDE DEF Packet
      <4> QED
        BY <1>5, <3>1, <4>1
    <3> QED
      BY <1>1, <1>2, <1>5, <3>1, <3>2, OnTo, LoopKept
  <2>2. CASE ~SentAll(n, Len(b))
    <3>1. burst' = [burst EXCEPT ![l] = From(b, n)] /\ pc' = pc /\ i' = i /\ j' = j
      BY <1>4, <2>2 DEF b
    <3>2. /\ burst' \in [Slaves -> Seq(Packet)] /\ burst'[l] = From(b, n)
          /\ \A k \in Slaves : k # l => burst'[k] = burst[k]
      BY <1>5, <1>10, <3>1
    <3>3. burst'[l] \in Seq(Queued(Cur(l).rx_queue_id))
      BY <1>10, <3>2 DEF id
    <3> QED
      BY <1>1, <1>2, <1>5, <3>1, <3>2, <3>3, LoopKept
  <2> QED
    BY <2>1, <2>2
<1> QED
  BY <1>2, <1>14, <1>15 DEF FullInv
-----------------------------------------------------------------------------
(* The invariant and what follows from it. *)

LEMMA InitFull == Init => FullInv
<1> USE SizesAssumption, NbPortsAssumption
<1> SUFFICES ASSUME Init PROVE FullInv
  OBVIOUS
<1>1. SetUpInv
  BY InitSetUp
<1>2. ListInv
  BY DEF Init, CoreInit, ListInv, Ports, initialized
<1>3. DevInv
  BY DEF Init, CoreInit, DevInv
<1>4. ~Settled
  BY DEF Init, Settled
<1>5. \A S : <<>> \in Seq(S)
  OBVIOUS
<1>6. CardTypes /\ Bounds
  BY <1>5 DEF Init, CardTypes, Bounds, QueueIds
<1>7. Steering
  BY <1>5 DEF Init, Steering
<1>8. Silent
  BY DEF Init, Silent
<1>9. LoopInv
  <2>1. 0 \in Ports /\ PollTsc + 1 \in 0 .. PollTsc + 1 /\ 1 \in 1 .. MaxTxQueue
    BY DEF Ports
  <2>2. <<>> \in Seq(Packet)
    BY <1>5
  <2> QED
    BY <2>1, <2>2 DEF Init, LoopInv
<1>10. OtherTypes
  BY RulesAssumption DEF Init, OtherTypes
<1> QED
  BY <1>1, <1>2, <1>3, <1>6, <1>7, <1>8, <1>9, <1>10 DEF FullInv, CardInv

LEMMA FullInductive == FullInv /\ [Next]_vars => FullInv'
<1> SUFFICES ASSUME FullInv, [Next]_vars PROVE FullInv'
  OBVIOUS
<1>1. CASE Core
  BY <1>1, CoreFull
<1>2. CASE DealPort \/ SetNbQueues \/ LcoresConfigured
  BY <1>2, SetUpFull
<1>3. CASE AddTxQueue
  BY <1>3, ListFull
<1>4. CASE ConfigureLcore
  BY <1>4, ConfigureFull
<1>5. CASE AddFilter
  BY <1>5, FilterFull
<1>6. CASE TablesInstalled
  BY <1>6, TablesFull
<1>7. ASSUME NEW p \in Ports, Arrive(p) \/ Steer(p) \/ Transmit(p) PROVE FullInv'
  BY <1>7, ArriveFull, SteerFull, TransmitFull
<1>8. ASSUME NEW l \in Slaves, MainLoop(l) PROVE FullInv'
  BY <1>8, ClockFull, PollFull, TxBurstFull DEF MainLoop
<1>9. CASE UNCHANGED vars
  <2>1. UNCHANGED <<master, portid, port_conf, dev, deal, lists, tables, card, loop, machine, numa_ok, rule, arrived, input>>
    BY <1>9 DEF vars, core, deal, tables, card
  <2>2. UNCHANGED tx_queue_list
    BY <2>1 DEF lists
  <2>3. SetUpInv' /\ ListInv' /\ (Settled' = Settled)
    BY <2>1, StartUnchanged
  <2>4. CardInv' /\ LoopInv'
    BY <2>1, <2>2, <2>3, CardUnchanged
  <2> QED
    BY <2>1, <2>3, <2>4 DEF FullInv, DevInv, OtherTypes
<1> QED
  BY <1>1, <1>2, <1>3, <1>4, <1>5, <1>6, <1>7, <1>8, <1>9 DEF Next, Master, Exited

LEMMA FullAlways == Spec => []FullInv
<1> QED
  BY InitFull, FullInductive, PTL DEF Spec

\* Every variable has its type; no list of tx queues is longer than its array
\* and no rx or tx queue of the card holds more than its descriptors, for any
\* number of ports and lcores (dp_voq_hwq.c).
THEOREM TypesHold == Spec => []TypeOK
<1>1. FullInv => TypeOK
  <2> SUFFICES ASSUME FullInv PROVE TypeOK
    OBVIOUS
  <2>1. CoreTypeOK
    BY DEF FullInv, SetUpInv, SetUpTypes, PortsAreSet, CoreTypeOK
  <2>2. filters \in [Ports -> [Address -> Nat \cup {Unset}]]
    <3>1. QueueIds \subseteq Nat
      BY NbPortsAssumption DEF QueueIds, Ports, NoQueue
    <3>2. filters \in [Ports -> [Address -> QueueIds \cup {Unset}]]
      BY DEF FullInv, CardInv, CardTypes
    <3> QED
      BY <3>1, <3>2
  <2> QED
    BY <2>1, <2>2 DEF TypeOK, FullInv, SetUpInv, SetUpTypes, CardInv, CardTypes, Bounds, LoopInv, OtherTypes
<1> QED
  BY <1>1, FullAlways, PTL

\* A packet waits only where it is read for a port of its rule, or for the
\* reader of queue 0 when it came in before its filter, and leaves by such a
\* port: dp_configure, the filters and get_rxqueues_id agree on the ids.
THEOREM PacketsLeaveByTheirPort == Spec => []LeavesByItsPort
<1>1. FullInv => LeavesByItsPort
  <2> SUFFICES ASSUME FullInv PROVE LeavesByItsPort
    OBVIOUS
  <2>1. ASSUME launched, NEW t \in TxQueues, NEW p \in Ports, NEW x \in DOMAIN rxq[p][TxQueue(t).rx_queue_id]
        PROVE  TxQueue(t).port_id \in Allowed(rxq[p][TxQueue(t).rx_queue_id][x])
    <3> DEFINE id == TxQueue(t).rx_queue_id
               s == rxq[p][id]
    <3>1. Settled
      BY <2>1, LaunchedSettled
    <3>2. id \in QueueIds
      BY <3>1, IdsAreQueues DEF FullInv, QueueIds
    <3>3. s \in Seq(Queued(id))
      BY <3>2 DEF FullInv, CardInv, Steering
    <3> HIDE DEF id, s
    <3>4. s[x] \in Queued(id)
      BY <2>1, <3>3 DEF s, id
    <3>5. s[x] \in Leaving(TxQueue(t).port_id)
      BY <3>1, <3>4, ReadForItsPort DEF FullInv, id
    <3> QED
      BY <3>5 DEF Leaving, s, id
  <2>2. ASSUME NEW q \in Ports, NEW x \in DOMAIN wire[q] PROVE q \in Allowed(wire[q][x])
    <3>1. wire[q] \in Seq(Leaving(q))
      BY DEF FullInv, CardInv, Steering
    <3>2. wire[q][x] \in Leaving(q)
      BY <2>2, <3>1
    <3> QED
      BY <3>2 DEF Leaving
  <2> QED
    BY <2>1, <2>2 DEF LeavesByItsPort
<1> QED
  BY <1>1, FullAlways, PTL
-----------------------------------------------------------------------------
(* The refinement: which rx queue is read for which port. *)

\* A packet is where its input port has it, and ids are those of rx queues.
OwnPackets ==
  /\ \A p \in Ports : CameIn(input[p], p)
  /\ \A p \in Ports : \A q \in QueueIds : CameIn(rxq[p][q], p)
IdsOfPorts == \A t \in TxQueues : TxQueue(t).rx_queue_id \in Ports
SwitchInv == FullInv /\ OwnPackets /\ IdsOfPorts

\* One tx queue sends to each port; get_rxqueues_id gives its rx queue.
LEMMA PortIsRead ==
  ASSUME SetUpInv, ListInv, Settled, NEW q \in Ports
  PROVE  /\ Reader(q) \in TxQueues /\ TxQueue(Reader(q)).port_id = q
         /\ \A t \in TxQueues : TxQueue(t).port_id = q => t = Reader(q)
         /\ RxQueueId(q) = TxQueue(Reader(q)).rx_queue_id /\ RxQueueId(q) \in Ports
<1> DEFINE found == {t \in TxQueues : TxQueue(t).port_id = q}
           r == CHOOSE t \in found : TRUE
<1>1. \E t \in TxQueues : TxQueue(t).port_id = q
  BY NbPortsAssumption DEF ListInv, Settled, Ports
<1>2. Reader(q) \in TxQueues /\ TxQueue(Reader(q)).port_id = q
  BY <1>1 DEF Reader
<1>3. \A t \in TxQueues : TxQueue(t).port_id = q => t = Reader(q)
  BY <1>2 DEF SetUpInv, PortsOnce, PortsDistinct
<1>4. r \in TxQueues /\ TxQueue(r).port_id = q
  <2>1. \E t : t \in found
    BY <1>1
  <2>2. r \in found
    BY <2>1
  <2> QED
    BY <2>2
<1>5. RxQueueId(q) = TxQueue(r).rx_queue_id
  <2>1. found # {}
    BY <1>1
  <2> QED
    BY <2>1 DEF RxQueueId
<1> HIDE DEF r
<1>6. r = Reader(q)
  BY <1>3, <1>4
<1> QED
  BY <1>2, <1>3, <1>5, <1>6, IdsAreQueues

\* A port that the switch does not have is not read.
LEMMA OthersNotRead ==
  ASSUME SetUpInv, NEW q, q \notin Ports
  PROVE  RxQueueId(q) = NoQueue
<1>1. {t \in TxQueues : TxQueue(t).port_id = q} = {}
  BY QueueTypes
<1> QED
  BY <1>1 DEF RxQueueId

\* Two outputs have two rx queues.
LEMMA IdsApart ==
  ASSUME SetUpInv, ListInv, Settled, NEW q \in Outputs, NEW o \in Outputs, RxQueueId(q) = RxQueueId(o)
  PROVE  q = o
<1>1. Nowhere = NoQueue /\ NoQueue \notin Ports /\ Outputs = Ports \cup {Nowhere}
  BY PortIdsAssumption DEF Nowhere, Outputs
<1>2. RxQueueId(Nowhere) = NoQueue
  BY <1>1, OthersNotRead
<1>3. \A e \in Ports : RxQueueId(e) \in Ports
  BY PortIsRead
<1>4. CASE q \in Ports /\ o \in Ports
  <2>1. Reader(o) \in TxQueues /\ TxQueue(Reader(o)).port_id = o /\ TxQueue(Reader(o)).rx_queue_id = RxQueueId(o)
    BY <1>4, PortIsRead
  <2>2. \A t \in TxQueues : TxQueue(t).rx_queue_id = RxQueueId(q) => TxQueue(t).port_id = q
    BY FoundQueue
  <2> QED
    BY <2>1, <2>2
<1> QED
  BY <1>1, <1>2, <1>3, <1>4

\* What waits in an rx queue is for the output that reads it.
LEMMA Readable ==
  ASSUME SetUpInv, ListInv, Settled, NEW id, NEW m \in Queued(id)
  PROVE  \E o \in Outputs : RxQueueId(o) = id /\ o \in Allowed(m)
<1>1. m \in Packet /\ m.miss = ReadsDefault
  BY DEF Queued
<1>2. CASE ~m.hit /\ id = 0
  <2>1. PICK t \in TxQueues : TxQueue(t).rx_queue_id = 0
    <3>1. 0 \in Ports
      BY NbPortsAssumption DEF Ports
    <3>2. Reader(0) \in TxQueues
      BY <3>1, PortIsRead
    <3>3. rxqueueid \in Nat /\ 0 < rxqueueid
      <4>1. TxQueue(Reader(0)).rx_queue_id < rxqueueid /\ TxQueue(Reader(0)).rx_queue_id \in Nat
        BY <3>2, AllInConfigured, QueueTypes DEF SetUpInv, IdsOnce, IdsBelow, Settled
      <4> QED
        BY <4>1 DEF SetUpInv, SetUpTypes
    <3> QED
      BY <3>3, AllInConfigured DEF SetUpInv, IdsOnce, IdsUsed, Settled
  <2>2. TxQueue(t).port_id = ReadsDefault /\ ReadsDefault \in Ports
    BY <2>1, DefaultReader
  <2>3. t = Reader(ReadsDefault) /\ RxQueueId(ReadsDefault) = 0
    BY <2>1, <2>2, PortIsRead
  <2>4. ReadsDefault \in Allowed(m)
    BY <1>1, <1>2 DEF Allowed
  <2> QED
    BY <1>2, <2>2, <2>3, <2>4 DEF Outputs
<1>3. CASE Ruled(m.ip, id)
  <2>1. PICK k \in DOMAIN Rules : Rules[k].ip = m.ip /\ id = RxQueueId(Rules[k].port)
    BY <1>3 DEF Ruled
  <2>2. CASE Rules[k].port \in Ports
    <3>1. Rules[k].port \in Allowed(m)
      BY <2>1, <2>2 DEF Allowed, Target
    <3> QED
      BY <2>1, <2>2, <3>1 DEF Outputs
  <2>3. CASE Rules[k].port \notin Ports
    <3>1. Nowhere \in Allowed(m)
      BY <2>1, <2>3 DEF Allowed, Target
    <3>2. RxQueueId(Nowhere) = NoQueue /\ id = NoQueue
      BY <2>1, <2>3, OthersNotRead, PortIdsAssumption DEF Nowhere
    <3> QED
      BY <3>1, <3>2 DEF Outputs
  <2> QED
    BY <2>2, <2>3
<1> QED
  BY <1>2, <1>3 DEF Queued
-----------------------------------------------------------------------------
(* The line of a pair of ports. *)

\* What waits in tx queue t, in burst h and in rx queue r of port p.
Waiting(t, h, r, p) == Cat(OfPort(Cat(t, h), p), r)

LEMMA PendingAt ==
  ASSUME SetUpInv, ListInv, Settled, NEW p, NEW q \in Ports, NEW t, t = Reader(q), NEW id, id = RxQueueId(q)
  PROVE  Pending(p, q) = Waiting(txq[q], Held(t), rxq[p][id], p)
BY PortIsRead, PortIdsAssumption DEF Pending, Waiting, Cat

LEMMA PendingNowhere ==
  ASSUME SetUpInv, NEW p
  PROVE  Pending(p, Nowhere) = rxq[p][NoQueue]
BY OthersNotRead, PortIdsAssumption DEF Pending, Nowhere

\* The lists stay as they are: so do readers and ids.
LEMMA ReadersUnchanged ==
  ASSUME UNCHANGED tx_queue_list
  PROVE  \A q : Reader(q)' = Reader(q)
BY SetsUnchanged DEF Reader

LEMMA PendingAtNext ==
  ASSUME SetUpInv, ListInv, Settled, UNCHANGED tx_queue_list, NEW p, NEW q \in Ports, NEW t, t = Reader(q),
         NEW id, id = RxQueueId(q)
  PROVE  Pending(p, q)' = Waiting(txq'[q], Held(t)', rxq'[p][id], p)
<1>1. RxQueueId(q)' = id /\ Reader(q)' = t /\ id # NoQueue
  BY SetsUnchanged, ReadersUnchanged, PortIsRead, PortIdsAssumption
<1> QED
  BY <1>1 DEF Pending, Waiting, Cat

LEMMA PendingNowhereNext ==
  ASSUME SetUpInv, UNCHANGED tx_queue_list, NEW p
  PROVE  Pending(p, Nowhere)' = rxq'[p][NoQueue]
<1>1. RxQueueId(Nowhere)' = RxQueueId(Nowhere) /\ RxQueueId(Nowhere) = NoQueue
  BY SetsUnchanged, OthersNotRead, PortIdsAssumption DEF Nowhere
<1> QED
  BY <1>1 DEF Pending

\* A packet is put behind its line.
LEMMA WaitingMore ==
  ASSUME NEW S, NEW t \in Seq(S), NEW h \in Seq(S), NEW r \in Seq(S), NEW m \in S, NEW p
  PROVE  Waiting(t, h, Behind(r, m), p) = Behind(Waiting(t, h, r, p), m)
<1> DEFINE a == OfPort(Cat(t, h), p)
<1>1. a \in Seq(S)
  BY CatTyped, OfPortTyped
<1> HIDE DEF a
<1>2. Cat(a, Behind(r, m)) = Behind(Cat(a, r), m)
  BY <1>1 DEF Cat, Behind
<1> QED
  BY <1>2 DEF Waiting, a

\* The first packet of the tx queue goes.
LEMMA WaitingLess ==
  ASSUME NEW S, NEW t \in Seq(S), t # <<>>, NEW h \in Seq(S), NEW r \in Seq(S), NEW p
  PROVE  /\ Head(t).in = p => /\ Waiting(t, h, r, p) # <<>> /\ Head(Waiting(t, h, r, p)) = Head(t)
                              /\ Waiting(Tail(t), h, r, p) = Tail(Waiting(t, h, r, p))
         /\ Head(t).in # p => Waiting(Tail(t), h, r, p) = Waiting(t, h, r, p)
<1> DEFINE s == Cat(t, h)
           a == OfPort(s, p)
<1>1. s \in Seq(S) /\ s # <<>> /\ Head(s) = Head(t) /\ Tail(s) = Cat(Tail(t), h)
  BY DEF Cat
<1> HIDE DEF s
<1>2. a \in Seq(S)
  BY <1>1, OfPortTyped
<1>3. /\ Head(t).in = p => a # <<>> /\ Head(a) = Head(t) /\ OfPort(Tail(s), p) = Tail(a)
      /\ Head(t).in # p => OfPort(Tail(s), p) = a
  BY <1>1, OfPortOfTail
<1> HIDE DEF a
<1>4. a # <<>> => Cat(a, r) # <<>> /\ Head(Cat(a, r)) = Head(a) /\ Tail(Cat(a, r)) = Cat(Tail(a), r)
  BY <1>2 DEF Cat
<1>5. Waiting(t, h, r, p) = Cat(a, r) /\ Waiting(Tail(t), h, r, p) = Cat(OfPort(Tail(s), p), r)
  BY <1>1 DEF Waiting, a, s
<1> QED
  BY <1>3, <1>4, <1>5

\* A burst f of port o is read, g stays in the rx queue.
LEMMA WaitingRead ==
  ASSUME NEW S, NEW t \in Seq(S), NEW f \in Seq(S), NEW g \in Seq(S), NEW r \in Seq(S), NEW o, CameIn(f, o), NEW p
  PROVE  /\ p = o => Waiting(t, f, g, p) = Waiting(t, <<>>, Cat(f, g), p)
         /\ p # o => Waiting(t, f, r, p) = Waiting(t, <<>>, r, p)
<1> DEFINE a == OfPort(t, p)
<1>1. a \in Seq(S)
  BY OfPortTyped
<1>2. OfPort(Cat(t, f), p) = Cat(a, OfPort(f, p)) /\ Cat(t, <<>>) = t
  BY OfPortOfBoth, CatEmpty DEF Cat
<1>3. p = o => OfPort(f, p) = f
  BY OfPortOfOwn
<1>4. p # o => OfPort(f, p) = <<>>
  BY OfPortOfOthers DEF CameIn
<1> HIDE DEF a
<1>5. Cat(Cat(a, f), g) = Cat(a, Cat(f, g)) /\ Cat(a, <<>>) = a
  BY <1>1, CatAssociative, CatEmpty
<1> QED
  BY <1>2, <1>3, <1>4, <1>5 DEF Waiting, a

\* Part of a burst is sent.
LEMMA WaitingSent ==
  ASSUME NEW S, NEW t \in Seq(S), NEW f \in Seq(S), NEW g \in Seq(S), NEW r, NEW p
  PROVE  Waiting(Cat(t, f), g, r, p) = Waiting(t, Cat(f, g), r, p)
BY CatAssociative DEF Waiting

\* A sequence that is cut in two.
LEMMA CutParts ==
  ASSUME NEW S, NEW s \in Seq(S), NEW k \in 0 .. Len(s)
  PROVE  /\ Cat(First(s, k), From(s, k)) = s
         /\ \A p : CameIn(s, p) => CameIn(First(s, k), p) /\ CameIn(From(s, k), p)
<1>1. /\ First(s, k) \in Seq(S) /\ Len(First(s, k)) = k
      /\ From(s, k) \in Seq(S) /\ Len(From(s, k)) = Len(s) - k
  BY CutIn
<1>2. \A x \in 1 .. k : First(s, k)[x] = s[x]
  BY DEF First
<1>3. \A x \in 1 .. Len(s) - k : From(s, k)[x] = s[k + x]
  BY DEF From
<1> DEFINE f == First(s, k)
           g == From(s, k)
<1>4. Cat(f, g) = s
  <2> HIDE DEF f, g
  <2>1. Cat(f, g) \in Seq(S) /\ Len(Cat(f, g)) = Len(s)
    BY <1>1 DEF f, g, Cat
  <2>2. ASSUME NEW x \in 1 .. Len(s) PROVE Cat(f, g)[x] = s[x]
    <3>1. Cat(f, g)[x] = IF x <= k THEN f[x] ELSE g[x - k]
      BY <1>1, ConcatProperties DEF f, g, Cat
    <3> QED
      BY <1>2, <1>3, <3>1 DEF f, g
  <2> QED
    BY <2>1, <2>2, SeqEqual
<1>5. \A p : CameIn(s, p) => CameIn(f, p) /\ CameIn(g, p)
  <2> HIDE DEF f, g
  <2>1. ASSUME NEW p, CameIn(s, p) PROVE CameIn(f, p) /\ CameIn(g, p)
    <3>1. \A x \in 1 .. k : x \in 1 .. Len(s)
      OBVIOUS
    <3>2. \A x \in 1 .. Len(s) - k : k + x \in 1 .. Len(s)
      OBVIOUS
    <3>3. CameIn(f, p)
      BY <1>1, <1>2, <2>1, <3>1 DEF CameIn, f
    <3>4. CameIn(g, p)
      BY <1>1, <1>3, <2>1, <3>2 DEF CameIn, g
    <3> QED
      BY <3>3, <3>4
  <2> QED
    BY <2>1
<1> QED
  BY <1>4, <1>5
-----------------------------------------------------------------------------
(* Steps, as steps of the switch. *)

\* The mapped queues, where only one changes and where none does.
LEMMA SteeredOnly ==
  ASSUME NEW p \in Ports, NEW q \in Outputs,
         \A e \in Ports : \A o \in Outputs : e # p \/ o # q => Pending(e, o)' = Pending(e, o)
  PROVE  Steered[p][q] = Pending(p, q) /\ Steered' = [Steered EXCEPT ![p][q] = Pending(p, q)']
<1>1. p \in Outputs
  BY DEF Outputs
<1> QED
  BY <1>1 DEF Steered

LEMMA SteeredSame ==
  ASSUME \A e \in Ports : \A o \in Outputs : Pending(e, o)' = Pending(e, o)
  PROVE  UNCHANGED Steered
BY DEF Steered

LEMMA IdleSteered ==
  ASSUME UNCHANGED <<tx_queue_list, i, burst, rxq, txq>>
  PROVE  UNCHANGED Steered
<1>1. \A t : Held(t)' = Held(t)
  BY DEF Held
<1>2. \A e, o : Pending(e, o)' = Pending(e, o)
  BY <1>1, SetsUnchanged, ReadersUnchanged DEF Pending
<1> QED
  BY <1>2, SteeredSame

\* A step of an lcore or of a port's queues changes no list.
LEMMA IdsKept ==
  ASSUME SwitchInv, UNCHANGED tx_queue_list
  PROVE  IdsOfPorts'
BY SetsUnchanged DEF SwitchInv, IdsOfPorts

LEMMA CardTyped ==
  ASSUME FullInv
  PROVE  /\ input \in [Ports -> Seq(Packet)] /\ rxq \in [Ports -> [QueueIds -> Seq(Packet)]]
         /\ txq \in [Ports -> Seq(Packet)] /\ wire \in [Ports -> Seq(Packet)]
         /\ burst \in [Slaves -> Seq(Packet)] /\ i \in [Slaves -> 1 .. MaxTxQueue] /\ j \in [Slaves -> Ports]
BY DEF FullInv, CardInv, CardTypes, LoopInv

LEMMA HeldTyped ==
  ASSUME FullInv, NEW t \in TxQueues
  PROVE  Held(t) \in Seq(Packet)
<1>1. t[1] \in Slaves /\ <<>> \in Seq(Packet)
  BY QueueTypes DEF FullInv
<1> QED
  BY <1>1, CardTyped DEF Held

LEMMA OneMore ==
  ASSUME NEW S, NEW s \in Seq(S), NEW m \in S
  PROVE  /\ Len(Behind(s, m)) > Len(s)
         /\ s \o SubSeq(Behind(s, m), Len(s) + 1, Len(Behind(s, m))) = Behind(s, m)
<1>1. Len(Append(s, m)) = Len(s) + 1 /\ Len(s) \in Nat
  OBVIOUS
<1>2. SubSeq(Append(s, m), Len(s) + 1, Len(s) + 1) = <<m>>
  <2> DEFINE a == Append(s, m)
             n == Len(s) + 1
  <2>1. a \in Seq(S) /\ n \in 1 .. Len(a) /\ a[n] = m
    BY <1>1
  <2> HIDE DEF a, n
  <2>2. SubSeq(a, n, n) = <<a[n]>>
    <3>1. n \in Int /\ \A x \in n .. n : a[x] \in S
      BY <2>1
    <3>2. /\ SubSeq(a, n, n) \in Seq(S) /\ Len(SubSeq(a, n, n)) = IF n <= n THEN n - n + 1 ELSE 0
          /\ \A x \in 1 .. n - n + 1 : SubSeq(a, n, n)[x] = a[n + x - 1]
      BY <3>1, SubSeqProperties
    <3> DEFINE c == SubSeq(a, n, n)
    <3>3. c \in Seq(S) /\ Len(c) = 1 /\ c[1] = a[n]
      BY <3>1, <3>2
    <3> HIDE DEF c
    <3>4. c = <<a[n]>>
      BY <3>3
    <3> QED
      BY <3>4 DEF c
  <2> QED
    BY <2>1, <2>2 DEF a, n
<1>3. s \o <<m>> = Append(s, m)
  OBVIOUS
<1> QED
  BY <1>1, <1>2, <1>3 DEF Behind

\* One packet more of a port, or one less, are all of this port.
LEMMA CameInMore ==
  ASSUME NEW S, NEW s \in Seq(S), NEW m \in S, NEW p, CameIn(s, p), m.in = p
  PROVE  CameIn(Behind(s, m), p)
BY DEF CameIn, Behind
LEMMA CameInLess ==
  ASSUME NEW S, NEW s \in Seq(S), s # <<>>, NEW p, CameIn(s, p)
  PROVE  Head(s).in = p /\ CameIn(Tail(s), p)
<1>1. Len(s) \in Nat \ {0} /\ Head(s) = s[1] /\ Len(Tail(s)) = Len(s) - 1
      /\ \A x \in 1 .. Len(s) - 1 : Tail(s)[x] = s[x + 1]
  OBVIOUS
<1>2. 1 \in 1 .. Len(s) /\ \A x \in 1 .. Len(s) - 1 : x + 1 \in 1 .. Len(s)
  BY <1>1
<1> QED
  BY <1>1, <1>2 DEF CameIn

\* A packet that comes in is Accept in the switch.
LEMMA ArriveAccepts ==
  ASSUME SwitchInv, NEW p \in Ports, Arrive(p)
  PROVE  OwnPackets' /\ IdsOfPorts' /\ VOQ!Next
<1>1. UNCHANGED <<tx_queue_list, rxq, txq, wire, i, burst>>
  BY DEF Arrive, lists, loop
<1>2. PICK m \in Packet : m.in = p /\ input' = [input EXCEPT ![p] = Append(@, m)]
  <2>1. PICK a \in Address :
          input' = [input EXCEPT ![p] = Append(@,
            [in |-> p, n |-> arrived'[p], ip |-> a, hit |-> filters[p][a] # Unset, miss |-> ReadsDefault])]
    BY DEF Arrive
  <2> DEFINE m == [in |-> p, n |-> arrived'[p], ip |-> a, hit |-> filters[p][a] # Unset, miss |-> ReadsDefault]
  <2>2. ReadsDefault \in Ports
    <3>1. dev[p].started
      BY DEF Arrive
    <3> QED
      BY <3>1, DefaultReader DEF SwitchInv, FullInv, DevInv
  <2>3. arrived'[p] \in Nat
    BY DEF Arrive, SwitchInv, FullInv, OtherTypes
  <2>4. m \in Packet /\ m.in = p
    BY <2>2, <2>3 DEF Packet
  <2> QED
    BY <2>1, <2>4
<1>3. input \in [Ports -> Seq(Packet)] /\ input[p] \in Seq(Packet) /\ CameIn(input[p], p)
  BY CardTyped DEF SwitchInv, OwnPackets
<1>4. /\ input'[p] = Behind(input[p], m)
      /\ \A e \in Ports : e # p => input'[e] = input[e]
  BY <1>2, <1>3 DEF Behind
<1>5. OwnPackets'
  <2>1. CameIn(Behind(input[p], m), p)
    BY <1>2, <1>3, CameInMore
  <2> QED
    BY <1>1, <1>4, <2>1 DEF SwitchInv, OwnPackets
<1>6. UNCHANGED Steered /\ UNCHANGED Sent
  BY <1>1, IdleSteered DEF Sent
<1>7. /\ Len(Behind(input[p], m)) > Len(input[p])
      /\ input[p] \o SubSeq(Behind(input[p], m), Len(input[p]) + 1, Len(Behind(input[p], m))) = Behind(input[p], m)
  BY <1>3, OneMore
<1>8. p \in Outputs /\ Unsteered[p] = input[p] /\ Unsteered'[p] = Behind(input[p], m)
  BY <1>4 DEF Outputs, Unsteered
<1>9. Unsteered' = [Unsteered EXCEPT ![p] = Behind(input[p], m)]
  BY <1>4 DEF Outputs, Unsteered
<1>10. VOQ!Accept(p)
  BY <1>6, <1>7, <1>8, <1>9 DEF VOQ!Accept
<1> QED
  BY <1>1, <1>5, <1>8, <1>10, IdsKept DEF VOQ!Next

\* To put a packet into an rx queue is Route in the switch, to the output that reads it.
LEMMA SteerRoutes ==
  ASSUME SwitchInv, NEW p \in Ports, Steer(p)
  PROVE  OwnPackets' /\ IdsOfPorts' /\ VOQ!Next
<1>1. /\ UNCHANGED <<tx_queue_list, txq, wire, i, burst>> /\ input[p] # <<>>
      /\ input' = [input EXCEPT ![p] = Tail(@)]
  BY DEF Steer, lists, loop
<1>2. SetUpInv /\ ListInv /\ Settled
  BY <1>1 DEF SwitchInv, FullInv, DevInv
<1> DEFINE m == Head(input[p])
           id == IF filters[p][m.ip] = Unset THEN 0 ELSE filters[p][m.ip]
<1>3. /\ input \in [Ports -> Seq(Packet)] /\ input[p] \in Seq(Packet) /\ CameIn(input[p], p)
      /\ rxq \in [Ports -> [QueueIds -> Seq(Packet)]]
  BY CardTyped DEF SwitchInv, OwnPackets
<1>4. m \in Packet /\ m.in = p /\ CameIn(Tail(input[p]), p)
  BY <1>1, <1>3, TailIn, CameInLess
<1>5. id \in QueueIds /\ m \in Queued(id)
  <2>1. m \in Inbound(p)
    BY <1>1, TailIn DEF SwitchInv, FullInv, CardInv, Steering
  <2>2. m \in Packet /\ m.ip \in Address /\ m.miss = ReadsDefault /\ (m.hit => filters[p][m.ip] # Unset)
    BY <2>1 DEF Inbound, Packet
  <2>3. CASE filters[p][m.ip] = Unset
    <3>1. id = 0 /\ 0 \in QueueIds
      BY <2>3, NbPortsAssumption DEF QueueIds, Ports
    <3> QED
      BY <2>2, <2>3, <3>1 DEF Queued
  <2>4. CASE filters[p][m.ip] # Unset
    <3>1. id = filters[p][m.ip] /\ Ruled(m.ip, id)
      BY <2>2, <2>4 DEF SwitchInv, FullInv, CardInv, Steering
    <3>2. id \in QueueIds
      BY <2>2, <2>4 DEF SwitchInv, FullInv, CardInv, CardTypes
    <3> QED
      BY <2>2, <3>1, <3>2 DEF Queued
  <2> QED
    BY <2>3, <2>4
<1>6. rxq' = [rxq EXCEPT ![p][id] = Append(@, m)]
  BY DEF Steer
<1> HIDE DEF id
<1>7. PICK q \in Outputs : RxQueueId(q) = id /\ q \in Allowed(m)
  BY <1>2, <1>5, Readable
<1> HIDE DEF m
<1>8. /\ rxq'[p][id] = Behind(rxq[p][id], m) /\ rxq[p][id] \in Seq(Packet)
      /\ \A e \in Ports : \A k \in QueueIds : e # p \/ k # id => rxq'[e][k] = rxq[e][k]
  <2>1. rxq'[p][id] = Append(rxq[p][id], m) /\ rxq[p][id] \in Seq(Packet)
    BY <1>3, <1>5, <1>6
  <2>2. \A e \in Ports : \A k \in QueueIds : e # p \/ k # id => rxq'[e][k] = rxq[e][k]
    BY <1>3, <1>5, <1>6
  <2> QED
    BY <2>1, <2>2 DEF Behind
<1>9. /\ input'[p] = Tail(input[p]) /\ \A e \in Ports : e # p => input'[e] = input[e]
  BY <1>1, <1>3
<1>10. OwnPackets'
  <2>1. CameIn(rxq'[p][id], p)
    BY <1>4, <1>5, <1>8, CameInMore DEF SwitchInv, OwnPackets
  <2>2. \A e \in Ports : CameIn(input'[e], e)
    BY <1>4, <1>9 DEF SwitchInv, OwnPackets
  <2>3. \A e \in Ports : \A k \in QueueIds : CameIn(rxq'[e][k], e)
    BY <1>8, <2>1 DEF SwitchInv, OwnPackets
  <2> QED
    BY <2>2, <2>3 DEF OwnPackets
<1>11. \A t : Held(t)' = Held(t)
  BY <1>1 DEF Held
<1>12. ASSUME NEW e \in Ports, NEW o \in Outputs, e # p \/ o # q
       PROVE  Pending(e, o)' = Pending(e, o)
  <2>1. RxQueueId(o) = id => e # p
    BY <1>2, <1>7, <1>12, IdsApart
  <2>2. CASE o \in Ports
    <3>1. PICK k \in QueueIds : k = RxQueueId(o)
      BY <1>2, <2>2, PortIsRead DEF QueueIds
    <3>2. PICK t \in TxQueues : t = Reader(o)
      BY <1>2, <2>2, PortIsRead
    <3>3. rxq'[e][k] = rxq[e][k]
      BY <1>8, <2>1, <3>1
    <3>4. Pending(e, o) = Waiting(txq[o], Held(t), rxq[e][k], e)
      BY <1>2, <2>2, <3>1, <3>2, PendingAt
    <3>5. Pending(e, o)' = Waiting(txq'[o], Held(t)', rxq'[e][k], e)
      BY <1>1, <1>2, <2>2, <3>1, <3>2, PendingAtNext
    <3> QED
      BY <1>1, <1>11, <3>3, <3>4, <3>5
  <2>3. CASE o \notin Ports
    <3>1. o = Nowhere /\ RxQueueId(o) = NoQueue /\ NoQueue \in QueueIds
      BY <1>2, <2>3, OthersNotRead DEF Outputs, QueueIds
    <3>2. rxq'[e][NoQueue] = rxq[e][NoQueue]
      BY <1>8, <2>1, <3>1
    <3> QED
      BY <1>1, <1>2, <3>1, <3>2, PendingNowhere, PendingNowhereNext
  <2> QED
    BY <2>2, <2>3
<1>13. Pending(p, q)' = Behind(Pending(p, q), m)
  <2>1. CASE q \in Ports
    <3>1. PICK t \in TxQueues : t = Reader(q)
      BY <1>2, <2>1, PortIsRead
    <3>2. txq[q] \in Seq(Packet) /\ Held(t) \in Seq(Packet)
      BY <2>1, CardTyped, HeldTyped DEF SwitchInv
    <3>3. Waiting(txq[q], Held(t), Behind(rxq[p][id], m), p) = Behind(Waiting(txq[q], Held(t), rxq[p][id], p), m)
      BY <1>4, <1>8, <3>2, WaitingMore
    <3>4. Pending(p, q) = Waiting(txq[q], Held(t), rxq[p][id], p)
      BY <1>2, <1>7, <2>1, <3>1, PendingAt
    <3>5. Pending(p, q)' = Waiting(txq'[q], Held(t)', rxq'[p][id], p)
      BY <1>1, <1>2, <1>7, <2>1, <3>1, PendingAtNext
    <3> QED
      BY <1>1, <1>8, <1>11, <3>3, <3>4, <3>5
  <2>2. CASE q \notin Ports
    <3>1. q = Nowhere /\ id = NoQueue
      BY <1>2, <1>7, <2>2, OthersNotRead DEF Outputs
    <3> QED
      BY <1>1, <1>2, <1>8, <3>1, PendingNowhere, PendingNowhereNext
  <2> QED
    BY <2>1, <2>2
<1>14. Steered' = [Steered EXCEPT ![p][q] = Append(@, m)]
  <2>1. Steered[p][q] = Pending(p, q) /\ Steered' = [Steered EXCEPT ![p][q] = Pending(p, q)']
    BY <1>12, SteeredOnly
  <2>2. Pending(p, q)' = Append(Steered[p][q], m)
    BY <1>13, <2>1 DEF Behind
  <2>3. p \in Outputs /\ Steered = [e \in Outputs |-> [o \in Outputs |-> Steered[e][o]]]
    BY DEF Steered, Outputs
  <2> QED
    BY <2>1, <2>2, <2>3
<1>15. p \in Outputs /\ Unsteered[p] = input[p] /\ Unsteered' = [Unsteered EXCEPT ![p] = Tail(@)]
  BY <1>9 DEF Outputs, Unsteered
<1>16. VOQ!Route(p, q)
  BY <1>1, <1>7, <1>14, <1>15 DEF VOQ!Route, Sent, m
<1> QED
  BY <1>1, <1>10, <1>15, <1>16, IdsKept DEF VOQ!Next

\* To send a packet out is Deliver in the switch, from the port it came in by.
LEMMA TransmitDelivers ==
  ASSUME SwitchInv, NEW q \in Ports, Transmit(q)
  PROVE  OwnPackets' /\ IdsOfPorts' /\ VOQ!Next
<1>1. /\ UNCHANGED <<tx_queue_list, input, rxq, i, burst>> /\ txq[q] # <<>>
      /\ wire' = [wire EXCEPT ![q] = Append(@, Head(txq[q]))]
      /\ txq' = [txq EXCEPT ![q] = Tail(@)]
  BY DEF Transmit, lists, loop
<1>2. SetUpInv /\ ListInv /\ Settled
  BY <1>1 DEF SwitchInv, FullInv, CardInv, Silent
<1>3. /\ txq \in [Ports -> Seq(Packet)] /\ wire \in [Ports -> Seq(Packet)]
      /\ rxq \in [Ports -> [QueueIds -> Seq(Packet)]]
  BY CardTyped DEF SwitchInv
<1>4. Head(txq[q]) \in Packet
  BY <1>1, <1>3, TailIn
<1>5. PICK p \in Ports : p = Head(txq[q]).in
  BY <1>4 DEF Packet
<1>6. PICK t \in TxQueues : t = Reader(q)
  BY <1>2, PortIsRead
<1>7. PICK id \in QueueIds : id = RxQueueId(q)
  BY <1>2, PortIsRead DEF QueueIds
<1>8. \A k : Held(k)' = Held(k)
  BY <1>1 DEF Held
<1>9. txq'[q] = Tail(txq[q]) /\ \A o \in Ports : o # q => txq'[o] = txq[o]
  BY <1>1, <1>3
<1>10. q \in Outputs
  BY DEF Outputs
<1>11. ASSUME NEW e \in Ports
       PROVE  /\ e = p => /\ Pending(e, q) # <<>> /\ Head(Pending(e, q)) = Head(txq[q])
                          /\ Pending(e, q)' = Tail(Pending(e, q))
              /\ e # p => Pending(e, q)' = Pending(e, q)
  <2>1. Pending(e, q) = Waiting(txq[q], Held(t), rxq[e][id], e)
    BY <1>2, <1>6, <1>7, PendingAt
  <2>2. Pending(e, q)' = Waiting(txq'[q], Held(t)', rxq'[e][id], e)
    BY <1>1, <1>2, <1>6, <1>7, PendingAtNext
  <2>3. Pending(e, q)' = Waiting(Tail(txq[q]), Held(t), rxq[e][id], e)
    BY <1>1, <1>8, <1>9, <2>2
  <2>4. txq[q] \in Seq(Packet) /\ Held(t) \in Seq(Packet) /\ rxq[e][id] \in Seq(Packet)
    BY <1>3, HeldTyped DEF SwitchInv
  <2>5. /\ Head(txq[q]).in = e =>
             /\ Waiting(txq[q], Held(t), rxq[e][id], e) # <<>>
             /\ Head(Waiting(txq[q], Held(t), rxq[e][id], e)) = Head(txq[q])
             /\ Waiting(Tail(txq[q]), Held(t), rxq[e][id], e) = Tail(Waiting(txq[q], Held(t), rxq[e][id], e))
        /\ Head(txq[q]).in # e =>
             Waiting(Tail(txq[q]), Held(t), rxq[e][id], e) = Waiting(txq[q], Held(t), rxq[e][id], e)
    <3> DEFINE s == txq[q]
               h == Held(t)
               r == rxq[e][id]
    <3>1. s \in Seq(Packet) /\ h \in Seq(Packet) /\ r \in Seq(Packet) /\ s # <<>>
      BY <1>1, <2>4
    <3> HIDE DEF s, h, r
    <3>2. /\ Head(s).in = e => /\ Waiting(s, h, r, e) # <<>> /\ Head(Waiting(s, h, r, e)) = Head(s)
                               /\ Waiting(Tail(s), h, r, e) = Tail(Waiting(s, h, r, e))
          /\ Head(s).in # e => Waiting(Tail(s), h, r, e) = Waiting(s, h, r, e)
      BY <3>1, WaitingLess
    <3> QED
      BY <3>2 DEF s, h, r
  <2> QED
    BY <1>5, <2>1, <2>3, <2>5
<1>12. ASSUME NEW e \in Ports, NEW o \in Outputs, e # p \/ o # q PROVE Pending(e, o)' = Pending(e, o)
  <2>1. CASE o = q
    BY <1>11, <1>12, <2>1
  <2>2. CASE o # q /\ o \in Ports
    <3>1. PICK k \in QueueIds : k = RxQueueId(o)
      BY <1>2, <2>2, PortIsRead DEF QueueIds
    <3>2. PICK s \in TxQueues : s = Reader(o)
      BY <1>2, <2>2, PortIsRead
    <3>3. Pending(e, o) = Waiting(txq[o], Held(s), rxq[e][k], e)
      BY <1>2, <2>2, <3>1, <3>2, PendingAt
    <3>4. Pending(e, o)' = Waiting(txq'[o], Held(s)', rxq'[e][k], e)
      BY <1>1, <1>2, <2>2, <3>1, <3>2, PendingAtNext
    <3> QED
      BY <1>1, <1>8, <1>9, <2>2, <3>3, <3>4
  <2>3. CASE o \notin Ports
    <3>1. o = Nowhere
      BY <2>3 DEF Outputs
    <3> QED
      BY <1>1, <1>2, <3>1, PendingNowhere, PendingNowhereNext
  <2> QED
    BY <2>1, <2>2, <2>3
<1>13. /\ Steered[p][q] # <<>> /\ Head(Steered[p][q]) = Head(txq[q])
       /\ Steered' = [Steered EXCEPT ![p][q] = Tail(@)]
  <2>1. Steered[p][q] = Pending(p, q) /\ Steered' = [Steered EXCEPT ![p][q] = Pending(p, q)']
    BY <1>10, <1>12, SteeredOnly
  <2>2. Pending(p, q)' = Tail(Steered[p][q])
    BY <1>11, <2>1
  <2>3. p \in Outputs /\ Steered = [e \in Outputs |-> [o \in Outputs |-> Steered[e][o]]]
    BY DEF Steered, Outputs
  <2> QED
    BY <1>10, <1>11, <2>1, <2>2, <2>3
<1>14. Sent' = [Sent EXCEPT ![q] = Append(@, Head(txq[q]))]
  <2>1. wire'[q] = Append(wire[q], Head(txq[q])) /\ \A o \in Ports : o # q => wire'[o] = wire[o]
    BY <1>1, <1>3
  <2> QED
    BY <1>10, <2>1 DEF Sent
<1>15. UNCHANGED Unsteered
  BY <1>1 DEF Unsteered
<1>16. VOQ!Deliver(p, q)
  BY <1>13, <1>14, <1>15 DEF VOQ!Deliver
<1>17. OwnPackets'
  BY <1>1 DEF SwitchInv, OwnPackets
<1>18. p \in Outputs
  BY DEF Outputs
<1> QED
  BY <1>1, <1>10, <1>16, <1>17, <1>18, IdsKept DEF VOQ!Next

\* No line changes where each pair keeps what waits for it, and what has no reader stays.
LEMMA LinesKept ==
  ASSUME SwitchInv, Settled, UNCHANGED tx_queue_list,
         \A e \in Ports : rxq'[e][NoQueue] = rxq[e][NoQueue],
         \A e \in Ports : \A o \in Ports : \A t \in TxQueues : \A id \in QueueIds :
           t = Reader(o) /\ id = RxQueueId(o) =>
             Waiting(txq'[o], Held(t)', rxq'[e][id], e) = Waiting(txq[o], Held(t), rxq[e][id], e)
  PROVE  UNCHANGED Steered
<1>1. SetUpInv /\ ListInv
  BY DEF SwitchInv, FullInv
<1>2. ASSUME NEW e \in Ports, NEW o \in Outputs PROVE Pending(e, o)' = Pending(e, o)
  <2>1. CASE o \in Ports
    <3>1. PICK k \in QueueIds : k = RxQueueId(o)
      BY <1>1, <2>1, PortIsRead DEF QueueIds
    <3>2. PICK s \in TxQueues : s = Reader(o)
      BY <1>1, <2>1, PortIsRead
    <3>3. Pending(e, o) = Waiting(txq[o], Held(s), rxq[e][k], e)
      BY <1>1, <2>1, <3>1, <3>2, PendingAt
    <3>4. Pending(e, o)' = Waiting(txq'[o], Held(s)', rxq'[e][k], e)
      BY <1>1, <2>1, <3>1, <3>2, PendingAtNext
    <3> QED
      BY <2>1, <3>1, <3>2, <3>3, <3>4
  <2>2. CASE o \notin Ports
    <3>1. o = Nowhere
      BY <2>2 DEF Outputs
    <3> QED
      BY <1>1, <3>1, PendingNowhere, PendingNowhereNext
  <2> QED
    BY <2>1, <2>2
<1> QED
  BY <1>2, SteeredSame

\* What the lcores hold, when lcore l is done with its burst and goes on.
LEMMA HeldByOthers ==
  ASSUME FullInv, NEW l \in Slaves, NEW t \in TxQueues,
         \A k \in Slaves : k # l => i'[k] = i[k] /\ burst'[k] = burst[k],
         t[1] # l
  PROVE  Held(t)' = Held(t)
<1>1. t[1] \in Slaves
  BY QueueTypes DEF FullInv
<1> QED
  BY <1>1 DEF Held

\* To go on to the next tx queue is not seen: the burst is empty.
LEMMA ClockSilent ==
  ASSUME SwitchInv, NEW l \in Slaves, Clock(l)
  PROVE  OwnPackets' /\ IdsOfPorts' /\ UNCHANGED <<Unsteered, Steered, Sent>>
<1>1. /\ launched /\ tx_queue_list[l] # <<>> /\ pc[l] = "clock"
      /\ UNCHANGED <<tx_queue_list, input, rxq, txq, wire, burst>>
  BY DEF Clock, At, lists, card
<1>2. Settled
  BY <1>1, LaunchedSettled DEF SwitchInv
<1>3. burst[l] = <<>> /\ i \in [Slaves -> 1 .. MaxTxQueue]
  BY <1>1 DEF SwitchInv, FullInv, LoopInv
<1>4. \A k \in Slaves : k # l => i'[k] = i[k]
  BY <1>3 DEF Clock
<1>5. ASSUME NEW t \in TxQueues PROVE Held(t)' = Held(t)
  <2>1. CASE t[1] = l
    BY <1>1, <1>3, <2>1 DEF Held
  <2>2. CASE t[1] # l
    BY <1>1, <1>4, <2>2, HeldByOthers DEF SwitchInv
  <2> QED
    BY <2>1, <2>2
<1>6. UNCHANGED Steered
  BY <1>1, <1>2, <1>5, LinesKept
<1>7. UNCHANGED Unsteered /\ UNCHANGED Sent /\ OwnPackets'
  BY <1>1 DEF Unsteered, Sent, SwitchInv, OwnPackets
<1> QED
  BY <1>1, <1>6, <1>7, IdsKept

\* What the lcores hold after a step of lcore l at its tx queue.
LEMMA HeldNext ==
  ASSUME FullInv, NEW l \in Slaves, tx_queue_list[l] # <<>>, NEW f, burst'[l] = f,
         \A k \in Slaves : k # l => i'[k] = i[k] /\ burst'[k] = burst[k],
         i'[l] = i[l] \/ f = <<>>,
         NEW t \in TxQueues
  PROVE  /\ t = <<l, i[l]>> => Held(t)' = f
         /\ t # <<l, i[l]>> => Held(t)' = Held(t)
<1>1. t = <<t[1], t[2]>>
  BY QueueTypes DEF FullInv
<1>2. CASE t[1] # l
  BY <1>1, <1>2, HeldByOthers
<1>3. CASE t[1] = l
  BY <1>1, <1>3 DEF Held
<1> QED
  BY <1>2, <1>3

\* The tx queue at which lcore l is sends to its port and reads its rx queue.
LEMMA AtReader ==
  ASSUME FullInv, Settled, NEW l \in Slaves, tx_queue_list[l] # <<>>
  PROVE  /\ Cur(l).port_id \in Ports /\ Reader(Cur(l).port_id) = <<l, i[l]>>
         /\ RxQueueId(Cur(l).port_id) = Cur(l).rx_queue_id /\ Cur(l).rx_queue_id \in Ports
<1>1. PICK t \in TxQueues : t = <<l, i[l]>> /\ Cur(l) = TxQueue(t)
  BY AtQueue
<1>2. PICK o \in Ports : o = TxQueue(t).port_id
  BY QueueTypes DEF FullInv
<1>3. t = Reader(o) /\ RxQueueId(o) = TxQueue(Reader(o)).rx_queue_id /\ RxQueueId(o) \in Ports
  BY <1>2, PortIsRead DEF FullInv
<1> QED
  BY <1>1, <1>2, <1>3

\* To read a burst is not seen: it stays in the line of its pair of ports.
LEMMA PollSilent ==
  ASSUME SwitchInv, NEW l \in Slaves, Poll(l)
  PROVE  OwnPackets' /\ IdsOfPorts' /\ UNCHANGED <<Unsteered, Steered, Sent>>
<1> USE DEF SwitchInv
<1>1. /\ launched /\ tx_queue_list[l] # <<>> /\ pc[l] = "poll"
      /\ UNCHANGED <<tx_queue_list, input, txq, wire>>
  BY DEF Poll, At, lists
<1>2. Settled /\ SetUpInv /\ ListInv
  BY <1>1, LaunchedSettled DEF FullInv
<1>3. PICK id \in Ports : id = Cur(l).rx_queue_id
  BY <1>1, <1>2, AtReader
<1>4. PICK q \in Ports : q = Cur(l).port_id /\ Reader(q) = <<l, i[l]>> /\ RxQueueId(q) = id
  BY <1>1, <1>2, <1>3, AtReader
<1>5. PICK p \in Ports : p = j[l]
  BY CardTyped
<1> DEFINE s == rxq[p][id]
           n == Lesser(Len(s), MaxBurst)
           f == First(s, n)
           g == From(s, n)
<1>6. /\ rxq \in [Ports -> [QueueIds -> Seq(Packet)]] /\ txq \in [Ports -> Seq(Packet)]
      /\ burst \in [Slaves -> Seq(Packet)] /\ i \in [Slaves -> 1 .. MaxTxQueue]
      /\ id \in QueueIds /\ s \in Seq(Packet) /\ CameIn(s, p) /\ burst[l] = <<>>
  <2>1. burst[l] = <<>>
    BY <1>1 DEF FullInv, LoopInv
  <2>2. id \in QueueIds
    BY DEF QueueIds
  <2> QED
    BY <2>1, <2>2, CardTyped DEF OwnPackets
<1>7. n \in 0 .. Len(s)
  BY <1>6, SizesAssumption DEF Lesser
<1>8. /\ burst' = [burst EXCEPT ![l] = f] /\ rxq' = [rxq EXCEPT ![p][id] = g]
      /\ n = 0 => NextPort(l)
      /\ n # 0 => i' = i
  BY <1>3, <1>5 DEF Poll
<1> HIDE DEF s, n
<1>9. /\ f \in Seq(Packet) /\ Len(f) = n /\ g \in Seq(Packet)
      /\ Cat(f, g) = s /\ CameIn(f, p) /\ CameIn(g, p)
  BY <1>6, <1>7, CutIn, CutParts
<1> HIDE DEF f, g
<1>10. n = 0 => f = <<>>
  BY <1>9
<1>11. /\ rxq'[p][id] = g
       /\ \A e \in Ports : \A k \in QueueIds : e # p \/ k # id => rxq'[e][k] = rxq[e][k]
  <2>1. rxq'[p][id] = g
    BY <1>6, <1>8
  <2> QED
    BY <1>6, <1>8, <2>1
<1>12. \A k \in Slaves : k # l => i'[k] = i[k]
  BY <1>1, <1>8, OnTo
<1>13. burst'[l] = f /\ \A k \in Slaves : k # l => burst'[k] = burst[k]
  BY <1>6, <1>8
<1>14. OwnPackets'
  BY <1>1, <1>9, <1>11 DEF OwnPackets
<1>15. NoQueue # id
  BY PortIdsAssumption
<1>16. ASSUME NEW e \in Ports, NEW o \in Ports, NEW t \in TxQueues, NEW k \in QueueIds,
              t = Reader(o), k = RxQueueId(o)
       PROVE  Waiting(txq'[o], Held(t)', rxq'[e][k], e) = Waiting(txq[o], Held(t), rxq[e][k], e)
  <2>1. i'[l] = i[l] \/ f = <<>>
    BY <1>8, <1>10
  <2>2. /\ t = <<l, i[l]>> => Held(t)' = f
        /\ t # <<l, i[l]>> => Held(t)' = Held(t)
    BY <1>1, <1>12, <1>13, <2>1, HeldNext
  <2>3. txq[o] \in Seq(Packet) /\ rxq[e][k] \in Seq(Packet)
    BY <1>6
  <2>4. CASE o = q
    <3>1. t = <<l, i[l]>> /\ k = id /\ Held(t)' = f /\ Held(t) = <<>>
      BY <1>4, <1>6, <1>16, <2>2, <2>4 DEF Held
    <3> DEFINE u == txq[o]
               r == rxq[e][k]
    <3> HIDE DEF u, r
    <3>2. /\ e = p => Waiting(u, f, g, e) = Waiting(u, <<>>, Cat(f, g), e)
          /\ e # p => Waiting(u, f, r, e) = Waiting(u, <<>>, r, e)
      <4>1. u \in Seq(Packet) /\ r \in Seq(Packet)
        BY <2>3 DEF u, r
      <4> QED
        BY <1>9, <4>1, WaitingRead
    <3>3. e = p => rxq'[e][k] = g /\ rxq[e][k] = Cat(f, g)
      BY <1>9, <1>11, <3>1 DEF s
    <3>4. e # p => rxq'[e][k] = rxq[e][k]
      BY <1>11
    <3>5. txq'[o] = txq[o]
      BY <1>1
    <3> QED
      BY <3>1, <3>2, <3>3, <3>4, <3>5 DEF u, r
  <2>5. CASE o # q
    <3>1. k # id
      BY <1>2, <1>4, <1>16, <2>5, IdsApart DEF Outputs
    <3>2. t # <<l, i[l]>>
      BY <1>2, <1>4, <1>16, <2>5, PortIsRead
    <3> QED
      BY <1>1, <1>11, <2>2, <3>1, <3>2
  <2> QED
    BY <2>4, <2>5
<1>17. UNCHANGED Steered
  <2>1. \A e \in Ports : rxq'[e][NoQueue] = rxq[e][NoQueue]
    BY <1>11, <1>15 DEF QueueIds
  <2> QED
    BY <1>1, <1>2, <1>16, <2>1, LinesKept
<1>18. UNCHANGED Unsteered /\ UNCHANGED Sent
  BY <1>1 DEF Unsteered, Sent
<1> QED
  BY <1>1, <1>14, <1>17, <1>18, IdsKept

\* To hand part of a burst to the card, or all of it, is not seen.
LEMMA TxBurstSilent ==
  ASSUME SwitchInv, NEW l \in Slaves, TxBurst(l)
  PROVE  OwnPackets' /\ IdsOfPorts' /\ UNCHANGED <<Unsteered, Steered, Sent>>
<1> USE DEF SwitchInv
<1>1. /\ launched /\ tx_queue_list[l] # <<>>
      /\ UNCHANGED <<tx_queue_list, input, rxq, wire>>
  BY DEF TxBurst, At, lists
<1>2. Settled /\ SetUpInv /\ ListInv
  BY <1>1, LaunchedSettled DEF FullInv
<1>3. PICK q \in Ports : q = Cur(l).port_id /\ Reader(q) = <<l, i[l]>>
  BY <1>1, <1>2, AtReader
<1> DEFINE b == burst[l]
           s == txq[q]
<1>4. /\ txq \in [Ports -> Seq(Packet)] /\ burst \in [Slaves -> Seq(Packet)]
      /\ i \in [Slaves -> 1 .. MaxTxQueue] /\ b \in Seq(Packet) /\ s \in Seq(Packet)
  BY CardTyped
<1>5. PICK n \in 1 .. Lesser(Len(b), TxRing - Len(s)) :
        /\ txq' = [txq EXCEPT ![q] = @ \o First(b, n)]
        /\ IF SentAll(n, Len(b))
           THEN burst' = [burst EXCEPT ![l] = <<>>] /\ NextPort(l)
           ELSE burst' = [burst EXCEPT ![l] = From(@, n)] /\ UNCHANGED <<pc, i, j>>
  BY <1>3 DEF TxBurst
<1> HIDE DEF b, s
<1>6. n \in 0 .. Len(b)
  BY <1>4, SizesAssumption DEF Lesser
<1> DEFINE f == First(b, n)
           g == From(b, n)
<1>7. f \in Seq(Packet) /\ g \in Seq(Packet) /\ Len(g) = Len(b) - n /\ Cat(f, g) = b
  BY <1>4, <1>6, CutIn, CutParts
<1>8. txq' = [txq EXCEPT ![q] = s \o f]
  BY <1>5 DEF s
<1>9. burst' = [burst EXCEPT ![l] = g] /\ (i' = i \/ (NextPort(l) /\ g = <<>>))
  <2>1. CASE n = Len(b)
    <3> HIDE DEF g
    <3>1. g = <<>>
      BY <1>4, <1>7, <2>1
    <3> QED
      BY <1>5, <2>1, <3>1 DEF SentAll
  <2>2. CASE n # Len(b)
    BY <1>5, <2>2 DEF SentAll, b
  <2> QED
    BY <2>1, <2>2
<1> HIDE DEF f, g
<1>10. txq'[q] = Cat(s, f) /\ \A o \in Ports : o # q => txq'[o] = txq[o]
  BY <1>4, <1>8 DEF Cat
<1>11. \A k \in Slaves : k # l => i'[k] = i[k]
  BY <1>1, <1>9, OnTo
<1>12. i'[l] = i[l] \/ g = <<>>
  BY <1>9
<1>13. burst'[l] = g /\ \A k \in Slaves : k # l => burst'[k] = burst[k]
  BY <1>4, <1>9
<1>14. ASSUME NEW e \in Ports, NEW o \in Ports, NEW t \in TxQueues, NEW k \in QueueIds,
              t = Reader(o), k = RxQueueId(o)
       PROVE  Waiting(txq'[o], Held(t)', rxq'[e][k], e) = Waiting(txq[o], Held(t), rxq[e][k], e)
  <2>1. /\ t = <<l, i[l]>> => Held(t)' = g
        /\ t # <<l, i[l]>> => Held(t)' = Held(t)
    BY <1>1, <1>11, <1>12, <1>13, HeldNext
  <2>2. CASE o = q
    <3>1. t = <<l, i[l]>> /\ Held(t)' = g /\ Held(t) = Cat(f, g)
      BY <1>3, <1>7, <1>14, <2>1, <2>2 DEF Held, b
    <3> DEFINE r == rxq[e][k]
    <3> HIDE DEF r
    <3>2. Waiting(Cat(s, f), g, r, e) = Waiting(s, Cat(f, g), r, e)
      BY <1>4, <1>7, WaitingSent
    <3> QED
      BY <1>1, <1>10, <2>2, <3>1, <3>2 DEF r, s
  <2>3. CASE o # q
    <3>1. t # <<l, i[l]>>
      BY <1>2, <1>3, <1>14, <2>3, PortIsRead
    <3> QED
      BY <1>1, <1>10, <2>1, <2>3, <3>1
  <2> QED
    BY <2>2, <2>3
<1>15. UNCHANGED Steered
  BY <1>1, <1>2, <1>14, LinesKept
<1>16. UNCHANGED Unsteered /\ UNCHANGED Sent /\ OwnPackets'
  BY <1>1 DEF Unsteered, Sent, OwnPackets
<1> QED
  BY <1>1, <1>15, <1>16, IdsKept
-----------------------------------------------------------------------------
(* The set-up, and the refinement. *)

\* Nothing is under way, and nothing is in the switch.
Hush ==
  /\ \A p \in Ports : input[p] = <<>> /\ txq[p] = <<>> /\ wire[p] = <<>>
  /\ \A p \in Ports, q \in QueueIds : rxq[p][q] = <<>>
  /\ \A l \in Slaves : burst[l] = <<>> /\ i[l] = 1
Blank ==
  /\ Unsteered = [p \in Outputs |-> <<>>]
  /\ Steered = [p \in Outputs |-> [q \in Outputs |-> <<>>]]
  /\ Sent = [q \in Outputs |-> <<>>]
Bare == SetUpInv /\ IdsOfPorts /\ Hush

LEMMA BareIsBlank == Bare => Blank
<1> SUFFICES ASSUME Bare PROVE Blank
  OBVIOUS
<1> USE DEF Bare
<1>1. ASSUME NEW p \in Ports, NEW q \in Outputs PROVE Pending(p, q) = <<>>
  <2> DEFINE found == {t \in TxQueues : TxQueue(t).port_id = q}
  <2>1. CASE found = {}
    <3>1. RxQueueId(q) = NoQueue
      BY <2>1 DEF RxQueueId
    <3> QED
      BY <3>1 DEF Pending, Hush, QueueIds
  <2>2. CASE found # {}
    <3>1. \E t \in TxQueues : TxQueue(t).port_id = q
      BY <2>2
    <3>2. Reader(q) \in TxQueues /\ q \in Ports
      <4>1. Reader(q) \in TxQueues /\ TxQueue(Reader(q)).port_id = q
        BY <3>1 DEF Reader
      <4> QED
        BY <4>1, QueueTypes
    <3>3. RxQueueId(q) \in Ports
      <4> DEFINE r == CHOOSE t \in found : TRUE
      <4>1. r \in found
        BY <2>2
      <4>2. RxQueueId(q) = TxQueue(r).rx_queue_id
        BY <2>2 DEF RxQueueId
      <4> QED
        BY <4>1, <4>2 DEF IdsOfPorts
    <3>4. Held(Reader(q)) = <<>>
      <4>1. Reader(q)[1] \in Slaves
        BY <3>2, QueueTypes
      <4> QED
        BY <4>1 DEF Held, Hush
    <3>5. rxq[p][RxQueueId(q)] = <<>> /\ txq[q] = <<>>
      BY <3>2, <3>3 DEF Hush, QueueIds
    <3>6. OfPort(<<>>, p) = <<>>
      <4> DEFINE s == <<>>
      <4>1. s \in Seq(Packet) /\ \A x \in 1 .. Len(s) : s[x].in # p
        OBVIOUS
      <4> HIDE DEF s
      <4>2. OfPort(s, p) = <<>>
        BY <4>1, OfPortOfOthers
      <4> QED
        BY <4>2 DEF s
    <3>7. <<>> \o <<>> = <<>>
      OBVIOUS
    <3> QED
      BY <3>3, <3>4, <3>5, <3>6, <3>7, PortIdsAssumption DEF Pending
  <2> QED
    BY <2>1, <2>2
<1>2. Steered = [p \in Outputs |-> [q \in Outputs |-> <<>>]]
  BY <1>1 DEF Steered
<1> QED
  BY <1>2 DEF Blank, Unsteered, Sent, Hush

LEMMA BareIsBlankNext == Bare' => Blank'
BY BareIsBlank, PTL

\* What the master lcore does moves no packet.
LEMMA MasterSilent ==
  ASSUME SwitchInv, FullInv', UNCHANGED <<card, loop>>, IdsOfPorts', UNCHANGED tx_queue_list \/ ~Settled
  PROVE  OwnPackets' /\ UNCHANGED <<Unsteered, Steered, Sent>>
<1>1. UNCHANGED <<input, rxq, txq, wire, burst, i>>
  BY DEF card, loop
<1>2. OwnPackets'
  BY <1>1 DEF SwitchInv, OwnPackets
<1>3. UNCHANGED Unsteered /\ UNCHANGED Sent
  BY <1>1 DEF Unsteered, Sent
<1>4. CASE UNCHANGED tx_queue_list
  BY <1>1, <1>2, <1>3, <1>4, IdleSteered
<1>5. CASE ~Settled
  <2>1. Hush
    BY <1>5 DEF SwitchInv, FullInv, CardInv, Silent, Hush
  <2>2. Hush'
    BY <1>1, <2>1 DEF Hush
  <2>3. SetUpInv'
    BY DEF FullInv
  <2>4. Bare /\ Bare'
    BY <2>1, <2>2, <2>3 DEF Bare, SwitchInv, FullInv
  <2>5. Blank /\ Blank'
    BY <2>4, BareIsBlank, BareIsBlankNext
  <2> QED
    BY <1>2, <1>3, <2>5 DEF Blank
<1> QED
  BY <1>4, <1>5

\* An id is that of an rx queue already while ports are listed.
LEMMA ListIds ==
  ASSUME SwitchInv, AddTxQueue
  PROVE  IdsOfPorts'
<1> DEFINE Queue == [port_id : Ports, rx_queue_id : Ports]
           l == lcore_params[next + 1]
<1>1. CASE UNCHANGED tx_queue_list
  BY <1>1, IdsKept
<1>2. CASE tx_queue_list' = [tx_queue_list EXCEPT ![l] = Append(@, [port_id |-> next, rx_queue_id |-> 0])]
  <2> SUFFICES ASSUME NEW t \in TxQueues' PROVE TxQueue(t)'.rx_queue_id \in Ports
    BY DEF IdsOfPorts
  <2> DEFINE new == [port_id |-> next, rx_queue_id |-> 0]
             s == tx_queue_list[t[1]]
  <2>1. t[1] \in Slaves /\ t[2] \in 1 .. MaxTxQueue /\ t[2] <= Len(tx_queue_list'[t[1]]) /\ t = <<t[1], t[2]>>
    BY DEF TxQueues
  <2>2. s \in Seq([port_id : Ports, rx_queue_id : Nat])
    BY <2>1 DEF SwitchInv, FullInv, SetUpInv, SetUpTypes
  <2>3. tx_queue_list'[t[1]] = s \/ tx_queue_list'[t[1]] = Append(s, new)
    BY <1>2, <2>1 DEF SwitchInv, FullInv, SetUpInv, SetUpTypes
  <2>4. TxQueue(t)' = tx_queue_list'[t[1]][t[2]]
    BY DEF TxQueue
  <2>5. t[2] <= Len(s) => t \in TxQueues /\ TxQueue(t) = s[t[2]]
    BY <2>1 DEF TxQueues, TxQueue
  <2>6. new.rx_queue_id \in Ports
    BY NbPortsAssumption DEF Ports
  <2> HIDE DEF new, s
  <2>7. PICK k \in Nat : k = t[2] /\ k > 0
    BY <2>1
  <2>8. CASE tx_queue_list'[t[1]] = s
    BY <2>1, <2>4, <2>5, <2>8 DEF SwitchInv, IdsOfPorts
  <2>9. CASE tx_queue_list'[t[1]] = Append(s, new)
    <3>1. k <= Len(s) => Append(s, new)[k] = s[k]
      BY <2>2, <2>7
    <3>2. k <= Len(s) \/ (k = Len(s) + 1 /\ Append(s, new)[k] = new)
      BY <2>1, <2>2, <2>7, <2>9
    <3> QED
      BY <2>4, <2>5, <2>6, <2>7, <2>9, <3>1, <3>2 DEF SwitchInv, IdsOfPorts
  <2> QED
    BY <2>3, <2>8, <2>9
<1> QED
  BY <1>1, <1>2 DEF AddTxQueue

\* There are no more ids than ports, in the next state too.
FewIds == rxqueueid <= NbPorts
LEMMA FewIdsNext == SetUpInv' => FewIds'
<1>1. SetUpInv => FewIds
  BY NoMoreIdsThanPorts DEF FewIds
<1> QED
  BY <1>1, PTL

\* So dp_configure gives out no other id.
LEMMA ConfigureIds ==
  ASSUME SwitchInv, FullInv', ConfigureLcore
  PROVE  IdsOfPorts'
<1> SUFFICES ASSUME NEW t \in TxQueues' PROVE TxQueue(t)'.rx_queue_id \in Ports
  BY DEF IdsOfPorts
<1>1. SetUpInv' /\ FewIds' /\ conf_lcore' = conf_lcore + 1 /\ conf_lcore \in Slaves
  <2>1. SetUpInv' /\ FewIds'
    BY FewIdsNext DEF FullInv
  <2>2. conf_lcore \in 1 .. NbSlaves + 1 /\ conf_lcore' = conf_lcore + 1 /\ conf_lcore <= NbSlaves
    BY DEF ConfigureLcore, SwitchInv, FullInv, SetUpInv, SetUpTypes
  <2> QED
    BY <2>1, <2>2, SizesAssumption DEF Slaves
<1>2. t[1] \in Slaves /\ t[2] \in 1 .. MaxTxQueue /\ t[2] <= Len(tx_queue_list'[t[1]])
  BY DEF TxQueues
<1>3. CASE t[1] < conf_lcore'
  <2>1. TxQueue(t)'.rx_queue_id < rxqueueid' /\ rxqueueid' \in Nat
    BY <1>1, <1>3 DEF SetUpInv, SetUpTypes, IdsOnce, IdsBelow, Configured
  <2>2. TxQueue(t)'.rx_queue_id \in Nat
    <3>1. tx_queue_list'[t[1]] \in Seq([port_id : Ports, rx_queue_id : Nat])
      BY <1>1, <1>2 DEF SetUpInv, SetUpTypes
    <3>2. tx_queue_list'[t[1]][t[2]] \in [port_id : Ports, rx_queue_id : Nat]
      <4> DEFINE Queue == [port_id : Ports, rx_queue_id : Nat]
                 s == tx_queue_list'[t[1]]
      <4>1. s \in Seq(Queue) /\ t[2] \in 1 .. Len(s)
        BY <1>2, <3>1
      <4> HIDE DEF Queue, s
      <4>2. s[t[2]] \in Queue
        BY <4>1
      <4> QED
        BY <4>2 DEF Queue, s
    <3> QED
      BY <3>2 DEF TxQueue
  <2> QED
    BY <1>1, <2>1, <2>2, NbPortsAssumption DEF FewIds, Ports
<1>4. CASE ~(t[1] < conf_lcore')
  <2>1. t[1] # conf_lcore
    BY <1>1, <1>2, <1>4 DEF Slaves
  <2>2. tx_queue_list'[t[1]] = tx_queue_list[t[1]]
    BY <1>2, <2>1 DEF ConfigureLcore, SwitchInv, FullInv, SetUpInv, SetUpTypes
  <2>3. t \in TxQueues /\ TxQueue(t)' = TxQueue(t)
    BY <1>2, <2>2 DEF TxQueues, TxQueue
  <2> QED
    BY <2>3 DEF SwitchInv, IdsOfPorts
<1> QED
  BY <1>3, <1>4

LEMMA SwitchInit == Init => SwitchInv /\ VOQ!Init
<1> SUFFICES ASSUME Init PROVE SwitchInv /\ VOQ!Init
  OBVIOUS
<1>1. FullInv
  BY InitFull
<1>2. TxQueues = {}
  BY DEF Init, TxQueues
<1>3. IdsOfPorts
  BY <1>2 DEF IdsOfPorts
<1>4. Hush
  BY DEF Init, Hush
<1>5. OwnPackets
  BY <1>4 DEF OwnPackets, CameIn, Hush
<1>6. Blank
  BY <1>1, <1>3, <1>4, BareIsBlank DEF Bare, FullInv
<1> QED
  BY <1>1, <1>3, <1>5, <1>6 DEF SwitchInv, VOQ!Init, Blank

\* Each step is a step of the output-queued switch, or is not seen there.
LEMMA SwitchStep ==
  ASSUME SwitchInv, [Next]_vars
  PROVE  SwitchInv' /\ [VOQ!Next]_<<Unsteered, Steered, Sent>>
<1>1. FullInv'
  BY FullInductive DEF SwitchInv
<1>2. CASE Core \/ DealPort \/ SetNbQueues \/ LcoresConfigured \/ AddFilter \/ TablesInstalled \/ UNCHANGED vars
  <2>1. UNCHANGED <<card, loop>> /\ UNCHANGED tx_queue_list
    BY <1>2 DEF Core, DealPort, SetNbQueues, LcoresConfigured, AddFilter, TablesInstalled, lists, vars
  <2> QED
    BY <1>1, <2>1, IdsKept, MasterSilent DEF SwitchInv
<1>3. CASE AddTxQueue
  <2>1. UNCHANGED <<card, loop>> /\ ~Settled
    BY <1>3, NbPortsAssumption DEF AddTxQueue, Settled, SwitchInv, FullInv, SetUpInv, SetUpTypes
  <2> QED
    BY <1>1, <1>3, <2>1, ListIds, MasterSilent DEF SwitchInv
<1>4. CASE ConfigureLcore
  <2>1. UNCHANGED <<card, loop>> /\ ~Settled
    BY <1>4, SizesAssumption DEF ConfigureLcore, SwitchInv, FullInv, SetUpInv, SetUpTypes, Settled, Slaves
  <2> QED
    BY <1>1, <1>4, <2>1, ConfigureIds, MasterSilent DEF SwitchInv
<1>5. ASSUME NEW p \in Ports, Arrive(p) \/ Steer(p) \/ Transmit(p)
      PROVE  SwitchInv' /\ [VOQ!Next]_<<Unsteered, Steered, Sent>>
  BY <1>1, <1>5, ArriveAccepts, SteerRoutes, TransmitDelivers DEF SwitchInv
<1>6. ASSUME NEW l \in Slaves, MainLoop(l) PROVE SwitchInv' /\ [VOQ!Next]_<<Unsteered, Steered, Sent>>
  BY <1>1, <1>6, ClockSilent, PollSilent, TxBurstSilent DEF MainLoop, SwitchInv
<1> QED
  BY <1>2, <1>3, <1>4, <1>5, <1>6 DEF Next, Master, Exited

\* The datapath is an output-queued switch: a packet leaves by the port of its
\* rule, or by the one that reads queue 0 when its filter was not there yet; the
\* packets of a pair of ports keep their order and none is lost or duplicated, over
\* polls, full rings and partial bursts (the filters of the card, main_loop,
\* rte_eth_tx_burst), for any number of ports, lcores and packets.
THEOREM IsSwitch == Spec => IsOutputQueuedSwitch
<1> QED
  BY SwitchInit, SwitchStep, PTL DEF Spec, IsOutputQueuedSwitch, VOQ!Spec
=============================================================================
