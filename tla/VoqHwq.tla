------------------------------- MODULE VoqHwq -------------------------------
(***************************************************************************)
(* The voq_hwq datapath of daqswitch, on top of its core: virtual output   *)
(* queues kept in the hardware rx queues of the card                       *)
(* (daqswitch/dp/voq_hwq/dp_voq_hwq.c).                                    *)
(*                                                                         *)
(* Each port has an rx queue for each output port.  A filter of the card,  *)
(* one for each destination, puts a packet into the rx queue of the output *)
(* port; without a filter it goes to queue 0.  An output port is served by *)
(* one lcore, which polls its rx queue on all ports, when the poll         *)
(* interval is over or the last burst was full, and sends what it reads    *)
(* before it does anything else.                                           *)
(*                                                                         *)
(* Abstractions.  Lcores and places in lists are numbered from 1.  A time  *)
(* stamp is what has passed since it was taken, up to what the interval    *)
(* can tell apart.  The search for an lcore is one step: OqHwq has the     *)
(* same loop round by round.  The card has memory for what Load lets in,   *)
(* and a port does not send PAUSE frames.                                  *)
(***************************************************************************)
EXTENDS Daqswitch, Integers, FiniteSets, Selection

CONSTANTS
  NbSlaves,      \* slave lcores, 1 .. NbSlaves; the master takes no port
  Machines,      \* the nodes that lcores and ports may be on: [lcore, port]
  MaxTxQueue,    \* MAX_TX_QUEUE_PER_LCORE, 16
  Address,       \* destination addresses of packets
  Rules,         \* dp_install_default_tables: the rules in their order
  Load,          \* bound: how many packets arrive at each port
  MaxBurst,      \* MAX_PKT_BURST, 32
  RxRing,        \* nb_rxd
  TxRing,        \* nb_txd
  PollTsc,       \* poll_tsc
  MaxTick        \* bound: how much time passes between two looks at the clock

Slaves == 1 .. NbSlaves
NoQueue == 65535 % 256              \* -1 as uint16_t, handed to the card as uint8_t

ASSUME SizesAssumption ==
  /\ NbSlaves \in Nat \ {0} /\ MaxTxQueue \in Nat \ {0}
  /\ MaxBurst \in Nat \ {0} /\ RxRing \in Nat \ {0} /\ TxRing \in Nat \ {0}
  /\ PollTsc \in Nat /\ MaxTick \in Nat \ {0} /\ Load \in [Ports -> Nat]
\* RTE_MAX_ETHPORTS is less than 2 ^ 8.
ASSUME PortIdsAssumption == NoQueue \notin Ports
\* Rules may name ports that the switch does not have; addresses differ.
ASSUME RulesAssumption ==
  /\ Rules \in Seq([ip : Address, port : Nat])
  /\ \A k, r \in DOMAIN Rules : Rules[k].ip = Rules[r].ip => k = r
ASSUME MachinesAssumption ==
  \A m \in Machines : DOMAIN m.lcore = Slaves /\ DOMAIN m.port = Ports

VARIABLES
  machine,                               \* the nodes of the lcores and ports
  lcoreid, prev_lcoreid, numa_ok,        \* configure_lcore_params
  lcore_params, next,                    \* the lcore of each port dealt; the next to list
  tx_queue_list,                         \* lcore_conf[].tx_queue_list
  conf_lcore, rxqueueid,                 \* dp_configure: next lcore, next rx queue id
  filters, rule,                         \* the card's filters; the rule to install
  arrived, input,                        \* packets taken in; those not in an rx queue yet
  rxq, txq, wire,                        \* rx queues, tx queues, what has left each port
  pc, i, j, elapsed,                     \* main_loop: where it is, tx queue, rx port, clock
  burst                                  \* pkts_tx: what is left to send

deal == <<machine, lcoreid, prev_lcoreid, numa_ok, lcore_params, next>>
lists == <<tx_queue_list, conf_lcore, rxqueueid>>
tables == <<filters, rule>>
card == <<arrived, input, rxq, txq, wire>>
loop == <<pc, i, j, elapsed, burst>>
vars == <<core, deal, lists, tables, card, loop>>

Lesser(a, b) == IF a <= b THEN a ELSE b
First(s, k) == SubSeq(s, 1, k)
From(s, k) == SubSeq(s, k + 1, Len(s))

\* A packet: where it came in, its number there, its destination; and, for the
\* properties, whether its filter was there by then and who reads queue 0.
Packet == [in : Ports, n : Nat, ip : Address, hit : BOOLEAN, miss : Ports]
Unset == -1
QueueIds == Ports \cup {NoQueue}

Init ==
  /\ CoreInit
  /\ machine \in Machines
  /\ lcoreid = 1 /\ prev_lcoreid = 1 /\ numa_ok = TRUE
  /\ lcore_params = <<>> /\ next = 0
  /\ tx_queue_list = [l \in Slaves |-> <<>>]
  /\ conf_lcore = 1 /\ rxqueueid = 0
  /\ filters = [p \in Ports |-> [a \in Address |-> Unset]] /\ rule = 1
  /\ arrived = [p \in Ports |-> 0]
  /\ input = [p \in Ports |-> <<>>]
  /\ rxq = [p \in Ports |-> [q \in QueueIds |-> <<>>]]
  /\ txq = [p \in Ports |-> <<>>] /\ wire = [p \in Ports |-> <<>>]
  /\ pc = [l \in Slaves |-> "clock"] /\ i = [l \in Slaves |-> 1] /\ j = [l \in Slaves |-> 0]
  /\ elapsed = [l \in Slaves |-> [k \in 1 .. MaxTxQueue |-> PollTsc + 1]]
  /\ burst = [l \in Slaves |-> <<>>]
-----------------------------------------------------------------------------
(* dp_init. *)

\* configure_lcore_params, one port: the first lcore on the port's node among
\* those from lcoreid on; when the search is back at prev_lcoreid that one, and
\* from then on any.
Nth(l, k) == IF l + k > NbSlaves THEN l + k - NbSlaves ELSE l + k
Back == IF prev_lcoreid > lcoreid THEN prev_lcoreid - lcoreid ELSE prev_lcoreid - lcoreid + NbSlaves
Near(p) == {k \in 0 .. Back - 1 : machine.lcore[Nth(lcoreid, k)] = machine.port[p]}
DealPort ==
  /\ master = "dp_init" /\ Len(lcore_params) < NbPorts
  /\ \E k \in 0 .. Back :
       /\ IF ~numa_ok THEN k = 0
          ELSE IF Near(Len(lcore_params)) = {} THEN k = Back
          ELSE k \in Near(Len(lcore_params)) /\ \A n \in Near(Len(lcore_params)) : k <= n
       /\ lcore_params' = Append(lcore_params, Nth(lcoreid, k))
       /\ prev_lcoreid' = Nth(lcoreid, k) /\ lcoreid' = Nth(Nth(lcoreid, k), 1)
       /\ numa_ok' = (numa_ok /\ k # Back)
  /\ UNCHANGED <<machine, next, core, lists, tables, card, loop>>

\* configure_lcore_tx_queues, one port; an lcore has room for MaxTxQueue.
NoRoom(l) == Len(tx_queue_list[l]) >= MaxTxQueue
AddTxQueue ==
  /\ master = "dp_init" /\ Len(lcore_params) = NbPorts /\ next < NbPorts
  /\ LET l == lcore_params[next + 1]
     IN  IF NoRoom(l)
         THEN master' = "exit" /\ UNCHANGED <<tx_queue_list, next>>
         ELSE /\ tx_queue_list' = [tx_queue_list EXCEPT ![l] =
                   Append(@, [port_id |-> next, rx_queue_id |-> 0])]
              /\ next' = next + 1 /\ UNCHANGED master
  /\ UNCHANGED <<portid, port_conf, dev, machine, lcoreid, prev_lcoreid, numa_ok, lcore_params>>
  /\ UNCHANGED <<conf_lcore, rxqueueid, tables, card, loop>>

\* The ports get an rx queue per port, one tx queue and the flow director.
NbRxQueuesDefault == 1                         \* fault: the port's default stays
NbRxQueues == NbPorts
SetNbQueues ==
  /\ master = "dp_init" /\ next = NbPorts
  /\ SetPorts([nb_rxq |-> NbRxQueues, nb_txq |-> 1, fdir_enabled |-> TRUE])
  /\ master' = "dp_configure"
  /\ UNCHANGED <<portid, dev, deal, lists, tables, card, loop>>
-----------------------------------------------------------------------------
(* dp_configure: the rx queue that a tx queue reads on each port. *)

QueueIdOfLcore(k) == rxqueueid                 \* fault: one id for an lcore
QueueId(k) == rxqueueid + k - 1
ConfigureLcore ==
  /\ master = "dp_configure" /\ conf_lcore <= NbSlaves
  /\ tx_queue_list' = [tx_queue_list EXCEPT ![conf_lcore] =
       [k \in DOMAIN @ |-> [@[k] EXCEPT !.rx_queue_id = QueueId(k)]]]
  /\ rxqueueid' = rxqueueid + Len(tx_queue_list[conf_lcore])
  /\ conf_lcore' = conf_lcore + 1
  /\ UNCHANGED <<core, deal, tables, card, loop>>

LcoresConfigured ==
  /\ master = "dp_configure" /\ conf_lcore > NbSlaves
  /\ master' = "configure"
  /\ UNCHANGED <<portid, port_conf, dev, deal, lists, tables, card, loop>>
-----------------------------------------------------------------------------
(* dp_install_default_tables, while the lcores run. *)

\* get_rxqueues_id: the rx queue that port p reads.
TxQueues == {t \in Slaves \X (1 .. MaxTxQueue) : t[2] <= Len(tx_queue_list[t[1]])}
TxQueue(t) == tx_queue_list[t[1]][t[2]]
RxQueueId(p) ==
  LET found == {t \in TxQueues : TxQueue(t).port_id = p}
  IN  IF found = {} THEN NoQueue ELSE TxQueue(CHOOSE t \in found : TRUE).rx_queue_id

FilterQueueIsPort(p) == IF p \in Ports THEN p ELSE NoQueue   \* fault: port and queue mixed up
FilterQueue(p) == RxQueueId(p)

\* add_ipv4_rule, one port after the other.  The card may refuse: the failure is
\* logged.  As a bound, it does so only on ports where packets arrive.
AddFilter ==
  /\ master = "tables" /\ rule <= Len(Rules)
  /\ \/ filters' = [filters EXCEPT ![portid][Rules[rule].ip] = FilterQueue(Rules[rule].port)]
     \/ Load[portid] > 0 /\ UNCHANGED filters
  /\ IF portid + 1 < NbPorts THEN portid' = portid + 1 /\ UNCHANGED rule
     ELSE portid' = 0 /\ rule' = rule + 1
  /\ UNCHANGED <<master, port_conf, dev, deal, lists, card, loop>>

TablesInstalled ==
  /\ master = "tables" /\ rule > Len(Rules)
  /\ master' = "up"
  /\ UNCHANGED <<portid, port_conf, dev, deal, lists, tables, card, loop>>
-----------------------------------------------------------------------------
(* The card. *)

ReadsDefault == TxQueue(CHOOSE t \in TxQueues : TxQueue(t).rx_queue_id = 0).port_id
Arrive(p) ==
  /\ dev[p].started /\ master # "exit" /\ arrived[p] < Load[p]
  /\ arrived' = [arrived EXCEPT ![p] = @ + 1]
  /\ \E a \in Address :
       input' = [input EXCEPT ![p] = Append(@,
         [in |-> p, n |-> arrived'[p], ip |-> a, hit |-> filters[p][a] # Unset, miss |-> ReadsDefault])]
  /\ UNCHANGED <<core, deal, lists, tables, rxq, txq, wire, loop>>

\* The first packet goes to the rx queue of its filter, or to queue 0; it waits
\* while the queue has no descriptor left, and all packets behind it wait.
Steer(p) ==
  /\ input[p] # <<>> /\ master # "exit"
  /\ LET m == Head(input[p])
         q == IF filters[p][m.ip] = Unset THEN 0 ELSE filters[p][m.ip]
     IN  /\ q < dev[p].rxq => Len(rxq[p][q]) < RxRing
         /\ rxq' = [rxq EXCEPT ![p][q] = Append(@, m)]
  /\ input' = [input EXCEPT ![p] = Tail(@)]
  /\ UNCHANGED <<core, deal, lists, tables, arrived, txq, wire, loop>>

Transmit(p) ==
  /\ txq[p] # <<>>
  /\ wire' = [wire EXCEPT ![p] = Append(@, Head(txq[p]))]
  /\ txq' = [txq EXCEPT ![p] = Tail(@)]
  /\ UNCHANGED <<core, deal, lists, tables, arrived, input, rxq, loop>>
-----------------------------------------------------------------------------
(* main_loop of lcore l; one without tx queues returns. *)

At(l, label) == launched /\ tx_queue_list[l] # <<>> /\ pc[l] = label
Cur(l) == tx_queue_list[l][i[l]]
NextQueue(l) == IF i[l] = Len(tx_queue_list[l]) THEN 1 ELSE i[l] + 1

\* The interval is kept for each tx queue; fault: one for all of them.
PollNowShared(l, clock) == [k \in DOMAIN clock |-> 0]
PollNow(l, clock) == [clock EXCEPT ![i[l]] = 0]
Clock(l) ==
  /\ At(l, "clock")
  /\ \E d \in 1 .. MaxTick :
       LET clock == [k \in 1 .. MaxTxQueue |-> Lesser(elapsed[l][k] + d, PollTsc + 1)]
       IN  IF clock[i[l]] > PollTsc
           THEN /\ elapsed' = [elapsed EXCEPT ![l] = PollNow(l, clock)]
                /\ pc' = [pc EXCEPT ![l] = "poll"] /\ UNCHANGED i
           ELSE /\ elapsed' = [elapsed EXCEPT ![l] = clock]
                /\ i' = [i EXCEPT ![l] = NextQueue(l)] /\ UNCHANGED pc
  /\ UNCHANGED <<core, deal, lists, tables, card, j, burst>>

\* On to the next rx port, or to the next tx queue; fault: one port too many.
MorePortsByOne(l) == j[l] < NbPorts
MorePorts(l) == j[l] + 1 < NbPorts
NextPort(l) ==
  IF MorePorts(l)
  THEN j' = [j EXCEPT ![l] = @ + 1] /\ pc' = [pc EXCEPT ![l] = "poll"] /\ UNCHANGED i
  ELSE /\ j' = [j EXCEPT ![l] = 0] /\ pc' = [pc EXCEPT ![l] = "clock"]
       /\ i' = [i EXCEPT ![l] = NextQueue(l)]

\* rte_eth_rx_burst; after a full burst the queue is polled again in the next round.
Poll(l) ==
  /\ At(l, "poll")
  /\ LET q == Cur(l).rx_queue_id
         nb_rx == Lesser(Len(rxq[j[l]][q]), MaxBurst)
     IN  /\ burst' = [burst EXCEPT ![l] = First(rxq[j[l]][q], nb_rx)]
         /\ rxq' = [rxq EXCEPT ![j[l]][q] = From(@, nb_rx)]
         /\ elapsed' = IF nb_rx = MaxBurst THEN [elapsed EXCEPT ![l][i[l]] = PollTsc + 1] ELSE elapsed
         /\ IF nb_rx = 0 THEN NextPort(l) ELSE pc' = [pc EXCEPT ![l] = "send"] /\ UNCHANGED <<i, j>>
  /\ UNCHANGED <<core, deal, lists, tables, arrived, input, txq, wire>>

\* rte_eth_tx_burst takes what there is room for; the loop goes on with the rest.
SentSome(n, len) == TRUE                       \* fault: one attempt
SentAll(n, len) == n = len
TxBurst(l) ==
  /\ At(l, "send")
  /\ LET p == Cur(l).port_id
     IN  \E n \in 1 .. Lesser(Len(burst[l]), TxRing - Len(txq[p])) :
           /\ txq' = [txq EXCEPT ![p] = @ \o First(burst[l], n)]
           /\ IF SentAll(n, Len(burst[l]))
              THEN burst' = [burst EXCEPT ![l] = <<>>] /\ NextPort(l)
              ELSE burst' = [burst EXCEPT ![l] = From(@, n)] /\ UNCHANGED <<pc, i, j>>
  /\ UNCHANGED <<core, deal, lists, tables, arrived, input, rxq, wire, elapsed>>

MainLoop(l) == Clock(l) \/ Poll(l) \/ TxBurst(l)
-----------------------------------------------------------------------------
Core == CoreNext /\ UNCHANGED <<deal, lists, tables, card, loop>>
Master ==
  \/ Core \/ DealPort \/ AddTxQueue \/ SetNbQueues \/ ConfigureLcore \/ LcoresConfigured
  \/ AddFilter \/ TablesInstalled
Exited == master = "exit" /\ UNCHANGED vars

Next ==
  \/ Master \/ Exited
  \/ \E p \in Ports : Arrive(p) \/ Steer(p) \/ Transmit(p)
  \/ \E l \in Slaves : MainLoop(l)

Spec == Init /\ [][Next]_vars

\* The master and the lcores are threads that never block, the card works
\* through what came in, and no link is paused for ever.
Fairness ==
  /\ WF_vars(Master)
  /\ \A l \in Slaves : WF_vars(MainLoop(l))
  /\ \A p \in Ports : WF_vars(Steer(p)) /\ WF_vars(Transmit(p))

FairSpec == Spec /\ Fairness
-----------------------------------------------------------------------------
\* The types of the variables; no list is longer than its array, no queue
\* holds more than its descriptors.
TypeOK ==
  /\ CoreTypeOK
  /\ machine \in Machines
  /\ lcoreid \in Slaves /\ prev_lcoreid \in Slaves /\ numa_ok \in BOOLEAN
  /\ lcore_params \in Seq(Slaves) /\ Len(lcore_params) <= NbPorts /\ next \in 0 .. NbPorts
  /\ tx_queue_list \in [Slaves -> Seq([port_id : Ports, rx_queue_id : Nat])]
  /\ \A l \in Slaves : Len(tx_queue_list[l]) <= MaxTxQueue
  /\ conf_lcore \in 1 .. NbSlaves + 1 /\ rxqueueid \in Nat
  /\ filters \in [Ports -> [Address -> Nat \cup {Unset}]] /\ rule \in 1 .. Len(Rules) + 1
  /\ arrived \in [Ports -> Nat] /\ input \in [Ports -> Seq(Packet)]
  /\ rxq \in [Ports -> [QueueIds -> Seq(Packet)]]
  /\ \A p, q \in Ports : Len(rxq[p][q]) <= RxRing
  /\ txq \in [Ports -> Seq(Packet)] /\ \A p \in Ports : Len(txq[p]) <= TxRing
  /\ wire \in [Ports -> Seq(Packet)]
  /\ pc \in [Slaves -> {"clock", "poll", "send"}] /\ i \in [Slaves -> 1 .. MaxTxQueue]
  /\ j \in [Slaves -> Ports] /\ elapsed \in [Slaves -> [1 .. MaxTxQueue -> 0 .. PollTsc + 1]]
  /\ burst \in [Slaves -> Seq(Packet)]

\* Once dp_configure is over, no two lcores and no two tx queues of one of them
\* poll the same rx queue or send to the same port: the card's queues are not
\* safe for two threads, and a packet read for the wrong port leaves by it.
OneReader ==
  conf_lcore > NbSlaves => \A s, t \in TxQueues :
    s # t => /\ TxQueue(s).rx_queue_id # TxQueue(t).rx_queue_id
             /\ TxQueue(s).port_id # TxQueue(t).port_id

\* Every rx queue that an lcore polls was set up on the port it polls.  Relates
\* the ids dealt by dp_configure to the numbers that dp_init gave the ports.
QueuesAreSetUp ==
  launched => \A t \in TxQueues : \A p \in Ports : TxQueue(t).rx_queue_id < dev[p].rxq

\* A packet leaves in the end, by whatever port, unless its rule names a port
\* that the switch does not have: another queue of the lcore is polled at every
\* round, another port's link is slow, or the queue ahead of it is full.
Left(p, n) ==
  \/ \E q \in Ports : \E x \in DOMAIN wire[q] : wire[q][x].in = p /\ wire[q][x].n = n
  \/ \E x \in DOMAIN rxq[p][NoQueue] : rxq[p][NoQueue][x].n = n
EveryPacketLeaves ==
  \A p \in Ports : (arrived[p] > 0 /\ launched) ~> \A n \in 1 .. Load[p] : arrived[p] >= n => Left(p, n)

\* Where a packet may go: to the port of its rule and, when its filter was not there
\* yet, to the port that reads queue 0.  Nowhere stands for a port that does not exist.
Nowhere == NoQueue
Target(m) == {IF Rules[r].port \in Ports THEN Rules[r].port ELSE Nowhere : r \in {k \in DOMAIN Rules : Rules[k].ip = m.ip}}
Allowed(m) == Target(m) \cup (IF m.hit THEN {} ELSE {m.miss})

\* When the lcores run, every packet waits where it is read for a port it may go to,
\* and it leaves by such a port: ids dealt by dp_configure, filters installed by id later on, and tx queues
\* read by id agree, whatever comes between.
LeavesByItsPort ==
  /\ launched => \A t \in TxQueues, p \in Ports :
       LET s == rxq[p][TxQueue(t).rx_queue_id]
       IN  \A x \in DOMAIN s : TxQueue(t).port_id \in Allowed(s[x])
  /\ \A q \in Ports : \A x \in DOMAIN wire[q] : q \in Allowed(wire[q][x])

\* Refinement: the packets of port p for port q are in the tx queue, in the burst
\* of the lcore that sends to q, when it is at q, and in the rx queue for q.
Reader(q) == CHOOSE t \in TxQueues : TxQueue(t).port_id = q
Held(t) == IF i[t[1]] = t[2] THEN burst[t[1]] ELSE <<>>
Pending(p, q) ==
  IF RxQueueId(q) = NoQueue THEN rxq[p][NoQueue]
  ELSE OfPort(txq[q] \o Held(Reader(q)), p) \o rxq[p][RxQueueId(q)]

Outputs == Ports \cup {Nowhere}
Unsteered == [p \in Outputs |-> IF p \in Ports THEN input[p] ELSE <<>>]
Steered == [p \in Outputs |-> [q \in Outputs |-> IF p \in Ports THEN Pending(p, q) ELSE <<>>]]
Sent == [q \in Outputs |-> IF q \in Ports THEN wire[q] ELSE <<>>]
VOQ == INSTANCE OutputQueuedSwitch WITH
  Ports <- Outputs, input <- Unsteered, queue <- Steered, out <- Sent

\* The datapath is an output-queued switch: each packet whose filter was there
\* when it came in leaves by the port of its rule, another one by that port or
\* the one that reads queue 0, in the order of its pair of ports, none lost or
\* duplicated over partial bursts.
IsOutputQueuedSwitch == VOQ!Spec
=============================================================================
