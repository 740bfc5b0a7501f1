------------------------------- MODULE OqHwq -------------------------------
(***************************************************************************)
(* The oq_hwq datapath of daqswitch: output queues kept in the hardware    *)
(* tx queues of the card (daqswitch/dp/oq_hwq/dp_oq_hwq.c).                *)
(*                                                                         *)
(* The master lcore deals the rx queues to the slave lcores, launches them *)
(* and installs the forwarding rules.  Each lcore reads bursts from its rx *)
(* queues, looks up four packets at a time, groups consecutive packets for *)
(* the same port and puts a group into its table of that port, or sends it *)
(* straight away; full tables are sent at once, the others when the drain  *)
(* interval is over.  An lcore has a tx queue of its own on each port.     *)
(*                                                                         *)
(* Abstractions.  Numbering starts at 1 where the code's starts at 0.  A   *)
(* time stamp counter is what has passed of the drain interval.  What an   *)
(* array keeps from earlier bursts is Stale: GroupingIsRight says that     *)
(* none of it is read.  No port is BAD_PORT, for next_hop has 8 bits: the  *)
(* branch that frees a group is left out.  Memory for the lpm tables never *)
(* runs out.                                                               *)
(***************************************************************************)
EXTENDS Integers, Sequences, FiniteSets, Selection

CONSTANTS
  NbSlaves,      \* slave lcores, 1 .. NbSlaves; the master, lcore 0, takes no port
  NbPorts,       \* ports of the switch
  MaxEthPorts,   \* RTE_MAX_ETHPORTS, 32: port numbers there are
  Machines,      \* the nodes that lcores and ports may be on: [lcore, port]
  MaxRxQueue,    \* MAX_RX_QUEUE_PER_LCORE, 16
  Address,       \* destination addresses of packets
  Rules,         \* the forwarding rules in the order of their installation
  NoRule,        \* the destination of a packet that no rule matches, or not IPv4
  Load,          \* bound: how many packets arrive at each port
  Trains,        \* how many packets may arrive at a time
  MaxBurst,      \* MAX_PKT_BURST, 32: of an rx burst and of a table
  TxRing,        \* descriptors of a tx queue
  DrainTsc,      \* drain_tsc
  MaxTick,       \* bound: how much time a round of the main loop takes
  DstPorts       \* bound: bursts for which the grouping is checked, by output port

FwdStep == 4
MaxTxBurst == MaxBurst \div 2
Slaves == 1 .. NbSlaves
Lcores == 0 .. NbSlaves
Ports == 0 .. NbPorts - 1
EthPorts == 0 .. MaxEthPorts - 1

ASSUME SizesAssumption ==
  /\ NbSlaves \in Nat \ {0} /\ NbPorts \in Nat \ {0} /\ MaxRxQueue \in Nat \ {0}
  /\ MaxEthPorts \in Nat /\ NbPorts <= MaxEthPorts
  /\ MaxBurst \in Nat \ {0} /\ MaxBurst % FwdStep = 0
  /\ TxRing \in Nat \ {0} /\ DrainTsc \in Nat /\ MaxTick \in Nat \ {0}
  /\ Load \in [Ports -> Nat] /\ Trains \subseteq Nat \ {0}
\* The code has rules for twelve ports written in, whether the switch has them
\* or not.
ASSUME RulesAssumption ==
  /\ Rules \in Seq([ip : Address, port : EthPorts])
  /\ \A k \in DOMAIN Rules : Rules[k].ip # NoRule
  /\ \A k, r \in DOMAIN Rules : Rules[k].ip = Rules[r].ip => k = r
ASSUME BurstsAssumption ==
  \A dst \in DstPorts : dst \in Seq(Nat) /\ Len(dst) \in 1 .. MaxBurst
ASSUME MachinesAssumption ==
  \A m \in Machines : DOMAIN m.lcore = Lcores /\ DOMAIN m.port = Ports

VARIABLES
  machine,                   \* the nodes of the lcores and ports
  phase,                     \* of the master: "deal", "queues", "run", "failed" or "dead"
  lcoreid, prev_lcoreid, numa_ok,  \* configure_lcore_params
  lcore_params,              \* the lcore of each port dealt so far
  rx_queue_list, next,       \* lcore_conf[].rx_queue_list; the port to add to one
  lpm,                       \* how many rules ipv4_lookup_struct has, for each node
  arrived,                   \* packets each port has taken in
  rxq, txq, wire,            \* rx and tx queues; what has left each port
  pc, elapsed, i,            \* main_loop: where it is, time since the drain, rx queue
  burst, dst_port, pnum, j,  \* pkts_burst and what was found out about it
  tx_mbufs,                  \* the tables of an lcore, by port
  tosend, to_port, rest      \* packets being sent; what a full table left of a group

setup == <<machine, phase, lcoreid, prev_lcoreid, numa_ok, lcore_params, rx_queue_list, next>>
queues == <<arrived, rxq, txq, wire>>
loop == <<pc, elapsed, i>>
found == <<burst, dst_port, pnum, j>>
tx == <<tx_mbufs, tosend, to_port, rest>>
lcore_conf == <<loop, found, tx>>
vars == <<setup, lpm, queues, lcore_conf>>

Lesser(a, b) == IF a <= b THEN a ELSE b
First(s, k) == SubSeq(s, 1, k)
From(s, k) == SubSeq(s, k + 1, Len(s))

\* A packet: the port it came in by, its number there, its destination, and
\* whether all rules were in place when it came in.
Packet == [in : Ports, n : Nat, ip : Address, late : BOOLEAN]
Sockets == {machine.lcore[l] : l \in Lcores}
AllInstalled == \A s \in Sockets : lpm[s] = Len(Rules)

Stale == 0          \* what an entry of pnum holds from before

Init ==
  /\ machine \in Machines
  /\ phase = "deal"
  /\ lcoreid = 1 /\ prev_lcoreid = 1 /\ numa_ok = TRUE
  /\ lcore_params = <<>>
  /\ rx_queue_list = [l \in Slaves |-> <<>>] /\ next = 0
  /\ lpm = [s \in Sockets |-> 0]
  /\ arrived = [p \in Ports |-> 0]
  /\ rxq = [p \in Ports |-> <<>>] /\ wire = [p \in Ports |-> <<>>]
  /\ txq = [p \in EthPorts |-> [l \in Slaves |-> <<>>]]
  /\ pc = [l \in Slaves |-> "top"] /\ elapsed = [l \in Slaves |-> DrainTsc]
  /\ i = [l \in Slaves |-> 1]
  /\ burst = [l \in Slaves |-> <<>>] /\ dst_port = [l \in Slaves |-> <<>>]
  /\ pnum = [l \in Slaves |-> <<>>] /\ j = [l \in Slaves |-> 1]
  /\ tx_mbufs = [l \in Slaves |-> [p \in EthPorts |-> <<>>]]
  /\ tosend = [l \in Slaves |-> <<>>] /\ to_port = [l \in Slaves |-> 0]
  /\ rest = [l \in Slaves |-> 0]
-----------------------------------------------------------------------------
(* dp_init: the rx queues are dealt to the lcores in turn. *)

portid == Len(lcore_params)          \* the port to deal
NextLcore(l) == IF l = NbSlaves THEN 1 ELSE l + 1
Near(l, p) == machine.lcore[l] = machine.port[p]

\* Faults: the search gives up at the first lcore, or never.
SearchLcoreOnce ==
  /\ phase = "deal" /\ portid < NbPorts
  /\ ~Near(lcoreid, portid) /\ numa_ok
  /\ lcoreid' = NextLcore(lcoreid)
  /\ numa_ok' = FALSE
  /\ UNCHANGED <<machine, phase, prev_lcoreid, lcore_params, rx_queue_list, next>>
  /\ UNCHANGED <<lpm, queues, lcore_conf>>
SearchLcoreForEver ==
  /\ phase = "deal" /\ portid < NbPorts
  /\ ~Near(lcoreid, portid)
  /\ lcoreid' = NextLcore(lcoreid)
  /\ UNCHANGED <<machine, phase, prev_lcoreid, numa_ok, lcore_params, rx_queue_list, next>>
  /\ UNCHANGED <<lpm, queues, lcore_conf>>

\* One round of while (1): once the search is back where it began, any lcore
\* will do, for this port and for all that follow.
SearchLcore ==
  /\ phase = "deal" /\ portid < NbPorts
  /\ ~Near(lcoreid, portid) /\ numa_ok
  /\ lcoreid' = NextLcore(lcoreid)
  /\ numa_ok' = (lcoreid' # prev_lcoreid)
  /\ UNCHANGED <<machine, phase, prev_lcoreid, lcore_params, rx_queue_list, next>>
  /\ UNCHANGED <<lpm, queues, lcore_conf>>

DealPort ==
  /\ phase = "deal" /\ portid < NbPorts
  /\ Near(lcoreid, portid) \/ ~numa_ok
  /\ lcore_params' = Append(lcore_params, lcoreid)
  /\ prev_lcoreid' = lcoreid /\ lcoreid' = NextLcore(lcoreid)
  /\ UNCHANGED <<machine, phase, numa_ok, rx_queue_list, next, lpm, queues, lcore_conf>>

AllDealt ==
  /\ phase = "deal" /\ portid = NbPorts
  /\ phase' = "queues"
  /\ UNCHANGED <<machine, lcoreid, prev_lcoreid, numa_ok, lcore_params, rx_queue_list, next>>
  /\ UNCHANGED <<lpm, queues, lcore_conf>>

\* configure_lcore_rx_queues, next port; an lcore has room for MaxRxQueue.
NoRoomOneMore(l) == Len(rx_queue_list[l]) > MaxRxQueue      \* fault: off by one
NoRoom(l) == Len(rx_queue_list[l]) >= MaxRxQueue
ConfigureRxQueue ==
  /\ phase = "queues" /\ next < NbPorts
  /\ LET l == lcore_params[next + 1]
     IN  IF NoRoom(l)
         THEN phase' = "failed" /\ UNCHANGED <<rx_queue_list, next>>
         ELSE /\ rx_queue_list' = [rx_queue_list EXCEPT ![l] = Append(@, next)]
              /\ next' = next + 1 /\ UNCHANGED phase
  /\ UNCHANGED <<machine, lcoreid, prev_lcoreid, numa_ok, lcore_params>>
  /\ UNCHANGED <<lpm, queues, lcore_conf>>

\* daqswitch_start launches the lcores.
Launch ==
  /\ phase = "queues" /\ next = NbPorts
  /\ phase' = "run"
  /\ UNCHANGED <<machine, lcoreid, prev_lcoreid, numa_ok, lcore_params, rx_queue_list, next>>
  /\ UNCHANGED <<lpm, queues, lcore_conf>>

\* dp_install_default_tables: a rule goes to the table of each node before the
\* next one does, while the lcores look packets up.
AddRule(s) ==
  /\ phase = "run" /\ lpm[s] < Len(Rules)
  /\ \A t \in Sockets : lpm[s] <= lpm[t]
  /\ lpm' = [lpm EXCEPT ![s] = @ + 1]
  /\ UNCHANGED <<setup, queues, lcore_conf>>
-----------------------------------------------------------------------------
(* The card. *)

\* Packets come in, up to the bound of the port.
Arrive(p) ==
  /\ phase = "run"
  /\ \E k \in Trains : \E ips \in [1 .. k -> Address] :
       /\ arrived[p] + k <= Load[p]
       /\ arrived' = [arrived EXCEPT ![p] = @ + k]
       /\ rxq' = [rxq EXCEPT ![p] = @ \o
            [x \in 1 .. k |-> [in |-> p, n |-> arrived[p] + x, ip |-> ips[x], late |-> AllInstalled]]]
  /\ UNCHANGED <<setup, lpm, txq, wire, lcore_conf>>

\* A port sends from its tx queues in any order.
Transmit(p, l) ==
  /\ txq[p][l] # <<>>
  /\ wire' = [wire EXCEPT ![p] = Append(@, Head(txq[p][l]))]
  /\ txq' = [txq EXCEPT ![p][l] = Tail(@)]
  /\ UNCHANGED <<setup, lpm, arrived, rxq, lcore_conf>>
-----------------------------------------------------------------------------
(* Grouping: pnum holds, at the first packet of a run of packets for the   *)
(* same port, the length of the run.  A group record is pnum and what the  *)
(* code calls lp, the place of the run being counted, and dlp, its port.   *)

\* The prebuilt values, by the mask that says which of four neighbours are
\* for the same port, lowest bit first.
gptbl == <<
  [pnum |-> <<1, 1, 1, 1>>, idx |-> 4, lpv |-> 0],
  [pnum |-> <<2, 1, 1, 1>>, idx |-> 4, lpv |-> 1],
  [pnum |-> <<1, 2, 1, 1>>, idx |-> 4, lpv |-> 0],
  [pnum |-> <<3, 2, 1, 1>>, idx |-> 4, lpv |-> 2],
  [pnum |-> <<1, 1, 2, 1>>, idx |-> 4, lpv |-> 0],
  [pnum |-> <<2, 1, 2, 1>>, idx |-> 4, lpv |-> 1],
  [pnum |-> <<1, 3, 2, 1>>, idx |-> 4, lpv |-> 0],
  [pnum |-> <<4, 3, 2, 1>>, idx |-> 4, lpv |-> 3],
  [pnum |-> <<1, 1, 1, 2>>, idx |-> 3, lpv |-> 0],
  [pnum |-> <<2, 1, 1, 2>>, idx |-> 3, lpv |-> 1],
  [pnum |-> <<1, 2, 1, 2>>, idx |-> 3, lpv |-> 0],
  [pnum |-> <<3, 2, 1, 2>>, idx |-> 3, lpv |-> 2],
  [pnum |-> <<1, 1, 3, 2>>, idx |-> 2, lpv |-> 0],
  [pnum |-> <<2, 1, 3, 2>>, idx |-> 2, lpv |-> 1],
  [pnum |-> <<1, 4, 3, 2>>, idx |-> 1, lpv |-> 0],
  [pnum |-> <<5, 4, 3, 2>>, idx |-> 0, lpv |-> 4]>>
GrpMsk == 15

\* Of the packets at .. at + 3, which have the port of the next one; the last
\* packet of all fours is compared with itself.
Bit(b, dst, x, k) == IF dst[x] = dst[Lesser(x + 1, k)] THEN b ELSE 0
Mask(dst, at, k) ==
  Bit(1, dst, at, k) + Bit(2, dst, at + 1, k) + Bit(4, dst, at + 2, k) + Bit(8, dst, at + 3, k)

PortGroupX4(g, at, v) ==
  LET e == gptbl[v + 1]
      counted == [g.pnum EXCEPT ![g.lp] = @ + e.lpv]
      fresh == [x \in DOMAIN counted |->
                  CASE x \in at .. at + 3 -> e.pnum[x - at + 1]
                    [] x = at + e.idx /\ e.idx = 4 -> 1
                    [] OTHER -> counted[x]]
  IN  IF v = GrpMsk THEN [g EXCEPT !.pnum = counted]
      ELSE [g EXCEPT !.pnum = fresh, !.lp = at + e.idx]

\* Fault: the place of the run is not moved.
GroupPortStepStays(g, dst, x) ==
  IF g.dlp = dst[x] THEN [g EXCEPT !.pnum[g.lp] = @ + 1]
  ELSE [pnum |-> [g.pnum EXCEPT ![x] = 1], lp |-> g.lp, dlp |-> dst[x]]
GroupPortStep(g, dst, x) ==
  IF g.dlp = dst[x] THEN [g EXCEPT !.pnum[g.lp] = @ + 1]
  ELSE [pnum |-> [g.pnum EXCEPT ![x] = 1], lp |-> x, dlp |-> dst[x]]

\* The values of pnum for a burst: fours, then up to three packets one by one.
PNum(dst) ==
  LET nb == Len(dst)
      k == nb - (nb % FwdStep)
      empty == [x \in 1 .. MaxBurst + 1 |-> Stale]
      fours[q \in 0 .. nb \div FwdStep] ==
        IF q = 0 THEN [pnum |-> [empty EXCEPT ![1] = 1], lp |-> 1, dlp |-> -1]
        ELSE LET at == FwdStep * (q - 1) + 1 IN PortGroupX4(fours[q - 1], at, Mask(dst, at, k))
      last == fours[nb \div FwdStep]
      grouped ==
        IF k = 0 THEN [pnum |-> empty, lp |-> MaxBurst + 1, dlp |-> -1]
        ELSE [last EXCEPT !.pnum[last.lp] = @ - 1, !.dlp = dst[k]]
      tail[x \in k .. nb] == IF x = k THEN grouped ELSE GroupPortStep(tail[x - 1], dst, x)
  IN  tail[nb].pnum
-----------------------------------------------------------------------------
(* main_loop of lcore l. *)

At(l, label) == phase = "run" /\ rx_queue_list[l] # <<>> /\ pc[l] = label
Goto(l, label) == pc' = [pc EXCEPT ![l] = label]

\* Fault: the time of the last round is taken for that of the last drain.
TopForgets(l) ==
  /\ At(l, "top")
  /\ \E d \in 1 .. MaxTick : IF d > DrainTsc THEN Goto(l, "drain") ELSE Goto(l, "poll")
  /\ elapsed' = [elapsed EXCEPT ![l] = 0]
  /\ i' = [i EXCEPT ![l] = 1]
  /\ UNCHANGED <<setup, lpm, queues, found, tx>>

\* The drain interval has passed or not.
Top(l) ==
  /\ At(l, "top")
  /\ \E d \in 1 .. MaxTick :
       IF elapsed[l] + d > DrainTsc
       THEN Goto(l, "drain") /\ elapsed' = [elapsed EXCEPT ![l] = 0]
       ELSE Goto(l, "poll") /\ elapsed' = [elapsed EXCEPT ![l] = @ + d]
  /\ i' = [i EXCEPT ![l] = 1]
  /\ UNCHANGED <<setup, lpm, queues, found, tx>>

\* Hand packets to send_burst, or to the loop of send_packetsx4, for a port.
Send(l, port, pkts) ==
  /\ to_port' = [to_port EXCEPT ![l] = port]
  /\ tosend' = [tosend EXCEPT ![l] = pkts]

\* The first table that is not empty is sent whole.
NotEmpty(l) == {p \in EthPorts : tx_mbufs[l][p] # <<>>}
Drain(l) ==
  /\ At(l, "drain") /\ NotEmpty(l) # {}
  /\ LET p == CHOOSE p \in NotEmpty(l) : \A q \in NotEmpty(l) : p <= q
     IN  Send(l, p, tx_mbufs[l][p]) /\ tx_mbufs' = [tx_mbufs EXCEPT ![l][p] = <<>>]
  /\ Goto(l, "draining")
  /\ UNCHANGED <<setup, lpm, queues, elapsed, i, found, rest>>

Drained(l) ==
  /\ At(l, "drain") /\ NotEmpty(l) = {}
  /\ Goto(l, "poll")
  /\ UNCHANGED <<setup, lpm, queues, elapsed, i, found, tx>>

\* The card takes some of the packets; the loop goes on with the others.
TxBurst(l) ==
  /\ phase = "run" /\ tosend[l] # <<>> /\ to_port[l] \in Ports
  /\ LET p == to_port[l]
     IN  \E n \in 1 .. Lesser(Len(tosend[l]), TxRing - Len(txq[p][l])) :
           /\ txq' = [txq EXCEPT ![p][l] = @ \o First(tosend[l], n)]
           /\ tosend' = [tosend EXCEPT ![l] = From(@, n)]
  /\ UNCHANGED <<setup, lpm, arrived, rxq, wire, loop, found, tx_mbufs, to_port, rest>>

\* Fault: what is for a port that the switch does not have is forgotten.
NoSuchPortForgets(l) ==
  /\ phase = "run" /\ tosend[l] # <<>> /\ to_port[l] \notin Ports
  /\ tosend' = [tosend EXCEPT ![l] = <<>>]
  /\ UNCHANGED <<setup, lpm, queues, loop, found, tx_mbufs, to_port, rest>>

\* A port that the switch does not have: rte_eth_tx_burst uses the null pointers
\* of a device that was never attached, and the process dies.
NoSuchPort(l) ==
  /\ phase = "run" /\ tosend[l] # <<>> /\ to_port[l] \notin Ports
  /\ phase' = "dead"
  /\ UNCHANGED <<machine, lcoreid, prev_lcoreid, numa_ok, lcore_params, rx_queue_list, next>>
  /\ UNCHANGED <<lpm, queues, lcore_conf>>

\* All are sent: back to the drain, or to the groups, after what was left of a
\* group that filled its table has been copied to the start of the table.
Sent(l) ==
  /\ phase = "run" /\ pc[l] \in {"draining", "sending"} /\ tosend[l] = <<>>
  /\ Goto(l, IF pc[l] = "draining" THEN "drain" ELSE "groups")
  /\ tx_mbufs' = [tx_mbufs EXCEPT ![l][to_port[l]] = SubSeq(burst[l], j[l], j[l] + rest[l] - 1)]
  /\ j' = [j EXCEPT ![l] = @ + rest[l]] /\ rest' = [rest EXCEPT ![l] = 0]
  /\ to_port' = [to_port EXCEPT ![l] = 0]
  /\ UNCHANGED <<setup, lpm, queues, elapsed, i, burst, dst_port, pnum, tosend>>

\* rte_eth_rx_burst on the next rx queue.
Polled(l) == rx_queue_list[l][i[l]]
RxBurst(l) ==
  /\ At(l, "poll") /\ i[l] <= Len(rx_queue_list[l])
  /\ LET p == Polled(l)
         nb_rx == Lesser(Len(rxq[p]), MaxBurst)
     IN  IF nb_rx = 0
         THEN i' = [i EXCEPT ![l] = @ + 1] /\ UNCHANGED <<rxq, burst, pc>>
         ELSE /\ burst' = [burst EXCEPT ![l] = First(rxq[p], nb_rx)]
              /\ rxq' = [rxq EXCEPT ![p] = From(@, nb_rx)]
              /\ Goto(l, "lookup") /\ UNCHANGED i
  /\ UNCHANGED <<setup, lpm, arrived, txq, wire, elapsed, dst_port, pnum, j, tx>>

AllPolled(l) ==
  /\ At(l, "poll") /\ i[l] > Len(rx_queue_list[l])
  /\ Goto(l, "top")
  /\ UNCHANGED <<setup, lpm, queues, elapsed, i, found, tx>>

\* get_dst_port and rte_lpm_lookupx4: a packet goes where its rule says, or back.
Rule(ip, installed) == {r \in 1 .. installed : Rules[r].ip = ip}
DstPort(l, m) ==
  LET hit == Rule(m.ip, lpm[machine.lcore[l]])
  IN  IF hit = {} THEN Polled(l) ELSE Rules[CHOOSE r \in hit : TRUE].port

\* The next packet; the rules may change between two of a burst.
Lookup(l) ==
  /\ At(l, "lookup") /\ Len(dst_port[l]) < Len(burst[l])
  /\ dst_port' = [dst_port EXCEPT ![l] = Append(@, DstPort(l, burst[l][Len(@) + 1]))]
  /\ UNCHANGED <<setup, lpm, queues, loop, burst, pnum, j, tx>>

Group(l) ==
  /\ At(l, "lookup") /\ Len(dst_port[l]) = Len(burst[l])
  /\ pnum' = [pnum EXCEPT ![l] = PNum(dst_port[l])]
  /\ Goto(l, "groups")
  /\ UNCHANGED <<setup, lpm, queues, elapsed, i, burst, dst_port, j, tx>>

\* send_packetsx4 with the next group: straight to the card, into the table, or
\* into the table up to its end and the full table to the card.
StraightAwayAlways(num, len) == num >= MaxTxBurst      \* fault: the table is passed over
StraightAway(num, len) == num >= MaxTxBurst /\ len = 0
ThatFitAll(num, len) == num                            \* fault: no end to the table
ThatFit(num, len) == IF len + num > MaxBurst THEN MaxBurst - len ELSE num
SendGroup(l) ==
  /\ At(l, "groups") /\ j[l] <= Len(burst[l])
  /\ LET port == dst_port[l][j[l]]
         num == pnum[l][j[l]]
         m == SubSeq(burst[l], j[l], j[l] + num - 1)
         table == tx_mbufs[l][port]
         n == ThatFit(num, Len(table))
     IN  \/ /\ StraightAway(num, Len(table))
            /\ Send(l, port, m) /\ Goto(l, "sending")
            /\ j' = [j EXCEPT ![l] = @ + num]
            /\ UNCHANGED <<tx_mbufs, rest>>
         \/ /\ ~StraightAway(num, Len(table)) /\ Len(table) + n # MaxBurst
            /\ tx_mbufs' = [tx_mbufs EXCEPT ![l][port] = @ \o m]
            /\ j' = [j EXCEPT ![l] = @ + num]
            /\ UNCHANGED <<pc, tosend, to_port, rest>>
         \/ /\ ~StraightAway(num, Len(table)) /\ Len(table) + n = MaxBurst
            /\ Send(l, port, table \o First(m, n)) /\ Goto(l, "sending")
            /\ tx_mbufs' = [tx_mbufs EXCEPT ![l][port] = <<>>]
            /\ rest' = [rest EXCEPT ![l] = num - n]
            /\ j' = [j EXCEPT ![l] = @ + n]
  /\ UNCHANGED <<setup, lpm, queues, elapsed, i, burst, dst_port, pnum>>

\* The next rx queue.
GroupsSent(l) ==
  /\ At(l, "groups") /\ j[l] > Len(burst[l])
  /\ burst' = [burst EXCEPT ![l] = <<>>] /\ dst_port' = [dst_port EXCEPT ![l] = <<>>]
  /\ pnum' = [pnum EXCEPT ![l] = <<>>] /\ j' = [j EXCEPT ![l] = 1]
  /\ i' = [i EXCEPT ![l] = @ + 1] /\ Goto(l, "poll")
  /\ UNCHANGED <<setup, lpm, queues, elapsed, tx>>

MainLoop(l) ==
  \/ Top(l) \/ Drain(l) \/ Drained(l) \/ TxBurst(l) \/ NoSuchPort(l) \/ Sent(l)
  \/ RxBurst(l) \/ AllPolled(l) \/ Lookup(l) \/ Group(l) \/ SendGroup(l) \/ GroupsSent(l)
-----------------------------------------------------------------------------
\* dp_init has failed and main exits.
Failed == phase = "failed" /\ UNCHANGED vars

\* The process has died.
Dead == phase = "dead" /\ UNCHANGED vars

SetUp == SearchLcore \/ DealPort \/ AllDealt \/ ConfigureRxQueue \/ Launch

Next ==
  \/ SetUp \/ Failed \/ Dead
  \/ \E s \in Sockets : AddRule(s)
  \/ \E p \in Ports : Arrive(p) \/ \E l \in Slaves : Transmit(p, l)
  \/ \E l \in Slaves : MainLoop(l)

Spec == Init /\ [][Next]_vars

\* The master runs through its set-up, each lcore is a thread that never
\* blocks, and a link is not paused for ever.
Fairness ==
  /\ WF_vars(SetUp)
  /\ \A l \in Slaves : WF_vars(MainLoop(l))
  /\ \A p \in Ports : \A l \in Slaves : WF_vars(Transmit(p, l))

FairSpec == Spec /\ Fairness
-----------------------------------------------------------------------------
\* The types of the variables; no table is full when the lcore goes on, and
\* no tx queue holds more than its descriptors.
TypeOK ==
  /\ machine \in Machines
  /\ phase \in {"deal", "queues", "run", "failed", "dead"}
  /\ lcoreid \in Slaves /\ prev_lcoreid \in Slaves /\ numa_ok \in BOOLEAN
  /\ lcore_params \in Seq(Slaves) /\ Len(lcore_params) <= NbPorts
  /\ rx_queue_list \in [Slaves -> Seq(Ports)] /\ next \in 0 .. NbPorts
  /\ lpm \in [Sockets -> 0 .. Len(Rules)]
  /\ arrived \in [Ports -> Nat]
  /\ rxq \in [Ports -> Seq(Packet)] /\ wire \in [Ports -> Seq(Packet)]
  /\ txq \in [EthPorts -> [Slaves -> Seq(Packet)]]
  /\ \A p \in Ports : \A l \in Slaves : Len(txq[p][l]) <= TxRing
  /\ pc \in [Slaves -> {"top", "drain", "draining", "poll", "lookup", "groups", "sending"}]
  /\ elapsed \in [Slaves -> 0 .. DrainTsc] /\ i \in [Slaves -> Nat \ {0}]
  /\ burst \in [Slaves -> Seq(Packet)] /\ dst_port \in [Slaves -> Seq(EthPorts)]
  /\ j \in [Slaves -> 1 .. MaxBurst + 1]
  /\ tx_mbufs \in [Slaves -> [EthPorts -> Seq(Packet)]]
  /\ \A l \in Slaves : \A p \in EthPorts : Len(tx_mbufs[l][p]) < MaxBurst
  /\ tosend \in [Slaves -> Seq(Packet)] /\ to_port \in [Slaves -> EthPorts]
  /\ rest \in [Slaves -> 0 .. MaxBurst]

\* No list of rx queues is longer than its array, however the ports are dealt:
\* nearness may send them all to one lcore, and only configure_lcore_rx_queues,
\* which comes after all are dealt, looks whether there is room.
ListsFit == \A l \in Slaves : Len(rx_queue_list[l]) <= MaxRxQueue

\* Grouping is right: for each burst, the groups that pnum gives from the first
\* packet on are the runs of packets for one port, each as long as can be.
\* Nothing else in pnum is read.  Breaks when a prebuilt value, the correction
\* after the last four or the step for a single packet is wrong: a group that is
\* too long sends packets out by the port of others, and a group of length 0
\* never ends the loop.  Checked for the bursts in DstPorts, and only before the
\* first port is dealt, for it depends on no state.
IsRun(dst, a, b) ==
  /\ a <= b /\ \A x \in a .. b : dst[x] = dst[a]
  /\ a > 1 => dst[a - 1] # dst[a]
  /\ b < Len(dst) => dst[b + 1] # dst[b]
Runs(dst) == {r \in (DOMAIN dst) \X (DOMAIN dst) : IsRun(dst, r[1], r[2])}
Groups(dst) ==
  LET pn == PNum(dst)
      from[x \in 1 .. Len(dst) + 1] ==
        IF x > Len(dst) THEN {}
        ELSE IF pn[x] \in 1 .. Len(dst) + 1 - x THEN {<<x, x + pn[x] - 1>>} \cup from[x + pn[x]]
        ELSE {<<x, pn[x]>>}
  IN  from[1]
GroupingIsRight == lcore_params = <<>> => \A dst \in DstPorts : Groups(dst) = Runs(dst)

\* A port is dealt to an lcore of another node only on a machine that has a
\* port with at most one lcore on its node: the search looks at all other
\* lcores before it gives up.
NearLcores(p) == {l \in Slaves : Near(l, p)}
RemoteOnlyWhenShort ==
  (\E x \in DOMAIN lcore_params : ~Near(lcore_params[x], x - 1))
    => \E p \in Ports : Cardinality(NearLcores(p)) <= 1

\* The search for an lcore ends for each port, on whatever node it is.
SetUpEnds == <>(phase \in {"run", "failed"})

\* A packet leaves in the end, even if it waits in a table that no other packet
\* fills up: the drain interval passes in a loop that finds nothing to read.
\* Unless the process dies of a packet for a port that the switch does not have.
Left(p, n) == \E q \in Ports : \E x \in DOMAIN wire[q] : wire[q][x].in = p /\ wire[q][x].n = n
EveryPacketLeaves ==
  \A p \in Ports : arrived[p] > 0
    ~> (phase = "dead" \/ \A n \in 1 .. Load[p] : arrived[p] >= n => Left(p, n))

\* The ports a packet may be given: that of its rule, or the one it came in by
\* if there is no rule or not all rules were in place when it came in.
RulesFor(m) == Rule(m.ip, Len(Rules))
Allowed(m) ==
  {Rules[r].port : r \in RulesFor(m)} \cup (IF m.late /\ RulesFor(m) # {} THEN {} ELSE {m.in})

\* Refinement: what an lcore has read of port p and not looked up yet, and where
\* the packets of p for port q are, from the tx queue back to the burst.
NotLookedUp(l, p) == Chosen(burst[l], {x \in Len(dst_port[l]) + 1 .. Len(burst[l]) : burst[l][x].in = p})
InGroups(l, p, q) ==
  Chosen(burst[l], {x \in j[l] .. Len(dst_port[l]) : dst_port[l][x] = q /\ burst[l][x].in = p})
Pending(l, p, q) ==
  OfPort(txq[q][l], p) \o (IF to_port[l] = q THEN OfPort(tosend[l], p) ELSE <<>>)
    \o OfPort(tx_mbufs[l][q], p) \o InGroups(l, p, q)

\* The lcore that polls port p; before the set-up is over any will do.
LcoreOf(p) ==
  LET pollers == {l \in Slaves : \E k \in DOMAIN rx_queue_list[l] : rx_queue_list[l][k] = p}
  IN  IF pollers = {} THEN 1 ELSE CHOOSE l \in pollers : TRUE

Unrouted == [p \in Ports |-> NotLookedUp(LcoreOf(p), p) \o rxq[p]]
Routed == [p \in Ports |-> [q \in EthPorts |-> Pending(LcoreOf(p), p, q)]]
OQ == INSTANCE OutputQueuedSwitch WITH Outputs <- EthPorts, input <- Unrouted, queue <- Routed, out <- wire

\* The datapath is an output-queued switch: it keeps the order of the packets
\* of each pair of ports over tables that wrap, drains, groups sent past the
\* table and partial bursts of the card, and loses and duplicates none.
IsOutputQueuedSwitch == OQ!Spec
=============================================================================
