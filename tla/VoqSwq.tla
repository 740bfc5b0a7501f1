------------------------------- MODULE VoqSwq -------------------------------
(***************************************************************************)
(* The voq_swq datapath of daqswitch: virtual output queues kept in        *)
(* software rings (daqswitch/dp/voq_swq).                                  *)
(*                                                                         *)
(* A packet that no flow director filter matches lands in rx queue 0 of    *)
(* its port.  The default lcore forwards it by the lpm table and, when it  *)
(* is a TDAQ fragment request from a DCM to a ROS, sets up the fast path   *)
(* of its TCP connection: a flow slot and a filter for the answers         *)
(* (ROS -> DCM), then a flow slot and a filter for the requests            *)
(* (DCM -> ROS).  A packet that a filter matches lands in the rx queue of  *)
(* its output port and carries the soft id of the filter; a data rx lcore  *)
(* moves it into the ring that the id names, and a data tx lcore, which    *)
(* polls the rings whose bit is set in active_flows, sends it.             *)
(*                                                                         *)
(* Each lcore is a process of its own; the lcores share dp.flows,          *)
(* active_flows and the rings without locks.  The network card and the     *)
(* DPDK calls are modelled from how this code uses them.                   *)
(*                                                                         *)
(* Abstractions.  A connection stands for its four addresses and ports;    *)
(* time is left out, so the poll and drain intervals are a delay of any    *)
(* length; a poll of an empty queue is a stuttering step; the order in     *)
(* which a loop visits queues is left open.  A slot is filled in in one    *)
(* step: nobody reads it before the filter that names it is installed.     *)
(* The write buffers of the pipeline, flushed in each loop, are left out.  *)
(***************************************************************************)
EXTENDS Integers, Sequences, FiniteSets, Selection

CONSTANTS
  NbPorts,       \* number of ports of the switch
  Host,          \* the IP addresses
  HostPort,      \* the port each host is cabled to; its /32 rule says the same
  Conn,          \* the TCP connections, each from a DCM to a ROS
  Dcm, Ros,      \* the two hosts of a connection
  Sport, Dport,  \* its TCP ports, on the DCM and on the ROS
  Event,         \* event ids that fragment requests carry
  ReqSink,       \* 0xffffffff, the sink_id of a request flow
  Load,          \* bound: how many packets each connection sends each way
  RxLcore, TxLcore,  \* the data lcores
  RxLcoreOf, TxLcoreOf,  \* the lcore that serves the rx, the tx side of a port
  MaxDataFlows,  \* DP_PORT_MAX_DATA_FLOWS, 64
  IntBits,       \* width of int, 32: the shift 1 << flow_id is done in an int
  FdirGens,      \* values left of a 16-bit soft id above DP_FDIR_OUT_QUEUE_MASK, 1024
  RingSize,      \* packets that fit in a ring
  Burst,         \* DP_PORT_MAX_PKT_BURST_RX and _TX, 32
  NicQueueSize,  \* packets an rx queue holds
  None           \* no filter, no soft id, no event, no address

Ports == 0 .. NbPorts - 1
Slots == 0 .. MaxDataFlows - 1
Dirs == {"req", "data"}     \* DCM -> ROS and ROS -> DCM
Keys == Conn \X Dirs        \* what a perfect filter tells apart

ASSUME PortsAssumption == NbPorts \in Nat \ {0} /\ HostPort \in [Host -> Ports]
ASSUME ConnAssumption ==
  /\ Dcm \in [Conn -> Host] /\ Ros \in [Conn -> Host]
  /\ Sport \in [Conn -> Nat \ {0}] /\ Dport \in [Conn -> Nat \ {0}]
  /\ Load \in [Keys -> Nat]
ASSUME EventAssumption == ReqSink \notin Event
ASSUME LcoreAssumption ==
  RxLcoreOf \in [Ports -> RxLcore] /\ TxLcoreOf \in [Ports -> TxLcore]
ASSUME SizeAssumption ==
  /\ MaxDataFlows \in Nat \ {0}
  /\ IntBits \in 1 .. MaxDataFlows
  /\ FdirGens \in Nat \ {0}
  /\ RingSize \in Nat \ {0} /\ Burst \in Nat \ {0} /\ NicQueueSize \in Nat \ {0}

\* The soft id of a filter: DP_FDIR_OUT_QUEUE_MASK cuts out the flow slot, the
\* bits above it hold what is left of a 16-bit count after the shift.
SoftId == [ring : Slots, gen : 0 .. FdirGens - 1]
FdirIdLocalWide(slot, count) == [ring |-> slot, gen |-> count]         \* fault: no 16-bit cut
FdirIdLocalNoCount(slot, count) == [ring |-> slot, gen |-> 0]          \* fault: no count
FdirIdLocal(slot, count) == [ring |-> slot, gen |-> count % FdirGens]

Filter == [queue : 1 .. NbPorts, id : SoftId]
ASSUME NoneAssumption == None \notin SoftId /\ None \notin Filter /\ None \notin Slots

\* A packet of a connection: its direction, its number on that way, the event
\* id of a request, and the soft id the card has stamped on it.
PacketWith(ids) == [c : Conn, d : Dirs, n : Nat, ev : Event \cup {None}, id : ids]
Packet == PacketWith(SoftId \cup {None})
Plain == PacketWith({None})
Steered == PacketWith(SoftId)
PacketIn(q) == IF q = 0 THEN Plain ELSE Steered
KeyOf(m) == <<m.c, m.d>>

\* The port a direction of a connection comes in by and the port it leaves by.
InPort(k) == HostPort[IF k[2] = "req" THEN Dcm[k[1]] ELSE Ros[k[1]]]
OutPort(k) == HostPort[IF k[2] = "req" THEN Ros[k[1]] ELSE Dcm[k[1]]]

DataFlow == [active : BOOLEAN, req_flow : BOOLEAN,
             dest_ip : Host \cup {None}, sink_id : Event \cup {ReqSink, None}]
UnusedFlow ==
  [active |-> FALSE, req_flow |-> FALSE, dest_ip |-> None, sink_id |-> None]

\* init_rings stops one short of DP_PORT_MAX_DATA_FLOWS: the last slot of a
\* port has a null pointer for a ring.
RingExists(i) == i < MaxDataFlows - 1

\* The bits of 1 << i as a 64-bit mask.  The shift is an int shift: its count
\* is taken modulo the width, as x86 does, and the sign bit is extended.
ShiftMask(i) ==
  IF i % IntBits = IntBits - 1 THEN IntBits - 1 .. MaxDataFlows - 1 ELSE {i % IntBits}

Least(S) == CHOOSE i \in S : \A j \in S : i <= j
Lesser(a, b) == IF a <= b THEN a ELSE b
First(s, k) == SubSeq(s, 1, k)
From(s, k) == SubSeq(s, k + 1, Len(s))
BurstOf(s) == Lesser(Len(s), Burst)

VARIABLES
  sent,          \* how many packets of each key the card has taken in
  nicq,          \* rx queues of each port: 0 default, q + 1 for output port q
  fdir,          \* the flow director of each port: key -> filter
  fdir_id,       \* filters added on each port, counted by the default lcore
  flows,         \* dp.flows
  active_flows,  \* the polling bits of each port, read by its tx lcore
  rings,         \* dp.rings
  pc, in_port, pkts, pkt_index, port_src, flow_id,  \* the default lcore
  rxb,           \* the burst an rx lcore holds, and the output port it is for
  txb,           \* the burst a tx lcore holds, and the tx queue it is for
  wire,          \* history: what left the switch, by key, in order
  dropped,       \* history: packets the default path freed
  panic          \* an RTE_VERIFY failed or a null ring was used

nicVars == <<sent, nicq>>
flowVars == <<fdir, fdir_id, flows, active_flows>>
defaultVars == <<pc, in_port, pkts, pkt_index, port_src, flow_id>>
outVars == <<wire, dropped>>
vars == <<nicVars, flowVars, rings, defaultVars, rxb, txb, outVars, panic>>

Init ==
  /\ sent = [k \in Keys |-> 0]
  /\ nicq = [p \in Ports |-> [q \in 0 .. NbPorts |-> <<>>]]
  /\ fdir = [p \in Ports |-> [k \in Keys |-> None]]
  /\ fdir_id = [p \in Ports |-> 0]
  /\ flows = [p \in Ports |-> [i \in Slots |-> UnusedFlow]]
  /\ active_flows = [p \in Ports |-> {}]
  /\ rings = [p \in Ports |-> [i \in Slots |-> <<>>]]
  /\ pc = "poll" /\ in_port = 0 /\ pkts = <<>> /\ pkt_index = 1
  /\ port_src = 0 /\ flow_id = 0
  /\ rxb = [l \in RxLcore |-> [out |-> 0, pkts |-> <<>>]]
  /\ txb = [l \in TxLcore |-> [req_queue |-> FALSE, pkts |-> <<>>]]
  /\ wire = [k \in Keys |-> <<>>]
  /\ dropped = [k \in Keys |-> {}]
  /\ panic = FALSE
-----------------------------------------------------------------------------
(***************************************************************************)
(* The hosts and the network card (external).  The card puts a packet in   *)
(* the queue of its filter and stamps the soft id, or in the default       *)
(* queue.  A full queue takes no packet: what the card refuses was never   *)
(* in the switch.                                                          *)
(***************************************************************************)
Arrive(k, ev) ==
  LET p == InPort(k)
      f == fdir[p][k]
      q == IF f = None THEN 0 ELSE f.queue
      id == IF f = None THEN None ELSE f.id
  IN  /\ ~panic /\ sent[k] < Load[k]
      /\ Len(nicq[p][q]) < NicQueueSize
      /\ sent' = [sent EXCEPT ![k] = @ + 1]
      /\ nicq' = [nicq EXCEPT ![p][q] = Append(@,
                    [c |-> k[1], d |-> k[2], n |-> sent[k] + 1, ev |-> ev, id |-> id])]
      /\ UNCHANGED <<flowVars, rings, defaultVars, rxb, txb, outVars, panic>>

\* rte_eth_dev_fdir_add_perfect_filter: a filter for the same addresses and
\* ports is overwritten.  The card may refuse a filter, as it does when it has
\* no room for it: then RTE_VERIFY fails.
AddPerfectFilter(p, k, soft_id, queue) ==
  \/ /\ fdir' = [fdir EXCEPT ![p][k] = [queue |-> queue, id |-> soft_id]]
     /\ UNCHANGED panic
  \/ panic' = TRUE /\ UNCHANGED fdir
-----------------------------------------------------------------------------
(***************************************************************************)
(* The default lcore: rte_pipeline_run over the default queues, with       *)
(* table_action_handler_hit called on each burst.                          *)
(***************************************************************************)
Pkt == pkts[pkt_index]
ReqKey == <<Pkt.c, "req">>
DataKey == <<Pkt.c, "data">>

\* A burst of one port; the handler starts with a zeroed filter.
DefaultPoll(p) ==
  LET s == nicq[p][0]
  IN  /\ ~panic /\ pc = "poll" /\ s # <<>>
      /\ nicq' = [nicq EXCEPT ![p][0] = From(s, BurstOf(s))]
      /\ pkts' = First(s, BurstOf(s))
      /\ in_port' = p /\ pkt_index' = 1 /\ port_src' = 0 /\ pc' = "handler"
      /\ UNCHANGED <<sent, flow_id, flowVars, rings, rxb, txb, outVars, panic>>

\* A new data flow: a fragment request whose source port is not the one that
\* the filter set up last in this burst still holds.
NewDataFlow == Pkt.d = "req" /\ Sport[Pkt.c] # port_src

NextPacket == pc' = "handler" /\ pkt_index' = pkt_index + 1 /\ flow_id' = 0

\* Fault: the packet's bit stays in the mask.
SkipPacketAgain ==
  /\ ~panic /\ pc = "handler" /\ pkt_index <= Len(pkts) /\ ~NewDataFlow
  /\ UNCHANGED vars

SkipPacket ==
  /\ ~panic /\ pc = "handler" /\ pkt_index <= Len(pkts) /\ ~NewDataFlow
  /\ NextPacket
  /\ UNCHANGED <<nicVars, flowVars, rings, in_port, pkts, port_src,
                 rxb, txb, outVars, panic>>

\* Faults: the search compares sink ids only; it finds nothing.
ActiveForAnyHost(p, ip, sink) ==
  {i \in Slots : flows[p][i].active /\ flows[p][i].sink_id = sink}
ActiveForNobody(p, ip, sink) == {}

ActiveFor(p, ip, sink) ==
  {i \in Slots : flows[p][i].active /\ flows[p][i].dest_ip = ip /\ flows[p][i].sink_id = sink}
FreeSlots(p) == {i \in Slots : ~flows[p][i].active}

\* Fault: polling of the new slot's ring is not activated.
TakeSlotNotPolled(p, ip, sink, req) ==
  \/ /\ ActiveFor(p, ip, sink) # {}
     /\ flow_id' = Least(ActiveFor(p, ip, sink))
     /\ UNCHANGED <<flows, active_flows>>
  \/ /\ ActiveFor(p, ip, sink) = {} /\ FreeSlots(p) # {}
     /\ flow_id' = Least(FreeSlots(p))
     /\ flows' = [flows EXCEPT ![p][Least(FreeSlots(p))] =
                    [active |-> TRUE, req_flow |-> req, dest_ip |-> ip, sink_id |-> sink]]
     /\ UNCHANGED active_flows

\* The slot of a sink: the one that is active for it, or else the first free
\* one, which is filled in and whose ring is activated for polling.
TakeSlot(p, ip, sink, req) ==
  \/ /\ ActiveFor(p, ip, sink) # {}
     /\ flow_id' = Least(ActiveFor(p, ip, sink))
     /\ UNCHANGED <<flows, active_flows>>
  \/ /\ ActiveFor(p, ip, sink) = {} /\ FreeSlots(p) # {}
     /\ flow_id' = Least(FreeSlots(p))
     /\ flows' = [flows EXCEPT ![p][Least(FreeSlots(p))] =
                    [active |-> TRUE, req_flow |-> req, dest_ip |-> ip, sink_id |-> sink]]
     /\ active_flows' = [active_flows EXCEPT ![p] = @ \cup ShiftMask(Least(FreeSlots(p)))]

NoSlot(p, ip, sink) == ActiveFor(p, ip, sink) = {} /\ FreeSlots(p) = {}

\* Fault: nothing is set up for the answers when the sink has its slot already.
TakeDataSlotOnce ==
  /\ ~panic /\ pc = "handler" /\ pkt_index <= Len(pkts) /\ NewDataFlow
  /\ TakeSlot(in_port, Dcm[Pkt.c], Pkt.ev, FALSE)
  /\ pc' = IF ActiveFor(in_port, Dcm[Pkt.c], Pkt.ev) = {} THEN "data_filter" ELSE "req_slot"
  /\ UNCHANGED <<nicVars, fdir, fdir_id, rings, in_port, pkts, pkt_index, port_src,
                 rxb, txb, outVars, panic>>

\* ROS -> DCM: a slot on the port the request came in by, for its sender and
\* its event id.
TakeDataSlot ==
  /\ ~panic /\ pc = "handler" /\ pkt_index <= Len(pkts) /\ NewDataFlow
  /\ TakeSlot(in_port, Dcm[Pkt.c], Pkt.ev, FALSE)
  /\ pc' = "data_filter"
  /\ UNCHANGED <<nicVars, fdir, fdir_id, rings, in_port, pkts, pkt_index, port_src,
                 rxb, txb, outVars, panic>>

\* Fault: without a slot for the answers the requests are set up all the same.
NoDataSlotFallsThrough ==
  /\ ~panic /\ pc = "handler" /\ pkt_index <= Len(pkts) /\ NewDataFlow
  /\ NoSlot(in_port, Dcm[Pkt.c], Pkt.ev)
  /\ pc' = "req_slot"
  /\ UNCHANGED <<nicVars, flowVars, rings, in_port, pkts, pkt_index, port_src, flow_id,
                 rxb, txb, outVars, panic>>

\* No slot left: the packet is only forwarded; the filter is untouched.
NoDataSlot ==
  /\ ~panic /\ pc = "handler" /\ pkt_index <= Len(pkts) /\ NewDataFlow
  /\ NoSlot(in_port, Dcm[Pkt.c], Pkt.ev)
  /\ NextPacket
  /\ UNCHANGED <<nicVars, flowVars, rings, in_port, pkts, port_src,
                 rxb, txb, outVars, panic>>

\* The filter for the answers, on the port of the ROS.
InstallDataFilter ==
  LET p == OutPort(ReqKey)
  IN  /\ ~panic /\ pc = "data_filter"
      /\ fdir_id' = [fdir_id EXCEPT ![p] = @ + 1]
      /\ AddPerfectFilter(p, DataKey, FdirIdLocal(flow_id, fdir_id[p] + 1), in_port + 1)
      /\ port_src' = Dport[Pkt.c] /\ pc' = "req_slot"
      /\ UNCHANGED <<nicVars, flows, active_flows, rings, in_port, pkts, pkt_index, flow_id,
                     rxb, txb, outVars>>

\* DCM -> ROS: a slot on the port of the ROS, one for all requests to it.
TakeReqSlot ==
  /\ ~panic /\ pc = "req_slot"
  /\ TakeSlot(OutPort(ReqKey), Ros[Pkt.c], ReqSink, TRUE)
  /\ pc' = "req_filter"
  /\ UNCHANGED <<nicVars, fdir, fdir_id, rings, in_port, pkts, pkt_index, port_src,
                 rxb, txb, outVars, panic>>

\* Fault: without a slot the filter is installed for the slot found before.
NoReqSlotFallsThrough ==
  /\ ~panic /\ pc = "req_slot"
  /\ NoSlot(OutPort(ReqKey), Ros[Pkt.c], ReqSink)
  /\ pc' = "req_filter"
  /\ UNCHANGED <<nicVars, flowVars, rings, in_port, pkts, pkt_index, port_src, flow_id,
                 rxb, txb, outVars, panic>>

\* No slot left: the filter for the answers stays.
NoReqSlot ==
  /\ ~panic /\ pc = "req_slot"
  /\ NoSlot(OutPort(ReqKey), Ros[Pkt.c], ReqSink)
  /\ NextPacket
  /\ UNCHANGED <<nicVars, flowVars, rings, in_port, pkts, port_src,
                 rxb, txb, outVars, panic>>

\* The filter for the requests, on the port the request came in by.
InstallReqFilter ==
  /\ ~panic /\ pc = "req_filter"
  /\ fdir_id' = [fdir_id EXCEPT ![in_port] = @ + 1]
  /\ AddPerfectFilter(in_port, ReqKey, FdirIdLocal(flow_id, fdir_id[in_port] + 1),
                      OutPort(ReqKey) + 1)
  /\ port_src' = Sport[Pkt.c]
  /\ NextPacket
  /\ UNCHANGED <<nicVars, flows, active_flows, rings, in_port, pkts,
                 rxb, txb, outVars>>

\* After the handler the pipeline sends each packet on the default tx queue of
\* its port, or frees it when that queue is full; then the loop starts over.
Transmit(m) == wire' = [wire EXCEPT ![KeyOf(m)] = Append(@, m)]

ForwardBurst ==
  /\ ~panic /\ pc = "handler" /\ pkt_index > Len(pkts)
  /\ pc' = "forward" /\ pkt_index' = 1 /\ in_port' = 0 /\ port_src' = 0
  /\ UNCHANGED <<nicVars, flowVars, rings, pkts, flow_id,
                 rxb, txb, outVars, panic>>

ForwardPacket ==
  /\ ~panic /\ pc = "forward" /\ pkts # <<>>
  /\ \/ Transmit(Head(pkts)) /\ UNCHANGED dropped
     \/ /\ dropped' = [dropped EXCEPT ![KeyOf(Head(pkts))] = @ \cup {Head(pkts)}]
        /\ UNCHANGED wire
  /\ pkts' = Tail(pkts)
  /\ pc' = IF Len(pkts) = 1 THEN "poll" ELSE "forward"
  /\ UNCHANGED <<nicVars, flowVars, rings, in_port, pkt_index, port_src, flow_id,
                 rxb, txb, panic>>
-----------------------------------------------------------------------------
(***************************************************************************)
(* A data rx lcore: polls the data queues of its ports and moves each      *)
(* burst into rings, one run of packets for the same ring at a time.       *)
(***************************************************************************)
RxPoll(l, p, q) ==
  LET s == nicq[p][q]
  IN  /\ ~panic /\ RxLcoreOf[p] = l /\ rxb[l].pkts = <<>> /\ s # <<>>
      /\ nicq' = [nicq EXCEPT ![p][q] = From(s, BurstOf(s))]
      /\ rxb' = [rxb EXCEPT ![l] = [out |-> q - 1, pkts |-> First(s, BurstOf(s))]]
      /\ UNCHANGED <<sent, flowVars, rings, defaultVars, txb, outVars, panic>>

\* How many packets at the head are for the ring of the first one.
RunLength(s) ==
  CHOOSE n \in 1 .. Len(s) :
    /\ \A i \in 1 .. n : s[i].id.ring = s[1].id.ring
    /\ n < Len(s) => s[n + 1].id.ring # s[1].id.ring

\* Fault: what does not fit in the ring is freed.
RxEnqueueFreesRest(l) ==
  LET s == rxb[l].pkts
      p == rxb[l].out
      i == s[1].id.ring
      n == Lesser(RunLength(s), RingSize - Len(rings[p][i]))
  IN  /\ ~panic /\ s # <<>> /\ RingExists(i)
      /\ rings' = [rings EXCEPT ![p][i] = @ \o First(s, n)]
      /\ rxb' = [rxb EXCEPT ![l].pkts = From(s, RunLength(s))]
      /\ UNCHANGED <<nicVars, flowVars, defaultVars, txb, outVars, panic>>

\* Fault: a run goes into the ring as a whole.
RxEnqueueBulk(l) ==
  LET s == rxb[l].pkts
      p == rxb[l].out
      i == s[1].id.ring
      n == RunLength(s)
  IN  /\ ~panic /\ s # <<>> /\ RingExists(i) /\ n <= RingSize - Len(rings[p][i])
      /\ rings' = [rings EXCEPT ![p][i] = @ \o First(s, n)]
      /\ rxb' = [rxb EXCEPT ![l].pkts = From(s, n)]
      /\ UNCHANGED <<nicVars, flowVars, defaultVars, txb, outVars, panic>>

\* enqueue_data_pkt: as many of the run as fit; the lcore spins on a full ring.
RxEnqueue(l) ==
  LET s == rxb[l].pkts
      p == rxb[l].out
      i == s[1].id.ring
      n == Lesser(RunLength(s), RingSize - Len(rings[p][i]))
  IN  /\ ~panic /\ s # <<>> /\ RingExists(i) /\ n > 0
      /\ rings' = [rings EXCEPT ![p][i] = @ \o First(s, n)]
      /\ rxb' = [rxb EXCEPT ![l].pkts = From(s, n)]
      /\ UNCHANGED <<nicVars, flowVars, defaultVars, txb, outVars, panic>>

\* Enqueueing into the null pointer of the last slot.
RxNullRing(l) ==
  /\ ~panic /\ rxb[l].pkts # <<>> /\ ~RingExists(rxb[l].pkts[1].id.ring)
  /\ panic' = TRUE
  /\ UNCHANGED <<nicVars, flowVars, rings, defaultVars, rxb, txb, outVars>>
-----------------------------------------------------------------------------
(***************************************************************************)
(* A data tx lcore: polls the rings whose bit is set, in any slot, and     *)
(* sends what it took before it polls again.                               *)
(***************************************************************************)
Polled(p, i) == active_flows[p] \cap ShiftMask(i) # {}

TxPoll(l, p, i) ==
  LET s == rings[p][i]
  IN  /\ ~panic /\ TxLcoreOf[p] = l /\ txb[l].pkts = <<>>
      /\ Polled(p, i) /\ RingExists(i) /\ s # <<>>
      /\ rings' = [rings EXCEPT ![p][i] = From(s, BurstOf(s))]
      /\ txb' = [txb EXCEPT ![l] =
                   [req_queue |-> flows[p][i].req_flow, pkts |-> First(s, BurstOf(s))]]
      /\ UNCHANGED <<nicVars, flowVars, defaultVars, rxb, outVars, panic>>

TxNullRing(l, p, i) ==
  /\ ~panic /\ TxLcoreOf[p] = l /\ txb[l].pkts = <<>>
  /\ Polled(p, i) /\ ~RingExists(i)
  /\ panic' = TRUE
  /\ UNCHANGED <<nicVars, flowVars, rings, defaultVars, rxb, txb, outVars>>

\* rte_eth_tx_burst takes any part of the burst; the loop sends the rest.
TxSend(l) ==
  /\ ~panic /\ txb[l].pkts # <<>>
  /\ Transmit(Head(txb[l].pkts))
  /\ txb' = [txb EXCEPT ![l].pkts = Tail(@)]
  /\ UNCHANGED <<nicVars, flowVars, rings, defaultVars, rxb, dropped, panic>>
-----------------------------------------------------------------------------
DefaultLcore ==
  \/ \E p \in Ports : DefaultPoll(p)
  \/ SkipPacket \/ TakeDataSlot \/ NoDataSlot \/ InstallDataFilter
  \/ TakeReqSlot \/ NoReqSlot \/ InstallReqFilter
  \/ ForwardBurst \/ ForwardPacket

DataRx(l) ==
  \/ \E p \in Ports, q \in 1 .. NbPorts : RxPoll(l, p, q)
  \/ RxEnqueue(l) \/ RxNullRing(l)

DataTx(l) ==
  \/ \E p \in Ports, i \in Slots : TxPoll(l, p, i) \/ TxNullRing(l, p, i)
  \/ TxSend(l)

Hosts == \E k \in Keys, ev \in Event \cup {None} :
           (k[2] = "data" <=> ev = None) /\ Arrive(k, ev)

\* All traffic has been through: the loops go on polling empty queues.
Idle ==
  /\ ~panic /\ \A k \in Keys : sent[k] = Load[k]
  /\ \A p \in Ports : \A q \in 0 .. NbPorts : nicq[p][q] = <<>>
  /\ \A p \in Ports : \A i \in Slots : rings[p][i] = <<>>
  /\ pc = "poll"
  /\ \A l \in RxLcore : rxb[l].pkts = <<>>
  /\ \A l \in TxLcore : txb[l].pkts = <<>>
  /\ UNCHANGED vars

\* A panic ends the process.
Dead == panic /\ UNCHANGED vars

Next ==
  \/ Hosts \/ DefaultLcore
  \/ \E l \in RxLcore : DataRx(l)
  \/ \E l \in TxLcore : DataTx(l)
  \/ Idle \/ Dead

Spec == Init /\ [][Next]_vars

\* Each lcore runs its loop: it takes a step when it goes on being able to.
\* With bounded traffic this is all that draining the queues needs.
Fairness ==
  /\ WF_vars(DefaultLcore)
  /\ \A l \in RxLcore : WF_vars(DataRx(l))
  /\ \A l \in TxLcore : WF_vars(DataTx(l))

FairSpec == Spec /\ Fairness
-----------------------------------------------------------------------------
\* The types of the variables: the default path carries packets without a soft
\* id, the data queues, the rx lcores, the rings and the tx lcores packets that
\* have one.
TypeOK ==
  /\ sent \in [Keys -> Nat]
  /\ nicq \in [Ports -> [0 .. NbPorts -> Seq(Packet)]]
  /\ \A p \in Ports, q \in 0 .. NbPorts : nicq[p][q] \in Seq(PacketIn(q))
  /\ fdir \in [Ports -> [Keys -> Filter \cup {None}]]
  /\ fdir_id \in [Ports -> Nat]
  /\ flows \in [Ports -> [Slots -> DataFlow]]
  /\ active_flows \in [Ports -> SUBSET Slots]
  /\ rings \in [Ports -> [Slots -> Seq(Steered)]]
  /\ pc \in {"poll", "handler", "data_filter", "req_slot", "req_filter", "forward"}
  /\ in_port \in Ports /\ pkts \in Seq(Plain) /\ pkt_index \in Nat \ {0}
  /\ port_src \in Nat /\ flow_id \in Slots
  /\ rxb \in [RxLcore -> [out : Ports, pkts : Seq(Steered)]]
  /\ txb \in [TxLcore -> [req_queue : BOOLEAN, pkts : Seq(Steered)]]
  /\ wire \in [Keys -> Seq(Packet)]
  /\ dropped \in [Keys -> SUBSET Plain]
  /\ panic \in BOOLEAN

\* Slot i of port p is in use and its tx lcore polls the ring.
Served(p, i) == flows[p][i].active /\ Polled(p, i)

\* No packet is stranded: whatever a filter steers, and each packet on its way
\* to a ring or in it, is for a ring that is in use and polled.  Breaks if a
\* filter is installed before its ring is activated, if the bit written and
\* the bit read differ, or if output port and rx queue are not aligned.
RingServed ==
  /\ \A p \in Ports, k \in Keys :
       fdir[p][k] # None => Served(fdir[p][k].queue - 1, fdir[p][k].id.ring)
  /\ \A p \in Ports, q \in 1 .. NbPorts : \A j \in DOMAIN nicq[p][q] :
       Served(q - 1, nicq[p][q][j].id.ring)
  /\ \A l \in RxLcore : \A j \in DOMAIN rxb[l].pkts :
       Served(rxb[l].out, rxb[l].pkts[j].id.ring)
  /\ \A p \in Ports, i \in Slots : rings[p][i] # <<>> => Served(p, i)

\* The host a packet of a key is for, and whether slot i of port p is its own.
DestOf(k) == IF k[2] = "req" THEN Ros[k[1]] ELSE Dcm[k[1]]
Owns(p, i, k) ==
  /\ p = OutPort(k) /\ flows[p][i].active
  /\ flows[p][i].dest_ip = DestOf(k) /\ flows[p][i].req_flow = (k[2] = "req")

\* The rings are virtual output queues: a ring holds packets of one
\* direction, for the host its slot was taken for, on the port of that host;
\* and requests and data leave by the tx queue of their kind.
SinkIsolation ==
  /\ \A p \in Ports, i \in Slots : \A j \in DOMAIN rings[p][i] :
       Owns(p, i, KeyOf(rings[p][i][j])) /\ rings[p][i][j].id.ring = i
  /\ \A l \in TxLcore : \A j \in DOMAIN txb[l].pkts :
       txb[l].req_queue = (txb[l].pkts[j].d = "req")

\* A sink has one slot of a port, so one ring and one share of the link.
OneSlotPerSink ==
  \A p \in Ports : \A i, j \in Slots :
    flows[p][i].active /\ flows[p][j].active /\ i # j
      => <<flows[p][i].dest_ip, flows[p][i].sink_id>> # <<flows[p][j].dest_ip, flows[p][j].sink_id>>

\* A connection's requests are taken off the default path only after its
\* answers have a path of their own, also when one of the two slots runs out.
AnswersBeforeRequests ==
  \A c \in Conn : LET k == <<c, "req">>
                  IN  fdir[InPort(k)][k] # None => fdir[OutPort(k)][<<c, "data">>] # None

\* The soft ids on a card differ as long as its count of filters has not
\* wrapped the bits that the slot leaves it (comment in pipeline_default.c:308).
FdirIdsUnique(p) ==
  \A j, k \in Keys :
    j # k /\ fdir[p][j] # None /\ fdir[p][k] # None => fdir[p][j].id # fdir[p][k].id
FdirIdsUniqueUntilWrap == \A p \in Ports : fdir_id[p] <= FdirGens => FdirIdsUnique(p)

\* The packets of key k that take a path: the default one, or that of a ring.
PathOf(m) == IF m.id = None THEN None ELSE m.id.ring
OnPath(k, t) == {m \in Packet : KeyOf(m) = k /\ PathOf(m) = t}

\* Those underway, from the one that leaves next to the one that came in last:
\* along the tx lcore, the ring, the rx lcore and the card for a ring, through
\* the burst of the default lcore for the default path.
Line(k, t) ==
  LET p == OutPort(k)
  IN  IF t = None THEN pkts \o nicq[InPort(k)][0]
      ELSE txb[TxLcoreOf[p]].pkts \o rings[p][t]
           \o rxb[RxLcoreOf[InPort(k)]].pkts \o nicq[InPort(k)][p + 1]
Underway(k, t) == Among(Line(k, t), OnPath(k, t))

Numbers(s) == [j \in DOMAIN s |-> s[j].n]
Chan == [k \in Keys |-> [t \in Slots \cup {None} |-> Numbers(Underway(k, t))]]
Ways(s) == [j \in DOMAIN s |-> [n |-> s[j].n, path |-> PathOf(s[j])]]
Out == [k \in Keys |-> Ways(wire[k])]

\* The datapath implements the promise of LosslessSwitch: no lcore loses,
\* duplicates or reorders packets of a connection that took the same path.
Switch == INSTANCE LosslessSwitch WITH
  Paths <- Slots \cup {None},
  DefaultPath <- None,
  accepted <- sent,
  chan <- Chan,
  out <- Out

IsLosslessSwitch == Switch!Spec

\* What the handler's comment says of one burst (dp_lcore_default.c:263-264):
\* a packet does not trigger a detection that an earlier one of its flow did.
DetectedOncePerBurst ==
  pc \in {"data_filter", "req_slot", "req_filter"} =>
    \A j \in 1 .. pkt_index - 1 : ~(pkts[j].c = Pkt.c /\ pkts[j].d = "req")

\* Every ring that is polled was created (dp_voq_swq.c:53-59).
PolledRingsExist == \A p \in Ports, i \in Slots : Polled(p, i) => RingExists(i)

\* Packets of key k that filters have taken off the default path.
OnFastPath(k) ==
  \/ \E p \in Ports, q \in 1 .. NbPorts : \E j \in DOMAIN nicq[p][q] : KeyOf(nicq[p][q][j]) = k
  \/ \E p \in Ports, i \in Slots : \E j \in DOMAIN rings[p][i] : KeyOf(rings[p][i][j]) = k
  \/ \E l \in RxLcore : \E j \in DOMAIN rxb[l].pkts : KeyOf(rxb[l].pkts[j]) = k
  \/ \E l \in TxLcore : \E j \in DOMAIN txb[l].pkts : KeyOf(txb[l].pkts[j]) = k

\* The fast path of each connection drains, although rx lcores spin on full
\* rings and tx lcores on full tx queues, unless the process dies.
FastPathDrains == \A k \in Keys : OnFastPath(k) ~> (~OnFastPath(k) \/ panic)

\* A detection is carried through: the default lcore gets back to polling.
HandlerFinishes == (pc # "poll") ~> (pc = "poll" \/ panic)
=============================================================================
