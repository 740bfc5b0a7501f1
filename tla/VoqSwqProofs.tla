-------------------------- MODULE VoqSwqProofs ---------------------------
(***************************************************************************)
(* Theorems about VoqSwq, for every number of ports, lcores, connections   *)
(* and slots, and for every size of rings, bursts and queues.  The second  *)
(* part is about what the default lcore sets up and what the data lcores   *)
(* do with it: no packet is steered to a ring that nobody polls, and each  *)
(* ring holds the packets of its own sink only.  The third part shows that *)
(* the datapath is a switch that loses and overtakes nothing on a path.    *)
(***************************************************************************)
EXTENDS VoqSwq, Recursion

-----------------------------------------------------------------------------
(***************************************************************************)
(* The helpers: the least element of a set of slots, and the parts a       *)
(* sequence of packets is cut into.                                        *)
(***************************************************************************)

\* A set of naturals that is not empty has a least element.
LEMMA LeastExists ==
  ASSUME NEW S, S \subseteq Nat, S # {}
  PROVE  \E i \in S : \A j \in S : i <= j
<1>1. PICK i \in S : \A j \in S : <<j, i>> \notin OpToRel(<, Nat)
  BY NatLessThanWellFounded, WFMin, Zenon
<1>2. \A j \in S : ~(j < i)
  BY <1>1 DEF OpToRel
<1> QED BY <1>2

\* Least(S) is that element: the first slot the search of the handler meets.
LEMMA LeastInSet ==
  ASSUME NEW S, S \subseteq Slots, S # {}
  PROVE  /\ Least(S) \in S
         /\ \A j \in S : Least(S) <= j
<1>1. S \subseteq Nat
  BY SizeAssumption DEF Slots
<1>2. \E i \in S : \A j \in S : i <= j
  BY <1>1, LeastExists
<1> QED BY <1>2, Zenon DEF Least

\* Both parts that a burst cuts a sequence into keep to its element set.
LEMMA CutType ==
  ASSUME NEW S, NEW s \in Seq(S), NEW k \in 0 .. Len(s)
  PROVE  /\ First(s, k) \in Seq(S)
         /\ From(s, k) \in Seq(S)
<1>1. \A i \in 1 .. k : s[i] \in S
  BY ElementOfSeq
<1>2. \A i \in k + 1 .. Len(s) : s[i] \in S
  BY ElementOfSeq
<1> QED BY <1>1, <1>2, SubSeqProperties DEF First, From

\* A burst is a part of its queue.
LEMMA BurstOfType ==
  ASSUME NEW S, NEW s \in Seq(S)
  PROVE  BurstOf(s) \in 0 .. Len(s)
BY SizeAssumption, LenProperties DEF BurstOf, Lesser

\* A run is a part of its burst, and not empty; all of it is for one ring.
LEMMA RunLengthType ==
  ASSUME NEW s \in Seq(Steered), s # <<>>
  PROVE  /\ RunLength(s) \in 1 .. Len(s)
         /\ \A i \in 1 .. RunLength(s) : s[i].id.ring = s[1].id.ring
<1> DEFINE IsRun(n) == /\ \A i \in 1 .. n : s[i].id.ring = s[1].id.ring
                       /\ n < Len(s) => s[n + 1].id.ring # s[1].id.ring
           Ends == {n \in 1 .. Len(s) :
                      n < Len(s) => s[n + 1].id.ring # s[1].id.ring}
<1>1. Len(s) \in Nat \ {0}
  BY EmptySeq
<1>2. Len(s) \in Ends /\ Ends \subseteq Nat
  BY <1>1
<1>3. PICK n \in Ends : \A j \in Ends : n <= j
  BY <1>2, LeastExists, Zenon
<1>4. \A i \in 1 .. n : s[i].id.ring = s[1].id.ring
  <2> TAKE i \in 1 .. n
  <2>1. i = 1 \/ (i - 1 \in 1 .. Len(s) /\ i - 1 < n /\ i - 1 < Len(s) /\ (i - 1) + 1 = i)
    BY <1>1, <1>3
  <2>2. n \in Nat /\ ~(n <= i - 1)
    BY <1>1, <1>3
  <2>3. i - 1 \notin Ends
    BY <1>3, <2>2
  <2> QED BY <2>1, <2>3
<1>5. IsRun(n) /\ n \in 1 .. Len(s)
  BY <1>3, <1>4
<1>6. RunLength(s) = CHOOSE m \in 1 .. Len(s) : IsRun(m)
  BY DEF RunLength
<1> HIDE DEF IsRun, Ends
<1>7. RunLength(s) \in 1 .. Len(s) /\ IsRun(RunLength(s))
  BY <1>5, <1>6
<1> QED BY <1>7 DEF IsRun
-----------------------------------------------------------------------------
(***************************************************************************)
(* Type correctness.  Between the two filters of a detection the handler   *)
(* works on a packet of its burst; without that TypeOK is not inductive.   *)
(***************************************************************************)
Detecting == pc \in {"data_filter", "req_slot", "req_filter"}
AtPacket == Detecting => pkt_index <= Len(pkts) /\ Pkt.d = "req"
TypeInv == TypeOK /\ AtPacket
NicqType ==
  /\ nicq \in [Ports -> [0 .. NbPorts -> Seq(Packet)]]
  /\ \A p \in Ports, q \in 0 .. NbPorts : nicq[p][q] \in Seq(PacketIn(q))

\* The kinds of packets, and the sequences of them.
LEMMA PacketTypes ==
  /\ Plain \subseteq Packet /\ Steered \subseteq Packet
  /\ \A s \in Seq(Plain) : s \in Seq(Packet)
  /\ \A s \in Seq(Steered) : s \in Seq(Packet)
  /\ None \notin SoftId
  /\ \A m \in Plain : m.id = None
  /\ \A m \in Steered : m.id \in SoftId /\ m.id.ring \in Slots
<1>1. Plain \subseteq Packet /\ Steered \subseteq Packet
  BY DEF Plain, Steered, Packet, PacketWith
<1>2. None \notin SoftId
  BY NoneAssumption
<1>3. \A m \in Plain : m.id = None
  BY DEF Plain, PacketWith
<1>4. \A m \in Steered : m.id \in SoftId /\ m.id.ring \in Slots
  BY DEF Steered, PacketWith, SoftId
<1> QED BY <1>1, <1>2, <1>3, <1>4, SeqMonotonic

\* Each key comes in by a port and leaves by a port of the switch, and each
\* output port has an rx queue.
LEMMA PortTypes ==
  /\ \A k \in Keys : InPort(k) \in Ports /\ OutPort(k) \in Ports
  /\ \A p \in Ports : p + 1 \in 1 .. NbPorts /\ p + 1 \in 0 .. NbPorts
  /\ \A q \in 1 .. NbPorts : q - 1 \in Ports /\ q \in 0 .. NbPorts
  /\ 0 \in Ports /\ 0 \in Slots
<1>1. \A k \in Keys : k[1] \in Conn
  BY DEF Keys
<1> QED BY <1>1, PortsAssumption, ConnAssumption, SizeAssumption
        DEF InPort, OutPort, Ports, Slots

\* The bits of a slot are bits of slots, and there is at least one.
LEMMA ShiftMaskType ==
  ASSUME NEW i \in Slots
  PROVE  ShiftMask(i) \subseteq Slots /\ ShiftMask(i) # {}
<1>1. /\ IntBits \in Nat \ {0} /\ MaxDataFlows \in Nat \ {0}
      /\ IntBits <= MaxDataFlows /\ i \in Nat
  BY SizeAssumption DEF Slots
<1>2. i % IntBits \in 0 .. IntBits - 1
  BY <1>1
<1>3. IntBits - 1 \in IntBits - 1 .. MaxDataFlows - 1
  BY <1>1
<1> HIDE DEF Slots
<1>4. CASE i % IntBits = IntBits - 1
  BY <1>1, <1>3, <1>4 DEF ShiftMask, Slots
<1>5. CASE i % IntBits # IntBits - 1
  BY <1>1, <1>2, <1>5 DEF ShiftMask, Slots
<1> QED BY <1>4, <1>5

\* A slot and a count make a soft id.
LEMMA SoftIdType ==
  ASSUME NEW i \in Slots, NEW n \in Nat
  PROVE  FdirIdLocal(i, n) \in SoftId
<1>1. n % FdirGens \in 0 .. FdirGens - 1
  BY SizeAssumption
<1> QED BY <1>1 DEF FdirIdLocal, SoftId

\* Taking a slot keeps the types of what it writes.
LEMMA TakeSlotType ==
  ASSUME TypeOK, NEW p \in Ports, NEW ip \in Host,
         NEW sink \in Event \cup {ReqSink, None}, NEW req \in BOOLEAN,
         TakeSlot(p, ip, sink, req)
  PROVE  /\ flows' \in [Ports -> [Slots -> DataFlow]]
         /\ active_flows' \in [Ports -> SUBSET Slots]
         /\ flow_id' \in Slots
<1> DEFINE flow == [active |-> TRUE, req_flow |-> req, dest_ip |-> ip, sink_id |-> sink]
           free == Least(FreeSlots(p))
<1>1. flow \in DataFlow
  BY DEF DataFlow
<1>2. CASE ActiveFor(p, ip, sink) # {}
  <2>1. ActiveFor(p, ip, sink) \subseteq Slots
    BY DEF ActiveFor
  <2>2. /\ flow_id' = Least(ActiveFor(p, ip, sink))
        /\ UNCHANGED <<flows, active_flows>>
    BY <1>2 DEF TakeSlot
  <2> QED BY <1>2, <2>1, <2>2, LeastInSet DEF TypeOK
<1>3. CASE ActiveFor(p, ip, sink) = {}
  <2>1. FreeSlots(p) \subseteq Slots /\ FreeSlots(p) # {}
    BY <1>3 DEF FreeSlots, TakeSlot
  <2>2. free \in Slots
    BY <2>1, LeastInSet
  <2>3. /\ flow_id' = free
        /\ flows' = [flows EXCEPT ![p][free] = flow]
        /\ active_flows' = [active_flows EXCEPT ![p] = @ \cup ShiftMask(free)]
    BY <1>3 DEF TakeSlot
  <2>4. ShiftMask(free) \subseteq Slots
    BY <2>2, ShiftMaskType
  <2> HIDE DEF free, flow
  <2> QED BY <1>1, <2>2, <2>3, <2>4 DEF TypeOK
<1> QED BY <1>2, <1>3

\* The packet the handler works on, while it is in its loop.
LEMMA PktType ==
  ASSUME TypeOK, pkt_index <= Len(pkts)
  PROVE  /\ Pkt \in Packet /\ Pkt.c \in Conn
         /\ ReqKey \in Keys /\ DataKey \in Keys
         /\ Dcm[Pkt.c] \in Host /\ Ros[Pkt.c] \in Host
         /\ Sport[Pkt.c] \in Nat \ {0} /\ Dport[Pkt.c] \in Nat \ {0}
         /\ Pkt.ev \in Event \cup {ReqSink, None}
<1>1. pkts \in Seq(Packet) /\ pkt_index \in 1 .. Len(pkts)
  BY PacketTypes DEF TypeOK
<1>2. Pkt \in Packet
  BY <1>1, ElementOfSeq DEF Pkt
<1>3. Pkt.c \in Conn /\ Pkt.ev \in Event \cup {None}
  BY <1>2 DEF Packet, PacketWith
<1> QED BY <1>2, <1>3, ConnAssumption DEF ReqKey, DataKey, Keys, Dirs

\* An rx queue may be given a new content of its own kind.
LEMMA NicqUpdate ==
  ASSUME TypeOK, NEW p \in Ports, NEW q \in 0 .. NbPorts, NEW s \in Seq(PacketIn(q)),
         nicq' = [nicq EXCEPT ![p][q] = s]
  PROVE  NicqType'
<1>1. s \in Seq(Packet)
  BY PacketTypes DEF PacketIn
<1>2. nicq' \in [Ports -> [0 .. NbPorts -> Seq(Packet)]]
  BY <1>1 DEF TypeOK
<1>3. ASSUME NEW p1 \in Ports, NEW q1 \in 0 .. NbPorts
      PROVE  nicq'[p1][q1] \in Seq(PacketIn(q1))
  BY DEF TypeOK
<1> QED BY <1>2, <1>3 DEF NicqType

\* A filter that the handler adds keeps the types of the flow director.
LEMMA AddFilterType ==
  ASSUME TypeOK, NEW p \in Ports, NEW k \in Keys, NEW id \in SoftId,
         NEW q \in 1 .. NbPorts, AddPerfectFilter(p, k, id, q)
  PROVE  /\ fdir' \in [Ports -> [Keys -> Filter \cup {None}]]
         /\ panic' \in BOOLEAN
<1>1. [queue |-> q, id |-> id] \in Filter
  BY DEF Filter
<1>2. CASE fdir' = [fdir EXCEPT ![p][k] = [queue |-> q, id |-> id]] /\ UNCHANGED panic
  BY <1>1, <1>2 DEF TypeOK
<1>3. CASE panic' = TRUE /\ UNCHANGED fdir
  BY <1>3 DEF TypeOK
<1> QED BY <1>2, <1>3 DEF AddPerfectFilter

LEMMA TypeInit == Init => TypeInv
<1> SUFFICES ASSUME Init PROVE TypeInv
  OBVIOUS
<1>1. <<>> \in Seq(Packet) /\ <<>> \in Seq(Plain) /\ <<>> \in Seq(Steered)
  BY EmptySeq
<1>2. UnusedFlow \in DataFlow
  BY DEF UnusedFlow, DataFlow
<1>3. 0 \in Ports /\ 0 \in Slots
  BY PortTypes
<1>4. /\ sent \in [Keys -> Nat] /\ NicqType /\ fdir \in [Ports -> [Keys -> Filter \cup {None}]] /\ fdir_id \in [Ports -> Nat]
      /\ flows \in [Ports -> [Slots -> DataFlow]]
      /\ active_flows \in [Ports -> SUBSET Slots]
      /\ rings \in [Ports -> [Slots -> Seq(Steered)]]
  BY <1>1, <1>2 DEF Init, NicqType, PacketIn
<1>5. /\ rxb \in [RxLcore -> [out : Ports, pkts : Seq(Steered)]]
      /\ txb \in [TxLcore -> [req_queue : BOOLEAN, pkts : Seq(Steered)]]
      /\ wire \in [Keys -> Seq(Packet)] /\ dropped \in [Keys -> SUBSET Plain]
  BY <1>1, <1>3 DEF Init
<1>6. /\ pc \in {"poll", "handler", "data_filter", "req_slot", "req_filter", "forward"}
      /\ in_port \in Ports /\ pkts \in Seq(Plain) /\ pkt_index \in Nat \ {0}
      /\ port_src \in Nat /\ flow_id \in Slots /\ panic \in BOOLEAN
  <2>1. pkts = <<>> /\ in_port = 0 /\ flow_id = 0
    BY Zenon DEF Init
  <2>2. pkts \in Seq(Plain) /\ in_port \in Ports /\ flow_id \in Slots
    BY <1>1, <1>3, <2>1, Zenon
  <2>3. pc = "poll" /\ pkt_index = 1 /\ port_src = 0
    BY Zenon DEF Init
  <2>4. /\ pc \in {"poll", "handler", "data_filter", "req_slot", "req_filter", "forward"}
        /\ pkt_index \in Nat \ {0} /\ port_src \in Nat
    BY <2>3
  <2>5. panic \in BOOLEAN
    BY Zenon DEF Init
  <2> QED BY <2>2, <2>4, <2>5
<1>7. TypeOK
  BY <1>4, <1>5, <1>6 DEF TypeOK, NicqType
<1>8. AtPacket
  BY DEF Init, AtPacket, Detecting
<1> QED BY <1>7, <1>8 DEF TypeInv

\* Traffic arrives.
LEMMA TypeArrive ==
  ASSUME TypeInv, NEW k \in Keys, NEW ev \in Event \cup {None}, Arrive(k, ev)
  PROVE  TypeInv'
<1> DEFINE p == InPort(k)
           f == fdir[p][k]
           q == IF f = None THEN 0 ELSE f.queue
           id == IF f = None THEN None ELSE f.id
           m == [c |-> k[1], d |-> k[2], n |-> sent[k] + 1, ev |-> ev, id |-> id]
<1>1. p \in Ports /\ k[1] \in Conn /\ k[2] \in Dirs /\ sent[k] \in Nat
  BY PortTypes DEF TypeInv, TypeOK, Keys
<1>2. f \in Filter \cup {None}
  BY <1>1 DEF TypeInv, TypeOK
<1>3. q \in 0 .. NbPorts /\ id \in SoftId \cup {None}
  BY <1>2, PortTypes, PortsAssumption DEF Filter
<1>4. m \in PacketIn(q)
  <2>1. m \in PacketWith({id})
    BY <1>1 DEF PacketWith
  <2>2. CASE f = None
    BY <2>1, <2>2 DEF PacketIn, Plain
  <2>3. CASE f # None
    <3>1. id \in SoftId /\ q # 0
      BY <1>2, <2>3 DEF Filter
    <3> QED BY <2>1, <3>1 DEF PacketIn, Steered, PacketWith
  <2> QED BY <2>2, <2>3
<1>5. /\ sent' = [sent EXCEPT ![k] = @ + 1]
      /\ nicq' = [nicq EXCEPT ![p][q] = Append(nicq[p][q], m)]
      /\ UNCHANGED <<flowVars, rings, defaultVars, rxb, txb, outVars, panic>>
  BY DEF Arrive
<1> HIDE DEF p, f, q, id, m
<1>6. nicq[p][q] \in Seq(PacketIn(q))
  BY <1>1, <1>3 DEF TypeInv, TypeOK
<1>7. Append(nicq[p][q], m) \in Seq(PacketIn(q))
  BY <1>4, <1>6, AppendProperties
<1>8. NicqType'
  BY <1>1, <1>3, <1>5, <1>7, NicqUpdate DEF TypeInv
<1>9. sent' \in [Keys -> Nat]
  BY <1>1, <1>5 DEF TypeInv, TypeOK
<1>10. TypeOK'
  BY <1>5, <1>8, <1>9 DEF TypeInv, TypeOK, NicqType, flowVars, defaultVars, outVars
<1>11. AtPacket'
  BY <1>5 DEF TypeInv, AtPacket, Detecting, Pkt, defaultVars
<1> QED BY <1>10, <1>11 DEF TypeInv

\* The default lcore takes a burst.
LEMMA TypeDefaultPoll ==
  ASSUME TypeInv, NEW p \in Ports, DefaultPoll(p)
  PROVE  TypeInv'
<1> DEFINE s == nicq[p][0]
<1>1. 0 \in 0 .. NbPorts /\ PacketIn(0) = Plain
  BY PortsAssumption DEF PacketIn
<1>2. s \in Seq(Plain)
  BY <1>1 DEF TypeInv, TypeOK
<1>3. First(s, BurstOf(s)) \in Seq(Plain) /\ From(s, BurstOf(s)) \in Seq(Plain)
  BY <1>2, BurstOfType, CutType
<1>4. /\ nicq' = [nicq EXCEPT ![p][0] = From(s, BurstOf(s))]
      /\ pkts' = First(s, BurstOf(s))
      /\ in_port' = p /\ pkt_index' = 1 /\ port_src' = 0 /\ pc' = "handler"
      /\ UNCHANGED <<sent, flow_id, flowVars, rings, rxb, txb, outVars, panic>>
  BY DEF DefaultPoll
<1> HIDE DEF s
<1>5. NicqType'
  BY <1>1, <1>3, <1>4, NicqUpdate DEF TypeInv
<1>6. TypeOK'
  BY <1>3, <1>4, <1>5 DEF TypeInv, TypeOK, NicqType, flowVars, outVars
<1>7. AtPacket'
  BY <1>4 DEF AtPacket, Detecting
<1> QED BY <1>6, <1>7 DEF TypeInv

\* The handler passes over a packet, or gives up on it.
LEMMA TypeSkip ==
  ASSUME TypeInv, SkipPacket \/ NoDataSlot \/ NoReqSlot
  PROVE  TypeInv'
<1>1. /\ NextPacket
      /\ UNCHANGED <<nicVars, flowVars, rings, in_port, pkts, port_src,
                     rxb, txb, outVars, panic>>
  BY DEF SkipPacket, NoDataSlot, NoReqSlot
<1>2. TypeOK'
  <2>1. 0 \in Slots
    BY PortTypes
  <2> QED BY <1>1, <2>1 DEF NextPacket, TypeInv, TypeOK, nicVars, flowVars, outVars
<1>3. AtPacket'
  BY <1>1 DEF NextPacket, AtPacket, Detecting
<1> QED BY <1>2, <1>3 DEF TypeInv

\* The handler takes a slot for the answers or for the requests.
LEMMA TypeTakeDataSlot ==
  ASSUME TypeInv, TakeDataSlot
  PROVE  TypeInv'
<1>1. pkt_index <= Len(pkts) /\ NewDataFlow /\ TypeOK /\ in_port \in Ports
  BY DEF TakeDataSlot, TypeInv, TypeOK
<1>2. Dcm[Pkt.c] \in Host /\ Pkt.ev \in Event \cup {ReqSink, None}
  BY <1>1, PktType
<1>3. /\ flows' \in [Ports -> [Slots -> DataFlow]]
      /\ active_flows' \in [Ports -> SUBSET Slots]
      /\ flow_id' \in Slots
  BY <1>1, <1>2, TakeSlotType DEF TakeDataSlot
<1>4. TypeOK'
  BY <1>3 DEF TakeDataSlot, TypeInv, TypeOK, nicVars, outVars
<1>5. AtPacket'
  BY <1>1 DEF TakeDataSlot, AtPacket, NewDataFlow, Pkt
<1> QED BY <1>4, <1>5 DEF TypeInv

LEMMA TypeTakeReqSlot ==
  ASSUME TypeInv, TakeReqSlot
  PROVE  TypeInv'
<1>1. pkt_index <= Len(pkts) /\ Pkt.d = "req" /\ TypeOK
  BY DEF TakeReqSlot, TypeInv, AtPacket, Detecting
<1>2. Ros[Pkt.c] \in Host /\ OutPort(ReqKey) \in Ports
  BY <1>1, PktType, PortTypes
<1>3. /\ flows' \in [Ports -> [Slots -> DataFlow]]
      /\ active_flows' \in [Ports -> SUBSET Slots]
      /\ flow_id' \in Slots
  BY <1>1, <1>2, TakeSlotType DEF TakeReqSlot
<1>4. TypeOK'
  BY <1>3 DEF TakeReqSlot, TypeInv, TypeOK, nicVars, outVars
<1>5. AtPacket'
  BY <1>1 DEF TakeReqSlot, AtPacket, Pkt
<1> QED BY <1>4, <1>5 DEF TypeInv

\* The handler adds a filter.
LEMMA TypeInstallDataFilter ==
  ASSUME TypeInv, InstallDataFilter
  PROVE  TypeInv'
<1> DEFINE p == OutPort(ReqKey)
<1>1. pkt_index <= Len(pkts) /\ Pkt.d = "req" /\ TypeOK
  BY DEF InstallDataFilter, TypeInv, AtPacket, Detecting
<1>2. p \in Ports /\ DataKey \in Keys /\ Dport[Pkt.c] \in Nat
  BY <1>1, PktType, PortTypes
<1>3. in_port + 1 \in 1 .. NbPorts /\ fdir_id[p] + 1 \in Nat /\ flow_id \in Slots
  <2>1. in_port \in Ports /\ fdir_id[p] \in Nat /\ flow_id \in Slots
    BY <1>1, <1>2 DEF TypeOK
  <2> QED BY <2>1, PortTypes
<1>4. FdirIdLocal(flow_id, fdir_id[p] + 1) \in SoftId
  BY <1>3, SoftIdType
<1>5. fdir' \in [Ports -> [Keys -> Filter \cup {None}]] /\ panic' \in BOOLEAN
  BY <1>1, <1>2, <1>3, <1>4, AddFilterType DEF InstallDataFilter
<1>6. fdir_id' \in [Ports -> Nat]
  BY <1>1, <1>2, <1>3 DEF InstallDataFilter, TypeOK
<1>7. TypeOK'
  BY <1>2, <1>5, <1>6 DEF InstallDataFilter, TypeInv, TypeOK, nicVars, outVars
<1>8. AtPacket'
  BY <1>1 DEF InstallDataFilter, AtPacket, Pkt
<1> QED BY <1>7, <1>8 DEF TypeInv

LEMMA TypeInstallReqFilter ==
  ASSUME TypeInv, InstallReqFilter
  PROVE  TypeInv'
<1>1. pkt_index <= Len(pkts) /\ Pkt.d = "req" /\ TypeOK
  BY DEF InstallReqFilter, TypeInv, AtPacket, Detecting
<1>2. /\ in_port \in Ports /\ ReqKey \in Keys /\ Sport[Pkt.c] \in Nat
      /\ OutPort(ReqKey) \in Ports
  BY <1>1, PktType, PortTypes DEF TypeOK
<1>3. /\ OutPort(ReqKey) + 1 \in 1 .. NbPorts
      /\ fdir_id[in_port] + 1 \in Nat /\ flow_id \in Slots
  <2>1. fdir_id[in_port] \in Nat /\ flow_id \in Slots
    BY <1>1, <1>2 DEF TypeOK
  <2> QED BY <1>2, <2>1, PortTypes
<1>4. FdirIdLocal(flow_id, fdir_id[in_port] + 1) \in SoftId
  BY <1>3, SoftIdType
<1>5. fdir' \in [Ports -> [Keys -> Filter \cup {None}]] /\ panic' \in BOOLEAN
  BY <1>1, <1>2, <1>3, <1>4, AddFilterType DEF InstallReqFilter
<1>6. fdir_id' \in [Ports -> Nat]
  BY <1>1, <1>2, <1>3 DEF InstallReqFilter, TypeOK
<1>7. TypeOK'
  <2>1. 0 \in Slots
    BY PortTypes
  <2>2. pkt_index + 1 \in Nat \ {0}
    BY DEF TypeInv, TypeOK
  <2>3. /\ UNCHANGED <<sent, nicq, flows, active_flows, rings, in_port, pkts, rxb, txb,
                       wire, dropped>>
        /\ port_src' = Sport[Pkt.c] /\ pc' = "handler"
        /\ pkt_index' = pkt_index + 1 /\ flow_id' = 0
    BY DEF InstallReqFilter, NextPacket, nicVars, outVars
  <2> QED BY <1>2, <1>5, <1>6, <2>1, <2>2, <2>3 DEF TypeInv, TypeOK
<1>8. AtPacket'
  BY DEF InstallReqFilter, NextPacket, AtPacket, Detecting
<1> QED BY <1>7, <1>8 DEF TypeInv

\* The pipeline forwards the burst.
LEMMA TypeForward ==
  ASSUME TypeInv, ForwardBurst \/ ForwardPacket
  PROVE  TypeInv'
<1>1. CASE ForwardBurst
  <2>1. 0 \in Ports
    BY PortTypes
  <2>2. TypeOK'
    BY <1>1, <2>1 DEF ForwardBurst, TypeInv, TypeOK, nicVars, flowVars, outVars
  <2>3. AtPacket'
    BY <1>1 DEF ForwardBurst, AtPacket, Detecting
  <2> QED BY <2>2, <2>3 DEF TypeInv
<1>2. CASE ForwardPacket
  <2> DEFINE m == Head(pkts)
  <2>1. m \in Plain /\ Tail(pkts) \in Seq(Plain)
    BY <1>2, HeadTailProperties DEF ForwardPacket, TypeInv, TypeOK
  <2>2. m \in Packet /\ KeyOf(m) \in Keys
    BY <2>1, PacketTypes DEF Packet, PacketWith, KeyOf, Keys
  <2>3. wire' = wire \/ wire' = [wire EXCEPT ![KeyOf(m)] = Append(@, m)]
    BY <1>2 DEF ForwardPacket, Transmit
  <2>4. dropped' = dropped \/ dropped' = [dropped EXCEPT ![KeyOf(m)] = @ \cup {m}]
    BY <1>2 DEF ForwardPacket
  <2> HIDE DEF m
  <2>5. Append(wire[KeyOf(m)], m) \in Seq(Packet)
    BY <2>2, AppendProperties DEF TypeInv, TypeOK
  <2>6. wire' \in [Keys -> Seq(Packet)]
    BY <2>2, <2>3, <2>5 DEF TypeInv, TypeOK
  <2>7. dropped' \in [Keys -> SUBSET Plain]
    <3>1. dropped[KeyOf(m)] \cup {m} \in SUBSET Plain
      BY <2>1, <2>2 DEF TypeInv, TypeOK
    <3> QED BY <2>2, <2>4, <3>1 DEF TypeInv, TypeOK
  <2>8. TypeOK'
    BY <1>2, <2>1, <2>6, <2>7 DEF ForwardPacket, TypeInv, TypeOK, nicVars, flowVars, m
  <2>9. AtPacket'
    BY <1>2 DEF ForwardPacket, AtPacket, Detecting
  <2> QED BY <2>8, <2>9 DEF TypeInv
<1> QED BY <1>1, <1>2

\* An rx lcore takes a burst, and moves a part of it into a ring.
LEMMA TypeRxPoll ==
  ASSUME TypeInv, NEW l \in RxLcore, NEW p \in Ports, NEW q \in 1 .. NbPorts, RxPoll(l, p, q)
  PROVE  TypeInv'
<1> DEFINE s == nicq[p][q]
<1>1. q - 1 \in Ports /\ q \in 0 .. NbPorts /\ PacketIn(q) = Steered
  BY PortTypes DEF PacketIn
<1>2. s \in Seq(Steered)
  BY <1>1 DEF TypeInv, TypeOK
<1>3. First(s, BurstOf(s)) \in Seq(Steered) /\ From(s, BurstOf(s)) \in Seq(Steered)
  BY <1>2, BurstOfType, CutType
<1>4. /\ nicq' = [nicq EXCEPT ![p][q] = From(s, BurstOf(s))]
      /\ rxb' = [rxb EXCEPT ![l] = [out |-> q - 1, pkts |-> First(s, BurstOf(s))]]
      /\ UNCHANGED <<sent, flowVars, rings, defaultVars, txb, outVars, panic>>
  BY DEF RxPoll
<1> HIDE DEF s
<1>5. NicqType'
  BY <1>1, <1>3, <1>4, NicqUpdate DEF TypeInv
<1>6. rxb' \in [RxLcore -> [out : Ports, pkts : Seq(Steered)]]
  BY <1>1, <1>3, <1>4 DEF TypeInv, TypeOK
<1>7. TypeOK'
  BY <1>4, <1>5, <1>6 DEF TypeInv, TypeOK, NicqType, flowVars, defaultVars, outVars
<1>8. AtPacket'
  BY <1>4 DEF TypeInv, AtPacket, Detecting, Pkt, defaultVars
<1> QED BY <1>7, <1>8 DEF TypeInv

\* A part of a run that fits in the ring is a part of the burst, and goes to the
\* ring of the first packet.
LEMMA EnqueuedPart ==
  ASSUME TypeInv, NEW l \in RxLcore, RxEnqueue(l)
  PROVE  LET s == rxb[l].pkts
             p == rxb[l].out
             i == s[1].id.ring
             n == Lesser(RunLength(s), RingSize - Len(rings[p][i]))
         IN  /\ s \in Seq(Steered) /\ p \in Ports /\ i \in Slots
             /\ n \in 1 .. Len(s) /\ n \in 1 .. RunLength(s)
<1> DEFINE s == rxb[l].pkts
           p == rxb[l].out
           i == s[1].id.ring
           room == RingSize - Len(rings[p][i])
           n == Lesser(RunLength(s), room)
<1>1. s \in Seq(Steered) /\ s # <<>> /\ p \in Ports
  BY DEF TypeInv, TypeOK, RxEnqueue
<1>2. RunLength(s) \in 1 .. Len(s) /\ Len(s) \in Nat \ {0}
  BY <1>1, RunLengthType, EmptySeq
<1>3. i \in Slots
  <2>1. s[1] \in Steered
    BY <1>1, <1>2, ElementOfSeq
  <2> QED BY <2>1, PacketTypes
<1>4. room \in Int
  <2>1. rings[p][i] \in Seq(Steered)
    BY <1>1, <1>3 DEF TypeInv, TypeOK
  <2> QED BY <2>1, LenProperties, SizeAssumption
<1>5. n > 0
  BY DEF RxEnqueue
<1> HIDE DEF s, p, i, room
<1>6. n \in 1 .. Len(s) /\ n \in 1 .. RunLength(s)
  BY <1>2, <1>4, <1>5 DEF Lesser
<1> QED BY <1>1, <1>3, <1>6 DEF s, p, i, room

LEMMA TypeRxEnqueue ==
  ASSUME TypeInv, NEW l \in RxLcore, RxEnqueue(l)
  PROVE  TypeInv'
<1> DEFINE s == rxb[l].pkts
           p == rxb[l].out
           i == s[1].id.ring
           n == Lesser(RunLength(s), RingSize - Len(rings[p][i]))
<1>1. s \in Seq(Steered) /\ p \in Ports /\ i \in Slots /\ n \in 0 .. Len(s)
  BY EnqueuedPart, LenProperties
<1>2. /\ rings' = [rings EXCEPT ![p][i] = rings[p][i] \o First(s, n)]
      /\ rxb' = [rxb EXCEPT ![l].pkts = From(s, n)]
      /\ UNCHANGED <<nicVars, flowVars, defaultVars, txb, outVars, panic>>
  BY DEF RxEnqueue
<1> HIDE DEF s, p, i, n
<1>3. First(s, n) \in Seq(Steered) /\ From(s, n) \in Seq(Steered)
  BY <1>1, CutType
<1>4. rings[p][i] \o First(s, n) \in Seq(Steered)
  BY <1>1, <1>3, ConcatProperties DEF TypeInv, TypeOK
<1>5. rings' \in [Ports -> [Slots -> Seq(Steered)]]
  BY <1>1, <1>2, <1>4 DEF TypeInv, TypeOK
<1>6. rxb' \in [RxLcore -> [out : Ports, pkts : Seq(Steered)]]
  BY <1>2, <1>3 DEF TypeInv, TypeOK
<1>7. TypeOK'
  BY <1>2, <1>5, <1>6 DEF TypeInv, TypeOK, nicVars, flowVars, defaultVars, outVars
<1>8. AtPacket'
  BY <1>2 DEF TypeInv, AtPacket, Detecting, Pkt, defaultVars
<1> QED BY <1>7, <1>8 DEF TypeInv

\* A tx lcore takes a burst from a ring, and sends a packet.
LEMMA TypeTxPoll ==
  ASSUME TypeInv, NEW l \in TxLcore, NEW p \in Ports, NEW i \in Slots, TxPoll(l, p, i)
  PROVE  TypeInv'
<1> DEFINE s == rings[p][i]
<1>1. s \in Seq(Steered) /\ flows[p][i].req_flow \in BOOLEAN
  BY DEF TypeInv, TypeOK, DataFlow
<1>2. First(s, BurstOf(s)) \in Seq(Steered) /\ From(s, BurstOf(s)) \in Seq(Steered)
  BY <1>1, BurstOfType, CutType
<1>3. /\ rings' = [rings EXCEPT ![p][i] = From(s, BurstOf(s))]
      /\ txb' = [txb EXCEPT ![l] =
                   [req_queue |-> flows[p][i].req_flow, pkts |-> First(s, BurstOf(s))]]
      /\ UNCHANGED <<nicVars, flowVars, defaultVars, rxb, outVars, panic>>
  BY DEF TxPoll
<1> HIDE DEF s
<1>4. /\ rings' \in [Ports -> [Slots -> Seq(Steered)]]
      /\ txb' \in [TxLcore -> [req_queue : BOOLEAN, pkts : Seq(Steered)]]
  BY <1>1, <1>2, <1>3 DEF TypeInv, TypeOK
<1>5. TypeOK'
  BY <1>3, <1>4 DEF TypeInv, TypeOK, nicVars, flowVars, defaultVars, outVars
<1>6. AtPacket'
  BY <1>3 DEF TypeInv, AtPacket, Detecting, Pkt, defaultVars
<1> QED BY <1>5, <1>6 DEF TypeInv

LEMMA TypeTxSend ==
  ASSUME TypeInv, NEW l \in TxLcore, TxSend(l)
  PROVE  TypeInv'
<1> DEFINE m == Head(txb[l].pkts)
<1>1. m \in Steered /\ Tail(txb[l].pkts) \in Seq(Steered)
  BY HeadTailProperties DEF TxSend, TypeInv, TypeOK
<1>2. m \in Packet /\ KeyOf(m) \in Keys
  BY <1>1, PacketTypes DEF Packet, PacketWith, KeyOf, Keys
<1>3. /\ wire' = [wire EXCEPT ![KeyOf(m)] = Append(wire[KeyOf(m)], m)]
      /\ txb' = [txb EXCEPT ![l].pkts = Tail(txb[l].pkts)]
      /\ UNCHANGED <<nicVars, flowVars, rings, defaultVars, rxb, dropped, panic>>
  BY DEF TxSend, Transmit
<1> HIDE DEF m
<1>4. Append(wire[KeyOf(m)], m) \in Seq(Packet)
  BY <1>2, AppendProperties DEF TypeInv, TypeOK
<1>5. /\ wire' \in [Keys -> Seq(Packet)]
      /\ txb' \in [TxLcore -> [req_queue : BOOLEAN, pkts : Seq(Steered)]]
  BY <1>1, <1>2, <1>3, <1>4 DEF TypeInv, TypeOK
<1>6. TypeOK'
  BY <1>3, <1>5 DEF TypeInv, TypeOK, nicVars, flowVars, defaultVars
<1>7. AtPacket'
  BY <1>3 DEF TypeInv, AtPacket, Detecting, Pkt, defaultVars
<1> QED BY <1>6, <1>7 DEF TypeInv

\* A step that only stops the process, or does nothing.
LEMMA TypeStop ==
  ASSUME TypeInv,
         \/ \E l \in RxLcore : RxNullRing(l)
         \/ \E l \in TxLcore, p \in Ports, i \in Slots : TxNullRing(l, p, i)
         \/ Idle \/ Dead \/ UNCHANGED vars
  PROVE  TypeInv'
<1>1. /\ UNCHANGED <<nicVars, flowVars, rings, defaultVars, rxb, txb, outVars>>
      /\ panic' \in BOOLEAN
  BY DEF RxNullRing, TxNullRing, Idle, Dead, vars, TypeInv, TypeOK
<1> QED BY <1>1 DEF TypeInv, TypeOK, AtPacket, Detecting, Pkt,
                    nicVars, flowVars, defaultVars, outVars

LEMMA TypeNext == TypeInv /\ [Next]_vars => TypeInv'
<1> SUFFICES ASSUME TypeInv, [Next]_vars PROVE TypeInv'
  OBVIOUS
<1>1. CASE Hosts
  BY <1>1, TypeArrive DEF Hosts
<1>2. CASE DefaultLcore
  BY <1>2, TypeDefaultPoll, TypeSkip, TypeTakeDataSlot, TypeInstallDataFilter,
     TypeTakeReqSlot, TypeInstallReqFilter, TypeForward DEF DefaultLcore
<1>3. ASSUME NEW l \in RxLcore, DataRx(l) PROVE TypeInv'
  BY <1>3, TypeRxPoll, TypeRxEnqueue, TypeStop DEF DataRx
<1>4. ASSUME NEW l \in TxLcore, DataTx(l) PROVE TypeInv'
  BY <1>4, TypeTxPoll, TypeTxSend, TypeStop DEF DataTx
<1>5. CASE Idle \/ Dead \/ UNCHANGED vars
  BY <1>5, TypeStop
<1> QED BY <1>1, <1>2, <1>3, <1>4, <1>5 DEF Next

\* The variables keep their types; a packet on the fast path always carries a
\* soft id that names a slot, and one on the default path never carries one.
THEOREM TypeCorrect == Spec => []TypeOK
<1>1. Init => TypeInv
  BY TypeInit
<1>2. TypeInv /\ [Next]_vars => TypeInv'
  BY TypeNext
<1>3. TypeInv => TypeOK
  BY DEF TypeInv
<1> QED BY <1>1, <1>2, <1>3, PTL DEF Spec

-----------------------------------------------------------------------------
(* Rings and sinks. *)

-----------------------------------------------------------------------------
(***************************************************************************)
(* The inductive invariant.  Filters and packets refer to slots by soft    *)
(* ids, and the lcores read flows and active_flows at another time than    *)
(* they read the id: RingServed and SinkIsolation hold because a slot is   *)
(* complete before anything refers to it, and is never taken back.         *)
(***************************************************************************)

\* A slot in use is polled, and is a request slot exactly when its sink is ReqSink.
SlotInv ==
  \A p \in Ports, i \in Slots : flows[p][i].active =>
    Polled(p, i) /\ flows[p][i].req_flow = (flows[p][i].sink_id = ReqSink)

\* Packets of the default path of a port, and of the fast path to a port.
Waiting(p) == {m \in Plain : InPort(KeyOf(m)) = p /\ (m.d = "req" => m.ev \in Event)}
Bound(p) == {m \in Steered : Served(p, m.id.ring) /\ Owns(p, m.id.ring, KeyOf(m))}
OnRing(p, i) == {m \in Bound(p) : m.id.ring = i}
OnTxQueue(req_queue) == {m \in Steered : req_queue = (m.d = "req")}

InHandler == pc \in {"handler", "data_filter", "req_slot", "req_filter"}
DefaultPathInv ==
  /\ \A p \in Ports : nicq[p][0] \in Seq(Waiting(p))
  /\ InHandler => pkts \in Seq(Waiting(in_port))

\* What the handler is about to install a filter for.
DetectionInv ==
  /\ pc = "data_filter" => Served(in_port, flow_id) /\ Owns(in_port, flow_id, DataKey)
  /\ pc = "req_filter" =>
       Served(OutPort(ReqKey), flow_id) /\ Owns(OutPort(ReqKey), flow_id, ReqKey)

FilterInv ==
  \A p \in Ports, k \in Keys : fdir[p][k] # None =>
    /\ Served(fdir[p][k].queue - 1, fdir[p][k].id.ring)
    /\ Owns(fdir[p][k].queue - 1, fdir[p][k].id.ring, k)

FastPathInv ==
  /\ \A p \in Ports, q \in 1 .. NbPorts : nicq[p][q] \in Seq(Bound(q - 1))
  /\ \A l \in RxLcore : rxb[l].pkts \in Seq(Bound(rxb[l].out))
  /\ \A p \in Ports, i \in Slots : rings[p][i] \in Seq(OnRing(p, i))
  /\ \A l \in TxLcore : txb[l].pkts \in Seq(OnTxQueue(txb[l].req_queue))

SteeringInv == SlotInv /\ DefaultPathInv /\ DetectionInv /\ FilterInv /\ FastPathInv
-----------------------------------------------------------------------------
(***************************************************************************)
(* Slots are only ever filled in, and bits only ever set.                  *)
(***************************************************************************)
Kept ==
  /\ \A p \in Ports, i \in Slots : flows[p][i].active => flows'[p][i] = flows[p][i]
  /\ \A p \in Ports : active_flows[p] \subseteq active_flows'[p]

\* What is in use stays in use, and keeps its owner.
LEMMA KeptServed ==
  ASSUME TypeOK, Kept, NEW p \in Ports
  PROVE  /\ \A i \in Slots : Served(p, i) => Served(p, i)'
         /\ \A i \in Slots, k \in Keys : Owns(p, i, k) => Owns(p, i, k)'
         /\ Bound(p) \subseteq Bound(p)'
         /\ \A i \in Slots : OnRing(p, i) \subseteq OnRing(p, i)'
<1>1. \A i \in Slots : Served(p, i) => Served(p, i)'
  BY DEF Kept, Served, Polled
<1>2. \A i \in Slots : \A k : Owns(p, i, k) => Owns(p, i, k)'
  BY DEF Kept, Owns
<1>3. Bound(p) \subseteq Bound(p)'
  BY <1>1, <1>2, PacketTypes DEF Bound
<1>4. \A i \in Slots : OnRing(p, i) \subseteq OnRing(p, i)'
  BY <1>3 DEF OnRing
<1> QED BY <1>1, <1>2, <1>3, <1>4

\* The slot that is taken for a sink is in use, is polled and is the sink's.
LEMMA TakeSlotEffect ==
  ASSUME TypeOK, SlotInv, NEW p \in Ports, NEW ip \in Host,
         NEW sink \in Event \cup {ReqSink}, NEW req \in BOOLEAN, req = (sink = ReqSink),
         TakeSlot(p, ip, sink, req)
  PROVE  /\ Kept /\ SlotInv' /\ flow_id' \in Slots
         /\ Served(p, flow_id)'
         /\ flows'[p][flow_id'].dest_ip = ip
         /\ flows'[p][flow_id'].req_flow = req
<1> DEFINE flow == [active |-> TRUE, req_flow |-> req, dest_ip |-> ip, sink_id |-> sink]
           i == Least(FreeSlots(p))
<1>1. CASE ActiveFor(p, ip, sink) # {}
  <2>1. ActiveFor(p, ip, sink) \subseteq Slots
    BY DEF ActiveFor
  <2>2. /\ flow_id' = Least(ActiveFor(p, ip, sink))
        /\ UNCHANGED <<flows, active_flows>>
    BY <1>1 DEF TakeSlot
  <2>3. flow_id' \in ActiveFor(p, ip, sink) /\ flow_id' \in Slots
    BY <1>1, <2>1, <2>2, LeastInSet
  <2>4. Kept /\ SlotInv'
    BY <2>2 DEF Kept, SlotInv, Polled
  <2>5. /\ flows[p][flow_id'].active /\ flows[p][flow_id'].dest_ip = ip
        /\ flows[p][flow_id'].sink_id = sink
    BY <2>3 DEF ActiveFor
  <2>6. Polled(p, flow_id') /\ flows[p][flow_id'].req_flow = req
    BY <2>3, <2>5 DEF SlotInv
  <2> QED BY <2>2, <2>3, <2>4, <2>5, <2>6 DEF Served, Polled
<1>2. CASE ActiveFor(p, ip, sink) = {}
  <2>1. FreeSlots(p) \subseteq Slots /\ FreeSlots(p) # {}
    BY <1>2 DEF FreeSlots, TakeSlot
  <2>2. i \in FreeSlots(p) /\ i \in Slots /\ ~flows[p][i].active
    BY <2>1, LeastInSet DEF FreeSlots
  <2>3. /\ flow_id' = i
        /\ flows' = [flows EXCEPT ![p][i] = flow]
        /\ active_flows' = [active_flows EXCEPT ![p] = active_flows[p] \cup ShiftMask(i)]
    BY <1>2 DEF TakeSlot
  <2>4. ShiftMask(i) # {}
    BY <2>2, ShiftMaskType
  <2> HIDE DEF i
  <2>5. Kept
    BY <2>2, <2>3 DEF Kept, TypeOK
  <2>6. flows'[p][i] = flow
    BY <2>2, <2>3 DEF TypeOK
  <2>7. active_flows'[p] = active_flows[p] \cup ShiftMask(i)
    BY <2>3 DEF TypeOK
  <2>8. ASSUME NEW p1 \in Ports, NEW i1 \in Slots, flows'[p1][i1].active
        PROVE  /\ Polled(p1, i1)'
               /\ flows'[p1][i1].req_flow = (flows'[p1][i1].sink_id = ReqSink)
    <3>1. CASE p1 = p /\ i1 = i
      BY <2>6, <2>7, <2>4, <3>1 DEF Polled
    <3>2. CASE ~(p1 = p /\ i1 = i)
      <4>1. flows'[p1][i1] = flows[p1][i1]
        BY <2>2, <2>3, <3>2 DEF TypeOK
      <4>2. /\ Polled(p1, i1)
            /\ flows[p1][i1].req_flow = (flows[p1][i1].sink_id = ReqSink)
        BY <2>8, <4>1 DEF SlotInv
      <4>3. Polled(p1, i1)'
        BY <2>5, <4>2 DEF Kept, Polled
      <4> QED BY <4>1, <4>2, <4>3
    <3> QED BY <3>1, <3>2
  <2>9. SlotInv'
    BY <2>8 DEF SlotInv
  <2>10. Served(p, flow_id)'
    BY <2>3, <2>4, <2>6, <2>7 DEF Served, Polled
  <2> QED BY <2>2, <2>3, <2>5, <2>6, <2>9, <2>10
<1> QED BY <1>1, <1>2

-----------------------------------------------------------------------------
(***************************************************************************)
(* The inductive step, in parts: first what a step leaves alone, then what *)
(* each action writes.                                                     *)
(***************************************************************************)

\* What Kept gives the packets that a step does not move.
LEMMA KeptQueues ==
  ASSUME TypeOK, FastPathInv, Kept, NEW p \in Ports
  PROVE  /\ \A p1 \in Ports : p + 1 \in 1 .. NbPorts /\ nicq[p1][p + 1] \in Seq(Bound(p)')
         /\ \A l \in RxLcore : rxb[l].out = p => rxb[l].pkts \in Seq(Bound(p)')
         /\ \A i \in Slots : rings[p][i] \in Seq(OnRing(p, i)')
<1>1. Bound(p) \subseteq Bound(p)' /\ \A i \in Slots : OnRing(p, i) \subseteq OnRing(p, i)'
  BY KeptServed
<1>2. p + 1 \in 1 .. NbPorts /\ (p + 1) - 1 = p
  BY PortTypes DEF Ports
<1>3. ASSUME NEW p1 \in Ports
      PROVE  nicq[p1][p + 1] \in Seq(Bound(p)')
  <2>1. nicq[p1][p + 1] \in Seq(Bound(p))
    BY <1>2 DEF FastPathInv
  <2> QED BY <1>1, <2>1, SeqMonotonic
<1>4. ASSUME NEW l \in RxLcore, rxb[l].out = p
      PROVE  rxb[l].pkts \in Seq(Bound(p)')
  <2>1. rxb[l].pkts \in Seq(Bound(p))
    BY <1>4 DEF FastPathInv
  <2> QED BY <1>1, <2>1, SeqMonotonic
<1>5. ASSUME NEW i \in Slots
      PROVE  rings[p][i] \in Seq(OnRing(p, i)')
  <2>1. rings[p][i] \in Seq(OnRing(p, i))
    BY DEF FastPathInv
  <2> QED BY <1>1, <2>1, SeqMonotonic
<1> QED BY <1>2, <1>3, <1>4, <1>5

\* The fast path of a step that moves nothing on it.
LEMMA FastPathKept ==
  ASSUME TypeOK, FastPathInv, Kept, UNCHANGED <<rxb, rings, txb>>,
         \A p \in Ports, q \in 1 .. NbPorts : nicq'[p][q] = nicq[p][q]
  PROVE  FastPathInv'
<1>1. ASSUME NEW p \in Ports, NEW q \in 1 .. NbPorts
      PROVE  nicq'[p][q] \in Seq(Bound(q - 1)')
  <2>1. q - 1 \in Ports /\ (q - 1) + 1 = q
    BY PortTypes DEF Ports
  <2>2. nicq[p][q] \in Seq(Bound(q - 1)')
    BY <2>1, KeptQueues
  <2> QED BY <2>2
<1>2. ASSUME NEW l \in RxLcore, NEW p \in Ports, rxb[l].out = p
      PROVE  rxb'[l].pkts \in Seq(Bound(p)')
  BY <1>2, KeptQueues
<1>3. ASSUME NEW p \in Ports, NEW i \in Slots
      PROVE  rings'[p][i] \in Seq(OnRing(p, i)')
  BY KeptQueues
<1>4. \A l \in TxLcore : txb'[l].pkts \in Seq(OnTxQueue(txb'[l].req_queue))
  BY DEF FastPathInv
<1>5. \A l \in RxLcore : rxb'[l].out \in Ports
  BY DEF TypeOK
<1> QED BY <1>1, <1>2, <1>3, <1>4, <1>5 DEF FastPathInv

\* The filters of a step that installs none.
LEMMA FilterKept ==
  ASSUME TypeOK, FilterInv, Kept, UNCHANGED fdir
  PROVE  FilterInv'
<1> SUFFICES ASSUME NEW p \in Ports, NEW k \in Keys, fdir[p][k] # None
             PROVE  /\ Served(fdir[p][k].queue - 1, fdir[p][k].id.ring)'
                    /\ Owns(fdir[p][k].queue - 1, fdir[p][k].id.ring, k)'
  BY DEF FilterInv
<1>1. fdir[p][k] \in Filter
  BY DEF TypeOK
<1>2. fdir[p][k].queue \in 1 .. NbPorts /\ fdir[p][k].id.ring \in Slots
  BY <1>1 DEF Filter, SoftId
<1>3. fdir[p][k].queue - 1 \in Ports
  BY <1>2, PortTypes
<1>4. /\ Served(fdir[p][k].queue - 1, fdir[p][k].id.ring)
      /\ Owns(fdir[p][k].queue - 1, fdir[p][k].id.ring, k)
  BY DEF FilterInv
<1>5. ASSUME NEW o \in Ports, NEW i \in Slots, Served(o, i), Owns(o, i, k)
      PROVE  Served(o, i)' /\ Owns(o, i, k)'
  BY <1>5, KeptServed
<1> QED BY <1>2, <1>3, <1>4, <1>5

\* The default path of a step that leaves it alone.
LEMMA DefaultPathKept ==
  ASSUME DefaultPathInv, UNCHANGED <<pkts, in_port>>, InHandler' => InHandler,
         \A p \in Ports : nicq'[p][0] = nicq[p][0]
  PROVE  DefaultPathInv'
BY DEF DefaultPathInv

\* The request the handler works on came in by the port its answers leave by.
LEMMA RequestInHandler ==
  ASSUME TypeOK, DefaultPathInv, InHandler, pkt_index <= Len(pkts), Pkt.d = "req"
  PROVE  /\ Pkt.ev \in Event
         /\ InPort(ReqKey) = in_port /\ OutPort(DataKey) = in_port
         /\ OutPort(ReqKey) = InPort(DataKey)
<1>1. pkts \in Seq(Waiting(in_port)) /\ pkt_index \in 1 .. Len(pkts)
  BY DEF DefaultPathInv, TypeOK
<1>2. Pkt \in Waiting(in_port)
  BY <1>1, ElementOfSeq DEF Pkt
<1> QED BY <1>2 DEF Waiting, KeyOf, ReqKey, DataKey, InPort, OutPort

\* A slot taken for the current request is what the next filter is for.
LEMMA SteeringTakeDataSlot ==
  ASSUME TypeInv, SteeringInv, TakeDataSlot
  PROVE  SteeringInv'
<1>1. /\ TypeOK /\ in_port \in Ports /\ pkt_index <= Len(pkts)
      /\ Pkt.d = "req" /\ InHandler /\ DefaultPathInv
  BY DEF TakeDataSlot, NewDataFlow, TypeInv, TypeOK, InHandler, SteeringInv
<1>2. /\ Pkt.ev \in Event /\ OutPort(DataKey) = in_port
      /\ Dcm[Pkt.c] \in Host /\ DataKey \in Keys
  BY <1>1, RequestInHandler, PktType
<1>3. /\ TakeSlot(in_port, Dcm[Pkt.c], Pkt.ev, FALSE)
      /\ pc' = "data_filter"
      /\ UNCHANGED <<nicVars, fdir, fdir_id, rings, in_port, pkts, pkt_index, port_src,
                     rxb, txb, outVars, panic>>
  BY DEF TakeDataSlot
<1>4. FALSE = (Pkt.ev = ReqSink)
  BY <1>2, EventAssumption
<1>5. /\ Kept /\ SlotInv' /\ Served(in_port, flow_id)'
      /\ flows'[in_port][flow_id'].dest_ip = Dcm[Pkt.c]
      /\ flows'[in_port][flow_id'].req_flow = FALSE
  BY <1>1, <1>2, <1>3, <1>4, TakeSlotEffect DEF SteeringInv
<1>6. UNCHANGED <<nicq, fdir, rings, in_port, pkts, pkt_index, rxb, txb>>
  BY <1>3 DEF nicVars
<1>7. Owns(in_port, flow_id, DataKey)'
  BY <1>2, <1>5, <1>6 DEF Owns, Served, DestOf, DataKey, Pkt
<1>8. DetectionInv'
  BY <1>3, <1>5, <1>7 DEF DetectionInv
<1>9. FilterInv' /\ FastPathInv' /\ DefaultPathInv'
  BY <1>1, <1>5, <1>6, FilterKept, FastPathKept, DefaultPathKept DEF SteeringInv
<1> QED BY <1>5, <1>8, <1>9 DEF SteeringInv

LEMMA SteeringTakeReqSlot ==
  ASSUME TypeInv, SteeringInv, TakeReqSlot
  PROVE  SteeringInv'
<1>1. /\ TypeOK /\ pkt_index <= Len(pkts)
      /\ Pkt.d = "req" /\ InHandler /\ DefaultPathInv
  BY DEF TakeReqSlot, TypeInv, AtPacket, Detecting, InHandler, SteeringInv
<1>2. /\ Ros[Pkt.c] \in Host /\ ReqKey \in Keys /\ OutPort(ReqKey) \in Ports
  BY <1>1, PktType, PortTypes
<1>3. /\ TakeSlot(OutPort(ReqKey), Ros[Pkt.c], ReqSink, TRUE)
      /\ pc' = "req_filter"
      /\ UNCHANGED <<nicVars, fdir, fdir_id, rings, in_port, pkts, pkt_index, port_src,
                     rxb, txb, outVars, panic>>
  BY DEF TakeReqSlot
<1>4. PICK p \in Ports : p = OutPort(ReqKey)
  BY <1>2
<1>5. TakeSlot(p, Ros[Pkt.c], ReqSink, TRUE)
  BY <1>3, <1>4
<1>6. /\ Kept /\ SlotInv' /\ Served(p, flow_id)'
      /\ flows'[p][flow_id'].dest_ip = Ros[Pkt.c]
      /\ flows'[p][flow_id'].req_flow = TRUE
  BY <1>1, <1>2, <1>5, TakeSlotEffect DEF SteeringInv
<1>7. UNCHANGED <<nicq, fdir, rings, in_port, pkts, pkt_index, rxb, txb>>
  BY <1>3 DEF nicVars
<1>8. ReqKey' = ReqKey /\ OutPort(ReqKey)' = p
  BY <1>4, <1>7 DEF ReqKey, Pkt, OutPort
<1>9. Owns(p, flow_id, ReqKey)'
  BY <1>6, <1>7, <1>8 DEF Owns, Served, DestOf, ReqKey, Pkt
<1>10. DetectionInv'
  BY <1>3, <1>6, <1>8, <1>9 DEF DetectionInv
<1>11. FilterInv' /\ FastPathInv' /\ DefaultPathInv'
  BY <1>1, <1>6, <1>7, FilterKept, FastPathKept, DefaultPathKept DEF SteeringInv
<1> QED BY <1>6, <1>10, <1>11 DEF SteeringInv

\* A step that takes no slot.
LEMMA SlotsUnchanged ==
  ASSUME SlotInv, UNCHANGED <<flows, active_flows>>
  PROVE  Kept /\ SlotInv'
BY DEF Kept, SlotInv, Polled

\* A filter may be installed for a slot that is in use, polled and the key's.
LEMMA NewFilter ==
  ASSUME TypeOK, FilterInv, UNCHANGED <<flows, active_flows>>,
         NEW p \in Ports, NEW k \in Keys, NEW q \in 1 .. NbPorts, NEW id \in SoftId,
         Served(q - 1, id.ring), Owns(q - 1, id.ring, k),
         AddPerfectFilter(p, k, id, q)
  PROVE  FilterInv'
<1>1. ASSUME NEW o, NEW i
      PROVE  /\ Served(o, i)' = Served(o, i)
             /\ \A k1 : Owns(o, i, k1)' = Owns(o, i, k1)
  BY DEF Served, Polled, Owns
<1> SUFFICES ASSUME NEW p1 \in Ports, NEW k1 \in Keys, fdir'[p1][k1] # None
             PROVE  LET f == fdir'[p1][k1]
                    IN  Served(f.queue - 1, f.id.ring) /\ Owns(f.queue - 1, f.id.ring, k1)
  BY <1>1 DEF FilterInv
<1>2. CASE fdir'[p1][k1] = fdir[p1][k1]
  BY <1>2 DEF FilterInv
<1>3. CASE fdir'[p1][k1] # fdir[p1][k1]
  <2>1. fdir' = [fdir EXCEPT ![p][k] = [queue |-> q, id |-> id]]
    BY <1>3 DEF AddPerfectFilter
  <2>2. p1 = p /\ k1 = k /\ fdir'[p1][k1] = [queue |-> q, id |-> id]
    BY <1>3, <2>1 DEF TypeOK
  <2> QED BY <2>2
<1> QED BY <1>2, <1>3

LEMMA SteeringInstallDataFilter ==
  ASSUME TypeInv, SteeringInv, InstallDataFilter
  PROVE  SteeringInv'
<1>1. /\ TypeOK /\ pkt_index <= Len(pkts) /\ Pkt.d = "req"
      /\ in_port \in Ports /\ flow_id \in Slots
  BY DEF InstallDataFilter, TypeInv, TypeOK, AtPacket, Detecting
<1>2. PICK p \in Ports : p = OutPort(ReqKey)
  BY <1>1, PktType, PortTypes
<1>3. DataKey \in Keys /\ fdir_id[p] + 1 \in Nat
  BY <1>1, PktType DEF TypeOK
<1> DEFINE id == FdirIdLocal(flow_id, fdir_id[p] + 1)
<1>4. id \in SoftId /\ id.ring = flow_id
  BY <1>1, <1>3, SoftIdType DEF FdirIdLocal
<1>5. in_port + 1 \in 1 .. NbPorts /\ (in_port + 1) - 1 = in_port
  BY <1>1, PortTypes DEF Ports
<1>6. /\ pc = "data_filter" /\ pc' = "req_slot" /\ AddPerfectFilter(p, DataKey, id, in_port + 1)
      /\ UNCHANGED <<nicq, flows, active_flows, rings, in_port, pkts, rxb, txb>>
  BY <1>2 DEF InstallDataFilter, nicVars
<1>7. Served(in_port, flow_id) /\ Owns(in_port, flow_id, DataKey)
  BY <1>6 DEF SteeringInv, DetectionInv
<1> HIDE DEF id
<1>8. FilterInv'
  BY <1>1, <1>3, <1>4, <1>5, <1>6, <1>7, NewFilter DEF SteeringInv
<1>9. Kept /\ SlotInv'
  BY <1>6, SlotsUnchanged DEF SteeringInv
<1>10. FastPathInv' /\ DefaultPathInv'
  BY <1>1, <1>6, <1>9, FastPathKept, DefaultPathKept DEF SteeringInv, InHandler
<1>11. DetectionInv'
  BY <1>6 DEF DetectionInv
<1> QED BY <1>8, <1>9, <1>10, <1>11 DEF SteeringInv

LEMMA SteeringInstallReqFilter ==
  ASSUME TypeInv, SteeringInv, InstallReqFilter
  PROVE  SteeringInv'
<1>1. /\ TypeOK /\ pkt_index <= Len(pkts) /\ Pkt.d = "req"
      /\ in_port \in Ports /\ flow_id \in Slots
  BY DEF InstallReqFilter, TypeInv, TypeOK, AtPacket, Detecting
<1>2. ReqKey \in Keys /\ OutPort(ReqKey) \in Ports /\ fdir_id[in_port] + 1 \in Nat
  <2>1. ReqKey \in Keys /\ OutPort(ReqKey) \in Ports
    BY <1>1, PktType, PortTypes
  <2>2. fdir_id[in_port] \in Nat
    BY <1>1 DEF TypeOK
  <2> QED BY <2>1, <2>2
<1> DEFINE id == FdirIdLocal(flow_id, fdir_id[in_port] + 1)
           q == OutPort(ReqKey) + 1
<1>3. id \in SoftId /\ id.ring = flow_id
  BY <1>1, <1>2, SoftIdType DEF FdirIdLocal
<1>4. q \in 1 .. NbPorts /\ q - 1 = OutPort(ReqKey)
  BY <1>2, PortTypes DEF Ports
<1>5. /\ pc = "req_filter" /\ pc' = "handler" /\ AddPerfectFilter(in_port, ReqKey, id, q)
      /\ UNCHANGED <<nicq, flows, active_flows, rings, in_port, pkts, rxb, txb>>
  BY DEF InstallReqFilter, NextPacket, nicVars
<1>6. Served(q - 1, flow_id) /\ Owns(q - 1, flow_id, ReqKey)
  BY <1>4, <1>5 DEF SteeringInv, DetectionInv
<1> HIDE DEF id, q
<1>7. FilterInv'
  BY <1>1, <1>2, <1>3, <1>4, <1>5, <1>6, NewFilter DEF SteeringInv
<1>8. Kept /\ SlotInv'
  BY <1>5, SlotsUnchanged DEF SteeringInv
<1>9. FastPathInv' /\ DefaultPathInv'
  BY <1>1, <1>5, <1>8, FastPathKept, DefaultPathKept DEF SteeringInv, InHandler
<1>10. DetectionInv'
  BY <1>5 DEF DetectionInv
<1> QED BY <1>7, <1>8, <1>9, <1>10 DEF SteeringInv

\* The handler passes over a packet, or the pipeline forwards the burst.
LEMMA SteeringSkip ==
  ASSUME TypeInv, SteeringInv,
         SkipPacket \/ NoDataSlot \/ NoReqSlot \/ ForwardBurst \/ ForwardPacket
  PROVE  SteeringInv'
<1>1. /\ UNCHANGED <<nicq, fdir, flows, active_flows, rings, rxb, txb>>
      /\ pc' \notin {"data_filter", "req_filter"}
  BY DEF SkipPacket, NoDataSlot, NoReqSlot, ForwardBurst, ForwardPacket, NextPacket,
         nicVars, flowVars
<1>2. Kept /\ SlotInv'
  BY <1>1, SlotsUnchanged DEF SteeringInv
<1>3. FilterInv' /\ FastPathInv' /\ DetectionInv'
  BY <1>1, <1>2, FilterKept, FastPathKept DEF SteeringInv, TypeInv, DetectionInv
<1>4. CASE SkipPacket \/ NoDataSlot \/ NoReqSlot
  <2>1. UNCHANGED <<nicq, in_port, pkts>> /\ InHandler
    BY <1>4 DEF SkipPacket, NoDataSlot, NoReqSlot, InHandler, nicVars
  <2> QED BY <1>2, <1>3, <2>1, DefaultPathKept DEF SteeringInv
<1>5. CASE ForwardBurst \/ ForwardPacket
  <2>1. ~InHandler'
    BY <1>5 DEF ForwardBurst, ForwardPacket, InHandler
  <2>2. DefaultPathInv'
    BY <1>1, <2>1 DEF DefaultPathInv, SteeringInv
  <2> QED BY <1>2, <1>3, <2>2 DEF SteeringInv
<1> QED BY <1>4, <1>5

\* Traffic arrives: the filter of its key says where the packet is bound for.
LEMMA SteeringArrive ==
  ASSUME TypeInv, SteeringInv, NEW k \in Keys, NEW ev \in Event \cup {None},
         k[2] = "data" <=> ev = None, Arrive(k, ev)
  PROVE  SteeringInv'
<1> DEFINE p == InPort(k)
           f == fdir[p][k]
           q == IF f = None THEN 0 ELSE f.queue
           id == IF f = None THEN None ELSE f.id
           m == [c |-> k[1], d |-> k[2], n |-> sent[k] + 1, ev |-> ev, id |-> id]
<1>1. /\ p \in Ports /\ k[1] \in Conn /\ k[2] \in Dirs /\ k = <<k[1], k[2]>>
      /\ sent[k] \in Nat
  BY PortTypes DEF TypeInv, TypeOK, Keys
<1>2. f \in Filter \cup {None}
  BY <1>1 DEF TypeInv, TypeOK
<1>3. q \in 0 .. NbPorts
  BY <1>2, PortTypes, PortsAssumption DEF Filter
<1>4. KeyOf(m) = k /\ m \in PacketWith({id})
  BY <1>1 DEF KeyOf, PacketWith
<1>5. /\ nicq' = [nicq EXCEPT ![p][q] = Append(nicq[p][q], m)]
      /\ UNCHANGED <<flowVars, rings, defaultVars, rxb, txb, outVars, panic>>
  BY DEF Arrive
<1>6. f = None => m \in Waiting(p)
  BY <1>1, <1>4 DEF Waiting, Plain, Dirs
<1>7. f # None => q \in 1 .. NbPorts /\ m \in Bound(q - 1)
  <2> SUFFICES ASSUME f # None PROVE q \in 1 .. NbPorts /\ m \in Bound(q - 1)
    OBVIOUS
  <2>1. q = f.queue /\ id = f.id /\ q \in 1 .. NbPorts /\ id \in SoftId
    BY <1>2 DEF Filter
  <2>2. m \in Steered /\ m.id = f.id
    BY <1>4, <2>1 DEF Steered, PacketWith
  <2>3. Served(q - 1, f.id.ring) /\ Owns(q - 1, f.id.ring, k)
    BY <1>1, <2>1 DEF SteeringInv, FilterInv
  <2> HIDE DEF f, q, m
  <2> QED BY <1>4, <2>1, <2>2, <2>3 DEF Bound
<1> HIDE DEF p, f, q, id, m
<1>8. \A p1 \in Ports, q1 \in 0 .. NbPorts :
        nicq'[p1][q1] = IF p1 = p /\ q1 = q THEN Append(nicq[p][q], m) ELSE nicq[p1][q1]
  BY <1>1, <1>3, <1>5 DEF TypeInv, TypeOK
<1>9. UNCHANGED <<fdir, flows, active_flows, rings, rxb, txb, pc, in_port, pkts, pkt_index,
                  flow_id>>
  BY <1>5 DEF flowVars, defaultVars
<1>10. Kept /\ SlotInv'
  BY <1>9, SlotsUnchanged DEF SteeringInv
<1>11. FilterInv'
  BY <1>9, <1>10, FilterKept DEF SteeringInv, TypeInv
<1>12. DetectionInv'
  BY <1>9 DEF SteeringInv, DetectionInv, Served, Polled, Owns, DataKey, ReqKey, Pkt, OutPort
<1>13. DefaultPathInv'
  <2>1. ASSUME NEW p1 \in Ports
        PROVE  nicq'[p1][0] \in Seq(Waiting(p1))
    <3>1. nicq[p1][0] \in Seq(Waiting(p1)) /\ 0 \in 0 .. NbPorts
      BY PortsAssumption DEF SteeringInv, DefaultPathInv
    <3>2. CASE p1 = p /\ q = 0
      <4>1. m \in Waiting(p1)
        BY <1>6, <1>7, <3>2
      <4>2. nicq'[p1][0] = Append(nicq[p1][0], m)
        BY <1>8, <3>1, <3>2
      <4> QED BY <3>1, <4>1, <4>2, AppendProperties
    <3>3. CASE ~(p1 = p /\ q = 0)
      BY <1>8, <3>1, <3>3
    <3> QED BY <3>2, <3>3
  <2> QED BY <1>9, <2>1 DEF SteeringInv, DefaultPathInv, InHandler
<1>14. FastPathInv'
  <2>1. \A o \in Ports : Bound(o)' = Bound(o) /\ \A i \in Slots : OnRing(o, i)' = OnRing(o, i)
    BY <1>9 DEF Bound, OnRing, Served, Polled, Owns
  <2>2. ASSUME NEW p1 \in Ports, NEW q1 \in 1 .. NbPorts
        PROVE  nicq'[p1][q1] \in Seq(Bound(q1 - 1))
    <3>1. nicq[p1][q1] \in Seq(Bound(q1 - 1)) /\ q1 \in 0 .. NbPorts /\ q1 # 0
      BY DEF SteeringInv, FastPathInv
    <3>2. CASE p1 = p /\ q = q1
      <4>1. m \in Bound(q1 - 1)
        BY <1>7, <3>1, <3>2 DEF q
      <4>2. nicq'[p1][q1] = Append(nicq[p1][q1], m)
        BY <1>8, <3>1, <3>2
      <4> QED BY <3>1, <4>1, <4>2, AppendProperties
    <3>3. CASE ~(p1 = p /\ q = q1)
      BY <1>8, <3>1, <3>3
    <3> QED BY <3>2, <3>3
  <2>3. ASSUME NEW q1 \in 1 .. NbPorts PROVE q1 - 1 \in Ports
    BY PortTypes
  <2>4. \A l \in RxLcore : rxb[l].out \in Ports
    BY DEF TypeInv, TypeOK
  <2> QED BY <1>9, <2>1, <2>2, <2>3, <2>4 DEF SteeringInv, FastPathInv
<1> QED BY <1>10, <1>11, <1>12, <1>13, <1>14 DEF SteeringInv

\* A step of a data lcore leaves what the default lcore set up as it is.
LEMMA SetupKept ==
  ASSUME TypeInv, SteeringInv, UNCHANGED <<flowVars, defaultVars>>,
         \A p \in Ports : nicq'[p][0] = nicq[p][0]
  PROVE  /\ SlotInv' /\ DefaultPathInv' /\ DetectionInv' /\ FilterInv'
         /\ \A p \in Ports : Bound(p)' = Bound(p)
         /\ \A p \in Ports, i \in Slots : OnRing(p, i)' = OnRing(p, i)
<1>1. UNCHANGED <<fdir, flows, active_flows, pc, in_port, pkts, pkt_index, flow_id>>
  BY DEF flowVars, defaultVars
<1>2. Kept /\ SlotInv'
  BY <1>1, SlotsUnchanged DEF SteeringInv
<1>3. FilterInv' /\ DefaultPathInv'
  BY <1>1, <1>2, FilterKept, DefaultPathKept DEF SteeringInv, TypeInv, InHandler
<1>4. DetectionInv'
  BY <1>1 DEF SteeringInv, DetectionInv, Served, Polled, Owns, DataKey, ReqKey, Pkt, OutPort
<1>5. /\ \A p \in Ports : Bound(p)' = Bound(p)
      /\ \A p \in Ports, i \in Slots : OnRing(p, i)' = OnRing(p, i)
  BY <1>1 DEF Bound, OnRing, Served, Polled, Owns
<1> QED BY <1>2, <1>3, <1>4, <1>5

\* An rx lcore takes a burst: the rx queue is the output port's.
LEMMA SteeringRxPoll ==
  ASSUME TypeInv, SteeringInv, NEW l \in RxLcore, NEW p \in Ports, NEW q \in 1 .. NbPorts,
         RxPoll(l, p, q)
  PROVE  SteeringInv'
<1> DEFINE s == nicq[p][q]
           k == BurstOf(s)
<1>1. /\ nicq' = [nicq EXCEPT ![p][q] = From(s, k)]
      /\ rxb' = [rxb EXCEPT ![l] = [out |-> q - 1, pkts |-> First(s, k)]]
      /\ UNCHANGED <<sent, flowVars, rings, defaultVars, txb, outVars, panic>>
  BY DEF RxPoll
<1>2. s \in Seq(Bound(q - 1)) /\ q - 1 \in Ports /\ q \in 0 .. NbPorts /\ q # 0
  <2>1. s \in Seq(Bound(q - 1))
    BY DEF SteeringInv, FastPathInv
  <2>2. q - 1 \in Ports /\ q \in 0 .. NbPorts
    BY PortTypes
  <2> QED BY <2>1, <2>2
<1>3. First(s, k) \in Seq(Bound(q - 1)) /\ From(s, k) \in Seq(Bound(q - 1))
  BY <1>2, BurstOfType, CutType
<1> HIDE DEF s, k
<1>4. \A p1 \in Ports, q1 \in 0 .. NbPorts :
        nicq'[p1][q1] = IF p1 = p /\ q1 = q THEN From(s, k) ELSE nicq[p1][q1]
  BY <1>1, <1>2 DEF TypeInv, TypeOK
<1>5. \A p1 \in Ports : nicq'[p1][0] = nicq[p1][0]
  BY <1>2, <1>4, PortsAssumption
<1>6. /\ SlotInv' /\ DefaultPathInv' /\ DetectionInv' /\ FilterInv'
      /\ \A o \in Ports : Bound(o)' = Bound(o)
      /\ \A o \in Ports, i \in Slots : OnRing(o, i)' = OnRing(o, i)
  BY <1>1, <1>5, SetupKept
<1>7. ASSUME NEW p1 \in Ports, NEW q1 \in 1 .. NbPorts
      PROVE  nicq'[p1][q1] \in Seq(Bound(q1 - 1)) /\ q1 - 1 \in Ports
  <2>1. q1 \in 0 .. NbPorts /\ nicq[p1][q1] \in Seq(Bound(q1 - 1)) /\ q1 - 1 \in Ports
    BY PortTypes DEF SteeringInv, FastPathInv
  <2> QED BY <1>3, <1>4, <2>1
<1>8. ASSUME NEW l1 \in RxLcore
      PROVE  rxb'[l1].out \in Ports /\ rxb'[l1].pkts \in Seq(Bound(rxb'[l1].out))
  <2>1. CASE l1 = l
    <3>1. rxb'[l1] = [out |-> q - 1, pkts |-> First(s, k)]
      BY <1>1, <2>1 DEF TypeInv, TypeOK
    <3> QED BY <1>2, <1>3, <3>1
  <2>2. CASE l1 # l
    <3>1. rxb'[l1] = rxb[l1] /\ rxb[l1].out \in Ports
      BY <1>1, <2>2 DEF TypeInv, TypeOK
    <3> QED BY <3>1 DEF SteeringInv, FastPathInv
  <2> QED BY <2>1, <2>2
<1>9. FastPathInv'
  BY <1>1, <1>6, <1>7, <1>8 DEF SteeringInv, FastPathInv
<1> QED BY <1>6, <1>9 DEF SteeringInv

\* An rx lcore moves part of a run into the ring of the run.
LEMMA SteeringRxEnqueue ==
  ASSUME TypeInv, SteeringInv, NEW l \in RxLcore, RxEnqueue(l)
  PROVE  SteeringInv'
<1> DEFINE s == rxb[l].pkts
           p == rxb[l].out
           i == s[1].id.ring
           n == Lesser(RunLength(s), RingSize - Len(rings[p][i]))
<1>1. /\ p \in Ports /\ i \in Slots /\ s \in Seq(Steered) /\ s # <<>>
      /\ n \in 1 .. Len(s) /\ n \in 1 .. RunLength(s)
  BY EnqueuedPart DEF RxEnqueue
<1>2. /\ rings' = [rings EXCEPT ![p][i] = rings[p][i] \o First(s, n)]
      /\ rxb' = [rxb EXCEPT ![l].pkts = From(s, n)]
      /\ UNCHANGED <<nicVars, flowVars, defaultVars, txb, outVars, panic>>
  BY DEF RxEnqueue
<1>3. s \in Seq(Bound(p)) /\ rings[p][i] \in Seq(OnRing(p, i))
  BY <1>1 DEF SteeringInv, FastPathInv
<1>4. \A j \in 1 .. RunLength(s) : s[j].id.ring = i
  BY <1>1, RunLengthType
<1> HIDE DEF s, p, i, n
<1>5. First(s, n) \in Seq(OnRing(p, i))
  <2>1. ASSUME NEW j \in 1 .. n
        PROVE  s[j] \in OnRing(p, i)
    <3>1. j \in 1 .. Len(s) /\ j \in 1 .. RunLength(s)
      <4>1. Len(s) \in Nat /\ RunLength(s) \in Nat
        BY <1>1, LenProperties, RunLengthType
      <4> QED BY <1>1, <4>1
    <3>2. s[j] \in Bound(p)
      BY <1>3, <3>1, ElementOfSeq
    <3> QED BY <1>4, <3>1, <3>2 DEF OnRing
  <2> QED BY <1>1, <2>1, SubSeqProperties DEF First
<1>6. From(s, n) \in Seq(Bound(p))
  <2>1. n \in 0 .. Len(s)
    BY <1>1, LenProperties
  <2> QED BY <1>3, <2>1, CutType
<1>7. rings[p][i] \o First(s, n) \in Seq(OnRing(p, i))
  BY <1>3, <1>5, ConcatProperties
<1>8. nicq' = nicq /\ txb' = txb
  BY <1>2 DEF nicVars
<1>9. /\ SlotInv' /\ DefaultPathInv' /\ DetectionInv' /\ FilterInv'
      /\ \A o \in Ports : Bound(o)' = Bound(o)
      /\ \A o \in Ports, j \in Slots : OnRing(o, j)' = OnRing(o, j)
  BY <1>2, <1>8, SetupKept
<1>10. ASSUME NEW o \in Ports, NEW j \in Slots
       PROVE  rings'[o][j] \in Seq(OnRing(o, j))
  <2>1. rings[o][j] \in Seq(OnRing(o, j))
    BY DEF SteeringInv, FastPathInv
  <2>2. rings'[o][j] = IF o = p /\ j = i THEN rings[p][i] \o First(s, n) ELSE rings[o][j]
    BY <1>1, <1>2 DEF TypeInv, TypeOK
  <2> QED BY <1>7, <2>1, <2>2
<1>11. ASSUME NEW l1 \in RxLcore
       PROVE  rxb'[l1].out \in Ports /\ rxb'[l1].pkts \in Seq(Bound(rxb'[l1].out))
  <2>1. CASE l1 = l
    <3>1. rxb'[l1].out = p /\ rxb'[l1].pkts = From(s, n)
      BY <1>2, <2>1 DEF TypeInv, TypeOK, p
    <3> QED BY <1>1, <1>6, <3>1
  <2>2. CASE l1 # l
    <3>1. rxb'[l1] = rxb[l1] /\ rxb[l1].out \in Ports
      BY <1>2, <2>2 DEF TypeInv, TypeOK
    <3> QED BY <3>1 DEF SteeringInv, FastPathInv
  <2> QED BY <2>1, <2>2
<1>12. \A q \in 1 .. NbPorts : q - 1 \in Ports
  BY PortTypes
<1>13. FastPathInv'
  BY <1>8, <1>9, <1>10, <1>11, <1>12 DEF SteeringInv, FastPathInv
<1> QED BY <1>9, <1>13 DEF SteeringInv

\* A tx lcore takes a burst: the tx queue is the one for the kind of the slot.
LEMMA SteeringTxPoll ==
  ASSUME TypeInv, SteeringInv, NEW l \in TxLcore, NEW p \in Ports, NEW i \in Slots,
         TxPoll(l, p, i)
  PROVE  SteeringInv'
<1> DEFINE s == rings[p][i]
           k == BurstOf(s)
           req == flows[p][i].req_flow
<1>1. /\ rings' = [rings EXCEPT ![p][i] = From(s, k)]
      /\ txb' = [txb EXCEPT ![l] = [req_queue |-> req, pkts |-> First(s, k)]]
      /\ UNCHANGED <<nicVars, flowVars, defaultVars, rxb, outVars, panic>>
  BY DEF TxPoll
<1>2. s \in Seq(OnRing(p, i))
  BY DEF SteeringInv, FastPathInv
<1>3. First(s, k) \in Seq(OnRing(p, i)) /\ From(s, k) \in Seq(OnRing(p, i))
  BY <1>2, BurstOfType, CutType
<1>4. OnRing(p, i) \subseteq OnTxQueue(req)
  BY DEF OnRing, Bound, Owns, OnTxQueue, KeyOf
<1> HIDE DEF s, k, req
<1>5. First(s, k) \in Seq(OnTxQueue(req))
  BY <1>3, <1>4, SeqMonotonic
<1>6. nicq' = nicq /\ rxb' = rxb
  BY <1>1 DEF nicVars
<1>7. /\ SlotInv' /\ DefaultPathInv' /\ DetectionInv' /\ FilterInv'
      /\ \A o \in Ports : Bound(o)' = Bound(o)
      /\ \A o \in Ports, j \in Slots : OnRing(o, j)' = OnRing(o, j)
  BY <1>1, <1>6, SetupKept
<1>8. ASSUME NEW o \in Ports, NEW j \in Slots
      PROVE  rings'[o][j] \in Seq(OnRing(o, j))
  <2>1. rings[o][j] \in Seq(OnRing(o, j))
    BY DEF SteeringInv, FastPathInv
  <2>2. rings'[o][j] = IF o = p /\ j = i THEN From(s, k) ELSE rings[o][j]
    BY <1>1 DEF TypeInv, TypeOK
  <2> QED BY <1>3, <2>1, <2>2
<1>9. ASSUME NEW l1 \in TxLcore
      PROVE  txb'[l1].pkts \in Seq(OnTxQueue(txb'[l1].req_queue))
  <2>1. CASE l1 = l
    <3>1. txb'[l1] = [req_queue |-> req, pkts |-> First(s, k)]
      BY <1>1, <2>1 DEF TypeInv, TypeOK
    <3> QED BY <1>5, <3>1
  <2>2. CASE l1 # l
    BY <1>1, <2>2 DEF TypeInv, TypeOK, SteeringInv, FastPathInv
  <2> QED BY <2>1, <2>2
<1>10. /\ \A q \in 1 .. NbPorts : q - 1 \in Ports
       /\ \A l1 \in RxLcore : rxb[l1].out \in Ports
  BY PortTypes DEF TypeInv, TypeOK
<1>11. FastPathInv'
  BY <1>6, <1>7, <1>8, <1>9, <1>10 DEF SteeringInv, FastPathInv
<1> QED BY <1>7, <1>11 DEF SteeringInv

LEMMA SteeringTxSend ==
  ASSUME TypeInv, SteeringInv, NEW l \in TxLcore, TxSend(l)
  PROVE  SteeringInv'
<1>1. /\ txb' = [txb EXCEPT ![l].pkts = Tail(txb[l].pkts)] /\ txb[l].pkts # <<>>
      /\ UNCHANGED <<nicVars, flowVars, rings, defaultVars, rxb, dropped, panic>>
  BY DEF TxSend
<1>2. Tail(txb[l].pkts) \in Seq(OnTxQueue(txb[l].req_queue))
  <2>1. txb[l].pkts \in Seq(OnTxQueue(txb[l].req_queue))
    BY DEF SteeringInv, FastPathInv
  <2> QED BY <1>1, <2>1, HeadTailProperties
<1>3. ASSUME NEW l1 \in TxLcore
      PROVE  txb'[l1].pkts \in Seq(OnTxQueue(txb'[l1].req_queue))
  <2>1. CASE l1 = l
    <3>1. txb'[l1].req_queue = txb[l].req_queue /\ txb'[l1].pkts = Tail(txb[l].pkts)
      BY <1>1, <2>1 DEF TypeInv, TypeOK
    <3> QED BY <1>2, <3>1
  <2>2. CASE l1 # l
    BY <1>1, <2>2 DEF TypeInv, TypeOK, SteeringInv, FastPathInv
  <2> QED BY <2>1, <2>2
<1>4. UNCHANGED <<nicq, rings, rxb>>
  BY <1>1 DEF nicVars
<1>5. /\ SlotInv' /\ DefaultPathInv' /\ DetectionInv' /\ FilterInv'
      /\ \A o \in Ports : Bound(o)' = Bound(o)
      /\ \A o \in Ports, j \in Slots : OnRing(o, j)' = OnRing(o, j)
  BY <1>1, <1>4, SetupKept
<1>6. /\ \A q \in 1 .. NbPorts : q - 1 \in Ports
      /\ \A l1 \in RxLcore : rxb[l1].out \in Ports
  BY PortTypes DEF TypeInv, TypeOK
<1>7. FastPathInv'
  BY <1>3, <1>4, <1>5, <1>6 DEF SteeringInv, FastPathInv
<1> QED BY <1>5, <1>7 DEF SteeringInv

\* The default lcore takes a burst of one port.
LEMMA SteeringDefaultPoll ==
  ASSUME TypeInv, SteeringInv, NEW p \in Ports, DefaultPoll(p)
  PROVE  SteeringInv'
<1> DEFINE s == nicq[p][0]
           k == BurstOf(s)
<1>1. /\ nicq' = [nicq EXCEPT ![p][0] = From(s, k)]
      /\ pkts' = First(s, k) /\ in_port' = p /\ pc' = "handler"
      /\ UNCHANGED <<sent, flow_id, flowVars, rings, rxb, txb, outVars, panic>>
  BY DEF DefaultPoll
<1>2. s \in Seq(Waiting(p)) /\ 0 \in 0 .. NbPorts
  BY PortsAssumption DEF SteeringInv, DefaultPathInv
<1>3. First(s, k) \in Seq(Waiting(p)) /\ From(s, k) \in Seq(Waiting(p))
  BY <1>2, BurstOfType, CutType
<1> HIDE DEF s, k
<1>4. \A p1 \in Ports, q1 \in 0 .. NbPorts :
        nicq'[p1][q1] = IF p1 = p /\ q1 = 0 THEN From(s, k) ELSE nicq[p1][q1]
  BY <1>1, <1>2 DEF TypeInv, TypeOK
<1>5. UNCHANGED <<fdir, flows, active_flows, rings, rxb, txb>>
  BY <1>1 DEF flowVars
<1>6. Kept /\ SlotInv'
  BY <1>5, SlotsUnchanged DEF SteeringInv
<1>7. \A p1 \in Ports, q1 \in 1 .. NbPorts : nicq'[p1][q1] = nicq[p1][q1]
  BY <1>4, PortTypes
<1>8. FilterInv' /\ FastPathInv'
  BY <1>5, <1>6, <1>7, FilterKept, FastPathKept DEF SteeringInv, TypeInv
<1>9. DetectionInv'
  BY <1>1 DEF DetectionInv
<1>10. DefaultPathInv'
  <2>1. ASSUME NEW p1 \in Ports PROVE nicq'[p1][0] \in Seq(Waiting(p1))
    BY <1>2, <1>3, <1>4 DEF SteeringInv, DefaultPathInv
  <2> QED BY <1>1, <1>3, <2>1 DEF DefaultPathInv
<1> QED BY <1>6, <1>8, <1>9, <1>10 DEF SteeringInv

\* A step that only stops the process, or does nothing.
LEMMA SteeringStop ==
  ASSUME TypeInv, SteeringInv,
         \/ \E l \in RxLcore : RxNullRing(l)
         \/ \E l \in TxLcore, p \in Ports, i \in Slots : TxNullRing(l, p, i)
         \/ Idle \/ Dead \/ UNCHANGED vars
  PROVE  SteeringInv'
<1>1. /\ UNCHANGED <<nicVars, flowVars, rings, defaultVars, rxb, txb>>
  BY DEF RxNullRing, TxNullRing, Idle, Dead, vars
<1>2. UNCHANGED <<nicq, rings, rxb, txb, flows, active_flows>>
  BY <1>1 DEF nicVars, flowVars
<1>3. SlotInv' /\ DefaultPathInv' /\ DetectionInv' /\ FilterInv'
  BY <1>1, <1>2, SetupKept
<1>4. Kept
  BY <1>2, SlotsUnchanged DEF SteeringInv
<1>5. FastPathInv'
  BY <1>2, <1>4, FastPathKept DEF SteeringInv, TypeInv
<1> QED BY <1>3, <1>5 DEF SteeringInv

LEMMA SteeringNext == TypeInv /\ SteeringInv /\ [Next]_vars => SteeringInv'
<1> SUFFICES ASSUME TypeInv, SteeringInv, [Next]_vars PROVE SteeringInv'
  OBVIOUS
<1>1. CASE Hosts
  BY <1>1, SteeringArrive DEF Hosts
<1>2. CASE DefaultLcore
  BY <1>2, SteeringDefaultPoll, SteeringSkip, SteeringTakeDataSlot, SteeringInstallDataFilter,
     SteeringTakeReqSlot, SteeringInstallReqFilter DEF DefaultLcore
<1>3. ASSUME NEW l \in RxLcore, DataRx(l) PROVE SteeringInv'
  BY <1>3, SteeringRxPoll, SteeringRxEnqueue, SteeringStop DEF DataRx
<1>4. ASSUME NEW l \in TxLcore, DataTx(l) PROVE SteeringInv'
  BY <1>4, SteeringTxPoll, SteeringTxSend, SteeringStop DEF DataTx
<1>5. CASE Idle \/ Dead \/ UNCHANGED vars
  BY <1>5, SteeringStop
<1> QED BY <1>1, <1>2, <1>3, <1>4, <1>5 DEF Next

LEMMA SteeringInit == Init => SteeringInv
<1> SUFFICES ASSUME Init PROVE SteeringInv
  OBVIOUS
<1>1. \A S : <<>> \in Seq(S)
  BY EmptySeq
<1>2. \A p \in Ports, i \in Slots : ~flows[p][i].active
  BY DEF Init, UnusedFlow
<1>3. SlotInv
  BY <1>2 DEF SlotInv
<1>4. pc = "poll" /\ \A p \in Ports, q \in 0 .. NbPorts : nicq[p][q] = <<>>
  BY DEF Init
<1>5. DefaultPathInv /\ DetectionInv
  <2>1. 0 \in 0 .. NbPorts
    BY PortsAssumption
  <2>2. \A p \in Ports : nicq[p][0] \in Seq(Waiting(p))
    BY <1>1, <1>4, <2>1
  <2> QED BY <1>4, <2>2 DEF DefaultPathInv, DetectionInv, InHandler
<1>6. FilterInv
  BY DEF Init, FilterInv
<1>7. /\ \A p \in Ports, i \in Slots : rings[p][i] = <<>>
      /\ \A l \in RxLcore : rxb[l].pkts = <<>>
      /\ \A l \in TxLcore : txb[l].pkts = <<>>
  BY DEF Init
<1>8. FastPathInv
  BY <1>1, <1>4, <1>7, PortTypes DEF FastPathInv
<1> QED BY <1>3, <1>5, <1>6, <1>8 DEF SteeringInv
-----------------------------------------------------------------------------
(***************************************************************************)
(* What the invariant gives.                                               *)
(***************************************************************************)
LEMMA SteeringCorrect == Spec => [](TypeInv /\ SteeringInv)
<1>1. Init => TypeInv /\ SteeringInv
  BY TypeInit, SteeringInit
<1>2. TypeInv /\ SteeringInv /\ [Next]_vars => (TypeInv /\ SteeringInv)'
  BY TypeNext, SteeringNext
<1> QED BY <1>1, <1>2, PTL DEF Spec

LEMMA SteeringServes == TypeInv /\ SteeringInv => RingServed
<1> SUFFICES ASSUME TypeInv, SteeringInv PROVE RingServed
  OBVIOUS
<1>1. \A p \in Ports, k \in Keys :
        fdir[p][k] # None => Served(fdir[p][k].queue - 1, fdir[p][k].id.ring)
  BY DEF SteeringInv, FilterInv
<1>2. ASSUME NEW p, NEW s \in Seq(Bound(p)), NEW j \in DOMAIN s
      PROVE  Served(p, s[j].id.ring)
  <2>1. s[j] \in Bound(p)
    BY LenProperties, ElementOfSeq
  <2> QED BY <2>1 DEF Bound
<1>3. \A p \in Ports, q \in 1 .. NbPorts : \A j \in DOMAIN nicq[p][q] :
        Served(q - 1, nicq[p][q][j].id.ring)
  BY <1>2 DEF SteeringInv, FastPathInv
<1>4. \A l \in RxLcore : \A j \in DOMAIN rxb[l].pkts :
        Served(rxb[l].out, rxb[l].pkts[j].id.ring)
  BY <1>2 DEF SteeringInv, FastPathInv
<1>5. ASSUME NEW p \in Ports, NEW i \in Slots, rings[p][i] # <<>>
      PROVE  Served(p, i)
  <2>1. rings[p][i] \in Seq(OnRing(p, i))
    BY DEF SteeringInv, FastPathInv
  <2>2. Head(rings[p][i]) \in OnRing(p, i)
    BY <1>5, <2>1, HeadTailProperties
  <2> QED BY <2>2 DEF OnRing, Bound
<1> QED BY <1>1, <1>3, <1>4, <1>5 DEF RingServed

LEMMA SteeringIsolates == TypeInv /\ SteeringInv => SinkIsolation
<1> SUFFICES ASSUME TypeInv, SteeringInv PROVE SinkIsolation
  OBVIOUS
<1>1. ASSUME NEW p \in Ports, NEW i \in Slots, NEW j \in DOMAIN rings[p][i]
      PROVE  Owns(p, i, KeyOf(rings[p][i][j])) /\ rings[p][i][j].id.ring = i
  <2>1. rings[p][i] \in Seq(OnRing(p, i))
    BY DEF SteeringInv, FastPathInv
  <2>2. rings[p][i][j] \in OnRing(p, i)
    BY <2>1, LenProperties, ElementOfSeq
  <2> QED BY <2>2 DEF OnRing, Bound
<1>2. ASSUME NEW l \in TxLcore, NEW j \in DOMAIN txb[l].pkts
      PROVE  txb[l].req_queue = (txb[l].pkts[j].d = "req")
  <2>1. txb[l].pkts \in Seq(OnTxQueue(txb[l].req_queue))
    BY DEF SteeringInv, FastPathInv
  <2>2. txb[l].pkts[j] \in OnTxQueue(txb[l].req_queue)
    BY <2>1, LenProperties, ElementOfSeq
  <2> QED BY <2>2 DEF OnTxQueue
<1> QED BY <1>1, <1>2 DEF SinkIsolation

\* No packet is stranded: what a filter steers, and each packet on the fast
\* path, is for a ring that is in use and that its tx lcore polls.
THEOREM RingsServed == Spec => []RingServed
BY SteeringCorrect, SteeringServes, PTL

\* The rings are virtual output queues: a ring holds packets of one direction
\* for the host of its slot, and they leave by the tx queue of their kind.
THEOREM SinksIsolated == Spec => []SinkIsolation
BY SteeringCorrect, SteeringIsolates, PTL
-----------------------------------------------------------------------------
(***************************************************************************)
(* A sink has one slot.                                                    *)
(***************************************************************************)
LEMMA TakeSlotUnique ==
  ASSUME TypeOK, OneSlotPerSink, NEW p \in Ports, NEW ip, NEW sink, NEW req,
         TakeSlot(p, ip, sink, req)
  PROVE  OneSlotPerSink'
<1> DEFINE flow == [active |-> TRUE, req_flow |-> req, dest_ip |-> ip, sink_id |-> sink]
           n == Least(FreeSlots(p))
<1>1. CASE ActiveFor(p, ip, sink) # {}
  BY <1>1 DEF TakeSlot, OneSlotPerSink
<1>2. CASE ActiveFor(p, ip, sink) = {}
  <2>1. flows' = [flows EXCEPT ![p][n] = flow]
    BY <1>2 DEF TakeSlot
  <2>2. n \in Slots
    BY <1>2, LeastInSet DEF TakeSlot, FreeSlots
  <2>3. \A i \in Slots : flows[p][i].active =>
          <<flows[p][i].dest_ip, flows[p][i].sink_id>> # <<ip, sink>>
    BY <1>2 DEF ActiveFor
  <2> HIDE DEF n
  <2>4. \A p1 \in Ports, i \in Slots :
          flows'[p1][i] = IF p1 = p /\ i = n THEN flow ELSE flows[p1][i]
    BY <2>1, <2>2 DEF TypeOK
  <2> SUFFICES ASSUME NEW p1 \in Ports, NEW i \in Slots, NEW j \in Slots,
                      flows'[p1][i].active, flows'[p1][j].active, i # j
               PROVE  <<flows'[p1][i].dest_ip, flows'[p1][i].sink_id>>
                        # <<flows'[p1][j].dest_ip, flows'[p1][j].sink_id>>
    BY DEF OneSlotPerSink
  <2>5. CASE p1 = p /\ i = n
    BY <2>3, <2>4, <2>5
  <2>6. CASE p1 = p /\ j = n
    BY <2>3, <2>4, <2>6
  <2>7. CASE ~(p1 = p /\ i = n) /\ ~(p1 = p /\ j = n)
    BY <2>4, <2>7 DEF OneSlotPerSink
  <2> QED BY <2>5, <2>6, <2>7
<1> QED BY <1>1, <1>2

\* Only two actions take slots.
LEMMA FlowsChange ==
  ASSUME [Next]_vars, ~TakeDataSlot, ~TakeReqSlot
  PROVE  UNCHANGED flows
<1>1. CASE Hosts
  BY <1>1 DEF Hosts, Arrive, flowVars
<1>2. CASE DefaultLcore
  BY <1>2 DEF DefaultLcore, DefaultPoll, SkipPacket, NoDataSlot, InstallDataFilter, NoReqSlot,
              InstallReqFilter, ForwardBurst, ForwardPacket, flowVars
<1>3. CASE \E l \in RxLcore : DataRx(l)
  BY <1>3 DEF DataRx, RxPoll, RxEnqueue, RxNullRing, flowVars
<1>4. CASE \E l \in TxLcore : DataTx(l)
  BY <1>4 DEF DataTx, TxPoll, TxNullRing, TxSend, flowVars
<1>5. CASE Idle \/ Dead \/ UNCHANGED vars
  BY <1>5 DEF Idle, Dead, vars, flowVars
<1> QED BY <1>1, <1>2, <1>3, <1>4, <1>5 DEF Next

\* Two active slots of a port are never for the same host and sink id, so a
\* sink has one ring and one share of the link.
THEOREM SlotsUnique == Spec => []OneSlotPerSink
<1>1. Init => OneSlotPerSink
  BY DEF Init, UnusedFlow, OneSlotPerSink
<1>2. TypeInv /\ OneSlotPerSink /\ [Next]_vars => OneSlotPerSink'
  <2> SUFFICES ASSUME TypeInv, OneSlotPerSink, [Next]_vars PROVE OneSlotPerSink'
    OBVIOUS
  <2>1. CASE TakeDataSlot
    BY <2>1, TakeSlotUnique DEF TakeDataSlot, TypeInv, TypeOK
  <2>2. CASE TakeReqSlot
    <3>1. pkt_index <= Len(pkts)
      BY <2>2 DEF TakeReqSlot, TypeInv, AtPacket, Detecting
    <3>2. OutPort(ReqKey) \in Ports
      BY <3>1, PktType, PortTypes DEF TypeInv
    <3> QED BY <2>2, <3>2, TakeSlotUnique DEF TakeReqSlot, TypeInv
  <2>3. CASE ~TakeDataSlot /\ ~TakeReqSlot
    BY <2>3, FlowsChange DEF OneSlotPerSink
  <2> QED BY <2>1, <2>2, <2>3
<1>3. Spec => []TypeInv
  BY TypeInit, TypeNext, PTL DEF Spec
<1> QED BY <1>1, <1>2, <1>3, PTL DEF Spec
-----------------------------------------------------------------------------
(***************************************************************************)
(* Filters.                                                                *)
(***************************************************************************)

\* Only two actions add filters.
LEMMA FiltersChange ==
  ASSUME [Next]_vars, ~InstallDataFilter, ~InstallReqFilter
  PROVE  UNCHANGED <<fdir, fdir_id>>
<1>1. CASE Hosts
  BY <1>1 DEF Hosts, Arrive, flowVars
<1>2. CASE DefaultLcore
  BY <1>2 DEF DefaultLcore, DefaultPoll, SkipPacket, TakeDataSlot, NoDataSlot, TakeReqSlot,
              NoReqSlot, ForwardBurst, ForwardPacket, flowVars
<1>3. CASE \E l \in RxLcore : DataRx(l)
  BY <1>3 DEF DataRx, RxPoll, RxEnqueue, RxNullRing, flowVars
<1>4. CASE \E l \in TxLcore : DataTx(l)
  BY <1>4 DEF DataTx, TxPoll, TxNullRing, TxSend, flowVars
<1>5. CASE Idle \/ Dead \/ UNCHANGED vars
  BY <1>5 DEF Idle, Dead, vars, flowVars
<1> QED BY <1>1, <1>2, <1>3, <1>4, <1>5 DEF Next

\* A filter that the card takes is there afterwards; the others stay as they are.
LEMMA AddFilterEffect ==
  ASSUME TypeOK, NEW p \in Ports, NEW k \in Keys, NEW id \in SoftId, NEW q \in 1 .. NbPorts,
         AddPerfectFilter(p, k, id, q)
  PROVE  /\ fdir' # fdir \/ ~panic' => fdir'[p][k] # None /\ fdir'[p][k].id = id
         /\ \A p1 \in Ports, k1 \in Keys :
              /\ p1 # p \/ k1 # k => fdir'[p1][k1] = fdir[p1][k1]
              /\ fdir[p1][k1] # None => fdir'[p1][k1] # None
<1> DEFINE f == [queue |-> q, id |-> id]
<1>1. f # None
  <2>1. f \in Filter
    BY DEF Filter
  <2> QED BY <2>1, NoneAssumption
<1>2. CASE fdir' = [fdir EXCEPT ![p][k] = f]
  <2>1. \A p1 \in Ports, k1 \in Keys :
          fdir'[p1][k1] = IF p1 = p /\ k1 = k THEN f ELSE fdir[p1][k1]
    BY <1>2 DEF TypeOK
  <2>2. f.id = id
    OBVIOUS
  <2> HIDE DEF f
  <2> QED BY <1>1, <2>1, <2>2
<1>3. CASE fdir' = fdir /\ panic'
  BY <1>3
<1>4. fdir' = [fdir EXCEPT ![p][k] = f] \/ (fdir' = fdir /\ panic')
  BY Zenon DEF AddPerfectFilter
<1> QED BY <1>2, <1>3, <1>4

\* While the requests are being set up the filter for the answers is there.
AnswersSetUp ==
  pc \in {"req_slot", "req_filter"} /\ ~panic => fdir[OutPort(ReqKey)][DataKey] # None
AnswersInv == AnswersBeforeRequests /\ AnswersSetUp

LEMMA AnswersInstallData ==
  ASSUME TypeInv, AnswersInv, InstallDataFilter
  PROVE  AnswersInv'
<1>1. /\ TypeOK /\ pkt_index <= Len(pkts) /\ Pkt.d = "req"
      /\ in_port \in Ports /\ flow_id \in Slots
  BY DEF InstallDataFilter, TypeInv, TypeOK, AtPacket, Detecting
<1>2. PICK p \in Ports : p = OutPort(ReqKey)
  BY <1>1, PktType, PortTypes
<1>3. PICK k \in Keys : k = DataKey
  BY <1>1, PktType
<1>4. fdir_id[p] + 1 \in Nat
  BY <1>1 DEF TypeOK
<1>5. PICK id \in SoftId : id = FdirIdLocal(flow_id, fdir_id[p] + 1)
  BY <1>1, <1>4, SoftIdType
<1>6. in_port + 1 \in 1 .. NbPorts
  BY <1>1, PortTypes
<1>7. AddPerfectFilter(p, k, id, in_port + 1) /\ UNCHANGED <<pkts, pkt_index>>
  BY <1>2, <1>3, <1>5 DEF InstallDataFilter
<1>8. /\ ~panic' => fdir'[p][k] # None
      /\ \A p1 \in Ports, k1 \in Keys :
           /\ p1 # p \/ k1 # k => fdir'[p1][k1] = fdir[p1][k1]
           /\ fdir[p1][k1] # None => fdir'[p1][k1] # None
  BY <1>1, <1>6, <1>7, AddFilterEffect
<1>9. ASSUME NEW c \in Conn, fdir'[InPort(<<c, "req">>)][<<c, "req">>] # None
      PROVE  fdir'[OutPort(<<c, "req">>)][<<c, "data">>] # None
  <2>1. <<c, "req">> \in Keys /\ <<c, "data">> \in Keys /\ <<c, "req">> # k
    BY <1>3 DEF Keys, Dirs, DataKey
  <2>2. InPort(<<c, "req">>) \in Ports /\ OutPort(<<c, "req">>) \in Ports
    BY <2>1, PortTypes
  <2>3. fdir[InPort(<<c, "req">>)][<<c, "req">>] # None
    BY <1>8, <1>9, <2>1, <2>2
  <2>4. fdir[OutPort(<<c, "req">>)][<<c, "data">>] # None
    BY <2>3 DEF AnswersInv, AnswersBeforeRequests
  <2> QED BY <1>8, <2>1, <2>2, <2>4
<1>10. AnswersBeforeRequests'
  BY <1>9 DEF AnswersBeforeRequests
<1>11. OutPort(ReqKey)' = p /\ DataKey' = k
  BY <1>2, <1>3, <1>7 DEF OutPort, ReqKey, DataKey, Pkt
<1>12. AnswersSetUp'
  BY <1>8, <1>11 DEF AnswersSetUp
<1> QED BY <1>10, <1>12 DEF AnswersInv

LEMMA AnswersInstallReq ==
  ASSUME TypeInv, SteeringInv, AnswersInv, InstallReqFilter
  PROVE  AnswersInv'
<1>1. /\ TypeOK /\ pkt_index <= Len(pkts) /\ Pkt.d = "req"
      /\ in_port \in Ports /\ flow_id \in Slots /\ InHandler /\ DefaultPathInv
  BY DEF InstallReqFilter, TypeInv, TypeOK, AtPacket, Detecting, InHandler, SteeringInv
<1>2. PICK k \in Keys : k = ReqKey
  BY <1>1, PktType
<1>3. /\ OutPort(k) \in Ports /\ InPort(k) = in_port
      /\ DataKey = <<k[1], "data">> /\ DataKey \in Keys /\ k = <<k[1], "req">>
  BY <1>1, <1>2, PktType, PortTypes, RequestInHandler DEF ReqKey, DataKey
<1>4. fdir_id[in_port] + 1 \in Nat
  BY <1>1 DEF TypeOK
<1>5. PICK id \in SoftId : id = FdirIdLocal(flow_id, fdir_id[in_port] + 1)
  BY <1>1, <1>4, SoftIdType
<1>6. OutPort(k) + 1 \in 1 .. NbPorts
  BY <1>3, PortTypes
<1>7. /\ AddPerfectFilter(in_port, k, id, OutPort(k) + 1)
      /\ pc = "req_filter" /\ pc' = "handler" /\ ~panic
  BY <1>2, <1>5 DEF InstallReqFilter, NextPacket
<1>8. \A p1 \in Ports, k1 \in Keys :
        /\ p1 # in_port \/ k1 # k => fdir'[p1][k1] = fdir[p1][k1]
        /\ fdir[p1][k1] # None => fdir'[p1][k1] # None
  BY <1>1, <1>6, <1>7, AddFilterEffect
<1>9. fdir[OutPort(k)][<<k[1], "data">>] # None
  BY <1>2, <1>3, <1>7 DEF AnswersInv, AnswersSetUp
<1>10. ASSUME NEW c \in Conn, fdir'[InPort(<<c, "req">>)][<<c, "req">>] # None
       PROVE  fdir'[OutPort(<<c, "req">>)][<<c, "data">>] # None
  <2>1. <<c, "req">> \in Keys /\ <<c, "data">> \in Keys
    BY DEF Keys, Dirs
  <2>2. InPort(<<c, "req">>) \in Ports /\ OutPort(<<c, "req">>) \in Ports
    BY <2>1, PortTypes
  <2>3. CASE <<c, "req">> = k
    BY <1>3, <1>8, <1>9, <2>1, <2>2, <2>3
  <2>4. CASE <<c, "req">> # k
    <3>1. fdir[InPort(<<c, "req">>)][<<c, "req">>] # None
      BY <1>8, <1>10, <2>1, <2>2, <2>4
    <3>2. fdir[OutPort(<<c, "req">>)][<<c, "data">>] # None
      BY <3>1 DEF AnswersInv, AnswersBeforeRequests
    <3> QED BY <1>8, <2>1, <2>2, <3>2
  <2> QED BY <2>3, <2>4
<1>11. AnswersBeforeRequests'
  BY <1>10 DEF AnswersBeforeRequests
<1>12. AnswersSetUp'
  BY <1>7 DEF AnswersSetUp
<1> QED BY <1>11, <1>12 DEF AnswersInv

\* A step that adds no filter: the handler goes from one phase of a packet to
\* the next, or leaves the packet.
LEMMA AnswersOther ==
  ASSUME AnswersInv, [Next]_vars, ~InstallDataFilter, ~InstallReqFilter
  PROVE  AnswersInv'
<1>1. UNCHANGED fdir
  BY FiltersChange
<1>2. AnswersBeforeRequests'
  BY <1>1 DEF AnswersInv, AnswersBeforeRequests
<1>3. \/ pc' \notin {"req_slot", "req_filter"}
      \/ /\ pc \in {"req_slot", "req_filter"} /\ UNCHANGED <<pkts, pkt_index>>
         /\ panic' = panic \/ panic'
  <2>1. CASE Hosts
    BY <2>1 DEF Hosts, Arrive, defaultVars
  <2>2. CASE DefaultLcore
    <3>1. CASE TakeReqSlot
      BY <3>1 DEF TakeReqSlot
    <3>2. CASE ~TakeReqSlot
      BY <2>2, <3>2 DEF DefaultLcore, DefaultPoll, SkipPacket, TakeDataSlot, NoDataSlot,
           NoReqSlot, ForwardBurst, ForwardPacket, NextPacket
    <3> QED BY <3>1, <3>2
  <2>3. CASE \E l \in RxLcore : DataRx(l)
    BY <2>3 DEF DataRx, RxPoll, RxEnqueue, RxNullRing, defaultVars
  <2>4. CASE \E l \in TxLcore : DataTx(l)
    BY <2>4 DEF DataTx, TxPoll, TxNullRing, TxSend, defaultVars
  <2>5. CASE Idle \/ Dead \/ UNCHANGED vars
    BY <2>5 DEF Idle, Dead, vars, defaultVars
  <2> QED BY <2>1, <2>2, <2>3, <2>4, <2>5 DEF Next
<1>4. AnswersSetUp'
  BY <1>1, <1>3 DEF AnswersInv, AnswersSetUp, OutPort, ReqKey, DataKey, Pkt
<1> QED BY <1>2, <1>4 DEF AnswersInv

\* A connection's requests leave the default path only after its answers have
\* a filter of their own, also when the flow director or the slots run out.
THEOREM AnswersFirst == Spec => []AnswersBeforeRequests
<1>1. Init => AnswersInv
  <2> SUFFICES ASSUME Init PROVE AnswersInv
    OBVIOUS
  <2>1. \A p \in Ports, k \in Keys : fdir[p][k] = None
    BY DEF Init
  <2>2. \A c \in Conn : <<c, "req">> \in Keys
    BY DEF Keys, Dirs
  <2>3. AnswersBeforeRequests
    BY <2>1, <2>2, PortTypes DEF AnswersBeforeRequests
  <2>4. AnswersSetUp
    BY DEF Init, AnswersSetUp
  <2> QED BY <2>3, <2>4 DEF AnswersInv
<1>2. TypeInv /\ SteeringInv /\ AnswersInv /\ [Next]_vars => AnswersInv'
  BY AnswersInstallData, AnswersInstallReq, AnswersOther
<1>3. AnswersInv => AnswersBeforeRequests
  BY DEF AnswersInv
<1> QED BY <1>1, <1>2, <1>3, SteeringCorrect, PTL DEF Spec
-----------------------------------------------------------------------------
(***************************************************************************)
(* Soft ids.  As long as the count of a card has not passed FdirGens, each *)
(* filter on it has a generation that came from another count.             *)
(***************************************************************************)
GenFrom(p, k) == \E n \in 1 .. fdir_id[p] : fdir[p][k].id.gen = n % FdirGens
GensInv ==
  \A p \in Ports : fdir_id[p] <= FdirGens =>
    /\ \A k \in Keys : fdir[p][k] # None => GenFrom(p, k)
    /\ \A j, k \in Keys : j # k /\ fdir[p][j] # None /\ fdir[p][k] # None
                          => fdir[p][j].id.gen # fdir[p][k].id.gen

\* Counts up to FdirGens differ in what is left of them.
LEMMA GensDiffer ==
  ASSUME NEW n \in Nat, NEW m \in Nat, 1 <= n, n < m, m <= FdirGens
  PROVE  n % FdirGens # m % FdirGens
<1>1. FdirGens \in Nat \ {0}
  BY SizeAssumption
<1>2. n % FdirGens = n
  BY <1>1
<1>3. CASE m = FdirGens
  <2>1. m % FdirGens = 0
    BY <1>1, <1>3
  <2> QED BY <1>2, <2>1
<1>4. CASE m < FdirGens
  <2>1. m % FdirGens = m
    BY <1>1, <1>4
  <2> QED BY <1>2, <2>1
<1> QED BY <1>1, <1>3, <1>4

\* One more filter, with the count that comes next.
LEMMA GensAdd ==
  ASSUME TypeOK, GensInv, NEW p \in Ports, NEW k \in Keys, NEW i \in Slots,
         NEW q \in 1 .. NbPorts,
         AddPerfectFilter(p, k, FdirIdLocal(i, fdir_id[p] + 1), q),
         fdir_id' = [fdir_id EXCEPT ![p] = fdir_id[p] + 1]
  PROVE  GensInv'
<1> DEFINE c == fdir_id[p] + 1
           id == FdirIdLocal(i, c)
<1>1. c \in Nat /\ fdir_id[p] \in Nat /\ id.gen = c % FdirGens /\ id \in SoftId
  <2>1. fdir_id[p] \in Nat
    BY DEF TypeOK
  <2> QED BY <2>1, SoftIdType DEF FdirIdLocal
<1> SUFFICES ASSUME NEW p1 \in Ports, fdir_id'[p1] <= FdirGens
             PROVE  /\ \A k1 \in Keys : fdir'[p1][k1] # None => GenFrom(p1, k1)'
                    /\ \A j, k1 \in Keys : j # k1 /\ fdir'[p1][j] # None /\ fdir'[p1][k1] # None
                                          => fdir'[p1][j].id.gen # fdir'[p1][k1].id.gen
  BY DEF GensInv
<1>2. AddPerfectFilter(p, k, id, q)
  OBVIOUS
<1> HIDE DEF id
<1>3. \A p2 \in Ports, k1 \in Keys :
        p2 # p \/ k1 # k \/ fdir' = fdir => fdir'[p2][k1] = fdir[p2][k1]
  BY <1>1, <1>2, AddFilterEffect
<1>4. CASE p1 # p
  <2>1. fdir_id'[p1] = fdir_id[p1] /\ \A k1 \in Keys : fdir'[p1][k1] = fdir[p1][k1]
    BY <1>3, <1>4 DEF TypeOK
  <2> QED BY <2>1 DEF GensInv, GenFrom
<1>5. CASE p1 = p
  <2>1. fdir_id'[p] = c /\ c <= FdirGens /\ fdir_id[p] <= FdirGens
    <3>1. fdir_id'[p] = c
      BY DEF TypeOK
    <3>2. FdirGens \in Nat
      BY SizeAssumption
    <3> QED BY <1>1, <1>5, <3>1, <3>2
  <2>2. \A k1 \in Keys : fdir[p][k1] # None =>
          \E n \in 1 .. fdir_id[p] : fdir[p][k1].id.gen = n % FdirGens
    BY <2>1 DEF GensInv, GenFrom
  <2>3. ASSUME NEW k1 \in Keys, fdir[p][k1] # None
        PROVE  /\ fdir[p][k1].id.gen # id.gen
               /\ \E n \in 1 .. c : fdir[p][k1].id.gen = n % FdirGens
    <3>1. PICK n \in 1 .. fdir_id[p] : fdir[p][k1].id.gen = n % FdirGens
      BY <2>2, <2>3
    <3>2. n \in Nat /\ 1 <= n /\ n < c /\ n \in 1 .. c
      BY <1>1
    <3>3. n % FdirGens # c % FdirGens
      BY <1>1, <2>1, <3>2, GensDiffer
    <3> QED BY <1>1, <3>1, <3>2, <3>3
  <2>4. c \in 1 .. c
    BY <1>1
  <2>5. fdir' # fdir => fdir'[p][k].id = id
    BY <1>1, <1>2, AddFilterEffect
  <2> HIDE DEF c
  <2>6. ASSUME NEW k1 \in Keys, fdir'[p][k1] # None
        PROVE  \E n \in 1 .. c : fdir'[p][k1].id.gen = n % FdirGens
    <3>1. CASE k1 = k /\ fdir' # fdir
      BY <1>1, <2>4, <2>5, <3>1
    <3>2. CASE k1 # k \/ fdir' = fdir
      BY <1>3, <2>3, <2>6, <3>2
    <3> QED BY <3>1, <3>2
  <2>7. ASSUME NEW j \in Keys, NEW k1 \in Keys, j # k1,
               fdir'[p][j] # None, fdir'[p][k1] # None
        PROVE  fdir'[p][j].id.gen # fdir'[p][k1].id.gen
    <3>1. CASE fdir' = fdir \/ (j # k /\ k1 # k)
      <4>1. fdir'[p][j] = fdir[p][j] /\ fdir'[p][k1] = fdir[p][k1]
        BY <1>3, <3>1
      <4> QED BY <2>1, <2>7, <4>1 DEF GensInv
    <3>2. CASE fdir' # fdir /\ j = k
      <4>1. fdir'[p][k1] = fdir[p][k1] /\ fdir'[p][j].id = id
        BY <1>3, <2>5, <2>7, <3>2
      <4> QED BY <2>3, <2>7, <4>1
    <3>3. CASE fdir' # fdir /\ k1 = k
      <4>1. fdir'[p][j] = fdir[p][j] /\ fdir'[p][k1].id = id
        BY <1>3, <2>5, <2>7, <3>3
      <4> QED BY <2>3, <2>7, <4>1
    <3> QED BY <3>1, <3>2, <3>3
  <2> QED BY <1>5, <2>1, <2>6, <2>7 DEF GenFrom
<1> QED BY <1>4, <1>5

LEMMA GensNext == TypeInv /\ GensInv /\ [Next]_vars => GensInv'
<1> SUFFICES ASSUME TypeInv, GensInv, [Next]_vars PROVE GensInv'
  OBVIOUS
<1>1. CASE InstallDataFilter
  <2>1. /\ TypeOK /\ pkt_index <= Len(pkts) /\ in_port \in Ports /\ flow_id \in Slots
    BY <1>1 DEF InstallDataFilter, TypeInv, TypeOK, AtPacket, Detecting
  <2>2. OutPort(ReqKey) \in Ports /\ DataKey \in Keys /\ in_port + 1 \in 1 .. NbPorts
    BY <2>1, PktType, PortTypes
  <2> QED BY <1>1, <2>1, <2>2, GensAdd DEF InstallDataFilter
<1>2. CASE InstallReqFilter
  <2>1. /\ TypeOK /\ pkt_index <= Len(pkts) /\ in_port \in Ports /\ flow_id \in Slots
    BY <1>2 DEF InstallReqFilter, TypeInv, TypeOK, AtPacket, Detecting
  <2>2. ReqKey \in Keys /\ OutPort(ReqKey) \in Ports
    BY <2>1, PktType, PortTypes
  <2>3. OutPort(ReqKey) + 1 \in 1 .. NbPorts
    BY <2>2, PortTypes
  <2> QED BY <1>2, <2>1, <2>2, <2>3, GensAdd DEF InstallReqFilter
<1>3. CASE ~InstallDataFilter /\ ~InstallReqFilter
  BY <1>3, FiltersChange DEF GensInv, GenFrom
<1> QED BY <1>1, <1>2, <1>3

\* The soft ids on a card differ until its count of filters has passed the bits
\* that the slot leaves it.
THEOREM SoftIdsUnique == Spec => []FdirIdsUniqueUntilWrap
<1>1. Init => GensInv
  BY DEF Init, GensInv
<1>2. TypeInv /\ GensInv /\ [Next]_vars => GensInv'
  BY GensNext
<1>3. GensInv => FdirIdsUniqueUntilWrap
  BY DEF GensInv, FdirIdsUniqueUntilWrap, FdirIdsUnique
<1>4. Spec => []TypeInv
  BY TypeInit, TypeNext, PTL DEF Spec
<1> QED BY <1>1, <1>2, <1>3, <1>4, PTL DEF Spec

-----------------------------------------------------------------------------
(***************************************************************************)
(* The third part: VoqSwq implements LosslessSwitch.  What is on its way   *)
(* of a key and a path stands in one line (Line), the packets nearest to   *)
(* the wire first, and the channel of the switch is what Among picks from  *)
(* it.  A poll or an enqueue only hands a part of the line over, since     *)
(* every queue and every burst is read by one lcore and holds packets for  *)
(* it alone (LineInv).                                                     *)
(***************************************************************************)

(* What is seen of a sequence by key and path. *)
See(s, k, t) == Among(s, OnPath(k, t))
\* Nothing of s is.
Apart(s, k, t) == \A x \in 1 .. Len(s) : s[x] \notin OnPath(k, t)

\* What is seen of packets is packets.
LEMMA SeeTyped ==
  ASSUME NEW s \in Seq(Packet), NEW k, NEW t
  PROVE  See(s, k, t) \in Seq(Packet)
BY AmongTyped DEF See

\* Of two sequences, one behind the other, both shares are seen, in that order.
LEMMA SeeBoth ==
  ASSUME NEW s \in Seq(Packet), NEW u \in Seq(Packet), NEW k, NEW t
  PROVE  See(Cat(s, u), k, t) = Cat(See(s, k, t), See(u, k, t))
BY AmongOfBoth DEF See, Cat

\* Nothing is seen of a sequence that holds nothing of the key and the path.
LEMMA SeeNothing ==
  ASSUME NEW s \in Seq(Packet), NEW k, NEW t, Apart(s, k, t)
  PROVE  See(s, k, t) = <<>>
BY AmongOfOthers DEF See, Apart

\* Nor of the empty one.
LEMMA SeeEmpty ==
  ASSUME NEW k, NEW t
  PROVE  See(<<>>, k, t) = <<>>
<1> DEFINE s == <<>>
<1>1. s \in Seq(Packet) /\ Apart(s, k, t)
  BY DEF Apart
<1> HIDE DEF s
<1>2. See(s, k, t) = <<>>
  BY <1>1, SeeNothing
<1> QED
  BY <1>2 DEF s

\* A sequence of packets none of which is of the key and the path.
LEMMA ApartFrom ==
  ASSUME NEW X, NEW s \in Seq(X), NEW k, NEW t, \A m \in X : m \notin OnPath(k, t)
  PROVE  Apart(s, k, t)
BY DEF Apart

\* The two ways, with what is seen of each of their parts.
Slow(a, d, k, t) == Cat(See(a, k, t), See(d, k, t))
Fast(a, b, c, d, k, t) ==
  Cat(Cat(Cat(See(a, k, t), See(b, k, t)), See(c, k, t)), See(d, k, t))

\* The default way is its two parts, each as it is seen.
LEMMA SlowParts ==
  ASSUME NEW a \in Seq(Packet), NEW d \in Seq(Packet), NEW k, NEW t
  PROVE  Among(a \o d, OnPath(k, t)) = Slow(a, d, k, t)
BY SeeBoth DEF Slow, See, Cat

\* The way through a ring is its four parts, each as it is seen.
LEMMA FastParts ==
  ASSUME NEW a \in Seq(Packet), NEW b \in Seq(Packet), NEW c \in Seq(Packet), NEW d \in Seq(Packet),
         NEW k, NEW t
  PROVE  Among(a \o b \o c \o d, OnPath(k, t)) = Fast(a, b, c, d, k, t)
<1> DEFINE u == Cat(a, b)
           v == Cat(u, c)
<1>1. u \in Seq(Packet) /\ See(u, k, t) = Cat(See(a, k, t), See(b, k, t))
  BY SeeBoth, CatTyped
<1> HIDE DEF u
<1>2. v \in Seq(Packet) /\ See(v, k, t) = Cat(See(u, k, t), See(c, k, t))
  BY <1>1, SeeBoth, CatTyped
<1> HIDE DEF v
<1>3. See(Cat(v, d), k, t) = Cat(See(v, k, t), See(d, k, t))
  BY <1>2, SeeBoth
<1>4. Cat(v, d) = a \o b \o c \o d
  BY DEF Cat, v, u
<1> QED
  BY <1>1, <1>2, <1>3, <1>4 DEF Fast, See

\* A part f of f, g is handed over to b: seen it stays in its place, not seen
\* it makes no difference.
LEMMA HandedOver ==
  ASSUME NEW b \in Seq(Packet), NEW f \in Seq(Packet), NEW g \in Seq(Packet), NEW k, NEW t
  PROVE  /\ Cat(See(Cat(b, f), k, t), See(g, k, t)) = Cat(See(b, k, t), See(Cat(f, g), k, t))
         /\ Apart(f, k, t) => See(Cat(b, f), k, t) = See(b, k, t) /\ See(Cat(f, g), k, t) = See(g, k, t)
<1> DEFINE x == See(b, k, t)
           y == See(f, k, t)
           z == See(g, k, t)
<1>1. x \in Seq(Packet) /\ y \in Seq(Packet) /\ z \in Seq(Packet)
  BY SeeTyped
<1>2. See(Cat(b, f), k, t) = Cat(x, y) /\ See(Cat(f, g), k, t) = Cat(y, z)
  BY SeeBoth
<1>3. Apart(f, k, t) => y = <<>>
  BY SeeNothing
<1> HIDE DEF x, y, z
<1>4. Cat(Cat(x, y), z) = Cat(x, Cat(y, z))
  BY <1>1, CatAssociative
<1>5. Cat(x, <<>>) = x /\ Cat(<<>>, z) = z
  BY <1>1, CatEmpty
<1>6. Cat(Cat(x, y), z) = Cat(x, Cat(y, z)) /\ (Apart(f, k, t) => Cat(x, y) = x /\ Cat(y, z) = z)
  BY <1>3, <1>4, <1>5
<1> QED
  BY <1>2, <1>6 DEF x, z

\* The same where a burst is all that b has.
LEMMA TakenFrom ==
  ASSUME NEW f \in Seq(Packet), NEW g \in Seq(Packet), NEW k, NEW t
  PROVE  /\ Cat(See(f, k, t), See(g, k, t)) = Cat(See(<<>>, k, t), See(Cat(f, g), k, t))
         /\ Apart(f, k, t) => See(f, k, t) = See(<<>>, k, t) /\ See(Cat(f, g), k, t) = See(g, k, t)
<1> DEFINE b == <<>>
<1>1. b \in Seq(Packet) /\ Cat(b, f) = f
  BY CatEmpty
<1> HIDE DEF b
<1>2. /\ Cat(See(f, k, t), See(g, k, t)) = Cat(See(b, k, t), See(Cat(f, g), k, t))
      /\ Apart(f, k, t) => See(f, k, t) = See(b, k, t) /\ See(Cat(f, g), k, t) = See(g, k, t)
  BY <1>1, HandedOver
<1> QED
  BY <1>2 DEF b

\* The whole line is the same if two parts next to each other together are, and the others.
LEMMA FastSame ==
  ASSUME NEW a, NEW b, NEW c, NEW d, NEW a2, NEW b2, NEW c2, NEW d2, NEW k, NEW t,
         a \in Seq(Packet), b \in Seq(Packet), c \in Seq(Packet), d \in Seq(Packet),
         a2 \in Seq(Packet), b2 \in Seq(Packet), c2 \in Seq(Packet), d2 \in Seq(Packet),
         \/ /\ Cat(See(a2, k, t), See(b2, k, t)) = Cat(See(a, k, t), See(b, k, t)) /\ c2 = c /\ d2 = d
         \/ /\ Cat(See(b2, k, t), See(c2, k, t)) = Cat(See(b, k, t), See(c, k, t)) /\ a2 = a /\ d2 = d
         \/ /\ Cat(See(c2, k, t), See(d2, k, t)) = Cat(See(c, k, t), See(d, k, t)) /\ a2 = a /\ b2 = b
  PROVE  Fast(a2, b2, c2, d2, k, t) = Fast(a, b, c, d, k, t)
<1> DEFINE u == See(a, k, t)
           v == See(b, k, t)
           w == See(c, k, t)
           x == See(d, k, t)
           u2 == See(a2, k, t)
           v2 == See(b2, k, t)
           w2 == See(c2, k, t)
           x2 == See(d2, k, t)
<1>1. /\ u \in Seq(Packet) /\ v \in Seq(Packet) /\ w \in Seq(Packet) /\ x \in Seq(Packet)
      /\ u2 \in Seq(Packet) /\ v2 \in Seq(Packet) /\ w2 \in Seq(Packet) /\ x2 \in Seq(Packet)
  BY SeeTyped
<1>2. \/ Cat(u2, v2) = Cat(u, v) /\ w2 = w /\ x2 = x
      \/ Cat(v2, w2) = Cat(v, w) /\ u2 = u /\ x2 = x
      \/ Cat(w2, x2) = Cat(w, x) /\ u2 = u /\ v2 = v
  OBVIOUS
<1> HIDE DEF u, v, w, x, u2, v2, w2, x2
<1>3. /\ Cat(Cat(u, v), w) = Cat(u, Cat(v, w))
      /\ Cat(Cat(u2, v2), w2) = Cat(u2, Cat(v2, w2))
  BY <1>1, CatAssociative
<1>4. /\ Cat(Cat(Cat(u, v), w), x) = Cat(Cat(u, v), Cat(w, x))
      /\ Cat(Cat(Cat(u2, v2), w2), x2) = Cat(Cat(u2, v2), Cat(w2, x2))
  <2> DEFINE y == Cat(u, v)
             y2 == Cat(u2, v2)
  <2>1. y \in Seq(Packet) /\ y2 \in Seq(Packet)
    BY <1>1, CatTyped
  <2> HIDE DEF y, y2
  <2>2. Cat(Cat(y, w), x) = Cat(y, Cat(w, x)) /\ Cat(Cat(y2, w2), x2) = Cat(y2, Cat(w2, x2))
    BY <1>1, <2>1, CatAssociative
  <2> QED
    BY <2>2 DEF y, y2
<1>5. Cat(Cat(Cat(u2, v2), w2), x2) = Cat(Cat(Cat(u, v), w), x)
  BY <1>2, <1>3, <1>4
<1> QED
  BY <1>5 DEF Fast, u, v, w, x, u2, v2, w2, x2

\* A packet is put at the end of a line.
LEMMA FastMore ==
  ASSUME NEW a \in Seq(Packet), NEW b \in Seq(Packet), NEW c \in Seq(Packet), NEW d \in Seq(Packet),
         NEW m \in Packet, NEW k, NEW t
  PROVE  /\ m \in OnPath(k, t) => Fast(a, b, c, Behind(d, m), k, t) = Behind(Fast(a, b, c, d, k, t), m)
         /\ m \notin OnPath(k, t) => Fast(a, b, c, Behind(d, m), k, t) = Fast(a, b, c, d, k, t)
<1> DEFINE u == Cat(Cat(See(a, k, t), See(b, k, t)), See(c, k, t))
           x == See(d, k, t)
<1>1. x \in Seq(Packet) /\ u \in Seq(Packet)
  BY SeeTyped, CatTyped
<1>2. /\ m \in OnPath(k, t) => See(Behind(d, m), k, t) = Behind(x, m)
      /\ m \notin OnPath(k, t) => See(Behind(d, m), k, t) = x
  BY AmongOfAppend DEF See
<1> HIDE DEF u, x
<1>3. Cat(u, Behind(x, m)) = Behind(Cat(u, x), m)
  BY <1>1 DEF Cat, Behind
<1>4. /\ m \in OnPath(k, t) => Cat(u, See(Behind(d, m), k, t)) = Behind(Cat(u, x), m)
      /\ m \notin OnPath(k, t) => Cat(u, See(Behind(d, m), k, t)) = Cat(u, x)
  BY <1>2, <1>3
<1> QED
  BY <1>4 DEF Fast, u, x

\* A packet behind the default way is seen behind it, or not at all.
LEMMA SlowMore ==
  ASSUME NEW a \in Seq(Packet), NEW d \in Seq(Packet), NEW m \in Packet, NEW k, NEW t
  PROVE  /\ m \in OnPath(k, t) => Slow(a, Behind(d, m), k, t) = Behind(Slow(a, d, k, t), m)
         /\ m \notin OnPath(k, t) => Slow(a, Behind(d, m), k, t) = Slow(a, d, k, t)
<1> DEFINE u == See(a, k, t)
           x == See(d, k, t)
<1>1. x \in Seq(Packet) /\ u \in Seq(Packet)
  BY SeeTyped
<1>2. /\ m \in OnPath(k, t) => See(Behind(d, m), k, t) = Behind(x, m)
      /\ m \notin OnPath(k, t) => See(Behind(d, m), k, t) = x
  BY AmongOfAppend DEF See
<1> HIDE DEF u, x
<1>3. Cat(u, Behind(x, m)) = Behind(Cat(u, x), m)
  BY <1>1 DEF Cat, Behind
<1>4. /\ m \in OnPath(k, t) => Cat(u, See(Behind(d, m), k, t)) = Behind(Cat(u, x), m)
      /\ m \notin OnPath(k, t) => Cat(u, See(Behind(d, m), k, t)) = Cat(u, x)
  BY <1>2, <1>3
<1> QED
  BY <1>4 DEF Slow, u, x

\* The first packet of a line goes.
LEMMA FastLess ==
  ASSUME NEW a \in Seq(Packet), NEW b \in Seq(Packet), NEW c \in Seq(Packet), NEW d \in Seq(Packet),
         a # <<>>, NEW k, NEW t
  PROVE  /\ Head(a) \in OnPath(k, t) =>
              /\ Fast(a, b, c, d, k, t) # <<>> /\ Head(Fast(a, b, c, d, k, t)) = Head(a)
              /\ Fast(Tail(a), b, c, d, k, t) = Tail(Fast(a, b, c, d, k, t))
         /\ Head(a) \notin OnPath(k, t) => Fast(Tail(a), b, c, d, k, t) = Fast(a, b, c, d, k, t)
<1> DEFINE m == Head(a)
           r == Tail(a)
           u == See(a, k, t)
           v == See(b, k, t)
           w == See(c, k, t)
           x == See(d, k, t)
           y == See(r, k, t)
<1>1. u \in Seq(Packet) /\ v \in Seq(Packet) /\ w \in Seq(Packet) /\ x \in Seq(Packet)
  BY SeeTyped
<1>2. /\ m \in OnPath(k, t) => u # <<>> /\ Head(u) = m /\ y = Tail(u)
      /\ m \notin OnPath(k, t) => y = u
  BY AmongOfTail DEF See
<1> HIDE DEF m, r, u, v, w, x, y
<1>3. CASE m \in OnPath(k, t)
  <2> DEFINE uv == Cat(u, v)
             uvw == Cat(uv, w)
             all == Cat(uvw, x)
  <2>1. uv \in Seq(Packet) /\ uv # <<>> /\ Head(uv) = m /\ Tail(uv) = Cat(y, v)
    BY <1>1, <1>2, <1>3, CatTyped, CatFirst
  <2> HIDE DEF uv
  <2>2. uvw \in Seq(Packet) /\ uvw # <<>> /\ Head(uvw) = m /\ Tail(uvw) = Cat(Tail(uv), w)
    BY <1>1, <2>1, CatTyped, CatFirst
  <2> HIDE DEF uvw
  <2>3. all # <<>> /\ Head(all) = m /\ Tail(all) = Cat(Tail(uvw), x)
    BY <1>1, <2>2, CatFirst
  <2> HIDE DEF all
  <2>4. Fast(a, b, c, d, k, t) = all
    BY DEF Fast, all, uvw, uv, u, v, w, x
  <2>5. Fast(r, b, c, d, k, t) = Tail(all)
    BY <2>1, <2>2, <2>3 DEF Fast, y, v, w, x
  <2> QED
    BY <1>3, <2>3, <2>4, <2>5 DEF m, r
<1>4. CASE m \notin OnPath(k, t)
  <2>1. Fast(r, b, c, d, k, t) = Fast(a, b, c, d, k, t)
    BY <1>2, <1>4 DEF Fast, y, u
  <2> QED
    BY <1>4, <2>1 DEF m, r
<1> QED
  BY <1>3, <1>4

\* The packet that leaves the default way is the first that is seen of it, or is not seen.
LEMMA SlowLess ==
  ASSUME NEW a \in Seq(Packet), NEW d \in Seq(Packet), a # <<>>, NEW k, NEW t
  PROVE  /\ Head(a) \in OnPath(k, t) =>
              /\ Slow(a, d, k, t) # <<>> /\ Head(Slow(a, d, k, t)) = Head(a)
              /\ Slow(Tail(a), d, k, t) = Tail(Slow(a, d, k, t))
         /\ Head(a) \notin OnPath(k, t) => Slow(Tail(a), d, k, t) = Slow(a, d, k, t)
<1> DEFINE m == Head(a)
           r == Tail(a)
           u == See(a, k, t)
           x == See(d, k, t)
           y == See(r, k, t)
<1>1. u \in Seq(Packet) /\ x \in Seq(Packet)
  BY SeeTyped
<1>2. /\ m \in OnPath(k, t) => u # <<>> /\ Head(u) = m /\ y = Tail(u)
      /\ m \notin OnPath(k, t) => y = u
  BY AmongOfTail DEF See
<1> HIDE DEF m, r, u, x, y
<1>3. u # <<>> => Cat(u, x) # <<>> /\ Head(Cat(u, x)) = Head(u) /\ Tail(Cat(u, x)) = Cat(Tail(u), x)
  BY <1>1, CatFirst
<1>4. Slow(a, d, k, t) = Cat(u, x) /\ Slow(r, d, k, t) = Cat(y, x)
  BY DEF Slow, u, x, y
<1>5. /\ m \in OnPath(k, t) =>
              /\ Slow(a, d, k, t) # <<>> /\ Head(Slow(a, d, k, t)) = m
              /\ Slow(r, d, k, t) = Tail(Slow(a, d, k, t))
      /\ m \notin OnPath(k, t) => Slow(r, d, k, t) = Slow(a, d, k, t)
  BY <1>2, <1>3, <1>4
<1> QED
  BY <1>5 DEF m, r

-----------------------------------------------------------------------------
(* What the mapping shows of packets. *)
LEMMA PathType ==
  ASSUME NEW m \in Packet
  PROVE  /\ PathOf(m) \in Slots \cup {None} /\ (PathOf(m) = None <=> m.id = None)
         /\ KeyOf(m) \in Keys /\ m.n \in Nat /\ m \in OnPath(KeyOf(m), PathOf(m))
         /\ \A k, t : m \in OnPath(k, t) => k = KeyOf(m) /\ t = PathOf(m)
BY NoneAssumption DEF PathOf, Packet, PacketWith, SoftId, KeyOf, Keys, OnPath

\* The number of a packet behind a line is behind the numbers of the line.
LEMMA NumbersMore ==
  ASSUME NEW s \in Seq(Packet), NEW m \in Packet
  PROVE  Numbers(Behind(s, m)) = Append(Numbers(s), m.n)
<1> DEFINE u == Append(s, m)
           v == Numbers(s)
           w == Append(v, m.n)
<1>1. m.n \in Nat /\ \A x \in 1 .. Len(s) : s[x].n \in Nat
  BY PathType
<1>2. Len(s) \in Nat /\ DOMAIN s = 1 .. Len(s)
  OBVIOUS
<1>3. u \in Seq(Packet) /\ Len(u) = Len(s) + 1 /\ DOMAIN u = 1 .. Len(s) + 1 /\ u[Len(s) + 1] = m
      /\ \A x \in 1 .. Len(s) : u[x] = s[x]
  OBVIOUS
<1>4. v = [x \in 1 .. Len(s) |-> s[x].n]
  BY <1>2 DEF Numbers
<1>5. v \in Seq(Nat) /\ Len(v) = Len(s)
  BY <1>1, <1>2, <1>4
<1>6. w \in Seq(Nat) /\ DOMAIN w = 1 .. Len(s) + 1 /\ w[Len(s) + 1] = m.n
      /\ \A x \in 1 .. Len(s) : w[x] = v[x]
  <2> HIDE DEF v
  <2> QED
    BY <1>1, <1>2, <1>5
<1> HIDE DEF u, v, w
<1>7. \A x \in 1 .. Len(s) + 1 : w[x] = u[x].n
  <2>1. ASSUME NEW x \in 1 .. Len(s) + 1 PROVE w[x] = u[x].n
    <3>1. x \in 1 .. Len(s) \/ x = Len(s) + 1
      BY <1>2
    <3> QED
      BY <1>3, <1>4, <1>6, <3>1
  <2> QED
    BY <2>1
<1>8. w = [x \in 1 .. Len(s) + 1 |-> w[x]]
  BY <1>6
<1>9. Numbers(u) = [x \in 1 .. Len(s) + 1 |-> u[x].n]
  BY <1>3 DEF Numbers
<1>10. Numbers(u) = w
  BY <1>7, <1>8, <1>9
<1> QED
  BY <1>10 DEF Behind, u, w, v

\* A line without its first packet has the numbers without the first.
LEMMA NumbersLess ==
  ASSUME NEW s \in Seq(Packet), s # <<>>
  PROVE  /\ Numbers(s) # <<>> /\ Head(Numbers(s)) = Head(s).n
         /\ Numbers(Tail(s)) = Tail(Numbers(s))
<1> DEFINE u == Tail(s)
           v == Numbers(s)
           w == Tail(v)
<1>1. \A x \in 1 .. Len(s) : s[x].n \in Nat
  BY PathType
<1>2. Len(s) \in Nat \ {0} /\ DOMAIN s = 1 .. Len(s) /\ Head(s) = s[1] /\ 1 \in 1 .. Len(s)
  OBVIOUS
<1>3. DOMAIN u = 1 .. Len(s) - 1 /\ \A x \in 1 .. Len(s) - 1 : u[x] = s[x + 1]
  OBVIOUS
<1>4. v = [x \in 1 .. Len(s) |-> s[x].n]
  BY <1>2 DEF Numbers
<1>5. v \in Seq(Nat) /\ Len(v) = Len(s) /\ v # <<>> /\ v[1] = s[1].n
  BY <1>1, <1>2, <1>4
<1>6. w \in Seq(Nat) /\ DOMAIN w = 1 .. Len(s) - 1 /\ Head(v) = v[1]
      /\ \A x \in 1 .. Len(s) - 1 : w[x] = v[x + 1]
  <2> HIDE DEF v
  <2> QED
    BY <1>2, <1>5
<1> HIDE DEF u, v, w
<1>7. \A x \in 1 .. Len(s) - 1 : w[x] = u[x].n
  <2>1. \A x \in 1 .. Len(s) - 1 : x + 1 \in 1 .. Len(s)
    BY <1>2
  <2> QED
    BY <1>3, <1>4, <1>6, <2>1
<1>8. w = [x \in 1 .. Len(s) - 1 |-> w[x]]
  BY <1>6
<1>9. Numbers(u) = [x \in 1 .. Len(s) - 1 |-> u[x].n]
  BY <1>3 DEF Numbers
<1>10. Numbers(u) = w
  BY <1>7, <1>8, <1>9
<1> QED
  BY <1>2, <1>5, <1>6, <1>10 DEF u, v, w

\* What leaves behind others is delivered behind them, by its path.
LEMMA WaysMore ==
  ASSUME NEW s \in Seq(Packet), NEW m \in Packet
  PROVE  Ways(Behind(s, m)) = Append(Ways(s), [n |-> m.n, path |-> PathOf(m)])
<1> DEFINE R == [n : Nat, path : Slots \cup {None}]
           e == [n |-> m.n, path |-> PathOf(m)]
           u == Append(s, m)
           v == Ways(s)
           w == Append(v, e)
<1>1. e \in R /\ \A x \in 1 .. Len(s) : [n |-> s[x].n, path |-> PathOf(s[x])] \in R
  <2>1. \A p \in Packet : [n |-> p.n, path |-> PathOf(p)] \in R
    BY PathType
  <2> QED
    BY <2>1
<1>2. Len(s) \in Nat /\ DOMAIN s = 1 .. Len(s)
  OBVIOUS
<1>3. u \in Seq(Packet) /\ Len(u) = Len(s) + 1 /\ DOMAIN u = 1 .. Len(s) + 1 /\ u[Len(s) + 1] = m
      /\ \A x \in 1 .. Len(s) : u[x] = s[x]
  OBVIOUS
<1>4. v = [x \in 1 .. Len(s) |-> [n |-> s[x].n, path |-> PathOf(s[x])]]
  BY <1>2 DEF Ways
<1> HIDE DEF R
<1>5. v \in Seq(R) /\ Len(v) = Len(s)
  BY <1>1, <1>2, <1>4
<1> HIDE DEF e
<1>6. w \in Seq(R) /\ DOMAIN w = 1 .. Len(s) + 1 /\ w[Len(s) + 1] = e
      /\ \A x \in 1 .. Len(s) : w[x] = v[x]
  <2> HIDE DEF v
  <2> QED
    BY <1>1, <1>2, <1>5
<1> HIDE DEF u, v, w
<1>7. \A x \in 1 .. Len(s) + 1 : w[x] = [n |-> u[x].n, path |-> PathOf(u[x])]
  <2>1. ASSUME NEW x \in 1 .. Len(s) + 1 PROVE w[x] = [n |-> u[x].n, path |-> PathOf(u[x])]
    <3>1. x \in 1 .. Len(s) \/ x = Len(s) + 1
      BY <1>2
    <3> QED
      BY <1>3, <1>4, <1>6, <3>1 DEF e
  <2> QED
    BY <2>1
<1>8. w = [x \in 1 .. Len(s) + 1 |-> w[x]]
  BY <1>6
<1>9. Ways(u) = [x \in 1 .. Len(s) + 1 |-> [n |-> u[x].n, path |-> PathOf(u[x])]]
  BY <1>3 DEF Ways
<1>10. Ways(u) = w
  BY <1>7, <1>8, <1>9
<1> QED
  BY <1>10 DEF Behind, u, w, v, e

\* The two parts of a cut sequence are the sequence again.
LEMMA CutParts ==
  ASSUME NEW S, NEW s \in Seq(S), NEW k \in 0 .. Len(s)
  PROVE  Cat(First(s, k), From(s, k)) = s
<1> DEFINE f == First(s, k)
           g == From(s, k)
<1>1. /\ f \in Seq(S) /\ Len(f) = k /\ g \in Seq(S) /\ Len(g) = Len(s) - k
      /\ \A x \in 1 .. k : f[x] = s[x]
      /\ \A x \in 1 .. Len(s) - k : g[x] = s[k + x]
  BY DEF First, From
<1> HIDE DEF f, g
<1>2. Cat(f, g) \in Seq(S) /\ Len(Cat(f, g)) = Len(s)
  <2>1. Cat(f, g) \in Seq(S)
    BY <1>1, CatTyped
  <2>2. Len(Cat(f, g)) = Len(f) + Len(g)
    BY <1>1, ConcatProperties DEF Cat
  <2> QED
    BY <1>1, <2>1, <2>2
<1>3. \A x \in 1 .. Len(s) : Cat(f, g)[x] = s[x]
  <2>1. ASSUME NEW x \in 1 .. Len(s) PROVE Cat(f, g)[x] = s[x]
    <3>1. Cat(f, g)[x] = IF x <= k THEN f[x] ELSE g[x - k]
      BY <1>1, ConcatProperties DEF Cat
    <3> QED
      BY <1>1, <3>1
  <2> QED
    BY <2>1
<1>4. Cat(f, g) = s
  BY <1>2, <1>3, SeqEqual
<1> QED
  BY <1>4 DEF f, g
-----------------------------------------------------------------------------
(***************************************************************************)
(* Each queue and burst is of one lcore or port.                           *)
(***************************************************************************)
FromPort(p) == {m \in Steered : InPort(KeyOf(m)) = p}
ReadBy(l) == {m \in Steered : RxLcoreOf[InPort(KeyOf(m))] = l}
SentBy(l) == {m \in Steered : TxLcoreOf[OutPort(KeyOf(m))] = l}
LineInv ==
  /\ pc = "poll" => pkts = <<>>
  /\ \A p \in Ports, q \in 1 .. NbPorts : nicq[p][q] \in Seq(FromPort(p))
  /\ \A l \in RxLcore : rxb[l].pkts \in Seq(ReadBy(l))
  /\ \A l \in TxLcore : txb[l].pkts \in Seq(SentBy(l))
LosslessInv == TypeInv /\ SteeringInv /\ LineInv

QueuesTyped ==
  /\ pkts \in Seq(Packet) /\ wire \in [Keys -> Seq(Packet)] /\ sent \in [Keys -> Nat]
  /\ nicq \in [Ports -> [0 .. NbPorts -> Seq(Packet)]]
  /\ rings \in [Ports -> [Slots -> Seq(Packet)]]
  /\ \A l \in RxLcore : rxb[l].pkts \in Seq(Packet)
  /\ \A l \in TxLcore : txb[l].pkts \in Seq(Packet)

\* The queues hold packets.
LEMMA TypedQueues == TypeInv => QueuesTyped
<1> SUFFICES ASSUME TypeInv PROVE QueuesTyped
  OBVIOUS
<1>1. rings \in [Ports -> [Slots -> Seq(Packet)]]
  <2>1. rings \in [Ports -> [Slots -> Seq(Steered)]]
    BY DEF TypeInv, TypeOK
  <2>2. \A p \in Ports, i \in Slots : rings[p][i] \in Seq(Packet)
    BY <2>1, PacketTypes
  <2> QED
    BY <2>1, <2>2
<1> QED
  BY <1>1, PacketTypes DEF QueuesTyped, TypeInv, TypeOK

\* And so they do after a step.
LEMMA TypedQueuesNext == TypeInv' => QueuesTyped'
BY TypedQueues, PTL

\* The line of a key and a path, by its parts.
LEMMA SlowLine ==
  ASSUME QueuesTyped, NEW k \in Keys
  PROVE  Underway(k, None) = Slow(pkts, nicq[InPort(k)][0], k, None)
<1>1. InPort(k) \in Ports /\ 0 \in 0 .. NbPorts
  BY PortTypes, PortsAssumption
<1>2. nicq[InPort(k)][0] \in Seq(Packet) /\ pkts \in Seq(Packet)
  BY <1>1 DEF QueuesTyped
<1> QED
  BY <1>2, SlowParts DEF Underway, Line

\* The default way after a step.
LEMMA SlowLineNext ==
  ASSUME QueuesTyped', NEW k \in Keys
  PROVE  Underway(k, None)' = Slow(pkts', nicq'[InPort(k)][0], k, None)
<1>1. InPort(k) \in Ports /\ 0 \in 0 .. NbPorts
  BY PortTypes, PortsAssumption
<1>2. nicq'[InPort(k)][0] \in Seq(Packet) /\ pkts' \in Seq(Packet)
  BY <1>1 DEF QueuesTyped
<1> QED
  BY <1>2, SlowParts DEF Underway, Line

\* Where the parts of the two ways of a key are.
LEMMA LinePlaces ==
  ASSUME NEW k \in Keys
  PROVE  /\ InPort(k) \in Ports /\ OutPort(k) \in Ports
         /\ RxLcoreOf[InPort(k)] \in RxLcore /\ TxLcoreOf[OutPort(k)] \in TxLcore
         /\ OutPort(k) + 1 \in 1 .. NbPorts /\ OutPort(k) + 1 \in 0 .. NbPorts /\ 0 \in 0 .. NbPorts
         /\ OutPort(k) + 1 # 0
BY PortTypes, PortsAssumption, LcoreAssumption DEF Ports

\* The way through a ring: tx burst, ring, rx burst and rx queue.
LEMMA FastLine ==
  ASSUME QueuesTyped, NEW k \in Keys, NEW t \in Slots
  PROVE  Underway(k, t) = Fast(txb[TxLcoreOf[OutPort(k)]].pkts, rings[OutPort(k)][t],
                               rxb[RxLcoreOf[InPort(k)]].pkts, nicq[InPort(k)][OutPort(k) + 1], k, t)
<1> DEFINE a == txb[TxLcoreOf[OutPort(k)]].pkts
           b == rings[OutPort(k)][t]
           c == rxb[RxLcoreOf[InPort(k)]].pkts
           d == nicq[InPort(k)][OutPort(k) + 1]
<1>1. a \in Seq(Packet) /\ b \in Seq(Packet) /\ c \in Seq(Packet) /\ d \in Seq(Packet)
  BY LinePlaces DEF QueuesTyped
<1>2. t # None
  BY NoneAssumption
<1>3. Underway(k, t) = Among(a \o b \o c \o d, OnPath(k, t))
  BY <1>2 DEF Underway, Line
<1> HIDE DEF a, b, c, d
<1>4. Underway(k, t) = Fast(a, b, c, d, k, t)
  BY <1>1, <1>3, FastParts
<1> QED
  BY <1>4 DEF a, b, c, d

\* And after a step.
LEMMA FastLineNext ==
  ASSUME QueuesTyped', NEW k \in Keys, NEW t \in Slots
  PROVE  Underway(k, t)' = Fast(txb'[TxLcoreOf[OutPort(k)]].pkts, rings'[OutPort(k)][t],
                                rxb'[RxLcoreOf[InPort(k)]].pkts, nicq'[InPort(k)][OutPort(k) + 1], k, t)
<1> DEFINE a == txb'[TxLcoreOf[OutPort(k)]].pkts
           b == rings'[OutPort(k)][t]
           c == rxb'[RxLcoreOf[InPort(k)]].pkts
           d == nicq'[InPort(k)][OutPort(k) + 1]
<1>1. a \in Seq(Packet) /\ b \in Seq(Packet) /\ c \in Seq(Packet) /\ d \in Seq(Packet)
  BY LinePlaces DEF QueuesTyped
<1>2. t # None
  BY NoneAssumption
<1>3. Underway(k, t)' = Among(a \o b \o c \o d, OnPath(k, t))
  BY <1>2 DEF Underway, Line
<1> HIDE DEF a, b, c, d
<1>4. Underway(k, t)' = Fast(a, b, c, d, k, t)
  BY <1>1, <1>3, FastParts
<1> QED
  BY <1>4 DEF a, b, c, d

-----------------------------------------------------------------------------
(* The mapped channels, where only one changes and where none does. *)
LEMMA ChanSame ==
  ASSUME \A k \in Keys : Underway(k, None)' = Underway(k, None),
         \A k \in Keys, t \in Slots : Underway(k, t)' = Underway(k, t)
  PROVE  UNCHANGED Chan
<1>1. \A k \in Keys, t \in Slots \cup {None} : Numbers(Underway(k, t))' = Numbers(Underway(k, t))
  BY DEF Numbers
<1> QED
  BY <1>1 DEF Chan

\* Where one line changes one channel does.
LEMMA ChanOnly ==
  ASSUME NEW k \in Keys, NEW t \in Slots \cup {None}, NEW u, Underway(k, t)' = u,
         \A k1 \in Keys, t1 \in Slots \cup {None} :
           k1 # k \/ t1 # t => Underway(k1, t1)' = Underway(k1, t1)
  PROVE  /\ Chan[k][t] = Numbers(Underway(k, t))
         /\ Chan' = [Chan EXCEPT ![k][t] = Numbers(u)]
<1>1. \A k1 \in Keys, t1 \in Slots \cup {None} : k1 # k \/ t1 # t =>
        Numbers(Underway(k1, t1))' = Numbers(Underway(k1, t1))
  BY DEF Numbers
<1>2. Numbers(Underway(k, t))' = Numbers(u)
  BY DEF Numbers
<1> DEFINE A == [k1 \in Keys |-> [t1 \in Slots \cup {None} |-> Numbers(Underway(k1, t1))']]
           B == [Chan EXCEPT ![k][t] = Numbers(u)]
<1>3. Chan' = A
  BY DEF Chan
<1>4. \A k1 \in Keys, t1 \in Slots \cup {None} : A[k1][t1] = B[k1][t1]
  BY <1>1, <1>2 DEF Chan
<1>5. A = B
  BY <1>4 DEF Chan
<1> QED
  BY <1>3, <1>5 DEF Chan

\* Nothing is delivered while nothing leaves.
LEMMA OutSame ==
  ASSUME UNCHANGED wire
  PROVE  UNCHANGED Out
BY DEF Out

\* A step that moves no packet.
LEMMA NoneMoved ==
  ASSUME UNCHANGED <<nicq, pkts, rings, rxb, txb>>
  PROVE  UNCHANGED Chan
BY DEF Chan, Underway, Line

\* The parts of a queue that is cut.
LEMMA Pieces ==
  ASSUME NEW X, NEW s \in Seq(X), NEW n \in 0 .. Len(s)
  PROVE  First(s, n) \in Seq(X) /\ From(s, n) \in Seq(X) /\ Cat(First(s, n), From(s, n)) = s
BY CutType, CutParts

\* What is left and what is cut off a burst are packets, and the burst again.
LEMMA BurstPieces ==
  ASSUME NEW X, NEW s \in Seq(X)
  PROVE  /\ First(s, BurstOf(s)) \in Seq(X) /\ From(s, BurstOf(s)) \in Seq(X)
         /\ Cat(First(s, BurstOf(s)), From(s, BurstOf(s))) = s
BY Pieces, BurstOfType

\* An rx lcore reads a burst: not seen.
LEMMA RxPollSilent ==
  ASSUME LosslessInv, TypeInv', NEW l \in RxLcore, NEW p \in Ports, NEW q \in 1 .. NbPorts, RxPoll(l, p, q)
  PROVE  LineInv' /\ UNCHANGED <<sent, Chan, Out>>
<1>1. QueuesTyped /\ QueuesTyped'
  BY TypedQueues, TypedQueuesNext DEF LosslessInv
<1> DEFINE s == nicq[p][q]
           f == First(s, BurstOf(s))
           g == From(s, BurstOf(s))
<1>2. /\ RxLcoreOf[p] = l /\ rxb[l].pkts = <<>>
      /\ nicq' = [nicq EXCEPT ![p][q] = g]
      /\ rxb' = [rxb EXCEPT ![l] = [out |-> q - 1, pkts |-> f]]
      /\ UNCHANGED <<sent, rings, pkts, pc, txb, wire>>
  BY DEF RxPoll, defaultVars, outVars
<1>3. q \in 0 .. NbPorts /\ q # 0 /\ q - 1 \in Ports
  BY PortTypes
<1>4. s \in Seq(Packet) /\ s \in Seq(FromPort(p)) /\ s \in Seq(Bound(q - 1))
  BY <1>1, <1>3 DEF QueuesTyped, LosslessInv, LineInv, SteeringInv, FastPathInv
<1>5. f \in Seq(Packet) /\ g \in Seq(Packet) /\ Cat(f, g) = s
  <2> HIDE DEF s
  <2> QED
    BY <1>4, BurstPieces
<1>6. f \in Seq(FromPort(p)) /\ g \in Seq(FromPort(p)) /\ f \in Seq(Bound(q - 1))
  <2> HIDE DEF s
  <2> QED
    BY <1>4, BurstPieces
<1> HIDE DEF s, f, g
<1>7. /\ nicq'[p][q] = g
      /\ \A p1 \in Ports, q1 \in 0 .. NbPorts : p1 # p \/ q1 # q => nicq'[p1][q1] = nicq[p1][q1]
  BY <1>1, <1>2, <1>3 DEF QueuesTyped
<1>8. rxb'[l].pkts = f /\ \A l1 \in RxLcore : l1 # l => rxb'[l1] = rxb[l1]
  BY <1>2 DEF LosslessInv, TypeInv, TypeOK
<1>9. LineInv'
  <2>1. FromPort(p) \subseteq ReadBy(l)
    BY <1>2 DEF FromPort, ReadBy
  <2>2. f \in Seq(ReadBy(l))
    BY <1>6, <2>1, SeqMonotonic
  <2>3. \A p1 \in Ports, q1 \in 1 .. NbPorts : nicq'[p1][q1] \in Seq(FromPort(p1)) /\ q1 \in 0 .. NbPorts
    BY <1>6, <1>7, PortTypes DEF LosslessInv, LineInv
  <2> QED
    BY <1>2, <1>8, <2>2, <2>3 DEF LosslessInv, LineInv
<1>10. ASSUME NEW k \in Keys PROVE Underway(k, None)' = Underway(k, None)
  <2>1. nicq'[InPort(k)][0] = nicq[InPort(k)][0]
    BY <1>3, <1>7, LinePlaces
  <2> QED
    BY <1>1, <1>2, <2>1, SlowLine, SlowLineNext
<1>11. ASSUME NEW k \in Keys, NEW t \in Slots PROVE Underway(k, t)' = Underway(k, t)
  <2> DEFINE L == RxLcoreOf[InPort(k)]
             a == txb[TxLcoreOf[OutPort(k)]].pkts
             b == rings[OutPort(k)][t]
             c == rxb[L].pkts
             d == nicq[InPort(k)][OutPort(k) + 1]
             c2 == rxb'[L].pkts
             d2 == nicq'[InPort(k)][OutPort(k) + 1]
  <2>1. /\ a \in Seq(Packet) /\ b \in Seq(Packet) /\ c \in Seq(Packet) /\ d \in Seq(Packet)
        /\ c2 \in Seq(Packet) /\ d2 \in Seq(Packet) /\ L \in RxLcore
    BY <1>1, LinePlaces DEF QueuesTyped
  <2>2. Underway(k, t) = Fast(a, b, c, d, k, t) /\ Underway(k, t)' = Fast(a, b, c2, d2, k, t)
    BY <1>1, <1>2, FastLine, FastLineNext
  <2>3. /\ Cat(See(f, k, t), See(g, k, t)) = Cat(See(<<>>, k, t), See(s, k, t))
        /\ Apart(f, k, t) => See(f, k, t) = See(<<>>, k, t)
    BY <1>5, TakenFrom
  <2>4. CASE InPort(k) = p /\ OutPort(k) + 1 = q
    <3>1. L = l /\ c = <<>> /\ c2 = f /\ d = s /\ d2 = g
      BY <1>2, <1>7, <1>8, <2>4 DEF s
    <3> HIDE DEF a, b, c, d, c2, d2
    <3>2. Cat(See(c2, k, t), See(d2, k, t)) = Cat(See(c, k, t), See(d, k, t))
      BY <2>3, <3>1
    <3> QED
      BY <2>1, <2>2, <3>2, FastSame
  <2>5. CASE ~(InPort(k) = p /\ OutPort(k) + 1 = q)
    <3>1. d2 = d
      BY <1>7, <2>5, LinePlaces
    <3>2. See(c2, k, t) = See(c, k, t)
      <4>1. CASE L = l
        <5>1. Apart(f, k, t)
          <6>1. CASE InPort(k) # p
            <7>1. \A m \in FromPort(p) : m \notin OnPath(k, t)
              BY <6>1 DEF FromPort, OnPath
            <7> QED
              BY <1>6, <7>1, ApartFrom
          <6>2. CASE OutPort(k) + 1 # q
            <7>1. OutPort(k) # q - 1
              BY <6>2, LinePlaces DEF Ports
            <7>2. \A m \in Bound(q - 1) : m \notin OnPath(k, t)
              BY <7>1 DEF Bound, Owns, OnPath
            <7> QED
              BY <1>6, <7>2, ApartFrom
          <6> QED
            BY <2>5, <6>1, <6>2
        <5>2. c = <<>> /\ c2 = f
          BY <1>2, <1>8, <4>1
        <5> QED
          BY <2>3, <5>1, <5>2
      <4>2. CASE L # l
        BY <1>8, <2>1, <4>2
      <4> QED
        BY <4>1, <4>2
    <3> HIDE DEF a, b, c, d, c2, d2
    <3>3. Cat(See(c2, k, t), See(d2, k, t)) = Cat(See(c, k, t), See(d, k, t))
      BY <3>1, <3>2
    <3> QED
      BY <2>1, <2>2, <3>3, FastSame
  <2> QED
    BY <2>4, <2>5
<1> QED
  BY <1>2, <1>9, <1>10, <1>11, ChanSame, OutSame

\* An rx lcore moves a part of a run into its ring: not seen.
LEMMA RxEnqueueSilent ==
  ASSUME LosslessInv, TypeInv', NEW l \in RxLcore, RxEnqueue(l)
  PROVE  LineInv' /\ UNCHANGED <<sent, Chan, Out>>
<1>1. QueuesTyped /\ QueuesTyped'
  BY TypedQueues, TypedQueuesNext DEF LosslessInv
<1> DEFINE s == rxb[l].pkts
           p == rxb[l].out
           i == s[1].id.ring
           n == Lesser(RunLength(s), RingSize - Len(rings[p][i]))
           f == First(s, n)
           g == From(s, n)
           r == rings[p][i]
<1>2. /\ p \in Ports /\ i \in Slots /\ s \in Seq(Steered) /\ s # <<>>
      /\ n \in 1 .. Len(s) /\ n \in 1 .. RunLength(s)
  BY EnqueuedPart DEF RxEnqueue, LosslessInv
<1>3. /\ rings' = [rings EXCEPT ![p][i] = r \o f]
      /\ rxb' = [rxb EXCEPT ![l].pkts = g]
      /\ UNCHANGED <<sent, nicq, pkts, pc, txb, wire>>
  BY DEF RxEnqueue, nicVars, defaultVars, outVars
<1>4. /\ s \in Seq(Packet) /\ s \in Seq(ReadBy(l)) /\ s \in Seq(Bound(p)) /\ r \in Seq(Packet)
  BY <1>1, <1>2 DEF QueuesTyped, LosslessInv, LineInv, SteeringInv, FastPathInv
<1>5. \A j \in 1 .. RunLength(s) : s[j].id.ring = i
  BY <1>2, RunLengthType
<1> HIDE DEF s, p, i, n, r
<1>6. n \in 0 .. Len(s)
  BY <1>2, <1>4, LenProperties
<1>7. f \in Seq(Packet) /\ g \in Seq(Packet) /\ Cat(f, g) = s
  BY <1>4, <1>6, Pieces
<1>8. f \in Seq(ReadBy(l)) /\ g \in Seq(ReadBy(l)) /\ f \in Seq(Bound(p))
  BY <1>4, <1>6, Pieces
<1>9. \A x \in 1 .. Len(f) : f[x].id.ring = i
  <2>1. Len(f) = n /\ \A x \in 1 .. n : f[x] = s[x]
    BY <1>4, <1>6 DEF First
  <2>2. \A x \in 1 .. n : x \in 1 .. RunLength(s)
    <3>1. RunLength(s) \in Nat
      BY <1>2, <1>4, RunLengthType, LenProperties
    <3> QED
      BY <1>2, <3>1
  <2> QED
    BY <1>5, <2>1, <2>2
<1> HIDE DEF f, g
<1>10. /\ rings'[p][i] = Cat(r, f)
       /\ \A p1 \in Ports, i1 \in Slots : p1 # p \/ i1 # i => rings'[p1][i1] = rings[p1][i1]
  BY <1>1, <1>2, <1>3 DEF QueuesTyped, Cat
<1>11. rxb'[l].pkts = g /\ \A l1 \in RxLcore : l1 # l => rxb'[l1] = rxb[l1]
  BY <1>3 DEF LosslessInv, TypeInv, TypeOK
<1>12. LineInv'
  BY <1>3, <1>8, <1>11 DEF LosslessInv, LineInv
<1>13. ASSUME NEW k \in Keys PROVE Underway(k, None)' = Underway(k, None)
  BY <1>1, <1>3, SlowLine, SlowLineNext
<1>14. ASSUME NEW k \in Keys, NEW t \in Slots PROVE Underway(k, t)' = Underway(k, t)
  <2> DEFINE L == RxLcoreOf[InPort(k)]
             a == txb[TxLcoreOf[OutPort(k)]].pkts
             b == rings[OutPort(k)][t]
             c == rxb[L].pkts
             d == nicq[InPort(k)][OutPort(k) + 1]
             b2 == rings'[OutPort(k)][t]
             c2 == rxb'[L].pkts
  <2>1. /\ a \in Seq(Packet) /\ b \in Seq(Packet) /\ c \in Seq(Packet) /\ d \in Seq(Packet)
        /\ b2 \in Seq(Packet) /\ c2 \in Seq(Packet) /\ L \in RxLcore /\ OutPort(k) \in Ports
    BY <1>1, LinePlaces DEF QueuesTyped
  <2>2. Underway(k, t) = Fast(a, b, c, d, k, t) /\ Underway(k, t)' = Fast(a, b2, c2, d, k, t)
    BY <1>1, <1>3, FastLine, FastLineNext
  <2>3. /\ Cat(See(Cat(r, f), k, t), See(g, k, t)) = Cat(See(r, k, t), See(s, k, t))
        /\ Apart(f, k, t) => See(Cat(r, f), k, t) = See(r, k, t) /\ See(s, k, t) = See(g, k, t)
    BY <1>4, <1>7, HandedOver
  <2>4. CASE L = l /\ OutPort(k) = p /\ t = i
    <3>1. b = r /\ b2 = Cat(r, f) /\ c = s /\ c2 = g
      BY <1>10, <1>11, <2>4 DEF s, r
    <3> HIDE DEF a, b, c, d, b2, c2
    <3>2. Cat(See(b2, k, t), See(c2, k, t)) = Cat(See(b, k, t), See(c, k, t))
      BY <2>3, <3>1
    <3> QED
      BY <2>1, <2>2, <3>2, FastSame
  <2>5. CASE ~(L = l /\ OutPort(k) = p /\ t = i)
    <3>1. Apart(f, k, t)
      <4>1. CASE L # l
        <5>1. \A m \in ReadBy(l) : m \notin OnPath(k, t)
          BY <4>1 DEF ReadBy, OnPath
        <5> QED
          BY <1>8, <5>1, ApartFrom
      <4>2. CASE OutPort(k) # p
        <5>1. \A m \in Bound(p) : m \notin OnPath(k, t)
          BY <4>2 DEF Bound, Owns, OnPath
        <5> QED
          BY <1>8, <5>1, ApartFrom
      <4>3. CASE t # i
        <5>1. \A x \in 1 .. Len(f) : f[x] \in Bound(p)
          BY <1>8
        <5>2. \A m \in Bound(p) : m.id.ring = i => m \notin OnPath(k, t)
          <6>1. \A m \in Bound(p) : m.id # None
            BY PacketTypes DEF Bound
          <6> QED
            BY <4>3, <6>1 DEF OnPath, PathOf
        <5> QED
          BY <1>9, <5>1, <5>2 DEF Apart
      <4> QED
        BY <2>5, <4>1, <4>2, <4>3
    <3>2. See(b2, k, t) = See(b, k, t)
      <4>1. CASE OutPort(k) = p /\ t = i
        BY <1>10, <2>3, <3>1, <4>1 DEF r
      <4>2. CASE ~(OutPort(k) = p /\ t = i)
        BY <1>10, <2>1, <4>2
      <4> QED
        BY <4>1, <4>2
    <3>3. See(c2, k, t) = See(c, k, t)
      <4>1. CASE L = l
        BY <1>11, <2>3, <3>1, <4>1 DEF s
      <4>2. CASE L # l
        BY <1>11, <2>1, <4>2
      <4> QED
        BY <4>1, <4>2
    <3> HIDE DEF a, b, c, d, b2, c2
    <3>4. Cat(See(b2, k, t), See(c2, k, t)) = Cat(See(b, k, t), See(c, k, t))
      BY <3>2, <3>3
    <3> QED
      BY <2>1, <2>2, <3>4, FastSame
  <2> QED
    BY <2>4, <2>5
<1> QED
  BY <1>3, <1>12, <1>13, <1>14, ChanSame, OutSame

\* A tx lcore takes a burst from a ring: not seen.
LEMMA TxPollSilent ==
  ASSUME LosslessInv, TypeInv', NEW l \in TxLcore, NEW p \in Ports, NEW i \in Slots, TxPoll(l, p, i)
  PROVE  LineInv' /\ UNCHANGED <<sent, Chan, Out>>
<1>1. QueuesTyped /\ QueuesTyped'
  BY TypedQueues, TypedQueuesNext DEF LosslessInv
<1> DEFINE s == rings[p][i]
           f == First(s, BurstOf(s))
           g == From(s, BurstOf(s))
<1>2. /\ TxLcoreOf[p] = l /\ txb[l].pkts = <<>>
      /\ rings' = [rings EXCEPT ![p][i] = g]
      /\ txb' = [txb EXCEPT ![l] = [req_queue |-> flows[p][i].req_flow, pkts |-> f]]
      /\ UNCHANGED <<sent, nicq, pkts, pc, rxb, wire>>
  BY DEF TxPoll, nicVars, defaultVars, outVars
<1>3. s \in Seq(Packet) /\ s \in Seq(OnRing(p, i))
  BY <1>1 DEF QueuesTyped, LosslessInv, SteeringInv, FastPathInv
<1>4. f \in Seq(Packet) /\ g \in Seq(Packet) /\ Cat(f, g) = s
  <2> HIDE DEF s
  <2> QED
    BY <1>3, BurstPieces
<1>5. f \in Seq(OnRing(p, i))
  <2> HIDE DEF s
  <2> QED
    BY <1>3, BurstPieces
<1> HIDE DEF s, f, g
<1>6. /\ rings'[p][i] = g
      /\ \A p1 \in Ports, i1 \in Slots : p1 # p \/ i1 # i => rings'[p1][i1] = rings[p1][i1]
  BY <1>1, <1>2 DEF QueuesTyped
<1>7. txb'[l].pkts = f /\ \A l1 \in TxLcore : l1 # l => txb'[l1] = txb[l1]
  BY <1>2 DEF LosslessInv, TypeInv, TypeOK
<1>8. LineInv'
  <2>1. OnRing(p, i) \subseteq SentBy(l)
    BY <1>2 DEF OnRing, Bound, Owns, SentBy
  <2>2. f \in Seq(SentBy(l))
    BY <1>5, <2>1, SeqMonotonic
  <2> QED
    BY <1>2, <1>7, <2>2 DEF LosslessInv, LineInv
<1>9. ASSUME NEW k \in Keys PROVE Underway(k, None)' = Underway(k, None)
  BY <1>1, <1>2, SlowLine, SlowLineNext
<1>10. ASSUME NEW k \in Keys, NEW t \in Slots PROVE Underway(k, t)' = Underway(k, t)
  <2> DEFINE L == TxLcoreOf[OutPort(k)]
             a == txb[L].pkts
             b == rings[OutPort(k)][t]
             c == rxb[RxLcoreOf[InPort(k)]].pkts
             d == nicq[InPort(k)][OutPort(k) + 1]
             a2 == txb'[L].pkts
             b2 == rings'[OutPort(k)][t]
  <2>1. /\ a \in Seq(Packet) /\ b \in Seq(Packet) /\ c \in Seq(Packet) /\ d \in Seq(Packet)
        /\ a2 \in Seq(Packet) /\ b2 \in Seq(Packet) /\ L \in TxLcore /\ OutPort(k) \in Ports
    BY <1>1, LinePlaces DEF QueuesTyped
  <2>2. Underway(k, t) = Fast(a, b, c, d, k, t) /\ Underway(k, t)' = Fast(a2, b2, c, d, k, t)
    BY <1>1, <1>2, FastLine, FastLineNext
  <2>3. /\ Cat(See(f, k, t), See(g, k, t)) = Cat(See(<<>>, k, t), See(s, k, t))
        /\ Apart(f, k, t) => See(f, k, t) = See(<<>>, k, t)
    BY <1>4, TakenFrom
  <2>4. CASE OutPort(k) = p /\ t = i
    <3>1. a = <<>> /\ a2 = f /\ b = s /\ b2 = g
      BY <1>2, <1>6, <1>7, <2>4 DEF s
    <3> HIDE DEF a, b, c, d, a2, b2
    <3>2. Cat(See(a2, k, t), See(b2, k, t)) = Cat(See(a, k, t), See(b, k, t))
      BY <2>3, <3>1
    <3> QED
      BY <2>1, <2>2, <3>2, FastSame
  <2>5. CASE ~(OutPort(k) = p /\ t = i)
    <3>1. b2 = b
      BY <1>6, <2>1, <2>5
    <3>2. See(a2, k, t) = See(a, k, t)
      <4>1. CASE L = l
        <5>1. \A m \in OnRing(p, i) : m \notin OnPath(k, t)
          <6>1. \A m \in OnRing(p, i) : m.id # None
            BY PacketTypes DEF OnRing, Bound
          <6> QED
            BY <2>5, <6>1 DEF OnRing, Bound, Owns, OnPath, PathOf
        <5>2. Apart(f, k, t)
          BY <1>5, <5>1, ApartFrom
        <5>3. a = <<>> /\ a2 = f
          BY <1>2, <1>7, <4>1
        <5> QED
          BY <2>3, <5>2, <5>3
      <4>2. CASE L # l
        BY <1>7, <2>1, <4>2
      <4> QED
        BY <4>1, <4>2
    <3> HIDE DEF a, b, c, d, a2, b2
    <3>3. Cat(See(a2, k, t), See(b2, k, t)) = Cat(See(a, k, t), See(b, k, t))
      BY <3>1, <3>2
    <3> QED
      BY <2>1, <2>2, <3>3, FastSame
  <2> QED
    BY <2>4, <2>5
<1> QED
  BY <1>2, <1>8, <1>9, <1>10, ChanSame, OutSame

\* The default lcore reads a burst: not seen.
LEMMA DefaultPollSilent ==
  ASSUME LosslessInv, TypeInv', NEW p \in Ports, DefaultPoll(p)
  PROVE  LineInv' /\ UNCHANGED <<sent, Chan, Out>>
<1>1. QueuesTyped /\ QueuesTyped'
  BY TypedQueues, TypedQueuesNext DEF LosslessInv
<1> DEFINE s == nicq[p][0]
           f == First(s, BurstOf(s))
           g == From(s, BurstOf(s))
<1>2. /\ pc = "poll" /\ pc' = "handler" /\ pkts' = f
      /\ nicq' = [nicq EXCEPT ![p][0] = g]
      /\ UNCHANGED <<sent, rings, rxb, txb, wire>>
  BY DEF DefaultPoll, outVars
<1>3. pkts = <<>> /\ 0 \in 0 .. NbPorts
  BY <1>2, PortsAssumption DEF LosslessInv, LineInv
<1>4. s \in Seq(Packet) /\ s \in Seq(Waiting(p))
  BY <1>1, <1>3 DEF QueuesTyped, LosslessInv, SteeringInv, DefaultPathInv
<1>5. f \in Seq(Packet) /\ g \in Seq(Packet) /\ Cat(f, g) = s
  <2> HIDE DEF s
  <2> QED
    BY <1>4, BurstPieces
<1>6. f \in Seq(Waiting(p))
  <2> HIDE DEF s
  <2> QED
    BY <1>4, BurstPieces
<1> HIDE DEF s, f, g
<1>7. /\ nicq'[p][0] = g
      /\ \A p1 \in Ports, q1 \in 0 .. NbPorts : p1 # p \/ q1 # 0 => nicq'[p1][q1] = nicq[p1][q1]
  BY <1>1, <1>2, <1>3 DEF QueuesTyped
<1>8. LineInv'
  <2>1. \A p1 \in Ports, q1 \in 1 .. NbPorts : nicq'[p1][q1] = nicq[p1][q1]
    BY <1>7, PortTypes
  <2> QED
    BY <1>2, <2>1 DEF LosslessInv, LineInv
<1>9. ASSUME NEW k \in Keys, NEW t \in Slots PROVE Underway(k, t)' = Underway(k, t)
  <2>1. nicq'[InPort(k)][OutPort(k) + 1] = nicq[InPort(k)][OutPort(k) + 1]
    BY <1>7, LinePlaces
  <2> QED
    BY <1>1, <1>2, <2>1, FastLine, FastLineNext
<1>10. ASSUME NEW k \in Keys PROVE Underway(k, None)' = Underway(k, None)
  <2> DEFINE d == nicq[InPort(k)][0]
             d2 == nicq'[InPort(k)][0]
  <2>1. Underway(k, None) = Slow(<<>>, d, k, None) /\ Underway(k, None)' = Slow(f, d2, k, None)
    BY <1>1, <1>2, <1>3, SlowLine, SlowLineNext
  <2>2. /\ Cat(See(f, k, None), See(g, k, None)) = Cat(See(<<>>, k, None), See(s, k, None))
        /\ Apart(f, k, None) => See(f, k, None) = See(<<>>, k, None)
    BY <1>5, TakenFrom
  <2>3. CASE InPort(k) = p
    <3>1. d = s /\ d2 = g
      BY <1>7, <2>3 DEF s
    <3> QED
      BY <2>1, <2>2, <3>1 DEF Slow
  <2>4. CASE InPort(k) # p
    <3>1. d2 = d
      BY <1>7, <2>4, LinePlaces
    <3>2. \A m \in Waiting(p) : m \notin OnPath(k, None)
      BY <2>4 DEF Waiting, OnPath
    <3>3. See(f, k, None) = See(<<>>, k, None)
      BY <1>6, <2>2, <3>2, ApartFrom
    <3> QED
      BY <2>1, <3>1, <3>3 DEF Slow
  <2> QED
    BY <2>3, <2>4
<1> QED
  BY <1>2, <1>8, <1>9, <1>10, ChanSame, OutSame

\* A packet that leaves is delivered by the path it took.
LEMMA OutMore ==
  ASSUME QueuesTyped, NEW m \in Packet, Transmit(m)
  PROVE  Out' = [Out EXCEPT ![KeyOf(m)] = Append(@, [n |-> m.n, path |-> PathOf(m)])]
<1> DEFINE k == KeyOf(m)
           e == [n |-> m.n, path |-> PathOf(m)]
<1>1. k \in Keys /\ wire \in [Keys -> Seq(Packet)] /\ wire' = [wire EXCEPT ![k] = Append(@, m)]
  BY PathType DEF Transmit, QueuesTyped
<1> HIDE DEF k, e
<1>2. wire'[k] = Behind(wire[k], m) /\ \A k1 \in Keys : k1 # k => wire'[k1] = wire[k1]
  BY <1>1 DEF Behind
<1>3. Ways(Behind(wire[k], m)) = Append(Ways(wire[k]), e)
  <2> DEFINE s == wire[k]
  <2>1. s \in Seq(Packet)
    BY <1>1
  <2> HIDE DEF s
  <2>2. Ways(Behind(s, m)) = Append(Ways(s), e)
    BY <2>1, WaysMore DEF e
  <2> QED
    BY <2>2 DEF s
<1> DEFINE A == [k1 \in Keys |-> Ways(wire'[k1])]
           B == [Out EXCEPT ![k] = Append(@, e)]
<1>4. Out' = A
  BY DEF Out, Ways
<1>5. \A k1 \in Keys : A[k1] = B[k1]
  BY <1>1, <1>2, <1>3 DEF Out
<1>6. A = B
  BY <1>5 DEF Out
<1> QED
  BY <1>4, <1>6 DEF k, e

\* Lines are of packets.
LEMMA LinesTyped ==
  ASSUME QueuesTyped, NEW k \in Keys, NEW t \in Slots \cup {None}
  PROVE  Underway(k, t) \in Seq(Packet)
<1>1. ASSUME NEW k1 \in Keys PROVE Underway(k1, None) \in Seq(Packet)
  <2> DEFINE d == nicq[InPort(k1)][0]
  <2>1. pkts \in Seq(Packet) /\ d \in Seq(Packet) /\ Underway(k1, None) = Slow(pkts, d, k1, None)
    BY SlowLine, LinePlaces DEF QueuesTyped
  <2> HIDE DEF d
  <2>2. See(pkts, k1, None) \in Seq(Packet) /\ See(d, k1, None) \in Seq(Packet)
    BY <2>1, SeeTyped
  <2> QED
    BY <2>1, <2>2, CatTyped DEF Slow
<1>2. ASSUME NEW k1 \in Keys, NEW t1 \in Slots PROVE Underway(k1, t1) \in Seq(Packet)
  <2> DEFINE a == txb[TxLcoreOf[OutPort(k1)]].pkts
             b == rings[OutPort(k1)][t1]
             c == rxb[RxLcoreOf[InPort(k1)]].pkts
             d == nicq[InPort(k1)][OutPort(k1) + 1]
  <2>1. /\ a \in Seq(Packet) /\ b \in Seq(Packet) /\ c \in Seq(Packet) /\ d \in Seq(Packet)
        /\ Underway(k1, t1) = Fast(a, b, c, d, k1, t1)
    BY FastLine, LinePlaces DEF QueuesTyped
  <2> HIDE DEF a, b, c, d
  <2>2. Fast(a, b, c, d, k1, t1) \in Seq(Packet)
    BY <2>1, SeeTyped, CatTyped DEF Fast
  <2> QED
    BY <2>1, <2>2
<1> QED
  BY <1>1, <1>2

\* The packet that a host sends is of its key, and goes where the line of its path ends.
LEMMA Arrival ==
  ASSUME TypeInv, SteeringInv, NEW k \in Keys, NEW ev \in Event \cup {None}, Arrive(k, ev)
  PROVE  \E m \in Packet, q \in 0 .. NbPorts :
           /\ KeyOf(m) = k /\ m.n = sent[k] + 1
           /\ nicq' = [nicq EXCEPT ![InPort(k)][q] = Behind(@, m)]
           /\ PathOf(m) = None => q = 0
           /\ PathOf(m) # None => q = OutPort(k) + 1 /\ m \in Steered
<1> DEFINE p == InPort(k)
           f == fdir[p][k]
           q == IF f = None THEN 0 ELSE f.queue
           id == IF f = None THEN None ELSE f.id
           m == [c |-> k[1], d |-> k[2], n |-> sent[k] + 1, ev |-> ev, id |-> id]
<1>1. /\ p \in Ports /\ k[1] \in Conn /\ k[2] \in Dirs /\ k = <<k[1], k[2]>>
      /\ sent[k] \in Nat
  BY PortTypes DEF TypeInv, TypeOK, Keys
<1>2. f \in Filter \cup {None}
  BY <1>1 DEF TypeInv, TypeOK
<1>3. q \in 0 .. NbPorts
  BY <1>2, PortTypes, PortsAssumption DEF Filter
<1>4. KeyOf(m) = k /\ m \in PacketWith({id}) /\ m.n = sent[k] + 1 /\ m.id = id
  BY <1>1 DEF KeyOf, PacketWith
<1>5. nicq' = [nicq EXCEPT ![p][q] = Behind(@, m)]
  BY DEF Arrive, Behind
<1>6. f = None => m \in Packet /\ PathOf(m) = None /\ q = 0
  BY <1>4 DEF Packet, PacketWith, PathOf
<1>7. f # None => m \in Packet /\ m \in Steered /\ PathOf(m) # None /\ q = OutPort(k) + 1
  <2> SUFFICES ASSUME f # None PROVE m \in Packet /\ m \in Steered /\ PathOf(m) # None /\ q = OutPort(k) + 1
    OBVIOUS
  <2>1. q = f.queue /\ id = f.id /\ q \in 1 .. NbPorts /\ id \in SoftId
    BY <1>2 DEF Filter
  <2>2. m \in Steered /\ m \in Packet
    BY <1>4, <2>1 DEF Steered, Packet, PacketWith
  <2>3. Owns(q - 1, f.id.ring, k)
    BY <1>1, <2>1 DEF SteeringInv, FilterInv
  <2>4. q - 1 = OutPort(k)
    BY <2>3 DEF Owns
  <2>5. PathOf(m) # None
    BY <1>4, <2>1, <2>2, NoneAssumption, PathType
  <2>6. q = OutPort(k) + 1
    BY <2>1, <2>4, PortTypes DEF Ports
  <2> QED
    BY <2>2, <2>5, <2>6
<1> HIDE DEF p, f, q, id, m
<1> QED
  BY <1>3, <1>4, <1>5, <1>6, <1>7 DEF p

\* A packet that the card takes in is Accept in the switch.
LEMMA ArriveAccepts ==
  ASSUME LosslessInv, TypeInv', NEW k \in Keys, NEW ev \in Event \cup {None}, Arrive(k, ev)
  PROVE  LineInv' /\ Switch!Next
<1>1. QueuesTyped /\ QueuesTyped'
  BY TypedQueues, TypedQueuesNext DEF LosslessInv
<1>2. /\ sent' = [sent EXCEPT ![k] = @ + 1]
      /\ UNCHANGED <<pc, pkts, rings, rxb, txb, wire>>
  BY DEF Arrive, defaultVars, outVars
<1>3. PICK m \in Packet, q \in 0 .. NbPorts :
        /\ KeyOf(m) = k /\ m.n = sent[k] + 1
        /\ nicq' = [nicq EXCEPT ![InPort(k)][q] = Behind(@, m)]
        /\ PathOf(m) = None => q = 0
        /\ PathOf(m) # None => q = OutPort(k) + 1 /\ m \in Steered
  BY Arrival DEF LosslessInv
<1> DEFINE p == InPort(k)
           t == PathOf(m)
           s == nicq[p][q]
<1>4. p \in Ports /\ s \in Seq(Packet) /\ t \in Slots \cup {None} /\ m \in OnPath(k, t)
      /\ \A k1, t1 : m \in OnPath(k1, t1) => k1 = k /\ t1 = t
  <2>1. p \in Ports /\ s \in Seq(Packet)
    BY <1>1, LinePlaces DEF QueuesTyped
  <2>2. t \in Slots \cup {None} /\ m \in OnPath(k, t)
    BY <1>3, PathType
  <2>3. \A k1, t1 : m \in OnPath(k1, t1) => k1 = k /\ t1 = t
    BY <1>3, PathType
  <2> QED
    BY <2>1, <2>2, <2>3
<1>5. /\ nicq'[p][q] = Behind(s, m)
      /\ \A p1 \in Ports, q1 \in 0 .. NbPorts : p1 # p \/ q1 # q => nicq'[p1][q1] = nicq[p1][q1]
  BY <1>1, <1>3, <1>4 DEF QueuesTyped
<1>6. LineInv'
  <2>1. ASSUME NEW p1 \in Ports, NEW q1 \in 1 .. NbPorts PROVE nicq'[p1][q1] \in Seq(FromPort(p1))
    <3>1. nicq[p1][q1] \in Seq(FromPort(p1)) /\ q1 \in 0 .. NbPorts /\ q1 # 0
      BY DEF LosslessInv, LineInv
    <3>2. CASE p1 = p /\ q1 = q
      <4>1. m \in FromPort(p1)
        BY <1>3, <3>1, <3>2 DEF FromPort
      <4>2. nicq'[p1][q1] = Append(nicq[p1][q1], m)
        BY <1>5, <3>2 DEF Behind
      <4> HIDE DEF p, s
      <4> QED
        BY <3>1, <4>1, <4>2, AppendProperties
    <3>3. CASE ~(p1 = p /\ q1 = q)
      BY <1>5, <3>1, <3>3
    <3> QED
      BY <3>2, <3>3
  <2> QED
    BY <1>2, <2>1 DEF LosslessInv, LineInv
<1> HIDE DEF t
<1>7. ASSUME NEW k1 \in Keys
      PROVE  /\ k1 = k /\ None = t => Underway(k1, None)' = Behind(Underway(k1, None), m)
             /\ k1 # k \/ None # t => Underway(k1, None)' = Underway(k1, None)
  <2> DEFINE d == nicq[InPort(k1)][0]
             d2 == nicq'[InPort(k1)][0]
  <2>1. pkts \in Seq(Packet) /\ d \in Seq(Packet) /\ InPort(k1) \in Ports
    BY <1>1, LinePlaces DEF QueuesTyped
  <2>2. Underway(k1, None) = Slow(pkts, d, k1, None) /\ Underway(k1, None)' = Slow(pkts, d2, k1, None)
    BY <1>1, <1>2, SlowLine, SlowLineNext
  <2>3. d2 = Behind(d, m) \/ (d2 = d /\ (InPort(k1) # p \/ q # 0))
    BY <1>5, <2>1, LinePlaces
  <2>4. k1 = k /\ None = t => InPort(k1) = p /\ q = 0
    BY <1>3 DEF t
  <2>5. /\ m \in OnPath(k1, None) => Slow(pkts, Behind(d, m), k1, None) = Behind(Slow(pkts, d, k1, None), m)
        /\ m \notin OnPath(k1, None) => Slow(pkts, Behind(d, m), k1, None) = Slow(pkts, d, k1, None)
    <3> HIDE DEF d
    <3> QED
      BY <2>1, SlowMore
  <2>6. k1 = k /\ None = t <=> m \in OnPath(k1, None)
    BY <1>4
  <2>7. m \in OnPath(k1, None) => d2 = Behind(d, m)
    BY <2>3, <2>4, <2>6
  <2> HIDE DEF d, d2
  <2> QED
    BY <2>2, <2>3, <2>5, <2>6, <2>7
<1>8. ASSUME NEW k1 \in Keys, NEW t1 \in Slots
      PROVE  /\ k1 = k /\ t1 = t => Underway(k1, t1)' = Behind(Underway(k1, t1), m)
             /\ k1 # k \/ t1 # t => Underway(k1, t1)' = Underway(k1, t1)
  <2> DEFINE a == txb[TxLcoreOf[OutPort(k1)]].pkts
             b == rings[OutPort(k1)][t1]
             c == rxb[RxLcoreOf[InPort(k1)]].pkts
             d == nicq[InPort(k1)][OutPort(k1) + 1]
             d2 == nicq'[InPort(k1)][OutPort(k1) + 1]
  <2>1. /\ a \in Seq(Packet) /\ b \in Seq(Packet) /\ c \in Seq(Packet) /\ d \in Seq(Packet)
        /\ InPort(k1) \in Ports
    BY <1>1, LinePlaces DEF QueuesTyped
  <2>2. Underway(k1, t1) = Fast(a, b, c, d, k1, t1) /\ Underway(k1, t1)' = Fast(a, b, c, d2, k1, t1)
    BY <1>1, <1>2, FastLine, FastLineNext
  <2>3. d2 = Behind(d, m) \/ (d2 = d /\ (InPort(k1) # p \/ q # OutPort(k1) + 1))
    BY <1>5, <2>1, LinePlaces
  <2>4. k1 = k /\ t1 = t => InPort(k1) = p /\ q = OutPort(k1) + 1
    BY <1>3, NoneAssumption DEF t
  <2>5. /\ m \in OnPath(k1, t1) => Fast(a, b, c, Behind(d, m), k1, t1) = Behind(Fast(a, b, c, d, k1, t1), m)
        /\ m \notin OnPath(k1, t1) => Fast(a, b, c, Behind(d, m), k1, t1) = Fast(a, b, c, d, k1, t1)
    <3> HIDE DEF a, b, c, d
    <3> QED
      BY <2>1, FastMore
  <2>6. k1 = k /\ t1 = t <=> m \in OnPath(k1, t1)
    BY <1>4
  <2>7. m \in OnPath(k1, t1) => d2 = Behind(d, m)
    BY <2>3, <2>4, <2>6
  <2> HIDE DEF a, b, c, d, d2
  <2> QED
    BY <2>2, <2>3, <2>5, <2>6, <2>7
<1>9. Underway(k, t) \in Seq(Packet)
  BY <1>1, <1>4, LinesTyped
<1>10. /\ Underway(k, t)' = Behind(Underway(k, t), m)
       /\ \A k1 \in Keys, t1 \in Slots \cup {None} : k1 # k \/ t1 # t => Underway(k1, t1)' = Underway(k1, t1)
  BY <1>4, <1>7, <1>8
<1>11. Chan' = [Chan EXCEPT ![k][t] = Append(@, sent[k] + 1)]
  <2>1. PICK u : u = Underway(k, t)
    OBVIOUS
  <2>2. Chan[k][t] = Numbers(u) /\ Chan' = [Chan EXCEPT ![k][t] = Numbers(Behind(u, m))]
    BY <1>4, <1>10, <2>1, ChanOnly
  <2>3. Numbers(Behind(u, m)) = Append(Numbers(u), sent[k] + 1)
    BY <1>3, <1>9, <2>1, NumbersMore
  <2>4. Chan = [k1 \in Keys |-> [t1 \in Slots \cup {None} |-> Chan[k1][t1]]]
    BY DEF Chan
  <2> QED
    BY <1>4, <2>2, <2>3, <2>4
<1>12. Switch!Accept(k, t)
  BY <1>2, <1>11, OutSame DEF Switch!Accept
<1> QED
  BY <1>4, <1>6, <1>12 DEF Switch!Next

\* A line that loses its first packet is a channel that loses its first number.
LEMMA ChanLess ==
  ASSUME NEW k \in Keys, NEW t \in Slots \cup {None}, NEW u \in Seq(Packet), u # <<>>,
         Underway(k, t) = u, Underway(k, t)' = Tail(u),
         \A k1 \in Keys, t1 \in Slots \cup {None} :
           k1 # k \/ t1 # t => Underway(k1, t1)' = Underway(k1, t1)
  PROVE  /\ Chan[k][t] # <<>> /\ Head(Chan[k][t]) = Head(u).n
         /\ Chan' = [Chan EXCEPT ![k][t] = Tail(@)]
<1>1. PICK v : v = Tail(u)
  OBVIOUS
<1>2. Underway(k, t)' = v
  BY <1>1
<1>3. Chan[k][t] = Numbers(Underway(k, t)) /\ Chan' = [Chan EXCEPT ![k][t] = Numbers(v)]
  BY <1>2, ChanOnly
<1>4. Chan[k][t] = Numbers(u)
  BY <1>3
<1>5. Numbers(u) # <<>> /\ Head(Numbers(u)) = Head(u).n /\ Numbers(v) = Tail(Numbers(u))
  BY <1>1, NumbersLess
<1>6. Chan = [k1 \in Keys |-> [t1 \in Slots \cup {None} |-> Chan[k1][t1]]]
  BY DEF Chan
<1> QED
  BY <1>3, <1>4, <1>5, <1>6

\* A packet that leaves by a tx queue is Deliver in the switch, on the path of its ring.
LEMMA TxSendDelivers ==
  ASSUME LosslessInv, TypeInv', NEW l \in TxLcore, TxSend(l)
  PROVE  LineInv' /\ Switch!Next
<1>1. QueuesTyped /\ QueuesTyped'
  BY TypedQueues, TypedQueuesNext DEF LosslessInv
<1> DEFINE s == txb[l].pkts
<1>0. PICK m : m = Head(s)
  OBVIOUS
<1> DEFINE k == KeyOf(m)
           t == PathOf(m)
<1>2. /\ s # <<>> /\ Transmit(m) /\ txb' = [txb EXCEPT ![l].pkts = Tail(s)]
      /\ UNCHANGED <<sent, nicq, pc, pkts, rings, rxb>>
  BY <1>0 DEF TxSend, nicVars, defaultVars
<1>3. s \in Seq(Packet) /\ s \in Seq(SentBy(l)) /\ s \in Seq(Steered)
  BY <1>1 DEF QueuesTyped, LosslessInv, LineInv, TypeInv, TypeOK
<1>4. m \in Packet /\ m \in SentBy(l) /\ m \in Steered /\ Tail(s) \in Seq(SentBy(l))
  <2> HIDE DEF s
  <2> QED
    BY <1>0, <1>2, <1>3, HeadTailProperties
<1>5. k \in Keys /\ t \in Slots /\ TxLcoreOf[OutPort(k)] = l /\ m \in OnPath(k, t)
  BY <1>4, PathType, PacketTypes DEF SentBy, PathOf
<1>6. \A k1, t1 : m \in OnPath(k1, t1) => k1 = k /\ t1 = t
  BY <1>4, PathType
<1>7. txb'[l].pkts = Tail(s) /\ \A l1 \in TxLcore : l1 # l => txb'[l1] = txb[l1]
  BY <1>2 DEF LosslessInv, TypeInv, TypeOK
<1> HIDE DEF k, t
<1>8. LineInv'
  BY <1>2, <1>4, <1>7 DEF LosslessInv, LineInv
<1>9. ASSUME NEW k1 \in Keys PROVE Underway(k1, None)' = Underway(k1, None)
  BY <1>1, <1>2, SlowLine, SlowLineNext
<1>10. ASSUME NEW k1 \in Keys, NEW t1 \in Slots
       PROVE  /\ k1 = k /\ t1 = t => /\ Underway(k1, t1) # <<>> /\ Head(Underway(k1, t1)) = m
                                     /\ Underway(k1, t1)' = Tail(Underway(k1, t1))
              /\ k1 # k \/ t1 # t => Underway(k1, t1)' = Underway(k1, t1)
  <2> DEFINE L == TxLcoreOf[OutPort(k1)]
             a == txb[L].pkts
             b == rings[OutPort(k1)][t1]
             c == rxb[RxLcoreOf[InPort(k1)]].pkts
             d == nicq[InPort(k1)][OutPort(k1) + 1]
             a2 == txb'[L].pkts
  <2>1. /\ b \in Seq(Packet) /\ c \in Seq(Packet) /\ d \in Seq(Packet) /\ L \in TxLcore
    BY <1>1, LinePlaces DEF QueuesTyped
  <2>2. Underway(k1, t1) = Fast(a, b, c, d, k1, t1) /\ Underway(k1, t1)' = Fast(a2, b, c, d, k1, t1)
    BY <1>1, <1>2, FastLine, FastLineNext
  <2>3. /\ Head(s) \in OnPath(k1, t1) =>
             /\ Fast(s, b, c, d, k1, t1) # <<>> /\ Head(Fast(s, b, c, d, k1, t1)) = Head(s)
             /\ Fast(Tail(s), b, c, d, k1, t1) = Tail(Fast(s, b, c, d, k1, t1))
        /\ Head(s) \notin OnPath(k1, t1) => Fast(Tail(s), b, c, d, k1, t1) = Fast(s, b, c, d, k1, t1)
    <3> HIDE DEF s, b, c, d
    <3> QED
      BY <1>2, <1>3, <2>1, FastLess
  <2>4. k1 = k /\ t1 = t <=> Head(s) \in OnPath(k1, t1)
    BY <1>0, <1>5, <1>6
  <2>5. L = l => a = s /\ a2 = Tail(s)
    BY <1>7
  <2>6. L # l => a2 = a /\ k1 # k
    BY <1>5, <1>7, <2>1
  <2> HIDE DEF s, a, b, c, d, a2, L
  <2>7. CASE L = l
    BY <1>0, <2>2, <2>3, <2>4, <2>5, <2>7
  <2>8. CASE L # l
    BY <2>2, <2>6, <2>8
  <2> QED
    BY <2>7, <2>8
<1>11. k \in Keys /\ t \in Slots \cup {None}
  BY <1>5
<1>12. Chan[k][t] # <<>> /\ Head(Chan[k][t]) = m.n /\ Chan' = [Chan EXCEPT ![k][t] = Tail(@)]
  <2>1. /\ Underway(k, t) # <<>> /\ Head(Underway(k, t)) = m
        /\ Underway(k, t)' = Tail(Underway(k, t))
    BY <1>5, <1>10
  <2>2. PICK u \in Seq(Packet) : u = Underway(k, t)
    BY <1>1, <1>11, LinesTyped
  <2>3. u # <<>> /\ Head(u) = m /\ Underway(k, t) = u /\ Underway(k, t)' = Tail(u)
    BY <2>1, <2>2
  <2>4. \A k1 \in Keys, t1 \in Slots \cup {None} : k1 # k \/ t1 # t => Underway(k1, t1)' = Underway(k1, t1)
    BY <1>9, <1>10
  <2> QED
    BY <1>11, <2>3, <2>4, ChanLess
<1>13. Out' = [Out EXCEPT ![k] = Append(@, [n |-> m.n, path |-> t])]
  <2>1. m \in Packet
    BY <1>4
  <2> QED
    BY <1>1, <1>2, <2>1, OutMore DEF k, t
<1>14. Switch!Deliver(k, t)
  BY <1>2, <1>12, <1>13 DEF Switch!Deliver
<1> QED
  BY <1>8, <1>11, <1>14 DEF Switch!Next

\* A packet of the default path leaves, which is Deliver, or is freed, which is Free.
LEMMA ForwardDelivers ==
  ASSUME LosslessInv, TypeInv', ForwardPacket
  PROVE  LineInv' /\ Switch!Next
<1>1. QueuesTyped /\ QueuesTyped'
  BY TypedQueues, TypedQueuesNext DEF LosslessInv
<1>0. PICK m : m = Head(pkts)
  OBVIOUS
<1> DEFINE k == KeyOf(m)
<1>2. /\ pkts # <<>> /\ pkts' = Tail(pkts)
      /\ (Transmit(m) \/ UNCHANGED wire)
      /\ pc' = IF Len(pkts) = 1 THEN "poll" ELSE "forward"
      /\ UNCHANGED <<sent, nicq, rings, rxb, txb>>
  BY <1>0 DEF ForwardPacket, nicVars
<1>3. pkts \in Seq(Packet) /\ pkts \in Seq(Plain)
  BY <1>1 DEF QueuesTyped, LosslessInv, TypeInv, TypeOK
<1>4. m \in Packet /\ m \in Plain
  BY <1>0, <1>2, <1>3, HeadTailProperties
<1>5. PathOf(m) = None /\ k \in Keys /\ m \in OnPath(k, None)
  <2>1. m.id = None
    BY <1>4, PacketTypes
  <2>2. PathOf(m) = None
    BY <2>1 DEF PathOf
  <2> QED
    BY <1>4, <2>2, PathType
<1>6. \A k1, t1 : m \in OnPath(k1, t1) => k1 = k
  BY <1>4, PathType
<1>7. LineInv'
  <2>1. pc' = "poll" => pkts' = <<>>
    BY <1>2, <1>3
  <2> QED
    BY <1>2, <2>1 DEF LosslessInv, LineInv
<1> HIDE DEF k
<1>8. ASSUME NEW k1 \in Keys, NEW t1 \in Slots PROVE Underway(k1, t1)' = Underway(k1, t1)
  BY <1>1, <1>2, FastLine, FastLineNext
<1>9. ASSUME NEW k1 \in Keys
      PROVE  /\ k1 = k => /\ Underway(k1, None) # <<>> /\ Head(Underway(k1, None)) = m
                          /\ Underway(k1, None)' = Tail(Underway(k1, None))
             /\ k1 # k => Underway(k1, None)' = Underway(k1, None)
  <2> DEFINE d == nicq[InPort(k1)][0]
  <2>1. d \in Seq(Packet)
    BY <1>1, LinePlaces DEF QueuesTyped
  <2>2. Underway(k1, None) = Slow(pkts, d, k1, None) /\ Underway(k1, None)' = Slow(Tail(pkts), d, k1, None)
    BY <1>1, <1>2, SlowLine, SlowLineNext
  <2> HIDE DEF d
  <2>3. /\ Head(pkts) \in OnPath(k1, None) =>
             /\ Slow(pkts, d, k1, None) # <<>> /\ Head(Slow(pkts, d, k1, None)) = Head(pkts)
             /\ Slow(Tail(pkts), d, k1, None) = Tail(Slow(pkts, d, k1, None))
        /\ Head(pkts) \notin OnPath(k1, None) => Slow(Tail(pkts), d, k1, None) = Slow(pkts, d, k1, None)
    BY <1>2, <1>3, <2>1, SlowLess
  <2>4. k1 = k <=> Head(pkts) \in OnPath(k1, None)
    BY <1>0, <1>5, <1>6
  <2> QED
    BY <1>0, <2>2, <2>3, <2>4
<1>10. /\ Chan[k][None] # <<>> /\ Head(Chan[k][None]) = m.n
       /\ Chan' = [Chan EXCEPT ![k][None] = Tail(@)]
  <2>1. /\ Underway(k, None) # <<>> /\ Head(Underway(k, None)) = m
        /\ Underway(k, None)' = Tail(Underway(k, None))
    BY <1>5, <1>9
  <2>2. PICK u \in Seq(Packet) : u = Underway(k, None)
    BY <1>1, <1>5, LinesTyped
  <2>3. u # <<>> /\ Head(u) = m /\ Underway(k, None) = u /\ Underway(k, None)' = Tail(u)
    BY <2>1, <2>2
  <2>4. \A k1 \in Keys, t1 \in Slots \cup {None} : k1 # k \/ t1 # None => Underway(k1, t1)' = Underway(k1, t1)
    BY <1>8, <1>9
  <2> QED
    BY <1>5, <2>3, <2>4, ChanLess
<1>11. CASE Transmit(m)
  <2>1. Out' = [Out EXCEPT ![k] = Append(@, [n |-> m.n, path |-> None])]
    BY <1>1, <1>4, <1>5, <1>11, OutMore DEF k
  <2>2. Switch!Deliver(k, None)
    BY <1>2, <1>10, <2>1 DEF Switch!Deliver
  <2> QED
    BY <1>5, <1>7, <2>2 DEF Switch!Next
<1>12. CASE UNCHANGED wire
  <2>1. Switch!Free(k)
    BY <1>2, <1>10, <1>12, OutSame DEF Switch!Free
  <2> QED
    BY <1>5, <1>7, <2>1 DEF Switch!Next
<1> QED
  BY <1>2, <1>11, <1>12

\* Other steps move no packet.
LEMMA OthersSilent ==
  ASSUME LosslessInv, UNCHANGED <<sent, nicq, pkts, rings, rxb, txb, wire>>,
         pc' = "poll" => pc = "poll"
  PROVE  LineInv' /\ UNCHANGED <<sent, Chan, Out>>
BY NoneMoved, OutSame DEF LosslessInv, LineInv

\* Of these are the steps of the handler.
LEMMA HandlerSilent ==
  ASSUME LosslessInv,
         \/ SkipPacket \/ TakeDataSlot \/ NoDataSlot \/ InstallDataFilter
         \/ TakeReqSlot \/ NoReqSlot \/ InstallReqFilter \/ ForwardBurst
  PROVE  LineInv' /\ UNCHANGED <<sent, Chan, Out>>
<1>1. UNCHANGED <<sent, nicq, pkts, rings, rxb, txb, wire>> /\ pc' # "poll"
  BY DEF SkipPacket, TakeDataSlot, NoDataSlot, InstallDataFilter, TakeReqSlot, NoReqSlot,
     InstallReqFilter, ForwardBurst, NextPacket, nicVars, outVars
<1> QED
  BY <1>1, OthersSilent

\* And those in which a lcore stops or stays idle.
LEMMA StopSilent ==
  ASSUME LosslessInv,
         \/ \E l \in RxLcore : RxNullRing(l)
         \/ \E l \in TxLcore, p \in Ports, i \in Slots : TxNullRing(l, p, i)
         \/ Idle \/ Dead \/ UNCHANGED vars
  PROVE  LineInv' /\ UNCHANGED <<sent, Chan, Out>>
<1>1. UNCHANGED <<sent, nicq, pkts, rings, rxb, txb, wire, pc>>
  BY DEF RxNullRing, TxNullRing, Idle, Dead, vars, nicVars, defaultVars, outVars
<1> QED
  BY <1>1, OthersSilent

\* Nothing is on its way at the start.
LEMMA LosslessInit == Init => LosslessInv /\ Switch!Init
<1> SUFFICES ASSUME Init PROVE LosslessInv /\ Switch!Init
  OBVIOUS
<1>1. TypeInv /\ SteeringInv
  BY TypeInit, SteeringInit
<1>2. /\ pkts = <<>> /\ \A p \in Ports, q \in 0 .. NbPorts : nicq[p][q] = <<>>
      /\ \A p \in Ports, i \in Slots : rings[p][i] = <<>>
      /\ \A l \in RxLcore : rxb[l].pkts = <<>>
      /\ \A l \in TxLcore : txb[l].pkts = <<>>
      /\ sent = [k \in Keys |-> 0] /\ \A k \in Keys : wire[k] = <<>>
  BY DEF Init
<1>3. LineInv
  <2>1. \A S : <<>> \in Seq(S)
    BY EmptySeq
  <2> QED
    BY <1>2, <2>1, PortTypes DEF LineInv
<1>4. QueuesTyped
  BY <1>1, TypedQueues
<1>5. Cat(<<>>, <<>>) = <<>>
  BY CatEmpty, EmptySeq
<1>6. \A k \in Keys : Underway(k, None) = <<>>
  BY <1>2, <1>4, <1>5, SlowLine, LinePlaces, SeeEmpty DEF Slow
<1>7. \A k \in Keys, t \in Slots : Underway(k, t) = <<>>
  BY <1>2, <1>4, <1>5, FastLine, LinePlaces, SeeEmpty DEF Fast
<1>8. Numbers(<<>>) = <<>> /\ Ways(<<>>) = <<>>
  BY DEF Numbers, Ways
<1>9. Chan = [k \in Keys |-> [t \in Slots \cup {None} |-> <<>>]]
  BY <1>6, <1>7, <1>8 DEF Chan
<1>10. Out = [k \in Keys |-> <<>>]
  BY <1>2, <1>8 DEF Out
<1> QED
  BY <1>1, <1>2, <1>3, <1>9, <1>10 DEF LosslessInv, Switch!Init

\* Each step is a step of the abstract switch, or is not seen there.
LEMMA LosslessStep ==
  ASSUME LosslessInv, [Next]_vars
  PROVE  LosslessInv' /\ [Switch!Next]_<<sent, Chan, Out>>
<1>1. TypeInv' /\ SteeringInv'
  BY TypeNext, SteeringNext DEF LosslessInv
<1>2. CASE Hosts
  BY <1>1, <1>2, ArriveAccepts DEF Hosts, LosslessInv
<1>3. CASE DefaultLcore
  BY <1>1, <1>3, DefaultPollSilent, HandlerSilent, ForwardDelivers DEF DefaultLcore, LosslessInv
<1>4. ASSUME NEW l \in RxLcore, DataRx(l) PROVE LosslessInv' /\ [Switch!Next]_<<sent, Chan, Out>>
  BY <1>1, <1>4, RxPollSilent, RxEnqueueSilent, StopSilent DEF DataRx, LosslessInv
<1>5. ASSUME NEW l \in TxLcore, DataTx(l) PROVE LosslessInv' /\ [Switch!Next]_<<sent, Chan, Out>>
  BY <1>1, <1>5, TxPollSilent, TxSendDelivers, StopSilent DEF DataTx, LosslessInv
<1>6. CASE Idle \/ Dead \/ UNCHANGED vars
  BY <1>1, <1>6, StopSilent DEF LosslessInv
<1> QED
  BY <1>2, <1>3, <1>4, <1>5, <1>6 DEF Next

\* The datapath is a lossless switch: on each path the packets of a connection
\* are neither lost nor duplicated nor overtaken, over bursts cut into runs, full
\* rings and partial sends; only the default path frees packets (the loops of the
\* three kinds of lcores), for any number of ports, lcores, slots and packets.
THEOREM Lossless == Spec => IsLosslessSwitch
<1> QED
  BY LosslessInit, LosslessStep, PTL DEF Spec, IsLosslessSwitch, Switch!Spec
=============================================================================
