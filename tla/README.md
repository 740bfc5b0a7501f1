# daq-software-switching in TLA+

Specifications of `daqswitch`, a DPDK software switch for data acquisition
networks, of the buffering port added to Open vSwitch, and of the scripts that lay
the data collectors' paths through a network of OpenFlow bridges, with TLC configurations that check them on small
instances and TLAPS proofs for all instances. Paths below are relative to the
repository (`src/`).

The traffic the switch is built for: data collectors (DCM) send *fragment
requests* over TCP to readout systems (ROS), and many ROSes answer one DCM at
the same time (incast). The switch keeps the answers in virtual output queues,
so that it never drops a packet of a data flow and no sink starves another.

## 1. Inventory

| Component | State it keeps | Operations | Interacts with | What makes it correct |
|---|---|---|---|---|
| voq_swq default lcore (`daqswitch/dp/voq_swq/dp_lcore_default.c`) | filter count per port `fdir_id`, the filter being built, flow slots `dp.flows`, polling bits `active_flows` | run the pipeline on rx queue 0 of each port; detect a data flow; take slots; install filters; forward by lpm | the card (filters, queues), the tx lcores (polling bits, slots) | a filter never names a ring that is not in use and polled; one slot per sink; answers are set up before requests; running out of slots harms nobody |
| voq_swq data rx lcore (`dp_lcore_data_rx.c`) | its burst | poll the data queues of its ports; cut a burst into runs for one ring; enqueue, spin when the ring is full | the card, the rings | right ring, no loss, order kept |
| voq_swq data tx lcore (`dp_lcore_data_tx.c`) | its burst | poll the rings whose bit is set; send until all is sent | the rings, `dp.flows`, the card | every ring in use is drained, no ring that does not exist is touched |
| voq_swq set-up (`dp_voq_swq.c`, `dp_defaults.c`) | types and port lists of the lcores, rings | init_lcores, init_rings, default rules | EAL, the lcores | each port has one rx and one tx lcore, near it where possible |
| daqswitch core (`main.c`, `daqswitch/daqswitch/`) | life-cycle flags, settings of the ports, the ports themselves | init, configure, start, launch, default rules; port settings | the datapath's callbacks | the order of the steps; settings and queues of the ports agree with what the datapath deals; rules come while lcores run |
| oq_hwq datapath (`daqswitch/dp/oq_hwq/`) | mbuf table per tx port and lcore | burst, lookup by four, grouping, drain | the card | grouping equals run lengths; order per port; nothing lost; table within 32 |
| voq_hwq datapath (`daqswitch/dp/voq_hwq/`) | tx queue lists with rx queue ids per lcore, poll times, filters in the card | deal ports and ids; install filters; move bursts from rx queue to port | daqswitch core, the card | each output port is served by one lcore, its rx queue is the one filters name and was set up; nothing lost, each packet leaves by the port of its rule |
| pipeline library (`daqswitch/pipeline/`) | pipelines, port and queue tables | set-up of ports, flows and rules | only the legacy `dp_init.c` | unique soft ids per card, no half set-up flows |
| Open vSwitch daqring (`ovs/ovs_2.4.0_daqr.patch`) | a subring per NUMA node, rate, burst credit, last poll | create, send, receive, set rate | pmd threads, the operator's commands | a packet has one owner; the rate limit holds while it is changed; every subring is polled |
| OpenDaylight utilities (`odl/odl_utils/`, `odl/examples/`) | the dump of DCMs with ids; flows in the controller and in the bridges | scan; install a path; remove paths; default flows; monitor | controller (REST), OVSDB, hosts (ssh) | no packet of a DCM goes astray whatever part of a path is there; a completed distribution works; removal finds what was installed |
| tcp-static, stats, cli | constant window; counters; none | | | not modelled, see section 8 |

Hard behaviours: the lcores run in parallel without locks on `dp.flows`,
`active_flows` and the rings, with filters in the card as a further shared
state that takes effect on packets while older ones are still queued; rings,
queues, slots and filters run out; a set-up has two halves that fail
separately; integer widths matter (`1 << flow_id`, the 16-bit soft id). The core
starts the lcores before it installs the rules. The controller takes a path as a sequence of
requests, each of which may be refused, and brings them to the bridges when it
likes, while the DCMs of the last scan come and go. The list
of hazards, each at its line and with its properties, is in `PROJECT.json`.

## 2. Modules

| Module | What it is |
|---|---|
| `VoqSwq` | the voq_swq datapath: card, default lcore, data rx and tx lcores |
| `LosslessSwitch` | abstract specification: what the datapath promises of the packets of a connection |
| `MCVoqSwq` (+ 5 cfg) | instances of `VoqSwq` for TLC |
| `VoqSwqProofs` | theorems about `VoqSwq`: types, safety, and that it implements `LosslessSwitch` |
| `LcoreInit` | start-up: types of the lcores, ports dealt to them |
| `MCLcoreInit` (+ 1 cfg) | instance of `LcoreInit` for TLC |
| `LcoreInitProofs` | theorems about `LcoreInit`: types, one server per port, local before remote, room, even shares |
| `OqHwq` | the oq_hwq datapath: set-up, main loop of the lcores, card |
| `OutputQueuedSwitch` | abstract specification: a queue for each pair of ports |
| `MCOqHwq` (+ 2 cfg) | instances of `OqHwq` for TLC |
| `OqHwqProofs` | theorems about `OqHwq`: its set-up, grouping, types and bounds of tables and queues |
| `OqRefinementProofs` | `OqHwq` implements `OutputQueuedSwitch` |
| `Daqswitch` | the core: from `main` to the launch of the lcores; a module of a datapath extends it |
| `VoqHwq` | extends `Daqswitch`: the voq_hwq datapath, from dealing queues to its main loop, with the card |
| `MCVoqHwq` (+ 1 cfg) | instance of `VoqHwq` for TLC |
| `VoqHwqProofs` | theorems about `VoqHwq`: set-up, types, where its packets go, and that it implements `OutputQueuedSwitch` |
| `OdlPaths` | paths of DCMs: the scripts, the controller, the bridges and their forwarding |
| `MCOdlPaths` (+ 1 cfg) | instance of `OdlPaths` for TLC |
| `OdlPathsProofs` | theorems about `OdlPaths`: where packets go meanwhile, and what a script has done when it ends |
| `DaqRing` | the daqring port: sending, receiving at a limited rate, changing the rate |
| `MCDaqRing` (+ 2 cfg) | instances of `DaqRing` for TLC |
| `DaqRingProofs` | theorems about `DaqRing` |
| `Selection` | the packets at some places of a sequence, in their order: what refinement mappings are written with |
| `Recursion` | lemmas for all the proofs: induction on sets, recursive functions, `Selection` |

`LcoreInit` ends where `VoqSwq` begins: its invariant `ServedByOne` is what
justifies that `VoqSwq` takes `RxLcoreOf` and `TxLcoreOf` for functions of the
port (`LcoreAssumption`).

### VoqSwq and the code

| Model | Code |
|---|---|
| `nicq[p][q]` | rx queues of port p: 0 is the default queue, q + 1 holds what filters send towards output port q |
| `fdir[p]` | perfect filters of a card, by addresses and TCP ports; a filter carries a queue and a soft id |
| `fdir_id[p]` | the static array of that name |
| `flows`, `active_flows`, `rings` | `dp.flows`, `active_flows` of the port's tx lcore, `dp.rings` |
| `pc`, `pkts`, `pkt_index`, `in_port`, `port_src`, `flow_id` | where `table_action_handler_hit` is in its burst, and the part of its `filter` that it reads back |
| `rxb[l]`, `txb[l]` | `pkts_burst` of an rx and a tx lcore |
| `wire`, `dropped` | history only |
| `panic` | an `RTE_VERIFY` failed, or a null ring was used |

Actions of the default lcore: `DefaultPoll` (the pipeline reads a burst),
`SkipPacket`, `TakeDataSlot`, `NoDataSlot`, `InstallDataFilter`, `TakeReqSlot`,
`NoReqSlot`, `InstallReqFilter` (one per stage of the handler, so that the other
lcores and the card come in between), `ForwardBurst` and `ForwardPacket`
(what the pipeline does after the handler). Actions of an rx lcore: `RxPoll`,
`RxEnqueue` (one call of `rte_ring_enqueue_burst`; it is not enabled while the
ring is full, which is the spin), `RxNullRing`. Of a tx lcore: `TxPoll`,
`TxSend` (the card takes any part of a burst), `TxNullRing`. `Arrive` is the card
taking in a packet of a host. A sender may send a request with any event id and
in any order, before or after its answers are set up: nothing in the switch
relies on the protocol of the hosts.

External, modelled from its use: the card (a perfect filter for the same key is
overwritten; the card may refuse any filter, as it does when its table is full;
a full rx queue takes no packet), `rte_pipeline` (the handler runs before the burst is forwarded; a
packet that the default tx queue does not take is freed), the host's traffic. Flow
control is set to `RTE_FC_RX_PAUSE` (`daqswitch/daqswitch/daqswitch_port.c:171`): the
switch reacts to PAUSE frames and sends none, so packets may be lost at a full
rx queue before this code sees them. `sent` counts the packets the card has taken in.

### LosslessSwitch

A connection's direction has one channel per path, the default path and one
path per ring. On each channel packets are neither lost, duplicated nor
overtaken; only the default path may free its oldest packet. Nothing is promised
across channels: when a filter is installed, packets already on the default
path may be overtaken by later ones on the ring, and the code does not try to
prevent it. The refinement (`IsLosslessSwitch`) maps a channel to the
line (`Line`) of tx burst, ring, rx burst and rx queue, and takes from it what is on the
path (`OnPath`): the packets of the connection that carry the ring's soft id. `Among` of
`Selection` picks them by their places, without recursion.

### LcoreInit and the code

`type` and `port_list` are the fields of `dp.lcores`; the machine (number and
node of lcores and ports) is chosen in `Init` and never changes. `SetTypes` is
one round of the loop that alternates types, `DealPort` one round of
`init_lcores_data_rx` or `init_lcores_data_tx` with its call of
`get_next_lcore`, `NoLcoreLeft` the failing `RTE_VERIFY`.

### OqHwq and the code

| Model | Code |
|---|---|
| `lcoreid`, `prev_lcoreid`, `numa_ok`, `lcore_params` | those of `configure_lcore_params` |
| `rx_queue_list`, `tx_mbufs[l][p]` | fields of `lcore_conf[l]`; a table is the sequence of its `len` packets |
| `lpm[s]` | `ipv4_lookup_struct[s]`: how many of the rules it has |
| `Ports`, `EthPorts` | the switch's ports; all port numbers (`RTE_MAX_ETHPORTS`), which is what rules and tables go by |
| `phase` | where the master lcore is; "dead" after packets were given to a port that the switch does not have |
| `pc`, `i`, `burst`, `dst_port`, `pnum`, `j` | where `main_loop` is, and its locals |
| `elapsed` | `cur_tsc - prev_tsc` |
| `tosend`, `to_port`, `rest` | what `send_burst` or `send_packetsx4` still has to give to the card; what a full table left of the group |
| `rxq`, `txq`, `wire` | rx queues, tx queues of each lcore, and what has left (history) |

`SearchLcore` and `DealPort` are the two ends of a round of `while (1)` in
`configure_lcore_params`, `ConfigureRxQueue` a round of the next loop, `AddRule`
one `rte_lpm_add`. Of the main loop, `Top` looks at the drain interval,
`Drain`/`Drained` run through the tables, `RxBurst` reads a queue, `Lookup` looks one packet
up (the finest order against `AddRule`), `Group` computes `pnum`, `SendGroup`
is `send_packetsx4` up to the point where it gives packets to the card, `TxBurst`
one `rte_eth_tx_burst` that takes some, `NoSuchPort` one for a port that the switch does not have
(the rules for twelve ports are installed on every switch), `Sent` what follows when all are taken.
An lcore's tx queue on each port is its own (`tx_queue_id`), so `txq` is by lcore.

`OutputQueuedSwitch` lets packets of a port in, gives the oldest one an output
port its destination allows, and lets the packets of a pair of ports out in that order.
An output may be a port number without a port; what has such an output is never delivered.
The mapping takes for the input queue what the lcore has read and not looked up (`Unrouted`), and the
rx queue; for the queue of a pair the tx queue, what is being sent, the table and the rest
of the burst (`Routed`), restricted to the input port (`OfPort` of `Selection`). `BurstsAssumption`
says that a burst has a packet or more and fits `MAX_PKT_BURST`, as `rte_eth_rx_burst` is asked for. All steps but arrival, lookup and sending by
the card must be stutters.

### Daqswitch, VoqHwq and the code

| Model | Code |
|---|---|
| `master`, `portid` | where the master lcore is in `main`, `daqswitch_init`, `_configure`, `_start`, and the port of its loop; the flags `initialized` and `started` follow from it |
| `port_conf`, `dev` | `port_conf` of `daqswitch_port.c`, as far as numbers of queues and the flow director go; what the card was told |
| `lcoreid`, `prev_lcoreid`, `numa_ok`, `lcore_params` | those of `configure_lcore_params` |
| `tx_queue_list`, `conf_lcore`, `rxqueueid` | the field of `lcore_conf`, and the loop of `dp_configure` |
| `filters`, `rule` | flow director filters by port and destination; the rule that `dp_install_default_tables` is at |
| `pc`, `i`, `j`, `elapsed`, `burst` | where `main_loop` is, its tx queue and rx port, `cur_tsc - prev_tsc[i]`, `pkts_tx` |
| `input`, `rxq`, `txq`, `wire` | packets in front of the card's filters, its rx and tx queues, and what has left (history) |

`Daqswitch` has an action for each stage of `main`; each port is configured and started in a
step of its own, and each step may fail, which ends the program with ports left
as they are. `VoqHwq` adds the three callbacks: `DealPort`, `AddTxQueue` and `SetNbQueues` are
`dp_init`, `ConfigureLcore` is a round of `dp_configure`, `AddFilter` one filter of one
rule on one port. Packets come in as soon as a port is started: before the lcores run,
between two filters, and after. Of the main loop, `Clock` looks at the time, `Poll` reads a
burst of one rx queue, `TxBurst` gives some of it to the card, and all end in
`NextPort`, which goes to the next rx port or tx queue.

The queue of a port without an lcore is -1 as an unsigned 16-bit number, which the
card takes as 8 bits (`NoQueue`): packets of a rule for a missing port wait there for
ever. Nobody reads that queue, and in the refinement it is the output port `Nowhere`.
`VoqHwq` implements `OutputQueuedSwitch` with it: here a queue of a pair of ports is
the tx queue (`Outputs`), the burst that its reader holds (`Held`) and the rx queue
(`Pending`), and input is what is in front of the filters (`Unsteered`). A
packet that came in before its filter may go by its rule or by the port that reads queue 0.

### OdlPaths and the code

| Model | Code |
|---|---|
| `running`, `dcms` | DCM processes; the dict of `Dcm` objects in the dump, in the order of their ids |
| `script`, `spines`, `todo`, `refused` | the script that runs, its `Topology`, the requests it has still to make, whether one was refused |
| `conf` | the controller's configuration datastore: flows of DCMs |
| `pending`, `table` | requests on their way to a bridge; the flows of the bridges |
| `strayed` | history: a DELETE was refused |
| `late` | history: the script is a distribution that began with requests of others on their way |
| `renumbered` | history: a dump has given an id of flows that are there, or on their way, to another DCM or to none |

A script is its sequence of REST requests, which is computed when it starts
(`InstallPath`, `InstallSubpath` in the order of the calls); each request is then a
step. A GET of `remove_path` puts the DELETEs for what it found in front of the rest. The
errors differ: `flow_add` lets the exception out, so the script ends where it is;
`flow_delete` and `flow_get_conf_all` catch it and go on. The controller
and the bridges are external: a request is answered when it is stored, reaches its
bridge later, and only requests to one bridge keep their order. `Walk` follows
a packet over the bridges with OpenFlow's rules: ring flows (priority 111) before inflows
(110) before default flows, and never back by the port it came in by.

The default flows of `set_default_flows` are there from the start. At a leaf, the flow to an
end node and the one to the whole network have the same priority (97), so OpenFlow
leaves open which one a packet to the own pod takes: `Defaults` has both.

`odl_show_dcms` scans and dumps whenever no other script runs, whatever flows there are (`ShowDcms`); `odl_remove_dcms` goes through
the bridges in any of the orders of a dict (`BridgeLists`).

`TopologyAssumption` says what the names of bridges are, that each plane has its default spine and that there are at most nine pods
(`get_pod_endnodes` looks for the number of a pod as a substring, `of.py:682`; see section 5),
`DcmAssumption` that a connection belongs to one process and comes from another end node,
`BoundsAssumption` that the bounds of the model are numbers.

### DaqRing and the code

| Model | Code |
|---|---|
| `pool` | the mempool: mbufs that are free |
| `batch[t]` | the packets a pmd thread has in hand |
| `r[n]`, `packets` | `daqr->r[n]`; the caller's array in `netdev_dpdk_daqring_rxq_recv` |
| `max_burst`, `poll_tsc`, `curr_burst` | fields of `struct dpdk_daqring` |
| `elapsed` | `curr_tsc - prev_tsc`, as far as it matters (`TscBound`) |
| `pc`, `burst`, `poll`, `i` | where `netdev_dpdk_daqring_rxq_recv` is, and its locals |
| `granted`, `polled`, `partly` | history |

`GetMbufs` and `Send` are `netdev_dpdk_daqring_send`, with the copy it takes of packets that are no mbufs.
`rte_ring_enqueue_burst` takes what fits; `Deleted` is what the loop at line 956 frees. A poll is
`ReadConfig` (under `rate_config_lock`), `Rate`, one `Dequeue` for each subring it gets to, and `Output`;
between any two of them the operator may change the rate (`SetMaxBurst`, `SetPollTsc`, which also stand for
`netdev_dpdk_set_config`) and other threads may send. A poll that finds no credit ends in `Rate`. `max_burst` is an
int, as `atoi` reads it, of which only values above `NETDEV_MAX_BURST` are refused; `Unsigned` is what
`rte_ring_dequeue_burst` is passed of it, `Wrapped` what the int keeps of a difference below its range.

## 3. Runs

| Run | Shows |
|---|---|
| `main` | With one DCM, two ROSes on another port and three event ids, all interleavings; slots below the sign bit of the int shift, at it and past it are taken, filters name them and packets pass their rings: every steered packet is for a ring in use and polled (`RingServed`), rings hold one sink (`SinkIsolation`), a sink has one slot (`OneSlotPerSink`), answers are set up before requests (`AnswersBeforeRequests`), soft ids differ until the count wraps (`FdirIdsUniqueUntilWrap`), types (`TypeOK`) |
| `full` | With two slots per port, slots run out in either half of a set-up, the slot without a ring is taken and the process dies on it; isolation and the order of set-up still hold. One ROS shares the port of the DCM, so a port's slots are taken for answers and for requests, and requests also leave by the port they came in by |
| `live` | The datapath implements `LosslessSwitch`, with answers from both ports that two rx lcores put into one ring of one packet; the fast path drains although rx lcores spin on full rings (`FastPathDrains`); each detection ends (`HandlerFinishes`) |
| `redetect` | **Violation**: within a burst of requests of connections A, B, A the third is detected again, contrary to the comment at `dp_lcore_default.c:263` |
| `shift` | **Violation**: `1 << flow_id` is an int shift; the slot of the sign bit (31) sets bits 31 to 63, and the tx lcore polls ring 63, which does not exist |
| `lcores` | Every machine with up to 7 slave lcores and 4 ports on 2 nodes: `ServedByOne`, `RemoteOnlyWhenFull`, `FailsOnlyWhenShort`, `EvenOnOneNode` |
| `oq` | One lcore, two ports, five packets one by one, a rule that is installed meanwhile: `oq_hwq` implements `OutputQueuedSwitch` (`IsOutputQueuedSwitch`): no packet is lost, duplicated, overtaken by one of its pair of ports, or sent elsewhere, over tables that fill, wrap and drain, groups sent past the table, and partial bursts; no table or tx queue is longer than it may be (`TypeOK`) |
| `oqsetup` | Three machines: the search for an lcore ends (`SetUpEnds`) and gives up only when it should (`RemoteOnlyWhenShort`), or the start fails before a list of rx queues is longer than its array (`ListsFit`); grouping by prebuilt values finds the runs of each burst (`GroupingIsRight`); with rules for a port of the switch and for one that it does not have, packets for the latter end the process, and up to then none is lost or misdirected (`IsOutputQueuedSwitch`); each packet leaves in the end, those nothing follows by the drain, unless the process dies (`EveryPacketLeaves`) |
| `voqhwq` | Two ports, two machines, all of `main` with a failure at each step, packets before, between and after the filters, two rules, one of them for a missing port: tx queues have ids and ports of their own (`OneReader`) whose rx queues are set up (`QueuesAreSetUp`), packets wait for and leave by the port of their rule or of queue 0 (`LeavesByItsPort`), the datapath implements `OutputQueuedSwitch` over partial bursts (`IsOutputQueuedSwitch`) and each packet leaves (`EveryPacketLeaves`); types and bounds (`TypeOK`) |
| `odl` | Two DCMs, two pods, two planes, two distributions or removals over different spines, with or without rings, one of which may break off, and dumps at any time. As long as no dump gives an id of flows that are there to another DCM (`~renumbered`): wherever the requests have got to, a packet reaches its DCM or is dropped, never misdelivered or going round, and dropped for want of a path only, unless a DELETE was refused (`NeverAstray`); a distribution that ends gives each connection its path (`Distributed`), and if nothing was on its way when it began, takes none away meanwhile (`PathsAreKept`). In any case a removal takes all flows of the ids it found (`RemovesScannedIds`) and ids are unique (`TypeOK`) |
| `daqring` | Threads of two nodes, batches of up to two mbufs, subrings of two, any order of sending, polling and changing the rate: an mbuf is free or has one owner and one place there, as long as no subring takes a part of a batch (`OneOwner`); an interval sees no more packets than its credit (`RateLimited`), and the array of a poll is not overrun (`TypeOK`), unless `max_burst` was negative when the credit was set; what waits in a subring is polled, if those before it stay empty from some time on, `max_burst` stays above zero and the interval ends (`EveryRingDrains`) |
| `daqringfree` | **Violation**: a packet that was sent to the ring is buffered until it is polled (`ovs/README.md:73`); when a subring takes a part of a batch, packets it took are freed and refused ones are not |

A consequence of the int shift that is *not* an error: slots 32 to 62 have no bit
of their own but share those of slots 0 to 30, and the tx lcore tests with the
same truncated shift, so they are polled; `RingServed` holds at and beyond the sign
bit in `main` (4 slots, a 2-bit int: three sinks of port 0 take slots 0, 1 and 2, of which 1 is the
sign bit and 2 shares the bit of 0). What is steered there before the tx lcore meets the ring that does not
exist is covered; then the process dies, as in the code, so `live`, which is about what happens in the
end, stays below the sign bit.

### Bounds

* `Load`: packets per connection and direction. Two requests of one connection
  are needed for a second detection (another event id, or a burst); one request
  of another connection to share or compete for slots; two answers to fill a ring of
  one and see the spin; one or two suffice to see the order of a channel.
* `RingSize` 1 or 2 and `NicQueueSize` 2 fill up; `Burst` 2 or 3 splits runs.
* `MaxDataFlows`/`IntBits` 4/2 in `main` covers a plain slot, the slot of the
  sign bit and a slot that aliases, and three event ids are what it takes to use them all on one port; in `full` 2 slots run out and the last has no ring; 8/4 in
  `shift` lets the sign bit reach the last slot, as 64/32 does.
* `FdirGens` 2 wraps within a run. A filter may be refused in every run.
* Two ports, with an lcore of each type per port: in `live` two rx lcores feed
  one ring. One event id and a 4-bit int there keep the liveness check small and the process alive.
* `lcores`: 7 slave lcores give three of each type, on two nodes in every
  arrangement; `LcorePortMax` 2 fills up with 4 ports.
* `oq`: tables of 4 (`MAX_TX_BURST` 2), one four of `FWDSTEP`; five packets are what it takes
  to fill a table in three bursts and leave a rest. `TxRing` 1 gives partial bursts.
  `DrainTsc` 1 with ticks of 1 drains every other round.
* `oqsetup`: bursts of up to 11 packets are two fours and three single packets, which is
  every way runs can cross the steps of the grouping; two ports tell all runs apart and
  three are tried with up to 6. Four lcores: two that are far come before two that are near. One
  train of three packets to any of two addresses, one of them of a missing port, gives bursts all of which leave, none
  of which does, and in which some do before the process dies. `MaxRxQueue` 1 is too little for a machine whose ports go to one lcore.
* `voqhwq`: one lcore for both ports (each tx queue polled in turn) or one for each, on two
  nodes. Two packets at one port, of any address, are enough to have one on each side of a filter
  and two in a burst; `RxRing`, `TxRing` and `MaxBurst` make rings full and bursts partial. The
  card refuses filters only where packets arrive (`Load`): elsewhere no packet tells the difference.
  `PollTsc` 1 and `MaxTick` 1 poll every other round. Each step of the start may
  fail, on the first port or on the second.
* `odl`: two end nodes in one pod and one in the other, so that one connection stays in its
  pod and one crosses a spine; two DCMs make ids matter. Two spines in one plane and one in
  the other, and scripts that list different ones (`SpineLists`), move a path within a
  plane and between planes. `MaxScripts` 2: a script after another that broke off, or that used
  another order. What it takes three scripts to break is not in the run (`PathsAreKept` without `~late`, see section 5); the
  theorems are for any number. `MaxPending` 2: requests of different bridges overtake each other. One
  process may end (`Ending`), and one request of each script may be refused. Dumps need no
  bound, as a new one is another only when a process has ended: a distribution, the end of `p`, a dump that makes `q`
  the DCM of id 1 and another distribution are in the run, and there packets do go astray (see section 5); `renumbered`
  marks such states. `BridgeLists` has two orders.
* `daqring`: two subrings of two and batches of two make a subring empty, full, and with room for one, and
  a poll end in the first subring, between them and after both. Three mbufs fill a subring while a thread has
  a batch. `PollTscs` has no limit (0) and one that a poll may come too early for (1); `Bursts` has a
  credit that one subring may leave a part of (2) and a negative one (-3), which with `IntMax` 3 a packet leaves an int
  and two take below the least. Intervals that never end (as long as `TscBound`: negative ones) and a credit of 0 are left
  to the theorems. In `daqringfree` mbufs are symmetric (`Alike`).

Sizes beyond these are covered by the proofs, where there are some.

### Fairness

`FairSpec` has weak fairness of each lcore's loop, nothing of hosts or the card. Each
lcore is a thread pinned to a core of its own (`rte_eal_mp_remote_launch`) in
an endless loop without locks or blocking calls, so a step that stays enabled is
taken; a full ring or tx queue is retried in a loop. That a tx queue takes a
packet in the end is in `TxSend`, which is always enabled: a link that is paused
for ever is outside the model. Within an lcore weak fairness of the whole loop is used,
which does not promise that each queue gets its turn while others are busy;
with bounded traffic it is enough. In `OqHwq` the set-up, each lcore and each tx queue of the
card have weak fairness; the last stands for a link that is not paused for ever. The drain
needs no fairness of its own: each round of the loop takes time. In `VoqHwq` the master, each
lcore, the card's filters and each tx queue have weak fairness, with the same reasons; that the
start succeeds is not assumed, as `EveryPacketLeaves` is about a switch that was launched. `OdlPaths` states
no liveness: when requests reach a bridge is the controller's affair. In `DaqRing` the poll has weak fairness, as a
pmd thread polls its ports in an endless loop, and so has time; nothing is assumed of senders
and operator. Deadlock is checked in all runs: `Idle`, `Dead`, `Ended`, `Failed`, `Exited` and `Done` are the only places to stop.

## 4. What is proved

All for any values of the constants (ports, hosts, connections, lcores, slots, bridges, scripts,
sizes of queues and bursts), from their named assumptions alone. Those of `VoqSwq` are `PortsAssumption`,
`ConnAssumption`, `EventAssumption` (no event id is 0xffffffff, the sink id of
requests), `LcoreAssumption`, `SizeAssumption` and `NoneAssumption` (`None` is no slot, soft id or filter);
those of the others are named below.

### VoqSwq

* `TypeCorrect`: `Spec => []TypeOK`. Inductive with `AtPacket` (at a stage of
  the handler that looks at a packet, `pkt_index` is within the burst).
* `RingsServed`, `SinksIsolated`, `SlotsUnique`: from `SteeringInv`. `RingServed`
  alone is not inductive: a queued packet carries the id of a filter
  that may have been overwritten since, and the handler holds a slot number between taking a
  slot and installing the filter. `SlotInv` says that active slots are polled,
  have an owner and are one per sink; `DefaultPathInv` and
  `DetectionInv` say what the handler's burst and slot number are at each `pc`;
  `FilterInv` that each filter's queue and slot belong to its key, `FastPathInv` the same of
  each packet that carries an id. Since slots are never freed, a slot that once
  belonged to a key still does, and packets steered by an older filter stay right.
* `AnswersFirst`: with the filter of the answers in place at the stages between
  the two installs (`AnswersSetUp`); filters are never removed.
* `SoftIdsUnique`: while the count of a card has not wrapped, the generation of
  each soft id is at most the count, and an installed id is newer than all others.
* `Lossless`: `Spec => IsLosslessSwitch`, for any number of rx and tx lcores, rings and packets. The mapping takes a
  channel from four places (`Line`), which other lcores write, so the proof needs to know that nobody else
  does: `LineInv` says that rx queues, rx bursts and tx bursts hold steered packets for the port or lcore they
  belong to (`FromPort`, `ReadBy`, `SentBy`), and that the default lcore holds no burst while it polls; with
  `SteeringInv` rings hold packets of their own port and slot. `See` is what a key and a path see of a
  place; it distributes over concatenation (`AmongOfBoth`), so polling a queue or enqueueing a part of a
  run only hands the part over from one place of the line to the next (`HandedOver`), and a run cut in two is
  the run again (`BurstPieces`). Arrival puts a packet at the end of one line (`ArriveAccepts`), the card and the
  default lcore take the first from one line (`TxSendDelivers`, `ForwardDelivers`), all else is silent.

### LcoreInit

* `StartTypes`, `OneServer`, `RemoteOnlyFull` about `LcoreInit`, from
  `InitAssumption`, with the invariant that nothing has been dealt while types are set.
  Lemma `NextLcoreIsCandidate`: the round-robin search finds an
  lcore whenever there is one, and the first one in its order.
* `NoNeedlessFailure` about `LcoreInit`: when no lcore is left all lists are full, and as each place holds a
  port of its own (`NoRepeats`), there are more ports than places. `EvenShares`: by `RoundRobin`, on one
  node the lcores of a type up to `prev` have had their turn in this round and those after it have not.

### OqHwq

* `RemoteOnly`: `Spec => []RemoteOnlyWhenShort`, from `SizesAssumption`. The
  property says nothing of a search under way, so `SearchInv` adds that the lcores passed so far are
  not on the port's node (`PassedAreFar`); when the search is back only the lcore dealt to
  last is left, and `GaveUp` keeps the port for which that happened. Set-up only gives
  up once: `numa_ok` is never set again, so later ports go to any lcore.
* `GroupsOfBurst`, `GroupingHolds`, from `BurstsAssumption`: for every burst `port_groupx4` and `GROUP_PORT_STEP`
  give the groups that `Runs` defines, each as long as can be. The state that goes from four to four is the table with `lp`
  pointing at the head of a group still open: what lies before it is right (`Counted`, `Known`), and the
  packets from there on are for one port; a four closes it, extends it or opens one at the place that the
  prebuilt table names.
* `TypesHold`, `ListsHold`: `OqInv`. A table is never full between two groups, a group that would overfill it is cut
  where the table is sent, and what is left of it fits. This rests on `GroupsOfBurst`: a group is not longer than the burst.
* `IsSwitch` in `OqRefinementProofs`: `Spec => IsOutputQueuedSwitch`. `RefInv` adds to `OqInv` that nothing is
  queued before packets are switched (`Quiet`), that each rx queue listed is the lcore's it was dealt to (`Dealt`), and
  that the line of an lcore holds packets of its own ports only (`Owned`). A line per lcore and port (`LineOf`: tx queue, what is being sent, table, what the burst still has
  for the port) is kept by all steps but lookup and sending: groups move from the burst into the table or past it in the order of the burst.
  `RulesAssumption` only says that a rule names a port number, that the numbers are below `MaxEthPorts` and that no address has two
  rules; with a rule for a missing port the process may die, which is a stutter of the switch.

### VoqHwq

* `OneReaderAlways`, `QueuesSetUp`, from `NbPortsAssumption` and `SizesAssumption`, with
  `SetUpInv`: each port up to the next one to list has one place (`PortsOnce`), and the ids dealt so far
  are those below `rxqueueid`, each in one place (`IdsOnce`). `QueuesAreSetUp` compares ids with the number
  of ports, which no list mentions: ids map to ports through their tx queues, one to one, so by
  the theorems on finite sets there are no more ids than ports (`NoMoreIdsThanPorts`).
* `TypesHold`, `PacketsLeaveByTheirPort`, also from `RulesAssumption` and
  `PortIdsAssumption` (no port is number 255), with `FullInv`. `LeavesByItsPort` is not inductive: a packet's way is
  decided by a filter that is installed from a search through lists that lcores read by
  id, in steps far apart. `FullInv` says that nothing moves before the lists are settled (`Silent`), that a
  filter is what some rule got from that search (`Ruled`), and which packets may be in front of
  the filters, in the queue of an id, and behind it (`Inbound`, `Queued`, `Leaving`); lemma
  `ReadForItsPort` takes a packet from the second to the third set, since an id has one tx queue.
* `IsSwitch`: `Spec => IsOutputQueuedSwitch`. `SwitchInv` is `FullInv` with `OwnPackets` (each packet is of the port it
  came in by) and `IdsOfPorts` (the rx queues that tx queues are read from are those of ports). Once lists are settled each output has one rx
  queue and one reader (`PortIsRead`), so tx queue, burst and rx queue are one line per pair of
  ports, of which a poll or a partial burst hands a part over.

### OdlPaths

From `TopologyAssumption`, `DcmAssumption` and `BoundsAssumption`; the invariant is `Inv`.

* `TypesHold`: also that no bridge has two flows of one id.
* `PacketsNeverAstray`. Unless ids were given to other DCMs (`renumbered`), all flows, at the controller, at bridges or on their way,
  are flows of some path of their DCM (`Sane`); a dump that leaves the ids of flows alone keeps that, and one without flows
  makes it true again. By these a hop takes a packet to a place of lower rank (`At`, ranks 0 to 12), so no
  walk goes round and all have ended after `MaxHops` hops, at the DCM or dropped, even after a refused DELETE. That a ring has a way out is
  not an invariant of the bridges' flows alone, as requests to different bridges overtake each other: `HistoryInv`
  (`Becomes`) says that there is a history from the bridges' flows to the controller's, one pending request after another, with a
  way out of each ring (`Closed`) all along; a request that overtakes others is shown to leave such a history. What is still to be asked keeps
  the order of `install_path` and `remove_path` (`OrderInv`).
* `DistributionDelivers`: each flow of each path of the dump is there or is asked for by the rest of the script
  (`PathsAsked`); flows with one id replace each other, so when all are there no flow of another spine is. `Along` ranks the
  places on such a path.
* `PathsStay`: the action property. A connection is delivered if and only if every plane that it enters at its source has a flow for
  it at the last leaf (`Reaches`, `SoundReaches`; the default flows are why other bridges do not matter). `LastsInv`:
  the flows at last leaves are asked for, or on their way, before those at sources.
* `RemovalRemoves`: a flow of the scanned ids on a listed bridge is still to be looked for, or a DELETE for
  it is to come (`Remaining`), also after another request was refused.

### DaqRing

* `TypesAndSizes`, `RateIsLimited`, `OneOwnerAlways`, from `DaqRingAssumption`, for every `max_burst` that the command
  takes. `RateInv`: unless a negative number was granted, what was polled
  and what is left of the credit make up what was granted, and while a poll is in its loop what it has taken and what it may
  still take fit in the array. `Taken` bounds what a subring gives and what is left of the credit, for ints of any width
  that a subring's size fits in. `OneOwner` needs no such condition. `OwnerInv` says of each mbuf that it is free or has a place, and one only; lemmas
  `OwnersGet`, `OwnersPass` and `OwnersFree` show it kept when an owner takes mbufs from the pool, passes the first of
  its own on to another owner, and frees all. Every step is one of these unless a subring takes a part
  of a batch; sending is either of the last two.

### Recursion

Walks, bursts cut into runs and the fours of a burst are recursive functions, and the provers cannot use the
library's induction theorems, which take an operator. `Recursion` proves instead, by well-founded minimum, that a set of
naturals that holds 0 and with each number the next one holds all (`SetInduction`, and `RangeInduction` up to a bound), and that a function defined by recursion on a range
satisfies its equations; properties are turned into such sets. It also has the lemmas on `Selection` that the refinements share.

### Only model-checked

Liveness, which is out of the provers' reach: `FastPathDrains` and `HandlerFinishes` of `VoqSwq`, `EveryPacketLeaves` of `OqHwq` and
`VoqHwq`, `SetUpEnds` of `OqHwq`, `EveryRingDrains` of `DaqRing`. And the violations, which are
counterexamples. All other properties of the runs have a theorem.

## 5. Findings

See `redetect`, `shift` and `daqringfree` above; `PROJECT.json` quotes the lines.

Met while modelling, without a run of their own:

* `dp_install_default_tables` of oq_hwq (`dp_oq_hwq.c:893`) installs rules for ports 0 to 11 on every switch. With fewer
  ports, a packet to an address of a missing one is given to `rte_eth_tx_burst` for a device that was never set up, and the
  process dies (`NoSuchPort`, met in `oqsetup`); voq_hwq, whose rules are alike, keeps such packets in a queue that nobody reads.
* `dp_voq_swq.c:240` says that alternating types ensures rx and tx lcores on all nodes; where lcore ids alternate
  between two nodes all rx lcores are on one and all tx lcores on the other. `RemoteOnlyWhenFull` says what
  follows for the ports.
* `odl_remove_dcms.py:13` says it removes all flows of DCMs; it looks for as many ids as its own scan finds, so when
  a DCM process has ended since, the flows of the last id stay. `RemovesScannedIds` says what it does remove.
* `flow_delete` passes over a refused DELETE, so `remove_path` deletes the flow out of a ring although a flow into it
  stays, and the bridge drops the connection's packets there (`strayed` in `NeverAstray`).
* A request of an earlier script that is still on its way when a distribution starts may take a connection from its path: it
  takes three scripts, the second of which removed the flows nearer to the DCM. Found by the proof of
  `PathsAreKept`; TLC shows it with three scripts without rings (`MaxScripts` 3, `Modes` {"none"}). Nothing in the scripts waits
  for the bridges, so the property is about distributions that begin with nothing on its way (`~late`).
* `odl_show_dcms.py:30` scans and overwrites the dump at any time, and `of.py:66` numbers the DCMs anew, while flows of the
  old ids stay. The next distribution puts its `outdaqringflow` under the id of another DCM's, and the ring gives
  packets of the old inflows to the new DCM's end node, which drops them or passes them on. `NeverAstray` without `~renumbered` is
  violated in the run's own instance (packets of a process that has ended); with three processes, the first one ended, they are
  those of a live connection, and where a process has two connections a completed distribution without a refusal
  leaves the second one misled by the inflow of another DCM (`Distributed` without `~renumbered`). Nothing in the scripts asks
  for a removal before a dump, so the properties are about ids that keep their meaning while they have flows.
* End nodes of a pod are found by a substring of their names (`of.py:682`): pod 1 has those of pod 10 too. `install_path` then
  installs flows from such an end node to a leaf it has no link to: `of.py:211` divides by the number of links, none,
  and the script stops. The model and its theorems are about networks of at most nine pods.
* Two default flows at a leaf have equal priority (97).
* `odl_monitor_dcms.py:77` passes `daqring_id`, which `install_path` does not take, so the monitor stops at its
  first redistribution.
* Each poll of a daqring starts at the subring of node 0 (`ovs_2.4.0_daqr.patch:1079`): while that node's threads use up the
  limit, packets of another node are never dequeued. This is why `EveryRingDrains` asks that the subrings before stay empty.
* `set-max-burst` takes negative numbers (`ovs_2.4.0_daqr.patch:742`). With an interval they stop polling; without one
  line 1080 passes them as unsigned, so a poll takes all of the first subring, which may be more than the
  caller's array holds. `RateLimited` and the array bound of `TypeOK` are therefore about credits that are not negative.
* When a subring of a later node cannot be created, `dpdk_daqring_create` frees the daqring but leaves the subrings
  made before under their names.
* A connection whose requests come with another event id gets another slot; the code promises no order between rings.

## 6. Abstractions

A connection is a name for its addresses and TCP ports (the ports are kept
where the handler compares them); time, statistics, printing and prefetching are left
out; poll and drain intervals are delays of any length, which also covers the
uninitialised `last_poll_tsc` and `last_drain_tsc`. A slot is filled in
in one step: its readers learn of it from a filter or from its polling bit, both set after it.
The write buffers of the pipeline, flushed in every loop, are part of
`ForwardPacket`. In `OdlPaths` parallel links are one (`of_dports[id % n]` picks one of them), each scan
finds a process with the same connections, and
`script` runs one at a time: nothing in the code keeps two operators apart. Misses of the lpm table are left
out: each host has its /32 rule. In `DaqRing` an mbuf that is freed twice is in the pool once, and the order
of a thread's own polls and sends is free.

## 7. Plan

Done, in this order: `VoqSwq`, `LcoreInit`, `OqHwq`, `Daqswitch` with `VoqHwq`, `OdlPaths` and `DaqRing`, each with its
proofs; the refinements of `OutputQueuedSwitch` and of `LosslessSwitch` last.

What could follow:

1. `VoqSwq` and `OqHwq` on top of `Daqswitch`: both now start where their `dp_init` begins.
2. The monitor of `odl_monitor_dcms.py`, once its call of `install_path` is one the method takes.

## 8. Not modelled

* Printing and parsing (`cli`, dumps, `odl_utils/output.py`, REST formatting): no state of interest.
* Statistics: counters nobody reads back, racy by design. `tcp-static`: callbacks that return constants.
* The pipeline library: compiled, but called only from `dp_init.c`, which is not. The flow array and
  the message rings of the core have no callers either, so they have no states the program can be in.
* Of the daqring port: creating and opening it (a failure leaves subrings behind under their names), destruct and
  multiq, counters; what is in the memory behind the caller's array when a poll overruns it. In `OdlPaths` a ring is a port of a bridge that gives packets back.
* Of the OpenDaylight utilities: the monitor, link checks and bandwidth output, drop, LLDP and DHCP flows,
  the set-up of bridges over OVSDB (`ovsdb.py`), and the Java patches to the controller.
* The back-to-back set-up of `install_path` (no leaf, no spine): `spine` is always one of the list.
* Scripts and build files.
