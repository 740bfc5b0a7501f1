------------------------------ MODULE DaqRing ------------------------------
(***************************************************************************)
(* The daqring port of Open vSwitch (ovs/ovs_2.4.0_daqr.patch): packets    *)
(* that a rule sends to the port wait in a ring until the port is polled,  *)
(* at a rate that can be limited.  A daqring has one ring, a subring, for  *)
(* each NUMA node, for the threads of that node to put packets in; one     *)
(* thread polls all of them.                                               *)
(*                                                                         *)
(* Packets are what they are in memory: mbufs, that belong to the mempool  *)
(* or to one owner at a time.                                              *)
(*                                                                         *)
(* Abstractions.  elapsed is curr_tsc - prev_tsc.  The pool is a set: an   *)
(* mbuf that is freed twice is in it once.  What packets overwrite that    *)
(* are dequeued beyond the end of the caller's array is left out.  The     *)
(* thread that polls may also be one that sends: here its steps come in    *)
(* any order.                                                              *)
(***************************************************************************)
EXTENDS Integers, Sequences, Functions

CONSTANTS
  Threads, SocketId,    \* threads that send, rte_lcore_to_socket_id of each
  NumaNodes,            \* n_numa
  Mbufs,                \* of the mempool
  RxBurst,              \* how many packets a thread handles at a time
  RingSize,             \* how many a subring holds, DPDK_DAQ_RING_SIZE - 1
  NetdevMaxBurst,       \* NETDEV_MAX_BURST: size of the array packets
  MaxBursts, PollTscs,  \* what the operator sets max_burst and poll_tsc to
  IntMax,               \* of an int, 2^31 - 1
  TscBound              \* bound: how far time is followed after prev_tsc; an
                        \* interval as long does not end, as with a negative
                        \* poll_tsc, which is kept in 64 bits without a sign

Nodes == 0 .. NumaNodes - 1
Ints == (-IntMax - 1) .. IntMax

ASSUME DaqRingAssumption ==
  /\ NumaNodes \in Nat \ {0} /\ SocketId \in [Threads -> Nodes]
  /\ RxBurst \in Nat \ {0} /\ RingSize \in Nat \ {0} /\ NetdevMaxBurst \in Nat \ {0}
  /\ IntMax \in Nat /\ RingSize <= IntMax /\ NetdevMaxBurst <= IntMax
  /\ MaxBursts \subseteq {b \in Ints : b <= NetdevMaxBurst}
  /\ PollTscs \subseteq Nat /\ TscBound \in Nat

VARIABLES
  pool,                 \* the mempool
  batch,                \* packets a sending thread is working on
  r, packets,           \* subrings; what the polling thread has taken out
  max_burst, poll_tsc,  \* the rate, under rate_config_lock
  curr_burst, elapsed,
  pc, burst, poll, i,   \* netdev_dpdk_daqring_rxq_recv: where it is, its locals
  granted, polled,      \* history: curr_burst when it was last set, polled since
  partly                \* history: a subring took a part of a batch

config == <<max_burst, poll_tsc>>
recv == <<pc, burst, poll, i>>
history == <<granted, polled, partly>>
vars == <<pool, batch, r, packets, config, curr_burst, elapsed, recv, history>>

Lesser(a, b) == IF a <= b THEN a ELSE b
First(s, n) == SubSeq(s, 1, n)
From(s, n) == SubSeq(s, n + 1, Len(s))

\* An int that is passed as unsigned, and one that an int has no room for.
Unsigned(x) == IF x < 0 THEN x + 2 * (IntMax + 1) ELSE x
Wrapped(x) == IF x < -IntMax - 1 THEN x + 2 * (IntMax + 1) ELSE x

\* dpdk_daqring_create.
Init ==
  /\ pool = Mbufs /\ batch = [t \in Threads |-> <<>>]
  /\ r = [n \in Nodes |-> <<>>] /\ packets = <<>>
  /\ max_burst \in MaxBursts \cap 1 .. NetdevMaxBurst /\ poll_tsc \in PollTscs
  /\ curr_burst = 0 /\ elapsed = TscBound
  /\ pc = "idle" /\ burst = 0 /\ poll = 0 /\ i = 0
  /\ granted = 0 /\ polled = 0 /\ partly = FALSE
-----------------------------------------------------------------------------
(* Sending. *)

\* A thread gets mbufs: from a card it polls, or from dpdk_do_tx_copy, which
\* copies packets that are no mbufs or that the caller needs again.
GetMbufs(t) ==
  /\ batch[t] = <<>>
  /\ \E n \in 1 .. RxBurst : \E s \in Injection(1 .. n, pool) :
       batch' = [batch EXCEPT ![t] = s] /\ pool' = pool \ Range(s)
  /\ UNCHANGED <<r, packets, config, curr_burst, elapsed, recv, history>>

\* Fault: the packets that were not taken are left alone.
FreedNone(pkts, nb_enq) == {}
\* What is deleted of a batch: as many as were refused, from its beginning.
Deleted(pkts, nb_enq) == Range(First(pkts, Len(pkts) - nb_enq))

\* netdev_dpdk_daqring_send: the subring of the thread's node takes what it
\* has room for.
Send(t) ==
  /\ batch[t] # <<>>
  /\ LET pkts == batch[t]
         n == SocketId[t]
         nb_enq == Lesser(Len(pkts), RingSize - Len(r[n]))
     IN  /\ r' = [r EXCEPT ![n] = @ \o First(pkts, nb_enq)]
         /\ pool' = pool \cup Deleted(pkts, nb_enq)
         /\ partly' = (partly \/ nb_enq \in 1 .. Len(pkts) - 1)
  /\ batch' = [batch EXCEPT ![t] = <<>>]
  /\ UNCHANGED <<packets, config, curr_burst, elapsed, recv, granted, polled>>
-----------------------------------------------------------------------------
(* netdev_dpdk_daqring_rxq_recv, and what the thread does with the packets. *)

Goto(label) == pc' = label
\* The locals are gone; here they are 0 between calls.
Return == Goto("idle") /\ burst' = 0 /\ poll' = 0 /\ i' = 0

ReadConfig ==
  /\ pc = "idle"
  /\ poll' = poll_tsc /\ burst' = max_burst
  /\ Goto("rate")
  /\ UNCHANGED <<pool, batch, r, packets, config, curr_burst, elapsed, i, history>>

NewInterval == elapsed > poll

\* prev_tsc is set, curr_burst is set; faults: with each poll.
RestartedEachPoll == poll > 0
CreditedEachPoll == TRUE
Restarted == poll > 0 /\ NewInterval
Credited == poll = 0 \/ NewInterval

\* A new interval gives new credit, and so does each poll without a limit;
\* with the credit used up there is nothing to do (EAGAIN).
Rate ==
  /\ pc = "rate"
  /\ elapsed' = IF Restarted THEN 0 ELSE elapsed
  /\ curr_burst' = IF Credited THEN burst ELSE curr_burst
  /\ IF poll = 0 \/ NewInterval THEN granted' = burst /\ polled' = 0
     ELSE UNCHANGED <<granted, polled>>
  /\ IF poll > 0 /\ curr_burst' <= 0 THEN Return
     ELSE i' = 0 /\ Goto("dequeue") /\ UNCHANGED <<burst, poll>>
  /\ UNCHANGED <<pool, batch, r, packets, config, partly>>

\* How many rte_ring_dequeue_burst is asked for; fault: all the credit there was.
CreditOfBurst == Unsigned(burst)
Credit == Unsigned(curr_burst)

\* The next subring, in the order of the nodes, until the credit is used up.
\* A difference that overflows may be tested before or after it is stored.
Dequeue ==
  /\ pc = "dequeue"
  /\ LET n == Lesser(Credit, Len(r[i]))
     IN  /\ packets' = packets \o First(r[i], n)
         /\ r' = [r EXCEPT ![i] = From(@, n)]
         /\ curr_burst' = Wrapped(curr_burst - n) /\ polled' = polled + n
         /\ \E left \in {curr_burst - n, curr_burst'} :
              IF left <= 0 \/ i = NumaNodes - 1 THEN Goto("output") /\ UNCHANGED i
              ELSE i' = i + 1 /\ UNCHANGED pc
  /\ UNCHANGED <<pool, batch, config, elapsed, burst, poll, granted, partly>>

\* The packets go to a port, which waits for its tx queue; sent mbufs are freed.
Output ==
  /\ pc = "output"
  /\ pool' = pool \cup Range(packets) /\ packets' = <<>>
  /\ Return
  /\ UNCHANGED <<batch, r, config, curr_burst, elapsed, history>>

Recv == ReadConfig \/ Rate \/ Dequeue \/ Output
-----------------------------------------------------------------------------
\* netdev_dpdk_daqring_set_max_burst and _set_poll_tsc, and the same by way of
\* netdev_dpdk_set_config.
SetMaxBurst ==
  /\ max_burst' \in MaxBursts
  /\ UNCHANGED <<pool, batch, r, packets, poll_tsc, curr_burst, elapsed, recv, history>>
SetPollTsc ==
  /\ poll_tsc' \in PollTscs
  /\ UNCHANGED <<pool, batch, r, packets, max_burst, curr_burst, elapsed, recv, history>>

Tick ==
  /\ elapsed < TscBound /\ elapsed' = elapsed + 1
  /\ UNCHANGED <<pool, batch, r, packets, config, curr_burst, recv, history>>

Next ==
  \/ \E t \in Threads : GetMbufs(t) \/ Send(t)
  \/ Recv \/ SetMaxBurst \/ SetPollTsc \/ Tick

Spec == Init /\ [][Next]_vars

\* The polling thread never blocks, and time passes.
FairSpec == Spec /\ WF_vars(Recv) /\ WF_vars(Tick)
-----------------------------------------------------------------------------
\* The types of the variables; no subring holds more than it can, nor does the
\* array of a poll whose credit was not negative.
TypeOK ==
  /\ pool \subseteq Mbufs /\ batch \in [Threads -> Seq(Mbufs)]
  /\ \A t \in Threads : Len(batch[t]) <= RxBurst
  /\ r \in [Nodes -> Seq(Mbufs)] /\ \A n \in Nodes : Len(r[n]) <= RingSize
  /\ packets \in Seq(Mbufs) /\ (granted >= 0 => Len(packets) <= NetdevMaxBurst)
  /\ max_burst \in MaxBursts /\ poll_tsc \in PollTscs
  /\ curr_burst \in Ints /\ elapsed \in 0 .. TscBound
  /\ pc \in {"idle", "rate", "dequeue", "output"}
  /\ burst \in MaxBursts \cup {0} /\ poll \in PollTscs \cup {0} /\ i \in Nodes
  /\ granted \in MaxBursts \cup {0} /\ polled \in Nat /\ partly \in BOOLEAN

\* Where mbufs are in use: a sequence for each owner.
Owners == ({"batch"} \X Threads) \cup ({"subring"} \X Nodes) \cup {<<"packets", 0>>}
Owned(o) == CASE o[1] = "batch" -> batch[o[2]]
              [] o[1] = "subring" -> r[o[2]]
              [] o[1] = "packets" -> packets

\* While each batch was taken whole or not at all, an mbuf is in the pool or in
\* one place that some thread or subring owns: none is lost, none is freed
\* while it waits, none is in two rings (netdev_dpdk_daqring_send, _rxq_recv).
OneOwner ==
  ~partly =>
    \A m \in Mbufs :
      IF m \in pool THEN \A o \in Owners : m \notin Range(Owned(o))
      ELSE \E o \in Owners : \E k \in DOMAIN Owned(o) :
             /\ Owned(o)[k] = m
             /\ \A q \in Owners : \A j \in DOMAIN Owned(q) :
                  Owned(q)[j] = m => q = o /\ j = k

\* In an interval no more packets are polled than max_burst was when it began,
\* in however many calls and from however many subrings, and whatever the
\* operator sets meanwhile; without an interval, no more in one call.  A
\* negative max_burst is no such limit: a poll without an interval takes what
\* there is (netdev_dpdk_daqring_rxq_recv).
RateLimited == granted >= 0 => polled <= granted

\* What waits in a subring is polled, if those before it stay empty from some
\* time on and the operator leaves max_burst at something and poll_tsc at an
\* interval that ends; and if no batch was taken in part, or an mbuf may be in
\* a ring twice.
Waits(n, m) == \E k \in DOMAIN r[n] : r[n][k] = m
EveryRingDrains ==
  \A n \in Nodes :
    /\ []~partly /\ <>[](max_burst > 0 /\ poll_tsc < TscBound)
    /\ <>[](\A k \in Nodes : k < n => r[k] = <<>>)
    => \A m \in Mbufs : []<>~Waits(n, m)

\* What ovs/README.md:73 says: a packet that was sent to the ring is buffered
\* there until it is polled: it is not freed while it waits.
BufferedUntilPolled == \A n \in Nodes : \A k \in DOMAIN r[n] : r[n][k] \notin pool
=============================================================================
