----------------------- MODULE OqRefinementProofs ------------------------
(***************************************************************************)
(* OqHwq implements OutputQueuedSwitch, for every number of lcores and     *)
(* ports, every machine, every table size and list of rules.               *)
(*                                                                         *)
(* The packets an lcore has for a port stand in one line: its tx queue,    *)
(* what is being sent, the table, and the groups of the burst.  Most steps *)
(* only move packets along their line (LinesKept), which is a stuttering   *)
(* step of the switch.  Lookup puts a packet at the end of a line (Route), *)
(* Transmit takes the first one away (Deliver), Arrive is Accept.          *)
(*                                                                         *)
(* Beyond OqInv: an lcore's lines hold only packets of the ports it polls  *)
(* (Owned), for each port is on one list (Dealt); nothing is under way     *)
(* before the lcores run (Quiet); and while a rule is missing, so it was   *)
(* when the packets that are not looked up came in (NoneLate).             *)
(***************************************************************************)
EXTENDS OqHwqProofs

-----------------------------------------------------------------------------
(* The packets on their way, line by line. *)

\* What is taken from an lcore's queue by port: the packets on their way to port q,
\* from the tx queue t back to the burst b.
Held(tp, ts, q) == IF tp = q THEN ts ELSE <<>>
Unsent(b, d, jj, q) == Chosen(b, {x \in jj .. Len(d) : d[x] = q})
Line(t, tp, ts, table, b, d, jj, q) == t \o Held(tp, ts, q) \o table \o Unsent(b, d, jj, q)
Unread(b, d, p) == Chosen(b, {x \in Len(d) + 1 .. Len(b) : b[x].in = p})

\* What a line consists of are packets.
LEMMA HeldTyped ==
  ASSUME NEW S, NEW tp, NEW ts \in Seq(S), NEW q
  PROVE  Held(tp, ts, q) \in Seq(S)
BY DEF Held

LEMMA LineTyped ==
  ASSUME NEW S, NEW t \in Seq(S), NEW tp, NEW ts \in Seq(S), NEW table \in Seq(S), NEW b \in Seq(S),
         NEW d, NEW jj, NEW q
  PROVE  Line(t, tp, ts, table, b, d, jj, q) \in Seq(S)
<1> DEFINE h == Held(tp, ts, q)
           u == Unsent(b, d, jj, q)
<1>1. h \in Seq(S) /\ u \in Seq(S)
  BY HeldTyped, ChosenTyped DEF Unsent
<1> HIDE DEF h, u
<1>2. t \o h \o table \o u \in Seq(S)
  BY <1>1
<1> QED
  BY <1>2 DEF Line, h, u

Chain(s, t, u, v) == s \o t \o u \o v

\* The packets of port p in four sequences in a row.
LEMMA FourConcatenated ==
  ASSUME NEW S, NEW s \in Seq(S), NEW t \in Seq(S), NEW u \in Seq(S), NEW v \in Seq(S), NEW p
  PROVE  OfPort(Chain(s, t, u, v), p) = Chain(OfPort(s, p), OfPort(t, p), OfPort(u, p), OfPort(v, p))
<1> DEFINE st == s \o t
           stu == st \o u
<1>1. st \in Seq(S)
  BY ConcatProperties
<1>2. OfPort(st, p) = OfPort(s, p) \o OfPort(t, p)
  BY OfPortOfBoth
<1> HIDE DEF st
<1>3. stu \in Seq(S)
  BY <1>1, ConcatProperties
<1>4. OfPort(stu, p) = OfPort(st, p) \o OfPort(u, p)
  BY <1>1, OfPortOfBoth, SMTT(60)
<1> HIDE DEF stu
<1>5. OfPort(stu \o v, p) = OfPort(stu, p) \o OfPort(v, p)
  BY <1>3, OfPortOfBoth, SMTT(60)
<1> QED
  BY <1>2, <1>4, <1>5 DEF st, stu, Chain

\* All of a burst came in by one port.
LEMMA OfPortOfChosen ==
  ASSUME NEW S, NEW b \in Seq(S), NEW pi, CameIn(b, pi), NEW P, NEW p
  PROVE  OfPort(Chosen(b, P), p) = Chosen(b, {x \in P : b[x].in = p})
<1> DEFINE T == {m \in S : m.in = pi}
           c == Chosen(b, P)
<1>1. b \in Seq(T)
  <2>1. b \in [1 .. Len(b) -> S] /\ Len(b) \in Nat
    BY LenProperties
  <2>2. \A x \in 1 .. Len(b) : b[x] \in T
    BY <2>1 DEF CameIn
  <2>3. b \in [1 .. Len(b) -> T]
    BY <2>1, <2>2
  <2> QED
    BY <2>1, <2>3, SeqDef
<1>2. c \in Seq(T)
  BY <1>1, ChosenTyped
<1>3. \A x \in 1 .. Len(c) : c[x].in = pi
  <2> SUFFICES ASSUME NEW x \in 1 .. Len(c) PROVE c[x].in = pi
    OBVIOUS
  <2> HIDE DEF c, T
  <2>1. c[x] \in T
    BY <1>2, ElementOfSeq
  <2> QED
    BY <2>1 DEF T
<1> HIDE DEF c
<1>4. CASE p = pi
  <2>1. OfPort(c, p) = c
    BY <1>2, <1>3, <1>4, OfPortOfOwn DEF CameIn
  <2>2. \A x \in 1 .. Len(b) : x \in P <=> x \in {y \in P : b[y].in = p}
    BY <1>4 DEF CameIn
  <2>3. Chosen(b, P) = Chosen(b, {y \in P : b[y].in = p})
    <3> DEFINE Q == {y \in P : b[y].in = p}
    <3>1. \A x \in 1 .. Len(b) : x \in P <=> x \in Q
      BY <2>2
    <3> HIDE DEF Q
    <3>2. Chosen(b, P) = Chosen(b, Q)
      BY <3>1, ChosenOfSame
    <3> QED
      BY <3>2 DEF Q
  <2> QED
    BY <2>1, <2>3 DEF c
<1>5. CASE p # pi
  <2>1. OfPort(c, p) = <<>>
    <3>1. \A x \in 1 .. Len(c) : c[x].in # p
      BY <1>3, <1>5
    <3> QED
      BY <1>2, <3>1, OfPortOfOthers
  <2> DEFINE Q == {y \in P : b[y].in = p}
  <2>2. \A x \in 1 .. Len(b) : x \notin Q
    BY <1>5 DEF CameIn
  <2> HIDE DEF Q
  <2>3. Chosen(b, Q) = <<>>
    BY <2>2, NoneChosen
  <2> QED
    BY <2>1, <2>3 DEF Q, c
<1> QED
  BY <1>4, <1>5

Parts(t, tp, ts, table, b, d, jj, q, p) ==
  OfPort(t, p) \o (IF tp = q THEN OfPort(ts, p) ELSE <<>>) \o OfPort(table, p)
    \o Chosen(b, {x \in jj .. Len(d) : d[x] = q /\ b[x].in = p})

\* The packets of port p in a line are what Pending puts together.
LEMMA PendingOfLine ==
  ASSUME NEW S, NEW t \in Seq(S), NEW tp, NEW ts \in Seq(S), NEW table \in Seq(S), NEW b \in Seq(S),
         NEW d, NEW jj, NEW q, NEW p, NEW pi, CameIn(b, pi)
  PROVE  OfPort(Line(t, tp, ts, table, b, d, jj, q), p) = Parts(t, tp, ts, table, b, d, jj, q, p)
<1> DEFINE h == Held(tp, ts, q)
           u == Unsent(b, d, jj, q)
           P == {x \in jj .. Len(d) : d[x] = q}
<1>1. h \in Seq(S) /\ u \in Seq(S)
  BY HeldTyped, ChosenTyped DEF Unsent
<1>2. OfPort(u, p) = Chosen(b, {x \in jj .. Len(d) : d[x] = q /\ b[x].in = p})
  <2>1. OfPort(Chosen(b, P), p) = Chosen(b, {x \in P : b[x].in = p})
    <3> HIDE DEF P
    <3> QED
      BY OfPortOfChosen
  <2>2. {x \in P : b[x].in = p} = {x \in jj .. Len(d) : d[x] = q /\ b[x].in = p}
    OBVIOUS
  <2> QED
    BY <2>1, <2>2 DEF Unsent
<1>3. OfPort(h, p) = IF tp = q THEN OfPort(ts, p) ELSE <<>>
  <2>1. OfPort(<<>>, p) = <<>>
    <3>1. <<>> \in Seq(S) /\ \A x \in 1 .. Len(<<>>) : <<>>[x].in # p
      OBVIOUS
    <3> QED
      BY <3>1, OfPortOfOthers
  <2> QED
    BY <2>1 DEF Held
<1> HIDE DEF h, u
<1>4. OfPort(Chain(t, h, table, u), p) = Chain(OfPort(t, p), OfPort(h, p), OfPort(table, p), OfPort(u, p))
  <2>1. h \in Seq(S)
    BY <1>1
  <2>2. u \in Seq(S)
    BY <1>1
  <2> QED
    BY <2>1, <2>2, FourConcatenated
<1> QED
  BY <1>2, <1>3, <1>4 DEF Line, Parts, Chain, h, u

\* The k packets of a burst from jj on are for port; j2 is the place of the next.
ForPort(S, b, d, jj, k, port, j2) ==
  /\ b \in Seq(S) /\ Len(d) \in Nat /\ Len(d) <= Len(b)
  /\ jj \in Nat \ {0} /\ k \in Nat /\ j2 = jj + k /\ j2 <= Len(d) + 1
  /\ \A y \in jj .. jj + k - 1 : d[y] = port

\* A packet for another port does not matter to the groups for q.
LEMMA UnsentSkips ==
  ASSUME NEW S, NEW b, NEW d, NEW jj, NEW k, NEW port, NEW j2, ForPort(S, b, d, jj, k, port, j2), NEW q, port # q
  PROVE  Unsent(b, d, jj, q) = Unsent(b, d, j2, q)
<1>0. /\ Len(d) \in Nat /\ jj \in Nat /\ k \in Nat /\ j2 = jj + k
      /\ \A y \in jj .. jj + k - 1 : d[y] = port
  BY DEF ForPort
<1>1. {x \in jj .. Len(d) : d[x] = q} = {x \in j2 .. Len(d) : d[x] = q}
  <2>1. ASSUME NEW x \in jj .. Len(d), d[x] = q PROVE x \in j2 .. Len(d)
    <3>1. x \notin jj .. jj + k - 1
      BY <1>0, <2>1
    <3> QED
      BY <1>0, <3>1
  <2>2. j2 .. Len(d) \subseteq jj .. Len(d)
    BY <1>0
  <2> QED
    BY <2>1, <2>2
<1> QED
  BY <1>1 DEF Unsent

\* Packets up to nn, all for port q, are the first ones of the groups for q.
LEMMA UnsentTakes ==
  ASSUME NEW S, NEW b, NEW d, NEW jj, NEW k, NEW q, NEW j2, ForPort(S, b, d, jj, k, q, j2)
  PROVE  Unsent(b, d, jj, q) = Cat(SubSeq(b, jj, jj + k - 1), Unsent(b, d, j2, q))
<1>a. /\ b \in Seq(S) /\ Len(d) \in Nat /\ Len(d) <= Len(b)
      /\ jj \in Nat \ {0} /\ k \in Nat /\ j2 = jj + k /\ j2 <= Len(d) + 1
      /\ \A y \in jj .. jj + k - 1 : d[y] = q
  BY DEF ForPort
<1> DEFINE P == jj .. jj + k - 1
           Q == {x \in j2 .. Len(d) : d[x] = q}
           R == {x \in jj .. Len(d) : d[x] = q}
<1>0. Len(b) \in Nat
  BY <1>a
<1>1. \A x \in 1 .. Len(b) : x \in R <=> x \in P \/ x \in Q
  <2> SUFFICES ASSUME NEW x \in 1 .. Len(b) PROVE x \in R <=> x \in P \/ x \in Q
    OBVIOUS
  <2>1. CASE x \in P
    BY <1>a, <1>0, <2>1
  <2>2. CASE x \notin P
    BY <1>a, <1>0, <2>2
  <2> QED
    BY <2>1, <2>2
<1>2. \A x, y \in 1 .. Len(b) : x \in P /\ y \in Q => x < y
  BY <1>a, <1>0
<1>3. Chosen(b, P) = SubSeq(b, jj, jj + k - 1)
  <2> DEFINE e == jj + k - 1
  <2>1. jj \in 1 .. Len(b) + 1 /\ e \in jj - 1 .. Len(b)
    BY <1>a, <1>0
  <2> HIDE DEF e
  <2>2. Chosen(b, jj .. e) = SubSeq(b, jj, e)
    BY <1>a, <2>1, RangeChosen
  <2> QED
    BY <2>2 DEF e
<1> HIDE DEF P, Q, R
<1>4. Chosen(b, R) = Chosen(b, P) \o Chosen(b, Q)
  BY <1>a, <1>1, <1>2, ChosenInTurn
<1> QED
  BY <1>3, <1>4 DEF Unsent, Cat, Q, R

\* A packet that is looked up is put behind the others for its port.
LEMMA UnsentLooksUp ==
  ASSUME NEW S, NEW D, NEW b \in Seq(S), NEW d \in Seq(D), NEW jj \in Nat \ {0}, NEW e \in D, NEW q,
         jj <= Len(d) + 1, Len(d) < Len(b)
  PROVE  Unsent(b, Append(d, e), jj, q) =
           IF e = q THEN Append(Unsent(b, d, jj, q), b[Len(d) + 1]) ELSE Unsent(b, d, jj, q)
<1> DEFINE n == Len(d)
           a == Append(d, e)
           P == {x \in jj .. n : d[x] = q}
           R == {x \in jj .. n + 1 : a[x] = q}
<1>0. n \in Nat /\ Len(a) = n + 1 /\ a[n + 1] = e /\ (\A x \in 1 .. n : a[x] = d[x]) /\ Len(b) \in Nat
  OBVIOUS
<1>1. Unsent(b, a, jj, q) = Chosen(b, R)
  BY <1>0 DEF Unsent
<1>2. CASE e # q
  <2>1. R = P
    <3> HIDE DEF n, a
    <3>1. ASSUME NEW x \in jj .. n + 1 PROVE a[x] = q <=> x \in jj .. n /\ d[x] = q
      <4>1. CASE x = n + 1
        BY <1>0, <1>2, <4>1
      <4>2. CASE x # n + 1
        <5>1. x \in 1 .. n /\ x \in jj .. n
          BY <1>0, <4>2
        <5> QED
          BY <1>0, <5>1
      <4> QED
        BY <4>1, <4>2
    <3>2. jj .. n \subseteq jj .. n + 1
      BY <1>0
    <3> QED
      BY <3>1, <3>2
  <2> QED
    BY <1>1, <1>2, <2>1 DEF Unsent
<1>3. CASE e = q
  <2> DEFINE Q == n + 1 .. n + 1
  <2>1. \A x \in 1 .. Len(b) : x \in R <=> x \in P \/ x \in Q
    <3> HIDE DEF n, a
    <3> SUFFICES ASSUME NEW x \in 1 .. Len(b) PROVE x \in R <=> x \in P \/ x \in Q
      OBVIOUS
    <3>1. CASE x = n + 1
      <4>1. x \in jj .. n + 1
        BY <1>0, <3>1 DEF n
      <4> QED
        BY <1>0, <1>3, <3>1, <4>1
    <3>2. CASE x # n + 1
      <4>1. x \in jj .. n + 1 <=> x \in jj .. n
        BY <1>0, <3>2
      <4>2. x \in jj .. n => a[x] = d[x]
        BY <1>0
      <4> QED
        BY <1>0, <3>2, <4>1, <4>2
    <3> QED
      BY <3>1, <3>2
  <2>2. \A x, y \in 1 .. Len(b) : x \in P /\ y \in Q => x < y
    <3> HIDE DEF n
    <3> QED
      BY <1>0
  <2>3. Chosen(b, Q) = <<b[n + 1]>>
    <3>1. n + 1 \in 1 .. Len(b) + 1 /\ n + 1 \in n + 1 - 1 .. Len(b) /\ n + 1 \in Int
      BY <1>0
    <3>2. SubSeq(b, n + 1, n + 1) = <<b[n + 1]>>
      <4>1. n + 1 \in 1 .. Len(b)
        BY <1>0
      <4> DEFINE z == n + 1
      <4>2. z \in 1 .. Len(b)
        BY <4>1
      <4> HIDE DEF z
      <4>4. z \in z .. Len(b) /\ z \in Int
        BY <4>2
      <4>5. SubSeq(b, z, z) = Append(SubSeq(b, z, z - 1), b[z])
        BY <4>2, <4>4, OneLonger
      <4>6. SubSeq(b, z, z - 1) = <<>>
        BY <4>2, <4>4
      <4>7. Append(<<>>, b[z]) = <<b[z]>>
        OBVIOUS
      <4>3. SubSeq(b, z, z) = <<b[z]>>
        BY <4>5, <4>6, <4>7
      <4> QED
        BY <4>3 DEF z
    <3>3. Chosen(b, n + 1 .. n + 1) = SubSeq(b, n + 1, n + 1)
      <4> DEFINE z == n + 1
      <4>1. z \in 1 .. Len(b) + 1 /\ z \in z - 1 .. Len(b)
        BY <1>0
      <4> HIDE DEF z
      <4>2. Chosen(b, z .. z) = SubSeq(b, z, z)
        BY <4>1, RangeChosen
      <4> QED
        BY <4>2 DEF z
    <3> QED
      BY <3>2, <3>3
  <2>4. Chosen(b, R) = Chosen(b, P) \o Chosen(b, Q)
    <3> HIDE DEF P, Q, R
    <3> QED
      BY <2>1, <2>2, ChosenInTurn
  <2>5. Chosen(b, P) \in Seq(S) /\ b[n + 1] \in S
    <3> HIDE DEF P
    <3>1. n + 1 \in 1 .. Len(b)
      BY <1>0
    <3> QED
      BY <3>1, ChosenTyped, ElementOfSeq
  <2>6. Chosen(b, P) \o <<b[n + 1]>> = Append(Chosen(b, P), b[n + 1])
    <3> DEFINE u == Chosen(b, P)
               v == b[n + 1]
    <3>1. u \in Seq(S) /\ v \in S
      BY <2>5
    <3> HIDE DEF u, v
    <3>2. u \o <<v>> = Append(u, v)
      BY <3>1
    <3> QED
      BY <3>2 DEF u, v
  <2> QED
    BY <1>1, <1>3, <2>3, <2>4, <2>6 DEF Unsent
<1> QED
  BY <1>2, <1>3

\* Past the last group nothing is unsent.
LEMMA UnsentNone ==
  ASSUME NEW S, NEW b \in Seq(S), NEW d, Len(d) \in Nat, NEW jj \in Nat, jj > Len(d), NEW q
  PROVE  Unsent(b, d, jj, q) = <<>>
<1> DEFINE P == {x \in jj .. Len(d) : d[x] = q}
<1>1. \A x \in 1 .. Len(b) : x \notin P
  OBVIOUS
<1> HIDE DEF P
<1>2. Chosen(b, P) = <<>>
  BY <1>1, NoneChosen
<1> QED
  BY <1>2 DEF Unsent, P

\* What was not looked up of a burst is all from the port it came in by.
LEMMA UnreadOfPort ==
  ASSUME NEW S, NEW b \in Seq(S), NEW d, Len(d) \in 0 .. Len(b), NEW pi, CameIn(b, pi), NEW p
  PROVE  Unread(b, d, p) = IF p = pi THEN From(b, Len(d)) ELSE <<>>
<1> DEFINE P == {x \in Len(d) + 1 .. Len(b) : b[x].in = p}
<1>0. Len(b) \in Nat /\ Len(d) \in Nat
  OBVIOUS
<1>1. CASE p = pi
  <2>1. P = Len(d) + 1 .. Len(b)
    <3>1. Len(d) + 1 .. Len(b) \subseteq 1 .. Len(b)
      BY <1>0
    <3> QED
      BY <1>1, <3>1 DEF CameIn
  <2>2. Chosen(b, Len(d) + 1 .. Len(b)) = SubSeq(b, Len(d) + 1, Len(b))
    <3> DEFINE z == Len(d) + 1
               e == Len(b)
    <3>1. z \in 1 .. Len(b) + 1 /\ e \in z - 1 .. Len(b)
      BY <1>0
    <3> HIDE DEF z, e
    <3>2. Chosen(b, z .. e) = SubSeq(b, z, e)
      BY <3>1, RangeChosen
    <3> QED
      BY <3>2 DEF z, e
  <2> QED
    BY <1>1, <2>1, <2>2 DEF Unread, From
<1>2. CASE p # pi
  <2>1. \A x \in 1 .. Len(b) : x \notin P
    BY <1>2 DEF CameIn
  <2> HIDE DEF P
  <2>2. Chosen(b, P) = <<>>
    BY <2>1, NoneChosen
  <2> QED
    BY <1>2, <2>2 DEF Unread, P
<1> QED
  BY <1>1, <1>2

LineOf(l, q) ==
  Line(txq[q][l], to_port[l], tosend[l], tx_mbufs[l][q], burst[l], dst_port[l], j[l], q)
RoutedByLine == [p \in Ports |-> [q \in EthPorts |-> OfPort(LineOf(LcoreOf(p), q), p)]]
Own(l) == {m \in Packet : LcoreOf(m.in) = l}
Early == {m \in Packet : ~m.late}

Quiet ==
  phase \notin {"run", "dead"} =>
    /\ \A p \in Ports : rxq[p] = <<>>
    /\ \A l \in Slaves : pc[l] = "top"
    /\ \A l \in Slaves : \A q \in EthPorts : txq[q][l] = <<>> /\ tx_mbufs[l][q] = <<>>
Dealt ==
  \A l \in Slaves : \A k \in 1 .. Len(rx_queue_list[l]) :
    /\ rx_queue_list[l][k] + 1 \in 1 .. Len(lcore_params)
    /\ lcore_params[rx_queue_list[l][k] + 1] = l
Owned == \A l \in Slaves : \A q \in EthPorts : LineOf(l, q) \in Seq(Own(l))
NoneLate ==
  ~AllInstalled => /\ \A p \in Ports : rxq[p] \in Seq(Early)
                   /\ \A l \in Slaves : burst[l] \in Seq(Early)
RefInv == OqInv /\ Quiet /\ Dealt /\ Owned /\ NoneLate

\* The line of an lcore for a port holds packets.
LEMMA LineOfTyped ==
  ASSUME OqInv, NEW l \in Slaves, NEW q \in EthPorts
  PROVE  LineOf(l, q) \in Seq(Packet)
<1> DEFINE t == txq[q][l]
           tp == to_port[l]
           ts == tosend[l]
           table == tx_mbufs[l][q]
           b == burst[l]
           d == dst_port[l]
           jj == j[l]
<1>1. t \in Seq(Packet) /\ ts \in Seq(Packet) /\ table \in Seq(Packet) /\ b \in Seq(Packet)
  BY DEF OqInv, CardOK, TxOK, FoundOK
<1> HIDE DEF t, tp, ts, table, b, d, jj
<1>2. Line(t, tp, ts, table, b, d, jj, q) \in Seq(Packet)
  BY <1>1, LineTyped
<1> QED
  BY <1>2 DEF LineOf, t, tp, ts, table, b, d, jj

\* All of a burst came in by one port.
LEMMA BurstCameIn ==
  ASSUME OqInv, NEW l \in Slaves
  PROVE  \E pi : CameIn(burst[l], pi)
<1>1. GoodLcore(l)
  BY DEF OqInv
<1>2. CASE pc[l] \in Working
  BY <1>1, <1>2 DEF GoodLcore, Good
<1>3. CASE pc[l] \notin Working
  <2>1. burst[l] = <<>>
    BY <1>1, <1>3 DEF GoodLcore, Good
  <2>2. CameIn(<<>>, 0)
    BY DEF CameIn
  <2> QED
    BY <2>1, <2>2
<1> QED
  BY <1>2, <1>3

\* Pending is what its line holds of port p.
LEMMA PendingByLine ==
  ASSUME OqInv, NEW l \in Slaves, NEW p, NEW q \in EthPorts
  PROVE  Pending(l, p, q) = OfPort(LineOf(l, q), p)
<1> DEFINE t == txq[q][l]
           tp == to_port[l]
           ts == tosend[l]
           table == tx_mbufs[l][q]
           b == burst[l]
           d == dst_port[l]
           jj == j[l]
<1>1. t \in Seq(Packet) /\ ts \in Seq(Packet) /\ table \in Seq(Packet) /\ b \in Seq(Packet)
  BY DEF OqInv, CardOK, TxOK, FoundOK
<1>2. PICK pi : CameIn(b, pi)
  BY BurstCameIn
<1> HIDE DEF t, tp, ts, table, b, d, jj
<1>3. OfPort(Line(t, tp, ts, table, b, d, jj, q), p) = Parts(t, tp, ts, table, b, d, jj, q, p)
  BY <1>1, <1>2, PendingOfLine
<1> QED
  BY <1>3 DEF LineOf, Pending, Parts, InGroups, t, tp, ts, table, b, d, jj

\* LcoreOf gives an lcore.
LEMMA LcoreOfIsSlave ==
  ASSUME NEW p
  PROVE  LcoreOf(p) \in Slaves
<1> DEFINE pollers == {l \in Slaves : \E k \in DOMAIN rx_queue_list[l] : rx_queue_list[l][k] = p}
<1>1. CASE pollers = {}
  BY <1>1, Numbers DEF LcoreOf, Slaves
<1>2. CASE pollers # {}
  <2>1. LcoreOf(p) = CHOOSE l \in pollers : TRUE
    BY <1>2 DEF LcoreOf
  <2>2. (CHOOSE l \in pollers : TRUE) \in pollers
    <3> HIDE DEF pollers
    <3> QED
      BY <1>2
  <2> QED
    BY <2>1, <2>2
<1> QED
  BY <1>1, <1>2

\* Routed can be told from the lines.
LEMMA RoutedIsByLine == OqInv => Routed = RoutedByLine
<1> SUFFICES ASSUME OqInv PROVE Routed = RoutedByLine
  OBVIOUS
<1>1. ASSUME NEW p \in Ports, NEW q \in EthPorts
      PROVE  Pending(LcoreOf(p), p, q) = OfPort(LineOf(LcoreOf(p), q), p)
  BY LcoreOfIsSlave, PendingByLine
<1> QED
  BY <1>1, Zenon DEF Routed, RoutedByLine

\* The port an lcore polls is its own.
LEMMA LcoreOfPolled ==
  ASSUME OqInv, Dealt, NEW l \in Slaves, i[l] \in 1 .. Len(rx_queue_list[l])
  PROVE  LcoreOf(Polled(l)) = l
<1> DEFINE p == Polled(l)
           pollers == {k \in Slaves : \E y \in DOMAIN rx_queue_list[k] : rx_queue_list[k][y] = p}
<1>1. \A k \in Slaves : DOMAIN rx_queue_list[k] = 1 .. Len(rx_queue_list[k])
  BY DEF OqInv, SetUpOK
<1>2. l \in pollers
  BY <1>1 DEF Polled
<1>3. \A k \in pollers : k = lcore_params[p + 1]
  BY <1>1 DEF Dealt
<1>4. pollers = {l}
  BY <1>2, <1>3
<1>5. LcoreOf(p) = CHOOSE k \in pollers : TRUE
  BY <1>2 DEF LcoreOf
<1> HIDE DEF pollers
<1> QED
  BY <1>4, <1>5

\* Packets move up in a line: what is taken from the burst goes behind the table,
\* and both go on to the card or stay in the table.
MovingUp(S, t, table, taken, ts2, table2) ==
  /\ t \in Seq(S) /\ table \in Seq(S) /\ taken \in Seq(S) /\ ts2 \in Seq(S) /\ table2 \in Seq(S)
  /\ Cat(ts2, table2) = Cat(table, taken)

\* Packets that move up from one place of a line to the next leave it as it was.
LEMMA MovedUp ==
  ASSUME NEW S, NEW t, NEW table, NEW taken, NEW ts2, NEW table2, MovingUp(S, t, table, taken, ts2, table2),
         NEW u \in Seq(S)
  PROVE  Cat(Cat(Cat(t, ts2), table2), u) = Cat(Cat(t, table), Cat(taken, u))
<1>0. /\ t \in Seq(S) /\ table \in Seq(S) /\ taken \in Seq(S) /\ ts2 \in Seq(S) /\ table2 \in Seq(S)
      /\ Cat(ts2, table2) = Cat(table, taken)
  BY DEF MovingUp
<1> DEFINE v == Cat(taken, u)
           w == Cat(table, taken)
<1>1. v \in Seq(S) /\ w \in Seq(S)
  BY <1>0, CatTyped
<1>2. Cat(Cat(t, ts2), table2) = Cat(t, w)
  BY <1>0, CatAssociative
<1>4. Cat(Cat(t, table), v) = Cat(t, Cat(table, v))
  BY <1>0, <1>1, CatAssociative
<1>5. Cat(table, v) = Cat(w, u)
  BY <1>0, CatAssociative
<1>6. Cat(Cat(t, w), u) = Cat(t, Cat(w, u))
  BY <1>0, <1>1, CatAssociative
<1> HIDE DEF v, w
<1> QED
  BY <1>2, <1>4, <1>5, <1>6 DEF v

\* These k packets go behind the table of q, whose packets and they become ts2 and table2.
HandingOn(S, b, d, jj, k, q, j2, t, table, ts2, table2) ==
  /\ ForPort(S, b, d, jj, k, q, j2)
  /\ MovingUp(S, t, table, SubSeq(b, jj, jj + k - 1), ts2, table2)

\* Packets that are handed on to be sent do not change their line.
LEMMA LineHanded ==
  ASSUME NEW S, NEW b, NEW d, NEW jj, NEW k, NEW q, NEW j2, NEW t, NEW table, NEW ts2, NEW table2,
         HandingOn(S, b, d, jj, k, q, j2, t, table, ts2, table2), NEW tp, NEW tp2, ts2 = <<>> \/ tp2 = q
  PROVE  Line(t, tp2, ts2, table2, b, d, j2, q) = Line(t, tp, <<>>, table, b, d, jj, q)
<1> DEFINE taken == SubSeq(b, jj, jj + k - 1)
<1>0. ForPort(S, b, d, jj, k, q, j2) /\ MovingUp(S, t, table, taken, ts2, table2)
  BY DEF HandingOn
<1> DEFINE u == Unsent(b, d, j2, q)
           v == Unsent(b, d, jj, q)
<1>1. v = Cat(taken, u)
  BY <1>0, UnsentTakes
<1>2. u \in Seq(S)
  BY <1>0, ChosenTyped DEF ForPort, Unsent
<1> HIDE DEF u, v, taken
<1>4. Cat(Cat(Cat(t, ts2), table2), u) = Cat(Cat(t, table), v)
  BY <1>0, <1>1, <1>2, MovedUp
<1>5. Held(tp2, ts2, q) = ts2 /\ Held(tp, <<>>, q) = <<>> /\ Cat(t, <<>>) = t
  BY <1>0, CatEmpty DEF Held, MovingUp
<1>6. Line(t, tp2, ts2, table2, b, d, j2, q) = Cat(Cat(Cat(t, Held(tp2, ts2, q)), table2), u)
  BY DEF Line, Cat, u
<1>7. Line(t, tp, <<>>, table, b, d, jj, q) = Cat(Cat(Cat(t, Held(tp, <<>>, q)), table), v)
  BY DEF Line, Cat, v
<1> QED
  BY <1>4, <1>5, <1>6, <1>7

\* Nor any other line.
LEMMA LineOfOthers ==
  ASSUME NEW S, NEW b, NEW d, NEW jj, NEW k, NEW port, NEW j2, ForPort(S, b, d, jj, k, port, j2),
         NEW t, NEW table, NEW ts2, NEW q, port # q, NEW tp, NEW tp2, ts2 = <<>> \/ tp2 = port
  PROVE  Line(t, tp2, ts2, table, b, d, j2, q) = Line(t, tp, <<>>, table, b, d, jj, q)
<1>1. Unsent(b, d, j2, q) = Unsent(b, d, jj, q)
  BY UnsentSkips
<1>2. Held(tp2, ts2, q) = <<>> /\ Held(tp, <<>>, q) = <<>>
  BY DEF Held
<1> QED
  BY <1>1, <1>2 DEF Line

\* An lcore hands k packets of its burst for a port on, to the table or the card.
LEMMA HandedOn ==
  ASSUME OqInv, NEW l \in Slaves, NEW port \in EthPorts, NEW k, tosend[l] = <<>>,
         ForPort(Packet, burst[l], dst_port[l], j[l], k, port, j[l] + k),
         NEW ts2, NEW table2, \A q \in EthPorts : MovingUp(Packet, txq[q][l], tx_mbufs[l][port],
                                SubSeq(burst[l], j[l], j[l] + k - 1), ts2, table2),
         NEW tp2, ts2 = <<>> \/ tp2 = port,
         UNCHANGED <<txq, burst, dst_port>>, j'[l] = j[l] + k, tosend'[l] = ts2, to_port'[l] = tp2,
         tx_mbufs' = [tx_mbufs EXCEPT ![l][port] = table2], NEW q \in EthPorts
  PROVE  LineOf(l, q)' = LineOf(l, q)
<1> DEFINE t == txq[q][l]
           tp == to_port[l]
           table == tx_mbufs[l][q]
           b == burst[l]
           d == dst_port[l]
           jj == j[l]
           taken == SubSeq(b, jj, jj + k - 1)
           j2 == jj + k
<1>3. tx_mbufs \in [Slaves -> [EthPorts -> Seq(Packet)]]
  BY DEF OqInv, TxOK
<1>4. LineOf(l, q)' = Line(t, tp2, ts2, tx_mbufs'[l][q], b, d, j2, q)
  BY DEF LineOf
<1>5. LineOf(l, q) = Line(t, tp, <<>>, table, b, d, jj, q)
  BY DEF LineOf
<1>8. ForPort(Packet, b, d, jj, k, port, j2)
  OBVIOUS
<1>6. CASE q = port
  <2>1. tx_mbufs'[l][q] = table2
    BY <1>3, <1>6
  <2>2. MovingUp(Packet, t, table, taken, ts2, table2)
    BY <1>6
  <2>3. ForPort(Packet, b, d, jj, k, q, j2)
    BY <1>6
  <2>6. ts2 = <<>> \/ tp2 = q
    BY <1>6
  <2>4. HandingOn(Packet, b, d, jj, k, q, j2, t, table, ts2, table2)
    BY <2>2, <2>3 DEF HandingOn
  <2> HIDE DEF t, tp, table, b, d, jj, taken, j2
  <2>5. Line(t, tp2, ts2, table2, b, d, j2, q) = Line(t, tp, <<>>, table, b, d, jj, q)
    BY <2>4, <2>6, LineHanded
  <2> QED
    BY <1>4, <1>5, <2>1, <2>5
<1>7. CASE q # port
  <2>1. tx_mbufs'[l][q] = table
    BY <1>3, <1>7
  <2> HIDE DEF t, tp, table, b, d, jj, taken, j2
  <2>5. Line(t, tp2, ts2, table, b, d, j2, q) = Line(t, tp, <<>>, table, b, d, jj, q)
    BY <1>7, <1>8, LineOfOthers
  <2> QED
    BY <1>4, <1>5, <2>1, <2>5
<1> QED
  BY <1>6, <1>7

\* The card takes the first n of the packets being sent.
LEMMA LineTaken ==
  ASSUME NEW S, NEW t \in Seq(S), NEW tp, NEW ts \in Seq(S), NEW n \in 0 .. Len(ts), NEW table, NEW b, NEW d, NEW jj
  PROVE  Line(t \o First(ts, n), tp, From(ts, n), table, b, d, jj, tp) = Line(t, tp, ts, table, b, d, jj, tp)
<1> DEFINE f == First(ts, n)
           g == From(ts, n)
<1>1. f \in Seq(S) /\ g \in Seq(S) /\ f \o g = ts
  BY TakenOff
<1> HIDE DEF f, g
<1>a. Cat(f, g) = ts
  BY <1>1 DEF Cat
<1>2. Cat(Cat(t, f), g) = Cat(t, ts)
  BY <1>1, <1>a, CatAssociative
<1>3. Line(t \o f, tp, g, table, b, d, jj, tp) = Line(t, tp, ts, table, b, d, jj, tp)
  BY <1>2 DEF Line, Held, Cat
<1> QED
  BY <1>3 DEF f, g

\* Nothing of a burst is left or looked up.
LEMMA LineOfNone ==
  ASSUME NEW S, NEW b \in Seq(S), NEW d, Len(d) \in Nat, NEW jj \in Nat, jj > Len(d),
         NEW b2 \in Seq(S), NEW d2, Len(d2) \in Nat, NEW j2 \in Nat, j2 > Len(d2), NEW t, NEW tp, NEW ts, NEW table, NEW q
  PROVE  Line(t, tp, ts, table, b2, d2, j2, q) = Line(t, tp, ts, table, b, d, jj, q)
<1>1. Unsent(b, d, jj, q) = <<>>
  BY UnsentNone
<1>2. Unsent(b2, d2, j2, q) = <<>>
  BY UnsentNone
<1> QED
  BY <1>1, <1>2 DEF Line

LinesKept == \A k \in Slaves : \A q \in EthPorts : LineOf(k, q)' = LineOf(k, q)

\* LcoreOf and Own depend on the lists only.
LEMMA LcoreOfSame ==
  ASSUME UNCHANGED rx_queue_list, NEW p
  PROVE  LcoreOf(p)' = LcoreOf(p)
BY DEF LcoreOf

LEMMA OwnSame ==
  ASSUME UNCHANGED rx_queue_list, NEW l
  PROVE  Own(l)' = Own(l)
BY DEF Own, LcoreOf

RoutedOK == Routed = RoutedByLine

\* RoutedIsByLine, after a step.
LEMMA RoutedIsByLineNext == OqInv' => Routed' = RoutedByLine'
<1>1. OqInv => RoutedOK
  BY RoutedIsByLine DEF RoutedOK
<1>2. OqInv' => RoutedOK'
  BY <1>1, PTL
<1> QED
  BY <1>2 DEF RoutedOK

\* A step that keeps the lines keeps the queues of the switch.
LEMMA RoutedSame ==
  ASSUME OqInv, OqInv', Owned, UNCHANGED rx_queue_list, LinesKept
  PROVE  Owned' /\ UNCHANGED Routed
<1>1. Routed = RoutedByLine
  BY RoutedIsByLine
<1>2. Routed' = RoutedByLine'
  BY RoutedIsByLineNext
<1>3. ASSUME NEW p \in Ports, NEW q \in EthPorts
      PROVE  OfPort(LineOf(LcoreOf(p), q), p)' = OfPort(LineOf(LcoreOf(p), q), p)
  <2>1. LcoreOf(p)' = LcoreOf(p) /\ LcoreOf(p) \in Slaves
    BY LcoreOfSame, LcoreOfIsSlave
  <2> DEFINE l == LcoreOf(p)
  <2>2. LineOf(l, q)' = LineOf(l, q)
    BY <2>1 DEF LinesKept
  <2> QED
    BY <2>1, <2>2
<1>4. RoutedByLine' = RoutedByLine
  BY <1>3 DEF RoutedByLine
<1>5. Owned'
  <2> SUFFICES ASSUME NEW l \in Slaves, NEW q \in EthPorts PROVE LineOf(l, q)' \in Seq(Own(l)')
    BY DEF Owned
  <2>1. Own(l)' = Own(l) /\ LineOf(l, q)' = LineOf(l, q)
    BY OwnSame DEF LinesKept
  <2> QED
    BY <2>1 DEF Owned
<1> QED
  BY <1>1, <1>2, <1>4, <1>5

\* Nothing was read or looked up.
LEMMA UnroutedSame ==
  ASSUME UNCHANGED <<rx_queue_list, burst, dst_port, rxq>>
  PROVE  UNCHANGED Unrouted
BY DEF Unrouted, NotLookedUp, LcoreOf

\* A step of lcore l keeps the lines of the others.
LEMMA OthersLines ==
  ASSUME NEW l \in Slaves, OthersSame(l), \A k \in Slaves \ {l} : \A q \in EthPorts : txq'[q][k] = txq[q][k],
         NEW k \in Slaves \ {l}, NEW q \in EthPorts
  PROVE  LineOf(k, q)' = LineOf(k, q)
BY DEF OthersSame, LineOf

\* So its own lines are what is left to see.
LEMMA LinesOfLcore ==
  ASSUME NEW l \in Slaves, OthersSame(l), \A k \in Slaves \ {l} : \A q \in EthPorts : txq'[q][k] = txq[q][k],
         \A q \in EthPorts : LineOf(l, q)' = LineOf(l, q)
  PROVE  LinesKept
<1> SUFFICES ASSUME NEW k \in Slaves, NEW q \in EthPorts PROVE LineOf(k, q)' = LineOf(k, q)
  BY DEF LinesKept
<1>1. CASE k = l
  BY <1>1
<1>2. CASE k # l
  BY <1>2, OthersLines
<1> QED
  BY <1>1, <1>2

\* Only where the loop is, and what was counted, changes.
LEMMA IdleLines ==
  ASSUME UNCHANGED <<txq, to_port, tosend, tx_mbufs, burst, dst_port, j>>
  PROVE  LinesKept
BY DEF LinesKept, LineOf

\* A table that is sent whole stays in its line.
LEMMA DrainLines ==
  ASSUME OqInv, NEW l \in Slaves, Drain(l)
  PROVE  LinesKept /\ UNCHANGED <<setup, rxq, wire, burst, dst_port>>
<1>1. PICK p \in EthPorts :
        /\ Send(l, p, tx_mbufs[l][p]) /\ tx_mbufs' = [tx_mbufs EXCEPT ![l][p] = <<>>]
  <2>1. NotEmpty(l) \subseteq EthPorts /\ NotEmpty(l) # {}
    BY DEF Drain, NotEmpty
  <2>2. (CHOOSE p \in NotEmpty(l) : \A q \in NotEmpty(l) : p <= q) \in EthPorts
    BY <2>1, FirstTable
  <2> QED
    BY <2>2 DEF Drain
<1>2. /\ pc[l] = "drain" /\ pc' = [pc EXCEPT ![l] = "draining"]
      /\ UNCHANGED <<setup, lpm, queues, elapsed, i, found, rest>>
  BY DEF Drain, At, Goto
<1>3. /\ to_port' = [to_port EXCEPT ![l] = p] /\ tosend' = [tosend EXCEPT ![l] = tx_mbufs[l][p]]
  BY <1>1 DEF Send
<1>4. OthersSame(l)
  BY <1>1, <1>2, <1>3 DEF OthersSame, found, OqInv, LoopOK, TxOK
<1>5. burst[l] = <<>> /\ dst_port[l] = <<>> /\ j[l] = 1 /\ tosend[l] = <<>>
  <2>1. Good("drain", i[l], rx_queue_list[l], burst[l], dst_port[l], pnum[l], j[l], tx_mbufs[l],
             tosend[l], to_port[l], rest[l])
    BY <1>2 DEF OqInv, GoodLcore
  <2> QED
    BY <2>1 DEF Good, Working, Sending
<1>6. tx_mbufs[l][p] \in Seq(Packet)
  BY DEF OqInv, TxOK
<1>7. ForPort(Packet, burst[l], dst_port[l], j[l], 0, p, j[l] + 0)
  <2>1. \A y \in 1 .. 1 + 0 - 1 : FALSE
    OBVIOUS
  <2> QED
    BY <1>5, <2>1 DEF ForPort
<1>8. \A q \in EthPorts : MovingUp(Packet, txq[q][l], tx_mbufs[l][p],
                                SubSeq(burst[l], j[l], j[l] + 0 - 1), tx_mbufs[l][p], <<>>)
  <2>1. SubSeq(burst[l], j[l], j[l] + 0 - 1) = <<>>
    BY <1>5
  <2>2. \A q \in EthPorts : txq[q][l] \in Seq(Packet)
    BY DEF OqInv, CardOK
  <2>3. ASSUME NEW q \in EthPorts
        PROVE  MovingUp(Packet, txq[q][l], tx_mbufs[l][p], <<>>, tx_mbufs[l][p], <<>>)
    <3> DEFINE s == tx_mbufs[l][p]
               t == txq[q][l]
    <3>1. s \in Seq(Packet) /\ t \in Seq(Packet) /\ <<>> \in Seq(Packet)
      BY <1>6, <2>2
    <3> HIDE DEF s, t
    <3>2. MovingUp(Packet, t, s, <<>>, s, <<>>)
      BY <3>1 DEF MovingUp
    <3> QED
      BY <3>2 DEF s, t
  <2> QED
    BY <2>1, <2>3
<1>9. j[l] + 0 = j[l]
  BY <1>5
<1>10. /\ tosend'[l] = tx_mbufs[l][p] /\ to_port'[l] = p /\ j'[l] = j[l] + 0
       /\ UNCHANGED <<txq, burst, dst_port>>
  BY <1>2, <1>3, <1>9 DEF found, queues, OqInv, TxOK
<1>11. ASSUME NEW q \in EthPorts PROVE LineOf(l, q)' = LineOf(l, q)
  BY <1>1, <1>5, <1>7, <1>8, <1>10, HandedOn
<1>12. LinesKept
  BY <1>4, <1>10, <1>11, LinesOfLcore
<1> QED
  BY <1>2, <1>12 DEF queues, found

\* So do packets that the card takes.
LEMMA TxBurstLines ==
  ASSUME OqInv, NEW l \in Slaves, TxBurst(l)
  PROVE  LinesKept /\ UNCHANGED <<setup, rxq, wire, burst, dst_port>>
<1> USE Numbers
<1> DEFINE p == to_port[l]
           s == tosend[l]
           t == txq[p][l]
<1>1. PICK n \in 1 .. Lesser(Len(s), TxRing - Len(t)) :
        /\ txq' = [txq EXCEPT ![p][l] = @ \o First(s, n)]
        /\ tosend' = [tosend EXCEPT ![l] = From(@, n)]
  BY DEF TxBurst
<1>2. UNCHANGED <<setup, lpm, arrived, rxq, wire, loop, found, tx_mbufs, to_port, rest>>
  BY DEF TxBurst
<1>3. p \in EthPorts /\ s \in Seq(Packet) /\ t \in Seq(Packet)
      /\ txq \in [EthPorts -> [Slaves -> Seq(Packet)]] /\ tosend \in [Slaves -> Seq(Packet)]
  BY DEF OqInv, TxOK, CardOK
<1>4. n \in 0 .. Len(s)
  <2> HIDE DEF s, t
  <2> QED
    BY <1>3 DEF Lesser
<1>9. OthersSame(l)
  BY <1>1, <1>2 DEF OthersSame, loop, found, OqInv, TxOK
<1>10. \A k \in Slaves \ {l} : \A q \in EthPorts : txq'[q][k] = txq[q][k]
  BY <1>1, <1>3
<1>11. txq'[p][l] = t \o First(s, n) /\ tosend'[l] = From(s, n)
       /\ UNCHANGED <<to_port, tx_mbufs, burst, dst_port, j>>
  BY <1>1, <1>2, <1>3 DEF found
<1>12. ASSUME NEW q \in EthPorts PROVE LineOf(l, q)' = LineOf(l, q)
  <2>1. CASE q = p
    <3> DEFINE table == tx_mbufs[l][q]
               b == burst[l]
               d == dst_port[l]
               jj == j[l]
    <3>1. Line(t \o First(s, n), p, From(s, n), table, b, d, jj, p) = Line(t, p, s, table, b, d, jj, p)
      <4> HIDE DEF t, p, s, table, b, d, jj
      <4> QED
        BY <1>3, <1>4, LineTaken
    <3> QED
      BY <1>11, <2>1, <3>1 DEF LineOf
  <2>2. CASE q # p
    <3>1. txq'[q][l] = txq[q][l]
      BY <1>1, <1>3, <2>2
    <3>2. Held(to_port'[l], tosend'[l], q) = Held(to_port[l], tosend[l], q)
      BY <1>11, <2>2 DEF Held
    <3> QED
      BY <1>11, <3>1, <3>2 DEF LineOf, Line
  <2> QED
    BY <2>1, <2>2
<1>13. LinesKept
  BY <1>9, <1>10, <1>12, LinesOfLcore
<1> QED
  BY <1>2, <1>13 DEF found

-----------------------------------------------------------------------------
(* Steps that move packets along their lines. *)

\* What was left of a group goes to its table.
LEMMA SentLines ==
  ASSUME OqInv, NEW l \in Slaves, Sent(l)
  PROVE  LinesKept /\ UNCHANGED <<setup, rxq, wire, burst, dst_port>>
<1> DEFINE p == to_port[l]
           b == burst[l]
           d == dst_port[l]
           jj == j[l]
           r == rest[l]
           left == SubSeq(b, jj, jj + r - 1)
<1>1. /\ pc[l] \in {"draining", "sending"} /\ tosend[l] = <<>>
      /\ \E c2 : pc' = [pc EXCEPT ![l] = c2]
      /\ tx_mbufs' = [tx_mbufs EXCEPT ![l][p] = left]
      /\ j' = [j EXCEPT ![l] = jj + r] /\ rest' = [rest EXCEPT ![l] = 0]
      /\ to_port' = [to_port EXCEPT ![l] = 0]
      /\ UNCHANGED <<setup, lpm, queues, elapsed, i, burst, dst_port, pnum, tosend>>
  BY DEF Sent, Goto
<1>2. p \in EthPorts /\ b \in Seq(Packet) /\ d \in Seq(EthPorts) /\ jj \in 1 .. MaxBurst + 1 /\ r \in 0 .. MaxBurst
  BY DEF OqInv, TxOK, FoundOK
<1>3. Good(pc[l], i[l], rx_queue_list[l], b, d, pnum[l], jj, tx_mbufs[l], tosend[l], p, r)
  BY DEF OqInv, GoodLcore
<1>4. /\ Len(d) <= Len(b) /\ jj + r <= Len(d) + 1 /\ tx_mbufs[l][p] = <<>>
      /\ \A y \in jj .. jj + r - 1 : d[y] = p
  <2> HIDE DEF p, b, d, jj, r
  <2>1. CASE pc[l] = "draining"
    BY <1>2, <1>3, <2>1 DEF Good, Working, Sending
  <2>2. CASE pc[l] = "sending"
    BY <1>2, <1>3, <2>2 DEF Good, Working, Grouping, Sending
  <2> QED
    BY <1>1, <2>1, <2>2
<1>5. left \in Seq(Packet)
  <2> DEFINE e == jj + r - 1
  <2> HIDE DEF b, d, jj, r
  <2>0. MaxBurst \in Nat /\ Len(d) \in Nat /\ Len(b) \in Nat
    BY <1>2, Numbers
  <2>1. jj \in Int /\ e \in Int /\ jj >= 1 /\ e <= Len(b)
    BY <1>2, <1>4, <2>0
  <2> HIDE DEF e
  <2>2. \A x \in jj .. e : b[x] \in Packet
    BY <1>2, <2>1
  <2>3. SubSeq(b, jj, e) \in Seq(Packet)
    BY <2>1, <2>2
  <2> QED
    BY <2>3 DEF e
<1>6. ForPort(Packet, b, d, jj, r, p, jj + r)
  <2> HIDE DEF p, b, d, jj, r
  <2> QED
    BY <1>2, <1>4, Numbers DEF ForPort
<1>7. \A q \in EthPorts : MovingUp(Packet, txq[q][l], tx_mbufs[l][p], SubSeq(b, jj, jj + r - 1), <<>>, left)
  <2>1. ASSUME NEW q \in EthPorts PROVE MovingUp(Packet, txq[q][l], <<>>, left, <<>>, left)
    <3> DEFINE t == txq[q][l]
    <3>1. t \in Seq(Packet)
      BY DEF OqInv, CardOK
    <3> HIDE DEF left, t
    <3>2. MovingUp(Packet, t, <<>>, left, <<>>, left)
      BY <1>5, <3>1 DEF MovingUp
    <3> QED
      BY <3>2 DEF t
  <2> QED
    BY <1>4, <2>1
<1>8. OthersSame(l)
  BY <1>1 DEF OthersSame, OqInv, LoopOK, TxOK, FoundOK
<1>9. /\ j'[l] = jj + r /\ tosend'[l] = <<>> /\ to_port'[l] = 0
      /\ UNCHANGED <<txq, burst, dst_port>>
  BY <1>1 DEF queues, OqInv, TxOK, FoundOK
<1>10. ASSUME NEW q \in EthPorts PROVE LineOf(l, q)' = LineOf(l, q)
  <2> HIDE DEF left
  <2> QED
    BY <1>1, <1>2, <1>6, <1>7, <1>9, HandedOn
<1>11. LinesKept
  BY <1>8, <1>9, <1>10, LinesOfLcore
<1> QED
  BY <1>1, <1>11 DEF queues

\* A group goes to the card or to its table.
LEMMA SendGroupLines ==
  ASSUME OqInv, NEW l \in Slaves, SendGroup(l)
  PROVE  LinesKept /\ UNCHANGED <<setup, rxq, wire, burst, dst_port>>
<1> DEFINE b == burst[l]
           d == dst_port[l]
           jj == j[l]
           port == GroupPort(l)
           num == GroupLen(l)
<1>0. SendingGroup(l)
  BY GroupHandedOn
<1>1. /\ pc[l] = "groups" /\ tosend[l] = <<>>
      /\ UNCHANGED <<setup, lpm, queues, elapsed, i, burst, dst_port, pnum>>
  BY <1>0 DEF SendingGroup
<1>2. Good("groups", i[l], rx_queue_list[l], b, d, pnum[l], jj, tx_mbufs[l], tosend[l], to_port[l], rest[l])
  BY <1>1 DEF OqInv, GoodLcore
<1>3. /\ d \in Seq(Nat) /\ jj \in 1 .. Len(d) /\ Len(d) \in 1 .. MaxBurst /\ Len(d) = Len(b)
      /\ b \in Seq(Packet)
  BY <1>0, <1>2 DEF SendingGroup, Good, Grouping, Working, OqInv, FoundOK
<1>4. num \in Nat \ {0} /\ jj + num <= Len(d) + 1 /\ port \in EthPorts
  BY <1>0 DEF SendingGroup
<1>5. \A y \in jj .. jj + num - 1 : d[y] = port
  <2> DEFINE pn == pnum[l]
  <2>1. num = pn[jj] /\ port = d[jj]
    BY DEF GroupLen, GroupPort
  <2> HIDE DEF b, d, jj, num, port
  <2> DEFINE ii == i[l]
             list == rx_queue_list[l]
             tables == tx_mbufs[l]
             ts == tosend[l]
             tp == to_port[l]
             r == rest[l]
  <2>2. Good("groups", ii, list, b, d, pn, jj, tables, ts, tp, r)
    BY <1>2
  <2> HIDE DEF pn, ii, list, tables, ts, tp, r
  <2> QED
    BY <1>3, <2>1, <2>2, GroupIsRun
<1>6. PICK k \in 1 .. num, c2 \in {"groups", "sending"}, ts2 \in Seq(Packet), tp2 \in EthPorts,
         table2 \in Seq(Packet) : num - k < MaxBurst /\ Handing(l, k, c2, ts2, tp2, table2)
  BY <1>0, Zenon DEF SendingGroup
<1>7. /\ c2 = "groups" => ts2 = <<>>
      /\ c2 = "sending" => tp2 = port
      /\ ts2 \o table2 = tx_mbufs[l][port] \o SubSeq(b, jj, jj + k - 1)
      /\ j' = [j EXCEPT ![l] = jj + k] /\ tx_mbufs' = [tx_mbufs EXCEPT ![l][port] = table2]
      /\ to_port' = [to_port EXCEPT ![l] = tp2] /\ tosend' = [tosend EXCEPT ![l] = ts2]
  BY <1>6 DEF Handing
<1>8. ts2 = <<>> \/ tp2 = port
  BY <1>7
<1>9. ForPort(Packet, b, d, jj, k, port, jj + k)
  <2> HIDE DEF num, port, b, d, jj
  <2>1. k \in Nat \ {0} /\ k <= num /\ jj \in Nat \ {0} /\ Len(d) \in Nat
    BY <1>3, <1>4, <1>6
  <2>2. jj + k <= Len(d) + 1
    BY <1>4, <2>1
  <2>3. \A y \in jj .. jj + k - 1 : d[y] = port
    BY <1>4, <1>5, <2>1
  <2> QED
    BY <1>3, <2>1, <2>2, <2>3 DEF ForPort
<1>10. \A q \in EthPorts : MovingUp(Packet, txq[q][l], tx_mbufs[l][port], SubSeq(b, jj, jj + k - 1), ts2, table2)
  <2>1. ASSUME NEW q \in EthPorts
        PROVE  MovingUp(Packet, txq[q][l], tx_mbufs[l][port], SubSeq(b, jj, jj + k - 1), ts2, table2)
    <3> DEFINE t == txq[q][l]
               table == tx_mbufs[l][port]
               taken == SubSeq(b, jj, jj + k - 1)
               e == jj + k - 1
    <3>1. t \in Seq(Packet)
      BY DEF OqInv, CardOK
    <3>2. table \in Seq(Packet)
      <4> HIDE DEF port
      <4> QED
        BY <1>4 DEF OqInv, TxOK
    <3>3. taken \in Seq(Packet)
      <4> HIDE DEF num, port, b, d, jj
      <4>1. jj \in Int /\ e \in Int /\ jj >= 1 /\ e <= Len(b)
        BY <1>3, <1>4, <1>6
      <4>2. taken = SubSeq(b, jj, e)
        OBVIOUS
      <4> HIDE DEF e, taken
      <4>3. \A x \in jj .. e : b[x] \in Packet
        BY <1>3, <4>1
      <4>4. SubSeq(b, jj, e) \in Seq(Packet)
        BY <4>1, <4>3
      <4> QED
        BY <4>2, <4>4
    <3>4. Cat(ts2, table2) = Cat(table, taken)
      BY <1>7 DEF Cat
    <3> HIDE DEF t, table, taken
    <3>5. MovingUp(Packet, t, table, taken, ts2, table2)
      BY <3>1, <3>2, <3>3, <3>4 DEF MovingUp
    <3> QED
      BY <3>5 DEF t, table, taken
  <2> QED
    BY <2>1
<1>11. OthersSame(l)
  BY <1>1, <1>4, <1>6 DEF OthersSame, OqInv, LoopOK, FoundOK, TxOK, Handing
<1>12. /\ j'[l] = jj + k /\ tosend'[l] = ts2 /\ to_port'[l] = tp2
       /\ UNCHANGED <<txq, burst, dst_port>>
  BY <1>1, <1>7 DEF queues, OqInv, TxOK, FoundOK
<1>13. ASSUME NEW q \in EthPorts PROVE LineOf(l, q)' = LineOf(l, q)
  <2> HIDE DEF port
  <2> QED
    BY <1>1, <1>4, <1>7, <1>8, <1>9, <1>10, <1>12, HandedOn
<1>14. LinesKept
  BY <1>11, <1>12, <1>13, LinesOfLcore
<1> QED
  BY <1>1, <1>14 DEF queues

\* A burst begins or ends: the lines of the lcore do not change.
LEMMA BurstLines ==
  ASSUME OqInv, OqInv', NEW l \in Slaves, OthersSame(l), UNCHANGED <<txq, tx_mbufs, to_port, tosend>>,
         j[l] > Len(dst_port[l]), j'[l] > Len(dst_port'[l])
  PROVE  LinesKept
<1>1. ASSUME NEW q \in EthPorts PROVE LineOf(l, q)' = LineOf(l, q)
  <2> DEFINE t == txq[q][l]
             tp == to_port[l]
             ts == tosend[l]
             table == tx_mbufs[l][q]
             b == burst[l]
             d == dst_port[l]
             jj == j[l]
             b2 == burst'[l]
             d2 == dst_port'[l]
             j2 == j'[l]
  <2>1. b \in Seq(Packet) /\ d \in Seq(EthPorts) /\ jj \in Nat
    BY Numbers DEF OqInv, FoundOK
  <2>2. b2 \in Seq(Packet) /\ d2 \in Seq(EthPorts) /\ j2 \in Nat
    BY Numbers DEF OqInv, FoundOK
  <2>3. LineOf(l, q)' = Line(t, tp, ts, table, b2, d2, j2, q)
    BY DEF LineOf
  <2>4. jj > Len(d) /\ j2 > Len(d2)
    OBVIOUS
  <2>5. LineOf(l, q) = Line(t, tp, ts, table, b, d, jj, q)
    BY DEF LineOf
  <2> HIDE DEF t, tp, ts, table, b, d, jj, b2, d2, j2
  <2>6. Len(d) \in Nat /\ Len(d2) \in Nat
    BY <2>1, <2>2
  <2>7. Line(t, tp, ts, table, b2, d2, j2, q) = Line(t, tp, ts, table, b, d, jj, q)
    <3>1. Unsent(b, d, jj, q) = <<>>
      BY <2>1, <2>4, <2>6, UnsentNone
    <3>2. Unsent(b2, d2, j2, q) = <<>>
      BY <2>2, <2>4, <2>6, UnsentNone
    <3> QED
      BY <3>1, <3>2 DEF Line
  <2> QED
    BY <2>3, <2>5, <2>7
<1> QED
  BY <1>1, LinesOfLcore

\* Nothing is unread when all of a burst was looked up.
LEMMA UnreadNone ==
  ASSUME NEW S, NEW b \in Seq(S), NEW d, Len(d) = Len(b), NEW p
  PROVE  Unread(b, d, p) = <<>>
<1> DEFINE P == {x \in Len(d) + 1 .. Len(b) : b[x].in = p}
<1>1. \A x \in 1 .. Len(b) : x \notin P
  OBVIOUS
<1> HIDE DEF P
<1>2. Chosen(b, P) = <<>>
  BY <1>1, NoneChosen
<1> QED
  BY <1>2 DEF Unread, P

\* What lcore l has not looked up goes in front of the rx queue of its port.
LEMMA UnroutedIs ==
  ASSUME NEW p \in Ports
  PROVE  Unrouted[p] = Unread(burst[LcoreOf(p)], dst_port[LcoreOf(p)], p) \o rxq[p]
BY DEF Unrouted, NotLookedUp, Unread

UnroutedOK == \A p \in Ports : Unrouted[p] = Unread(burst[LcoreOf(p)], dst_port[LcoreOf(p)], p) \o rxq[p]

\* UnroutedIs, after a step.
LEMMA UnroutedIsNext ==
  UnroutedOK'
<1>1. UnroutedOK
  BY UnroutedIs DEF UnroutedOK
<1> QED
  BY <1>1, PTL

\* The step of an lcore on its own burst, as it shows in what is not routed.
LEMMA UnroutedBy ==
  ASSUME NEW l \in Slaves, OthersSame(l), UNCHANGED rx_queue_list, NEW p \in Ports,
         LcoreOf(p) # l, rxq'[p] = rxq[p]
  PROVE  Unrouted'[p] = Unrouted[p]
<1>1. LcoreOf(p)' = LcoreOf(p) /\ LcoreOf(p) \in Slaves
  BY LcoreOfSame, LcoreOfIsSlave
<1>2. Unrouted'[p] = Unread(burst'[LcoreOf(p)'], dst_port'[LcoreOf(p)'], p) \o rxq'[p]
  BY UnroutedIsNext DEF UnroutedOK
<1>3. burst'[LcoreOf(p)] = burst[LcoreOf(p)] /\ dst_port'[LcoreOf(p)] = dst_port[LcoreOf(p)]
  BY <1>1 DEF OthersSame
<1> QED
  BY <1>1, <1>2, <1>3, UnroutedIs

\* The input of a port that lcore l polls, before and after a step.
LEMMA UnroutedOwn ==
  ASSUME NEW l \in Slaves, UNCHANGED rx_queue_list, NEW p \in Ports, LcoreOf(p) = l
  PROVE  /\ Unrouted[p] = Unread(burst[l], dst_port[l], p) \o rxq[p]
         /\ Unrouted'[p] = Unread(burst'[l], dst_port'[l], p) \o rxq'[p]
<1>1. LcoreOf(p)' = LcoreOf(p)
  BY LcoreOfSame
<1>2. Unrouted'[p] = Unread(burst'[LcoreOf(p)'], dst_port'[LcoreOf(p)'], p) \o rxq'[p]
  BY UnroutedIsNext DEF UnroutedOK
<1> QED
  BY <1>1, <1>2, UnroutedIs

\* Unrouted is a function on the ports.
LEMMA UnroutedFunction ==
  /\ Unrouted = [p \in Ports |-> Unrouted[p]]
  /\ Unrouted' = [p \in Ports |-> Unrouted'[p]]
BY DEF Unrouted

\* A burst is put away when none of it is left.
LEMMA GroupsSentLines ==
  ASSUME OqInv, OqInv', NEW l \in Slaves, GroupsSent(l)
  PROVE  LinesKept /\ UNCHANGED <<setup, wire, Unrouted>>
<1>1. /\ pc[l] = "groups" /\ j[l] > Len(burst[l])
      /\ burst' = [burst EXCEPT ![l] = <<>>] /\ dst_port' = [dst_port EXCEPT ![l] = <<>>]
      /\ pnum' = [pnum EXCEPT ![l] = <<>>] /\ j' = [j EXCEPT ![l] = 1]
      /\ i' = [i EXCEPT ![l] = i[l] + 1] /\ pc' = [pc EXCEPT ![l] = "poll"]
      /\ UNCHANGED <<setup, lpm, queues, elapsed, tx>>
  BY DEF GroupsSent, At, Goto
<1>2. Len(dst_port[l]) = Len(burst[l])
  <2>1. GoodLcore(l)
    BY DEF OqInv
  <2> QED
    BY <1>1, <2>1 DEF GoodLcore, Good, Grouping
<1>3. OthersSame(l)
  BY <1>1 DEF OthersSame, tx, OqInv, LoopOK, FoundOK
<1>4. j'[l] = 1 /\ dst_port'[l] = <<>> /\ burst'[l] = <<>> /\ burst[l] \in Seq(Packet)
  BY <1>1 DEF OqInv, FoundOK
<1>5. LinesKept
  <2>1. j[l] > Len(dst_port[l]) /\ j'[l] > Len(dst_port'[l])
    BY <1>1, <1>2, <1>4
  <2> QED
    BY <1>1, <1>3, <2>1, BurstLines DEF queues, tx
<1>6. ASSUME NEW p \in Ports PROVE Unrouted'[p] = Unrouted[p]
  <2>1. rxq'[p] = rxq[p] /\ UNCHANGED rx_queue_list
    BY <1>1 DEF queues, setup
  <2>2. CASE LcoreOf(p) # l
    BY <1>3, <2>1, <2>2, UnroutedBy
  <2>3. CASE LcoreOf(p) = l
    <3> DEFINE b == burst[l]
               d == dst_port[l]
    <3>1. Unread(b, d, p) = <<>>
      <4>1. b \in Seq(Packet) /\ Len(d) = Len(b)
        BY <1>2, <1>4
      <4> HIDE DEF b, d
      <4> QED
        BY <4>1, UnreadNone
    <3>2. Unread(<<>>, <<>>, p) = <<>>
      <4>1. <<>> \in Seq(Packet) /\ Len(<<>>) = Len(<<>>)
        OBVIOUS
      <4> QED
        BY <4>1, UnreadNone
    <3>3. /\ Unrouted[p] = Unread(b, d, p) \o rxq[p]
          /\ Unrouted'[p] = Unread(burst'[l], dst_port'[l], p) \o rxq'[p]
      BY <2>1, <2>3, UnroutedOwn
    <3> HIDE DEF b, d
    <3> QED
      BY <1>4, <2>1, <3>1, <3>2, <3>3
  <2> QED
    BY <2>2, <2>3
<1> QED
  BY <1>1, <1>5, <1>6, UnroutedFunction DEF queues

\* An lcore polls a port of the switch.
LEMMA PolledIsPort ==
  ASSUME OqInv, NEW l \in Slaves, i[l] <= Len(rx_queue_list[l])
  PROVE  i[l] \in 1 .. Len(rx_queue_list[l]) /\ Polled(l) \in Ports
<1>1. i[l] \in Nat \ {0} /\ rx_queue_list[l] \in Seq(Ports)
  BY DEF OqInv, SetUpOK, LoopOK
<1> QED
  BY <1>1 DEF Polled

\* A burst that is read stays in the input of its port.
LEMMA RxBurstLines ==
  ASSUME OqInv, OqInv', Dealt, NEW l \in Slaves, RxBurst(l)
  PROVE  LinesKept /\ UNCHANGED <<setup, wire, Unrouted>>
<1> USE Numbers
<1> DEFINE p == Polled(l)
           q == rxq[p]
           nb == Lesser(Len(q), MaxBurst)
<1>1. /\ pc[l] = "poll" /\ i[l] <= Len(rx_queue_list[l])
      /\ UNCHANGED <<setup, lpm, arrived, txq, wire, elapsed, dst_port, pnum, j, tx>>
  BY DEF RxBurst, At
<1>2. p \in Ports
  BY <1>1, PolledIsPort
<1>3. q \in Seq(Packet) /\ nb \in 0 .. Len(q) /\ nb <= MaxBurst
  <2>1. q \in Seq(Packet)
    BY <1>2 DEF OqInv, CardOK
  <2> HIDE DEF q
  <2> QED
    BY <2>1 DEF Lesser
<1>4. CASE nb = 0
  <2>1. UNCHANGED <<rxq, burst, pc>>
    BY <1>4 DEF RxBurst
  <2>2. LinesKept
    BY <1>1, <2>1, IdleLines DEF tx
  <2>3. UNCHANGED Unrouted
    BY <1>1, <2>1, UnroutedSame DEF setup
  <2> QED
    BY <1>1, <2>2, <2>3
<1>5. CASE nb # 0
  <2> DEFINE f == First(q, nb)
             g == From(q, nb)
  <2>1. /\ burst' = [burst EXCEPT ![l] = f] /\ rxq' = [rxq EXCEPT ![p] = g]
        /\ pc' = [pc EXCEPT ![l] = "lookup"] /\ UNCHANGED i
    BY <1>5 DEF RxBurst, Goto
  <2>2. f \in Seq(Packet) /\ f \o g = q /\ Len(f) \in Nat
    <3> HIDE DEF q, nb
    <3> QED
      BY <1>3, TakenOff
  <2>3. CameIn(f, p)
    <3>1. CameIn(q, p)
      BY <1>2 DEF OqInv, CardOK
    <3> HIDE DEF q, nb
    <3> QED
      BY <1>3, <3>1, CameInParts
  <2> HIDE DEF f, g
  <2>4. OthersSame(l)
    BY <1>1, <2>1 DEF OthersSame, tx, OqInv, LoopOK, FoundOK
  <2>5. burst[l] = <<>> /\ dst_port[l] = <<>> /\ j[l] = 1
    <3>1. GoodLcore(l)
      BY DEF OqInv
    <3> QED
      BY <1>1, <3>1 DEF GoodLcore, Good, Working
  <2>6. burst'[l] = f /\ dst_port'[l] = <<>> /\ j'[l] = 1 /\ UNCHANGED rx_queue_list
    BY <1>1, <2>1, <2>5 DEF setup, OqInv, FoundOK
  <2>7. LinesKept
    <3>1. j[l] > Len(dst_port[l]) /\ j'[l] > Len(dst_port'[l])
      BY <2>5, <2>6
    <3> QED
      BY <1>1, <2>4, <3>1, BurstLines DEF tx
  <2>8. LcoreOf(p) = l
    <3>1. i[l] \in 1 .. Len(rx_queue_list[l])
      BY <1>1, PolledIsPort
    <3> QED
      BY <3>1, LcoreOfPolled
  <2>9. Unread(<<>>, <<>>, p) = <<>> /\ Unread(f, <<>>, p) = f
    <3>1. <<>> \in Seq(Packet) /\ Len(<<>>) = Len(<<>>)
      OBVIOUS
    <3>2. Unread(<<>>, <<>>, p) = <<>>
      BY <3>1, UnreadNone
    <3>3. Len(<<>>) \in 0 .. Len(f)
      BY <2>2
    <3>4. Unread(f, <<>>, p) = From(f, Len(<<>>))
      BY <2>2, <2>3, <3>3, UnreadOfPort
    <3>5. From(f, Len(<<>>)) = f
      BY <2>2, SubSeqFull DEF From
    <3> QED
      BY <3>2, <3>4, <3>5
  <2>10. ASSUME NEW o \in Ports PROVE Unrouted'[o] = Unrouted[o]
    <3>1. CASE o = p
      <4>1. Unrouted[p] = Unread(<<>>, <<>>, p) \o q /\ Unrouted'[p] = Unread(f, <<>>, p) \o rxq'[p]
        BY <1>2, <2>5, <2>6, <2>8, UnroutedOwn
      <4>2. rxq'[p] = g
        BY <1>2, <2>1 DEF OqInv, CardOK
      <4>3. <<>> \o q = q
        BY <1>3, ConcatEmptySeq
      <4> QED
        BY <2>2, <2>9, <3>1, <4>1, <4>2, <4>3
    <3>2. CASE o # p /\ LcoreOf(o) = l
      <4>1. Unrouted[o] = Unread(<<>>, <<>>, o) \o rxq[o] /\ Unrouted'[o] = Unread(f, <<>>, o) \o rxq'[o]
        BY <2>5, <2>6, <3>2, UnroutedOwn
      <4>2. rxq'[o] = rxq[o]
        BY <2>1, <3>2 DEF OqInv, CardOK
      <4>3. <<>> \in Seq(Packet) /\ Len(<<>>) = Len(<<>>) /\ Len(<<>>) \in 0 .. Len(f)
        BY <2>2
      <4>4. Unread(<<>>, <<>>, o) = <<>>
        BY <4>3, UnreadNone
      <4>5. Unread(f, <<>>, o) = <<>>
        BY <2>2, <2>3, <3>2, <4>3, UnreadOfPort
      <4> QED
        BY <4>1, <4>2, <4>4, <4>5
    <3>3. CASE o # p /\ LcoreOf(o) # l
      <4>1. rxq'[o] = rxq[o]
        BY <2>1, <3>3 DEF OqInv, CardOK
      <4> QED
        BY <2>4, <2>6, <3>3, <4>1, UnroutedBy
    <3> QED
      BY <3>1, <3>2, <3>3
  <2> QED
    BY <1>1, <2>7, <2>10, UnroutedFunction
<1> QED
  BY <1>4, <1>5

-----------------------------------------------------------------------------
(* Steps that are seen: Route, Deliver and Accept. *)

\* A packet that is looked up comes to the end of the line of its port.
LookingUp(S, D, b, d, jj, e, m, t, ts, table) ==
  /\ b \in Seq(S) /\ d \in Seq(D) /\ e \in D /\ Len(d) < Len(b) /\ m = b[Len(d) + 1]
  /\ jj \in Nat \ {0} /\ jj <= Len(d) + 1 /\ t \in Seq(S) /\ ts \in Seq(S) /\ table \in Seq(S)

\* A packet that is looked up goes to the end of one line.
LEMMA LineLooksUp ==
  ASSUME NEW S, NEW D, NEW b, NEW d, NEW jj, NEW e, NEW m, NEW t, NEW ts, NEW table,
         LookingUp(S, D, b, d, jj, e, m, t, ts, table), NEW tp, NEW q
  PROVE  /\ e = q => Line(t, tp, ts, table, b, Behind(d, e), jj, q) = Behind(Line(t, tp, ts, table, b, d, jj, q), m)
         /\ e # q => Line(t, tp, ts, table, b, Behind(d, e), jj, q) = Line(t, tp, ts, table, b, d, jj, q)
<1>0. /\ b \in Seq(S) /\ d \in Seq(D) /\ e \in D /\ Len(d) < Len(b) /\ m = b[Len(d) + 1]
      /\ jj \in Nat \ {0} /\ jj <= Len(d) + 1 /\ t \in Seq(S) /\ ts \in Seq(S) /\ table \in Seq(S)
  BY DEF LookingUp
<1> DEFINE h == Held(tp, ts, q)
           front == t \o h \o table
           u == Unsent(b, d, jj, q)
           v == Unsent(b, Append(d, e), jj, q)
<1>1. h \in Seq(S) /\ u \in Seq(S) /\ m \in S
  <2>1. Len(d) + 1 \in 1 .. Len(b)
    BY <1>0
  <2> QED
    BY <1>0, <2>1, HeldTyped, ChosenTyped, ElementOfSeq DEF Unsent
<1>2. v = IF e = q THEN Append(u, m) ELSE u
  BY <1>0, UnsentLooksUp
<1> HIDE DEF h, u, v
<1>3. front \in Seq(S)
  BY <1>0, <1>1
<1>4. Line(t, tp, ts, table, b, Append(d, e), jj, q) = front \o v /\ Line(t, tp, ts, table, b, d, jj, q) = front \o u
  BY DEF Line, h, u, v
<1> HIDE DEF front
<1>5. front \o Append(u, m) = Append(front \o u, m)
  BY <1>1, <1>3
<1> QED
  BY <1>2, <1>4, <1>5 DEF Behind

\* The first packet after the first n.
LEMMA OneTaken ==
  ASSUME NEW S, NEW b \in Seq(S), NEW n \in Nat, n < Len(b)
  PROVE  /\ From(b, n) \in Seq(S) /\ From(b, n) # <<>> /\ Head(From(b, n)) = b[n + 1]
         /\ Tail(From(b, n)) = From(b, n + 1)
<1> DEFINE f == From(b, n)
           k == n + 1
           g == From(b, k)
<1>0. Len(b) \in Nat /\ n \in 0 .. Len(b) /\ k \in 0 .. Len(b)
  OBVIOUS
<1>1. /\ f \in Seq(S) /\ Len(f) = Len(b) - n
      /\ \A x \in 1 .. Len(b) - n : f[x] = b[n + x]
  BY <1>0, TakenOff
<1> HIDE DEF k
<1>2. /\ g \in Seq(S) /\ Len(g) = Len(b) - k
      /\ \A x \in 1 .. Len(b) - k : g[x] = b[k + x]
  BY <1>0, TakenOff
<1> HIDE DEF f, g
<1>3. f # <<>> /\ Head(f) = f[1] /\ f[1] = b[n + 1]
  BY <1>0, <1>1
<1>4. /\ Tail(f) \in Seq(S) /\ Len(Tail(f)) = Len(f) - 1
      /\ \A x \in 1 .. Len(f) - 1 : Tail(f)[x] = f[x + 1]
  BY <1>1, <1>3
<1> DEFINE t == Tail(f)
<1>5. Len(t) = Len(g)
  BY <1>0, <1>1, <1>2, <1>4 DEF k
<1>6. \A x \in 1 .. Len(t) : t[x] = g[x]
  <2> SUFFICES ASSUME NEW x \in 1 .. Len(f) - 1 PROVE Tail(f)[x] = g[x]
    BY <1>4
  <2>1. x + 1 \in 1 .. Len(b) - n /\ x \in 1 .. Len(b) - k /\ n + (x + 1) = k + x
    BY <1>0, <1>1 DEF k
  <2> QED
    BY <1>1, <1>2, <1>4, <2>1
<1>7. t = g
  <2>1. t \in Seq(S)
    BY <1>4
  <2> HIDE DEF t
  <2> QED
    BY <1>2, <1>5, <1>6, <2>1, SeqEqual
<1> QED
  BY <1>1, <1>3, <1>7 DEF f, g, k

\* A rule installed for all lcores, or the port the packet came in by.
LEMMA DstPortAllowed ==
  ASSUME OqInv, NoneLate, NEW l \in Slaves, NEW m, m.in = Polled(l), m.late => AllInstalled
  PROVE  DstPort(l, m) \in Allowed(m)
<1>1. machine.lcore[l] \in Sockets
  <2>1. l \in Lcores
    BY Numbers DEF Slaves, Lcores
  <2> QED
    BY <2>1 DEF Sockets
<1>2. lpm[machine.lcore[l]] \in 0 .. Len(Rules)
  BY <1>1 DEF OqInv, LpmOK
<1> DEFINE k == lpm[machine.lcore[l]]
           hit == Rule(m.ip, k)
<1>3. CASE hit = {}
  <2>1. DstPort(l, m) = m.in
    BY <1>3 DEF DstPort
  <2>2. ~(m.late /\ RulesFor(m) # {})
    <3>1. CASE ~m.late
      BY <3>1
    <3>2. CASE m.late
      <4>1. k = Len(Rules)
        BY <1>1, <3>2 DEF AllInstalled
      <4> QED
        BY <1>3, <4>1 DEF RulesFor
    <3> QED
      BY <3>1, <3>2
  <2> QED
    BY <2>1, <2>2 DEF Allowed
<1>4. CASE hit # {}
  <2>1. DstPort(l, m) = Rules[CHOOSE r \in hit : TRUE].port
    BY <1>4 DEF DstPort
  <2>2. (CHOOSE r \in hit : TRUE) \in RulesFor(m)
    <3> DEFINE h == hit
    <3>1. h = Rule(m.ip, k) /\ k \in 0 .. Len(Rules) /\ h # {}
      BY <1>2, <1>4
    <3> HIDE DEF h, k
    <3>2. (CHOOSE r \in h : TRUE) \in Rule(m.ip, Len(Rules))
      BY <3>1, RulePort
    <3> QED
      BY <3>2 DEF h, RulesFor
  <2> QED
    BY <2>1, <2>2 DEF Allowed
<1> QED
  BY <1>3, <1>4

\* Only the line of lcore l for port e changes, by packets of port p.
LEMMA RoutedOnly ==
  ASSUME OqInv, OqInv', UNCHANGED rx_queue_list, NEW l \in Slaves, NEW e \in EthPorts, NEW p \in Ports,
         LcoreOf(p) = l,
         \A k \in Slaves : \A q \in EthPorts : k # l \/ q # e => LineOf(k, q)' = LineOf(k, q),
         \A o \in Ports : o # p => OfPort(LineOf(l, e)', o) = OfPort(LineOf(l, e), o)
  PROVE  /\ Routed[p][e] = OfPort(LineOf(l, e), p)
         /\ Routed' = [Routed EXCEPT ![p][e] = OfPort(LineOf(l, e)', p)]
<1>1. Routed = RoutedByLine /\ Routed' = RoutedByLine'
  BY RoutedIsByLine, RoutedIsByLineNext
<1>2. Routed[p][e] = OfPort(LineOf(l, e), p)
  BY <1>1 DEF RoutedByLine
<1> DEFINE new == OfPort(LineOf(l, e)', p)
           F(o, q) == IF o = p /\ q = e THEN new ELSE OfPort(LineOf(LcoreOf(o), q), o)
<1>3. ASSUME NEW o \in Ports, NEW q \in EthPorts
      PROVE  OfPort(LineOf(LcoreOf(o), q), o)' = F(o, q)
  <2>1. LcoreOf(o)' = LcoreOf(o) /\ LcoreOf(o) \in Slaves
    BY LcoreOfSame, LcoreOfIsSlave
  <2>a. PICK k \in Slaves : LcoreOf(o) = k
    BY <2>1
  <2>2. OfPort(LineOf(LcoreOf(o), q), o)' = OfPort(LineOf(k, q)', o)
    BY <2>1, <2>a
  <2>3. CASE k # l \/ q # e
    <3>1. LineOf(k, q)' = LineOf(k, q)
      BY <2>1, <2>3
    <3> QED
      BY <2>2, <2>3, <2>a, <3>1
  <2>4. CASE k = l /\ q = e /\ o # p
    BY <2>2, <2>a, <2>4
  <2>5. CASE k = l /\ q = e /\ o = p
    BY <2>2, <2>a, <2>5
  <2> QED
    BY <2>3, <2>4, <2>5
<1>4. RoutedByLine' = [o \in Ports |-> [q \in EthPorts |-> F(o, q)]]
  <2> HIDE DEF F
  <2> QED
    BY <1>3, Zenon DEF RoutedByLine
<1>5. [RoutedByLine EXCEPT ![p][e] = new] = [o \in Ports |-> [q \in EthPorts |-> F(o, q)]]
  <2> HIDE DEF new
  <2> QED
    BY DEF RoutedByLine
<1> QED
  BY <1>1, <1>2, <1>4, <1>5

\* To look a packet up is Route in the switch.
LEMMA LookupRoutes ==
  ASSUME OqInv, OqInv', Dealt, Owned, NoneLate, NEW l \in Slaves, Lookup(l),
         NEW p, p = Polled(l), NEW m, m = burst[l][Len(dst_port[l]) + 1], NEW e, e = DstPort(l, m)
  PROVE  Owned' /\ OQ!Next
<1> DEFINE b == burst[l]
           d == dst_port[l]
           n == Len(d)
<1>1. /\ pc[l] = "lookup" /\ n < Len(b) /\ dst_port' = [dst_port EXCEPT ![l] = Append(d, e)]
      /\ UNCHANGED <<setup, lpm, queues, loop, burst, pnum, j, tx>>
  BY DEF Lookup, At
<1>2. i[l] \in 1 .. Len(rx_queue_list[l]) /\ CameIn(b, p) /\ j[l] = 1
  <2>1. GoodLcore(l)
    BY DEF OqInv
  <2> QED
    BY <1>1, <2>1 DEF GoodLcore, Good, Working, Polled
<1>3. b \in Seq(Packet) /\ d \in Seq(EthPorts) /\ dst_port \in [Slaves -> Seq(EthPorts)]
  <2> HIDE DEF b, d
  <2> QED
    BY DEF b, d, OqInv, FoundOK
<1>a. m = b[n + 1]
  OBVIOUS
<1>4. n \in Nat /\ n + 1 \in 1 .. Len(b) /\ m \in Packet /\ m.in = p
  <2> HIDE DEF b, d
  <2>1. n \in Nat /\ n + 1 \in 1 .. Len(b)
    BY <1>1, <1>3
  <2> QED
    BY <1>2, <1>3, <1>a, <2>1, ElementOfSeq DEF CameIn
<1>5. p \in Ports /\ e \in EthPorts /\ LcoreOf(p) = l
  BY <1>2, DstPortIsPort, LcoreOfPolled
<1>6. m.late => AllInstalled
  <2>1. SUFFICES ASSUME ~AllInstalled PROVE ~m.late
    OBVIOUS
  <2>2. b \in Seq(Early)
    BY <2>1 DEF NoneLate
  <2>3. m \in Early
    <3> HIDE DEF b, n
    <3> QED
      BY <1>4, <1>a, <2>2, ElementOfSeq
  <2> QED
    BY <2>3 DEF Early
<1>7. e \in Allowed(m)
  BY <1>4, <1>6, DstPortAllowed
<1>8. dst_port'[l] = Append(d, e) /\ UNCHANGED <<rx_queue_list, txq, rxq, wire, burst, j, tx_mbufs, tosend, to_port>>
  BY <1>1, <1>3 DEF setup, queues, tx
<1>9. OthersSame(l)
  BY <1>1, <1>3 DEF OthersSame, loop, tx
<1>10. ASSUME NEW q \in EthPorts
       PROVE  LineOf(l, q)' = IF e = q THEN Append(LineOf(l, q), m) ELSE LineOf(l, q)
  <2> DEFINE t == txq[q][l]
             tp == to_port[l]
             ts == tosend[l]
             table == tx_mbufs[l][q]
             jj == j[l]
  <2>1. t \in Seq(Packet) /\ ts \in Seq(Packet) /\ table \in Seq(Packet)
    <3> HIDE DEF t, ts, table
    <3>1. txq \in [EthPorts -> [Slaves -> Seq(Packet)]] /\ tosend \in [Slaves -> Seq(Packet)]
          /\ tx_mbufs \in [Slaves -> [EthPorts -> Seq(Packet)]]
      BY DEF OqInv, CardOK, TxOK
    <3> QED
      BY <3>1 DEF t, ts, table
  <2>2. jj \in Nat \ {0} /\ jj <= n + 1
    <3> HIDE DEF n
    <3> QED
      BY <1>2, <1>4
  <2>3. LineOf(l, q) = Line(t, tp, ts, table, b, d, jj, q)
    BY DEF LineOf
  <2>4. LineOf(l, q)' = Line(t, tp, ts, table, b, Append(d, e), jj, q)
    BY <1>8 DEF LineOf
  <2>5. LookingUp(Packet, EthPorts, b, d, jj, e, m, t, ts, table)
    BY <1>1, <1>3, <1>5, <2>1, <2>2 DEF LookingUp
  <2> HIDE DEF t, tp, ts, table, jj, b, d, n
  <2>6. /\ e = q => Line(t, tp, ts, table, b, Behind(d, e), jj, q) = Behind(Line(t, tp, ts, table, b, d, jj, q), m)
        /\ e # q => Line(t, tp, ts, table, b, Behind(d, e), jj, q) = Line(t, tp, ts, table, b, d, jj, q)
    BY <2>5, LineLooksUp
  <2> QED
    BY <2>3, <2>4, <2>6 DEF Behind
<1>11. \A k \in Slaves : \A q \in EthPorts : k # l \/ q # e => LineOf(k, q)' = LineOf(k, q)
  <2> SUFFICES ASSUME NEW k \in Slaves, NEW q \in EthPorts, k # l \/ q # e PROVE LineOf(k, q)' = LineOf(k, q)
    OBVIOUS
  <2>1. CASE k = l
    BY <1>10, <2>1
  <2>2. CASE k # l
    BY <1>8, <1>9, <2>2, OthersLines
  <2> QED
    BY <2>1, <2>2
<1>12. LineOf(l, e) \in Seq(Packet) /\ LineOf(l, e)' = Append(LineOf(l, e), m)
  BY <1>5, <1>10, LineOfTyped
<1>13. \A o : OfPort(LineOf(l, e)', o) =
                IF m.in = o THEN Append(OfPort(LineOf(l, e), o), m) ELSE OfPort(LineOf(l, e), o)
  <2> DEFINE s == LineOf(l, e)
  <2> HIDE DEF s
  <2>1. \A o : OfPort(Append(s, m), o) = IF m.in = o THEN Append(OfPort(s, o), m) ELSE OfPort(s, o)
    <3>1. s \in Seq(Packet) /\ m \in Packet
      BY <1>4, <1>12 DEF s
    <3>2. ASSUME NEW o
          PROVE  /\ m.in = o => OfPort(Behind(s, m), o) = Behind(OfPort(s, o), m)
                 /\ m.in # o => OfPort(Behind(s, m), o) = OfPort(s, o)
      BY <3>1, OfPortOfAppend
    <3> QED
      BY <3>2 DEF Behind
  <2> QED
    BY <1>12, <2>1 DEF s
<1>14. Routed[p][e] = OfPort(LineOf(l, e), p) /\ Routed' = [Routed EXCEPT ![p][e] = OfPort(LineOf(l, e)', p)]
  <2>1. \A o \in Ports : o # p => OfPort(LineOf(l, e)', o) = OfPort(LineOf(l, e), o)
    BY <1>4, <1>13
  <2> QED
    BY <1>5, <1>8, <1>11, <2>1, RoutedOnly
<1>15. Routed' = [Routed EXCEPT ![p][e] = Append(@, m)]
  <2>1. OfPort(LineOf(l, e)', p) = Append(Routed[p][e], m)
    BY <1>4, <1>13, <1>14
  <2>2. Routed = [o \in Ports |-> [q \in EthPorts |-> Pending(LcoreOf(o), o, q)]]
    BY DEF Routed
  <2> QED
    BY <1>5, <1>14, <2>1, <2>2
<1>16. /\ Unrouted[p] # <<>> /\ Head(Unrouted[p]) = m /\ Unrouted'[p] = Tail(Unrouted[p])
  <2> DEFINE r == rxq[p]
  <2>1. Unrouted[p] = Unread(b, d, p) \o r /\ Unrouted'[p] = Unread(b, Append(d, e), p) \o r
    <3>1. Unrouted[p] = Unread(burst[l], dst_port[l], p) \o rxq[p]
          /\ Unrouted'[p] = Unread(burst'[l], dst_port'[l], p) \o rxq'[p]
      BY <1>5, <1>8, UnroutedOwn
    <3> QED
      BY <1>8, <3>1
  <2>2. r \in Seq(Packet)
    BY <1>5 DEF OqInv, CardOK
  <2>3. n < Len(b) /\ n = Len(d) /\ m = b[n + 1]
    BY <1>1
  <2> HIDE DEF b, d, n, r
  <2>4. Len(Append(d, e)) = n + 1 /\ n + 1 \in 0 .. Len(b) /\ n \in 0 .. Len(b) /\ Len(b) \in Nat
    BY <1>3, <1>4, <1>5, <2>3
  <2>5. Unread(b, d, p) = From(b, n)
    BY <1>2, <1>3, <2>3, <2>4, UnreadOfPort
  <2>6. Unread(b, Append(d, e), p) = From(b, n + 1)
    <3> DEFINE a == Append(d, e)
    <3>1. Len(a) = n + 1 /\ Len(a) \in 0 .. Len(b)
      BY <2>4
    <3> HIDE DEF a
    <3>2. Unread(b, a, p) = From(b, Len(a))
      BY <1>2, <1>3, <3>1, UnreadOfPort
    <3> QED
      BY <3>1, <3>2 DEF a
  <2> DEFINE f == From(b, n)
             g == From(b, n + 1)
  <2>7. f \in Seq(Packet) /\ f # <<>> /\ Head(f) = m /\ Tail(f) = g
    BY <1>3, <1>4, <2>3, <2>4, OneTaken
  <2> HIDE DEF f, g
  <2>8. f \o r # <<>> /\ Head(f \o r) = Head(f) /\ Tail(f \o r) = Tail(f) \o r
    BY <2>2, <2>7
  <2> QED
    BY <2>1, <2>5, <2>6, <2>7, <2>8 DEF f, g
<1>17. \A o \in Ports : o # p => Unrouted'[o] = Unrouted[o]
  <2> SUFFICES ASSUME NEW o \in Ports, o # p PROVE Unrouted'[o] = Unrouted[o]
    OBVIOUS
  <2>1. CASE LcoreOf(o) # l
    BY <1>8, <1>9, <2>1, UnroutedBy
  <2>2. CASE LcoreOf(o) = l
    <3> DEFINE a == Append(d, e)
    <3>1. Unrouted[o] = Unread(b, d, o) \o rxq[o] /\ Unrouted'[o] = Unread(b, a, o) \o rxq[o]
      <4>1. Unrouted[o] = Unread(burst[l], dst_port[l], o) \o rxq[o]
            /\ Unrouted'[o] = Unread(burst'[l], dst_port'[l], o) \o rxq'[o]
        BY <1>8, <2>2, UnroutedOwn
      <4> QED
        BY <1>8, <4>1
    <3>2. Len(d) \in 0 .. Len(b) /\ Len(a) \in 0 .. Len(b)
      <4> HIDE DEF b, d
      <4> QED
        BY <1>1, <1>3, <1>4, <1>5
    <3> HIDE DEF b, d, a
    <3>3. Unread(b, d, o) = <<>>
      BY <1>2, <1>3, <3>2, UnreadOfPort
    <3>4. Unread(b, a, o) = <<>>
      BY <1>2, <1>3, <3>2, UnreadOfPort
    <3> QED
      BY <3>1, <3>3, <3>4
  <2> QED
    BY <2>1, <2>2
<1>18. Unrouted' = [Unrouted EXCEPT ![p] = Tail(@)]
  <2>1. [Unrouted EXCEPT ![p] = Tail(@)] = [o \in Ports |-> IF o = p THEN Tail(Unrouted[p]) ELSE Unrouted[o]]
    BY UnroutedFunction
  <2> QED
    BY <1>16, <1>17, <2>1, UnroutedFunction
<1>19. OQ!Route(p, e)
  BY <1>7, <1>8, <1>15, <1>16, <1>18 DEF OQ!Route
<1>20. Owned'
  <2> SUFFICES ASSUME NEW k \in Slaves, NEW q \in EthPorts PROVE LineOf(k, q)' \in Seq(Own(k)')
    BY DEF Owned
  <2>1. Own(k)' = Own(k) /\ LineOf(k, q) \in Seq(Own(k))
    BY <1>8, OwnSame DEF Owned
  <2>2. CASE k # l \/ q # e
    BY <1>11, <2>1, <2>2
  <2>3. CASE k = l /\ q = e
    <3>1. m \in Own(l)
      BY <1>4, <1>5 DEF Own
    <3>2. LineOf(l, e) \in Seq(Own(l))
      BY <2>1, <2>3
    <3>3. Append(LineOf(l, e), m) \in Seq(Own(l))
      BY <3>1, <3>2
    <3> QED
      BY <1>12, <2>1, <2>3, <3>3
  <2> QED
    BY <2>2, <2>3
<1> QED
  BY <1>5, <1>19, <1>20 DEF OQ!Next

\* The first packet of a line leaves.
Leaving(S, t, ts, table, b) ==
  t \in Seq(S) /\ t # <<>> /\ ts \in Seq(S) /\ table \in Seq(S) /\ b \in Seq(S)

\* What the first packet of the tx queue leaves behind.
LEMMA LineLeft ==
  ASSUME NEW S, NEW t, NEW ts, NEW table, NEW b, Leaving(S, t, ts, table, b), NEW tp, NEW d, NEW jj, NEW q
  PROVE  /\ Line(t, tp, ts, table, b, d, jj, q) # <<>>
         /\ Head(Line(t, tp, ts, table, b, d, jj, q)) = Head(t)
         /\ Tail(Line(t, tp, ts, table, b, d, jj, q)) = Line(Tail(t), tp, ts, table, b, d, jj, q)
<1> DEFINE h == Held(tp, ts, q)
           u == Unsent(b, d, jj, q)
           v == Cat(table, u)
           w == Cat(h, v)
           r == Tail(t)
<1>0. t \in Seq(S) /\ t # <<>> /\ ts \in Seq(S) /\ table \in Seq(S) /\ b \in Seq(S)
  BY DEF Leaving
<1>1. h \in Seq(S) /\ u \in Seq(S) /\ r \in Seq(S)
  BY <1>0, HeldTyped, ChosenTyped DEF Unsent
<1> HIDE DEF h, u, r
<1>2. v \in Seq(S)
  BY <1>0, <1>1, CatTyped
<1>3. Cat(Cat(Cat(t, h), table), u) = Cat(Cat(t, h), v)
  <2> DEFINE th == Cat(t, h)
  <2>1. th \in Seq(S)
    BY <1>0, <1>1, CatTyped
  <2> HIDE DEF th
  <2>2. Cat(Cat(th, table), u) = Cat(th, Cat(table, u))
    BY <1>0, <1>1, <2>1, CatAssociative
  <2> QED
    BY <2>2 DEF th
<1>4. Cat(Cat(Cat(r, h), table), u) = Cat(Cat(r, h), v)
  <2> DEFINE th == Cat(r, h)
  <2>1. th \in Seq(S)
    BY <1>0, <1>1, CatTyped
  <2> HIDE DEF th
  <2>2. Cat(Cat(th, table), u) = Cat(th, Cat(table, u))
    BY <1>0, <1>1, <2>1, CatAssociative
  <2> QED
    BY <2>2 DEF th
<1> HIDE DEF v
<1>5. Cat(Cat(t, h), v) = Cat(t, w) /\ Cat(Cat(r, h), v) = Cat(r, w)
  BY <1>0, <1>1, <1>2, CatAssociative
<1>6. w \in Seq(S)
  BY <1>1, <1>2, CatTyped
<1> HIDE DEF w
<1>7. Cat(t, w) # <<>> /\ Head(Cat(t, w)) = Head(t) /\ Tail(Cat(t, w)) = Cat(Tail(t), w)
  BY <1>0, <1>6 DEF Cat
<1>8. /\ Line(t, tp, ts, table, b, d, jj, q) = Cat(t, w)
      /\ Line(r, tp, ts, table, b, d, jj, q) = Cat(r, w)
  BY <1>3, <1>4, <1>5 DEF Line, Cat, h, u
<1> QED
  BY <1>7, <1>8 DEF r

\* To send a packet out is Deliver in the switch.
LEMMA TransmitDelivers ==
  ASSUME OqInv, OqInv', Owned, NEW q \in Ports, NEW l \in Slaves, Transmit(q, l)
  PROVE  Owned' /\ OQ!Next
<1> DEFINE t == txq[q][l]
<1>0. q \in EthPorts
  BY PortsAreNumbered
<1>1. /\ t # <<>> /\ wire' = [wire EXCEPT ![q] = Append(@, Head(t))]
      /\ txq' = [txq EXCEPT ![q][l] = Tail(@)]
      /\ UNCHANGED <<setup, lpm, arrived, rxq, lcore_conf>>
  BY DEF Transmit
<1>2. /\ txq \in [EthPorts -> [Slaves -> Seq(Packet)]] /\ tosend \in [Slaves -> Seq(Packet)]
      /\ tx_mbufs \in [Slaves -> [EthPorts -> Seq(Packet)]] /\ burst \in [Slaves -> Seq(Packet)]
  BY DEF OqInv, CardOK, TxOK, FoundOK
<1>3. txq'[q][l] = Tail(t) /\ \A k \in Slaves : \A o \in EthPorts : k # l \/ o # q => txq'[o][k] = txq[o][k]
  <2>1. \A k \in Slaves : \A o \in EthPorts : k # l \/ o # q => txq'[o][k] = txq[o][k]
    BY <1>1, <1>2
  <2>2. txq'[q][l] = Tail(t)
    BY <1>0, <1>1, <1>2
  <2> QED
    BY <2>1, <2>2
<1>4. UNCHANGED <<rx_queue_list, rxq, burst, dst_port, j, tx_mbufs, tosend, to_port>>
  BY <1>1 DEF setup, lcore_conf, found, tx
<1>5. /\ LineOf(l, q) # <<>> /\ Head(LineOf(l, q)) = Head(t)
      /\ LineOf(l, q)' = Tail(LineOf(l, q))
  <2> DEFINE tp == to_port[l]
             ts == tosend[l]
             table == tx_mbufs[l][q]
             b == burst[l]
             d == dst_port[l]
             jj == j[l]
  <2>1. t \in Seq(Packet) /\ ts \in Seq(Packet) /\ table \in Seq(Packet) /\ b \in Seq(Packet) /\ t # <<>>
    BY <1>0, <1>1, <1>2
  <2>5. Leaving(Packet, t, ts, table, b)
    BY <2>1 DEF Leaving
  <2>2. LineOf(l, q) = Line(t, tp, ts, table, b, d, jj, q)
    BY DEF LineOf
  <2>3. LineOf(l, q)' = Line(Tail(t), tp, ts, table, b, d, jj, q)
    BY <1>3, <1>4 DEF LineOf
  <2> HIDE DEF t, tp, ts, table, b, d, jj
  <2>4. /\ Line(t, tp, ts, table, b, d, jj, q) # <<>>
        /\ Head(Line(t, tp, ts, table, b, d, jj, q)) = Head(t)
        /\ Tail(Line(t, tp, ts, table, b, d, jj, q)) = Line(Tail(t), tp, ts, table, b, d, jj, q)
    BY <2>5, LineLeft
  <2> QED
    BY <2>2, <2>3, <2>4
<1>6. \A k \in Slaves : \A o \in EthPorts : k # l \/ o # q => LineOf(k, o)' = LineOf(k, o)
  BY <1>3, <1>4 DEF LineOf
<1>7. LineOf(l, q) \in Seq(Own(l))
  BY <1>0 DEF Owned
<1> DEFINE s == LineOf(l, q)
<1>8. Head(s) \in Own(l)
  <2>1. s # <<>> /\ s \in Seq(Own(l))
    BY <1>5, <1>7
  <2> HIDE DEF s
  <2> QED
    BY <2>1, HeadTailProperties
<1>9. PICK p \in Ports : p = Head(t).in /\ LcoreOf(p) = l
  BY <1>5, <1>8 DEF Own, Packet
<1>10. s \in Seq(Packet)
  BY <1>0, LineOfTyped
<1>11. /\ OfPort(s, p) # <<>> /\ Head(OfPort(s, p)) = Head(t)
       /\ OfPort(Tail(s), p) = Tail(OfPort(s, p))
       /\ \A o : o # p => OfPort(Tail(s), o) = OfPort(s, o)
  <2>1. s # <<>> /\ Head(s) = Head(t) /\ Head(s).in = p
    BY <1>5, <1>9
  <2> HIDE DEF s, t
  <2>2. /\ OfPort(s, p) # <<>> /\ Head(OfPort(s, p)) = Head(s)
        /\ OfPort(Tail(s), p) = Tail(OfPort(s, p))
    BY <1>10, <2>1, OfPortOfTail
  <2>3. ASSUME NEW o, o # p PROVE OfPort(Tail(s), o) = OfPort(s, o)
    <3>1. Head(s).in # o
      BY <2>1, <2>3
    <3> QED
      BY <1>10, <2>1, <3>1, OfPortOfTail
  <2> QED
    BY <2>1, <2>2, <2>3
<1>12. /\ Routed[p][q] = OfPort(LineOf(l, q), p)
       /\ Routed' = [Routed EXCEPT ![p][q] = OfPort(LineOf(l, q)', p)]
  <2>1. \A o \in Ports : o # p => OfPort(LineOf(l, q)', o) = OfPort(LineOf(l, q), o)
    BY <1>5, <1>11
  <2> QED
    BY <1>0, <1>4, <1>6, <1>9, <2>1, RoutedOnly
<1>13. Routed[p][q] # <<>> /\ Head(Routed[p][q]) = Head(t) /\ Routed' = [Routed EXCEPT ![p][q] = Tail(@)]
  <2>1. Routed[p][q] # <<>> /\ Head(Routed[p][q]) = Head(t)
    BY <1>11, <1>12
  <2>2. OfPort(LineOf(l, q)', p) = Tail(Routed[p][q])
    BY <1>5, <1>11, <1>12
  <2>3. Routed = [o \in Ports |-> [e \in EthPorts |-> Pending(LcoreOf(o), o, e)]]
    BY DEF Routed
  <2> HIDE DEF s, t
  <2> QED
    BY <1>9, <1>12, <2>1, <2>2, <2>3
<1>14. UNCHANGED Unrouted
  BY <1>4, UnroutedSame
<1>15. OQ!Deliver(p, q)
  BY <1>1, <1>13, <1>14 DEF OQ!Deliver
<1>16. Owned'
  <2> SUFFICES ASSUME NEW k \in Slaves, NEW o \in EthPorts PROVE LineOf(k, o)' \in Seq(Own(k)')
    BY DEF Owned
  <2>1. Own(k)' = Own(k) /\ LineOf(k, o) \in Seq(Own(k))
    BY <1>4, OwnSame DEF Owned
  <2>2. CASE k # l \/ o # q
    BY <1>6, <2>1, <2>2
  <2>3. CASE k = l /\ o = q
    <3>1. Tail(s) \in Seq(Own(l))
      <4>1. s # <<>> /\ s \in Seq(Own(l))
        BY <1>5, <1>7
      <4> HIDE DEF s
      <4> QED
        BY <4>1, HeadTailProperties
    <3> QED
      BY <1>5, <2>1, <2>3, <3>1
  <2> QED
    BY <2>2, <2>3
<1> QED
  BY <1>9, <1>15, <1>16 DEF OQ!Next

\* What was put behind a sequence is what the longer one has more.
LEMMA PutBehind ==
  ASSUME NEW S, NEW s \in Seq(S), NEW t \in Seq(S), Len(t) > 0
  PROVE  /\ Len(s \o t) > Len(s) /\ SubSeq(s \o t, Len(s) + 1, Len(s \o t)) = t
<1> DEFINE st == s \o t
           m == Len(s)
           n == Len(t)
<1>1. st \in Seq(S) /\ Len(st) = m + n /\ m \in Nat /\ n \in Nat
      /\ \A x \in 1 .. m + n : st[x] = IF x <= m THEN s[x] ELSE t[x - m]
  BY ConcatProperties
<1>2. m \in 0 .. Len(st)
  BY <1>1
<1> HIDE DEF st
<1>3. /\ From(st, m) \in Seq(S) /\ Len(From(st, m)) = Len(st) - m
      /\ \A x \in 1 .. Len(st) - m : From(st, m)[x] = st[m + x]
  BY <1>1, <1>2, TakenOff
<1> DEFINE g == From(st, m)
<1>4. \A x \in 1 .. Len(g) : g[x] = t[x]
  <2> SUFFICES ASSUME NEW x \in 1 .. n PROVE g[x] = t[x]
    BY <1>1, <1>3
  <2>1. m + x \in 1 .. m + n /\ ~(m + x <= m) /\ (m + x) - m = x /\ x \in 1 .. Len(st) - m
    BY <1>1
  <2>2. st[m + x] = t[x]
    BY <1>1, <2>1
  <2> QED
    BY <1>3, <2>1, <2>2
<1>5. g = t
  <2>1. g \in Seq(S) /\ Len(g) = Len(t)
    BY <1>1, <1>3
  <2> HIDE DEF g
  <2> QED
    BY <1>4, <2>1, SeqEqual
<1> QED
  BY <1>1, <1>5 DEF From, st

\* To take packets in is Accept in the switch.
LEMMA ArriveAccepts ==
  ASSUME OqInv, OqInv', Owned, NEW p \in Ports, Arrive(p)
  PROVE  Owned' /\ OQ!Next
<1>1. UNCHANGED <<setup, lpm, txq, wire, lcore_conf>>
  BY DEF Arrive
<1>2. PICK k \in Trains : \E ips \in [1 .. k -> Address] :
        rxq' = [rxq EXCEPT ![p] = @ \o Train(p, arrived[p], ips, AllInstalled, k)]
  BY DEF Arrive, Train
<1>3. PICK ips \in [1 .. k -> Address] : rxq' = [rxq EXCEPT ![p] = @ \o Train(p, arrived[p], ips, AllInstalled, k)]
  BY <1>2
<1>4. k \in Nat /\ k > 0 /\ arrived[p] \in Nat /\ rxq \in [Ports -> Seq(Packet)]
  BY SizesAssumption DEF OqInv, CardOK
<1>5. PICK t \in Seq(Packet) : Len(t) > 0 /\ rxq' = [rxq EXCEPT ![p] = @ \o t]
  <2>1. AllInstalled \in BOOLEAN
    BY Zenon DEF AllInstalled
  <2> DEFINE t == Train(p, arrived[p], ips, AllInstalled, k)
  <2>2. t \in Seq(Packet) /\ Len(t) = k
    BY <1>4, <2>1, TrainTyped
  <2> HIDE DEF t
  <2> QED
    BY <1>3, <1>4, <2>2 DEF t
<1>6. UNCHANGED <<rx_queue_list, wire, burst, dst_port, txq, j, tx_mbufs, tosend, to_port>>
  BY <1>1 DEF setup, lcore_conf, found, tx
<1>7. Owned' /\ UNCHANGED Routed
  <2>1. LinesKept
    BY <1>6, IdleLines
  <2> QED
    BY <1>6, <2>1, RoutedSame
<1>8. PICK l \in Slaves : LcoreOf(p) = l
  BY LcoreOfIsSlave
<1> DEFINE u == Unread(burst[l], dst_port[l], p)
           r == rxq[p]
           s == u \o r
<1>9. u \in Seq(Packet) /\ r \in Seq(Packet)
  <2>1. burst[l] \in Seq(Packet)
    BY DEF OqInv, FoundOK
  <2> DEFINE b == burst[l]
  <2> HIDE DEF b
  <2>2. Unread(b, dst_port[l], p) \in Seq(Packet)
    BY <2>1, ChosenTyped DEF Unread, b
  <2> QED
    BY <1>4, <2>2 DEF b
<1>10. Unrouted[p] = s /\ Unrouted'[p] = s \o t
  <2>1. rxq'[p] = r \o t
    BY <1>4, <1>5
  <2>2. Unrouted[p] = u \o r /\ Unrouted'[p] = u \o rxq'[p]
    <3>1. UNCHANGED <<rx_queue_list, burst, dst_port>>
      BY <1>6
    <3>2. /\ Unrouted[p] = Unread(burst[l], dst_port[l], p) \o rxq[p]
          /\ Unrouted'[p] = Unread(burst'[l], dst_port'[l], p) \o rxq'[p]
      BY <1>8, <3>1, UnroutedOwn
    <3> QED
      BY <3>1, <3>2
  <2> HIDE DEF u, r
  <2>3. Cat(Cat(u, r), t) = Cat(u, Cat(r, t))
    BY <1>9, CatAssociative
  <2> QED
    BY <2>1, <2>2, <2>3 DEF Cat
<1>11. ASSUME NEW o \in Ports, o # p PROVE Unrouted'[o] = Unrouted[o]
  <2>1. rxq'[o] = rxq[o]
    BY <1>4, <1>5, <1>11
  <2>2. PICK k2 \in Slaves : LcoreOf(o) = k2
    BY LcoreOfIsSlave
  <2>3. UNCHANGED <<rx_queue_list, burst, dst_port>>
    BY <1>6
  <2> HIDE DEF u, r, s
  <2>4. /\ Unrouted[o] = Unread(burst[k2], dst_port[k2], o) \o rxq[o]
        /\ Unrouted'[o] = Unread(burst'[k2], dst_port'[k2], o) \o rxq'[o]
    BY <2>2, <2>3, UnroutedOwn
  <2> QED
    BY <2>1, <2>3, <2>4
<1>12. s \in Seq(Packet)
  <2> HIDE DEF u, r
  <2> QED
    BY <1>9
<1> HIDE DEF s
<1>13. /\ Len(s \o t) > Len(s) /\ SubSeq(s \o t, Len(s) + 1, Len(s \o t)) = t
  BY <1>5, <1>12, PutBehind
<1>14. Len(Unrouted'[p]) > Len(Unrouted[p])
  BY <1>10, <1>13
<1>15. Unrouted' = [Unrouted EXCEPT ![p] = @ \o SubSeq(Unrouted'[p], Len(@) + 1, Len(Unrouted'[p]))]
  <2> DEFINE new == Unrouted[p] \o SubSeq(Unrouted'[p], Len(Unrouted[p]) + 1, Len(Unrouted'[p]))
  <2>1. new = Unrouted'[p]
    BY <1>10, <1>13
  <2> HIDE DEF new
  <2>2. Unrouted' = [Unrouted EXCEPT ![p] = new]
    BY <1>11, <2>1, UnroutedFunction
  <2> QED
    BY <2>2 DEF new
<1>16. OQ!Accept(p)
  BY <1>6, <1>7, <1>14, <1>15 DEF OQ!Accept
<1> QED
  BY <1>7, <1>16 DEF OQ!Next

-----------------------------------------------------------------------------
(* The refinement. *)

\* Until the lcores run, nothing is under way.
Still ==
  /\ \A p \in Ports : rxq[p] = <<>>
  /\ \A l \in Slaves : pc[l] = "top"
  /\ \A l \in Slaves : \A q \in EthPorts : txq[q][l] = <<>> /\ tx_mbufs[l][q] = <<>>
AllEmpty ==
  /\ Unrouted = [p \in Ports |-> <<>>]
  /\ Routed = [p \in Ports |-> [q \in EthPorts |-> <<>>]]
  /\ Owned

\* Then all lines are empty, and so are the queues of the switch.
LEMMA StillLines ==
  ASSUME OqInv, Still, NEW l \in Slaves, NEW q \in EthPorts
  PROVE  LineOf(l, q) = <<>> /\ burst[l] = <<>> /\ dst_port[l] = <<>>
<1>1. burst[l] = <<>> /\ dst_port[l] = <<>> /\ j[l] = 1 /\ tosend[l] = <<>>
  <2>1. GoodLcore(l) /\ pc[l] = "top"
    BY DEF OqInv, Still
  <2> QED
    BY <2>1 DEF GoodLcore, Good, Working, Sending
<1>2. txq[q][l] = <<>> /\ tx_mbufs[l][q] = <<>>
  BY DEF Still
<1>3. <<>> \in Seq(Packet) /\ Len(<<>>) \in Nat /\ 1 \in Nat /\ 1 > Len(<<>>)
  OBVIOUS
<1>4. Unsent(<<>>, <<>>, 1, q) = <<>>
  BY <1>3, UnsentNone
<1>5. Held(to_port[l], <<>>, q) = <<>>
  BY DEF Held
<1> QED
  BY <1>1, <1>2, <1>4, <1>5 DEF LineOf, Line

LEMMA StillIsEmpty == OqInv /\ Still => AllEmpty
<1> SUFFICES ASSUME OqInv, Still PROVE AllEmpty
  OBVIOUS
<1>1. \A l \in Slaves : \A q \in EthPorts : LineOf(l, q) = <<>>
  BY StillLines
<1>2. Owned
  <2> SUFFICES ASSUME NEW l \in Slaves, NEW q \in EthPorts PROVE LineOf(l, q) \in Seq(Own(l))
    BY DEF Owned
  <2>1. <<>> \in Seq(Own(l))
    OBVIOUS
  <2> QED
    BY <1>1, <2>1
<1>3. \A p : OfPort(<<>>, p) = <<>>
  <2>1. <<>> \in Seq(Packet) /\ \A x \in 1 .. Len(<<>>) : FALSE
    OBVIOUS
  <2> QED
    BY <2>1, OfPortOfOthers
<1>4. \A p \in Ports : \A q \in EthPorts : OfPort(LineOf(LcoreOf(p), q), p) = <<>>
  BY <1>1, <1>3, LcoreOfIsSlave
<1>5. Routed = [p \in Ports |-> [q \in EthPorts |-> <<>>]]
  BY <1>4, RoutedIsByLine DEF RoutedByLine
<1>6. ASSUME NEW p \in Ports PROVE Unrouted[p] = <<>>
  <2>1. PICK l \in Slaves : LcoreOf(p) = l
    BY LcoreOfIsSlave
  <2>2. burst[l] = <<>> /\ dst_port[l] = <<>> /\ rxq[p] = <<>>
    BY StillLines, PortsAreNumbered DEF Still
  <2>3. Unrouted[p] = Unread(burst[l], dst_port[l], p) \o rxq[p]
    BY <2>1, UnroutedIs
  <2>4. Unread(<<>>, <<>>, p) = <<>>
    <3>1. <<>> \in Seq(Packet) /\ Len(<<>>) = Len(<<>>)
      OBVIOUS
    <3> QED
      BY <3>1, UnreadNone
  <2> QED
    BY <2>2, <2>3, <2>4
<1>7. Unrouted = [p \in Ports |-> <<>>]
  BY <1>6, UnroutedFunction
<1> QED
  BY <1>2, <1>5, <1>7 DEF AllEmpty

LEMMA StillIsEmptyNext == OqInv' /\ Still' => AllEmpty'
BY StillIsEmpty, PTL

\* RefInv holds at first, and the switch is empty.
LEMMA RefInvInit == Init => RefInv /\ OQ!Init
<1> SUFFICES ASSUME Init PROVE RefInv /\ OQ!Init
  OBVIOUS
<1>1. OqInv
  BY OqInvInit
<1>2. Still
  BY DEF Init, Still
<1>3. AllEmpty
  BY <1>1, <1>2, StillIsEmpty
<1>4. Quiet
  BY <1>2 DEF Quiet, Still
<1>5. Dealt
  BY DEF Init, Dealt
<1>6. NoneLate
  BY DEF Init, NoneLate
<1>7. OQ!Init
  BY <1>3 DEF AllEmpty, Init, OQ!Init
<1> QED
  BY <1>1, <1>3, <1>4, <1>5, <1>6, <1>7 DEF RefInv, AllEmpty

\* A step of the set-up.
LEMMA SetUpIsSilent ==
  ASSUME OqInv, OqInv', Quiet, SetUp
  PROVE  Quiet' /\ Owned' /\ UNCHANGED <<Unrouted, Routed, wire>>
<1>1. phase \notin {"run", "dead"} /\ UNCHANGED <<queues, lcore_conf>>
  BY DEF SetUp, SearchLcore, DealPort, AllDealt, ConfigureRxQueue, Launch
<1>2. Still
  BY <1>1 DEF Quiet, Still
<1>3. Still'
  BY <1>1, <1>2 DEF Still, queues, lcore_conf, loop, found, tx
<1>4. AllEmpty /\ AllEmpty'
  BY <1>2, <1>3, StillIsEmpty, StillIsEmptyNext
<1> QED
  BY <1>1, <1>3, <1>4 DEF AllEmpty, Quiet, Still, queues

\* A port is on the list of the lcore it was dealt to only.
LEMMA DealtKept ==
  ASSUME OqInv, Dealt, [Next]_vars
  PROVE  Dealt'
<1>1. CASE DealPort
  <2>1. /\ lcore_params' = Append(lcore_params, lcoreid) /\ UNCHANGED rx_queue_list
        /\ lcore_params \in Seq(Slaves) /\ lcoreid \in Slaves
    BY <1>1 DEF DealPort, OqInv, SetUpOK
  <2> QED
    BY <2>1 DEF Dealt
<1>2. CASE ConfigureRxQueue
  <2>1. /\ phase = "queues" /\ next < NbPorts /\ UNCHANGED lcore_params
        /\ rx_queue_list \in [Slaves -> Seq(Ports)] /\ next \in 0 .. NbPorts
        /\ lcore_params \in Seq(Slaves) /\ Len(lcore_params) = NbPorts
    BY <1>2 DEF ConfigureRxQueue, OqInv, SetUpOK
  <2> DEFINE l == lcore_params[next + 1]
  <2>2. next + 1 \in 1 .. Len(lcore_params) /\ l \in Slaves
    BY <2>1, Numbers
  <2>3. CASE UNCHANGED rx_queue_list
    BY <2>1, <2>3 DEF Dealt
  <2>4. CASE rx_queue_list' = [rx_queue_list EXCEPT ![l] = Append(@, next)]
    <3> SUFFICES ASSUME NEW k \in Slaves, NEW x \in 1 .. Len(rx_queue_list'[k])
                 PROVE  /\ rx_queue_list'[k][x] + 1 \in 1 .. Len(lcore_params)
                        /\ lcore_params[rx_queue_list'[k][x] + 1] = k
      BY <2>1 DEF Dealt
    <3>1. CASE k # l \/ x <= Len(rx_queue_list[k])
      <4> HIDE DEF l
      <4>1. x \in 1 .. Len(rx_queue_list[k]) /\ rx_queue_list'[k][x] = rx_queue_list[k][x]
        BY <2>1, <2>2, <2>4, <3>1
      <4> QED
        BY <4>1 DEF Dealt
    <3>2. CASE k = l /\ x > Len(rx_queue_list[k])
      <4> DEFINE s == rx_queue_list[k]
      <4>1. s \in Seq(Ports) /\ rx_queue_list'[k] = Append(s, next)
        BY <2>1, <2>2, <2>4, <3>2
      <4>2. rx_queue_list'[k][x] = next
        <5> HIDE DEF s
        <5>1. x \in 1 .. Len(Append(s, next)) /\ x > Len(s)
          BY <3>2, <4>1 DEF s
        <5> QED
          BY <4>1, <5>1
      <4> QED
        BY <2>2, <3>2, <4>2
    <3> QED
      BY <3>1, <3>2
  <2> QED
    BY <1>2, <2>3, <2>4 DEF ConfigureRxQueue
<1>3. CASE UNCHANGED <<lcore_params, rx_queue_list>>
  BY <1>3 DEF Dealt
<1>4. CASE SearchLcore \/ AllDealt \/ Launch \/ Failed \/ Dead \/ UNCHANGED vars
  BY <1>3, <1>4 DEF SearchLcore, AllDealt, Launch, Failed, Dead, vars, setup
<1>5. ASSUME UNCHANGED setup PROVE Dealt'
  BY <1>3, <1>5 DEF setup
<1>6. ASSUME NEW s \in Sockets, AddRule(s) PROVE Dealt'
  BY <1>5, <1>6 DEF AddRule
<1>7. ASSUME NEW p \in Ports, Arrive(p) PROVE Dealt'
  BY <1>5, <1>7 DEF Arrive
<1>8. ASSUME NEW p \in Ports, NEW l \in Slaves, Transmit(p, l) PROVE Dealt'
  BY <1>5, <1>8 DEF Transmit
<1>9. ASSUME NEW l \in Slaves, MainLoop(l) PROVE Dealt'
  <2>1. UNCHANGED <<lcore_params, rx_queue_list>>
    BY <1>9 DEF MainLoop, Top, Drain, Drained, TxBurst, NoSuchPort, Sent, RxBurst, AllPolled, Lookup, Group,
                SendGroup, GroupsSent, setup
  <2> QED
    BY <1>3, <2>1
<1> QED
  BY <1>1, <1>2, <1>4, <1>6, <1>7, <1>8, <1>9 DEF Next, SetUp

\* Rules are never taken back.
LEMMA InstalledStays == AllInstalled /\ [Next]_vars => AllInstalled'
<1> SUFFICES ASSUME AllInstalled, [Next]_vars PROVE AllInstalled'
  OBVIOUS
<1>1. ASSUME UNCHANGED <<machine, lpm>> PROVE AllInstalled'
  BY <1>1 DEF AllInstalled, Sockets
<1>2. CASE SetUp \/ Failed \/ Dead \/ UNCHANGED vars
  BY <1>1, <1>2 DEF SetUp, SearchLcore, DealPort, AllDealt, ConfigureRxQueue, Launch, Failed, Dead, vars, setup
<1>3. ASSUME NEW s \in Sockets, AddRule(s) PROVE FALSE
  BY <1>3, RulesAssumption DEF AddRule, AllInstalled
<1>4. ASSUME NEW p \in Ports, Arrive(p) PROVE AllInstalled'
  BY <1>1, <1>4 DEF Arrive, setup
<1>5. ASSUME NEW p \in Ports, NEW l \in Slaves, Transmit(p, l) PROVE AllInstalled'
  BY <1>1, <1>5 DEF Transmit, setup
<1>6. ASSUME NEW l \in Slaves, MainLoop(l) PROVE AllInstalled'
  BY <1>1, <1>6 DEF MainLoop, Top, Drain, Drained, TxBurst, NoSuchPort, Sent, RxBurst, AllPolled, Lookup, Group,
                SendGroup, GroupsSent, setup
<1> QED
  BY <1>2, <1>3, <1>4, <1>5, <1>6 DEF Next

\* Packets that come in while a rule is missing are not late.
LEMMA TrainEarly ==
  ASSUME NEW p \in Ports, NEW n \in Nat, NEW k \in Nat, NEW ips \in [1 .. k -> Address]
  PROVE  Train(p, n, ips, FALSE, k) \in Seq(Early)
<1>1. \A x \in 1 .. k : [in |-> p, n |-> n + x, ip |-> ips[x], late |-> FALSE] \in Early
  BY DEF Packet, Early
<1> QED
  BY <1>1 DEF Train

\* While a rule is missing, all packets read came in while one was.
LEMMA ArriveNoneLate ==
  ASSUME OqInv, NoneLate, ~AllInstalled, NEW p \in Ports, Arrive(p)
  PROVE  /\ \A o \in Ports : rxq'[o] \in Seq(Early)
         /\ \A l \in Slaves : burst'[l] \in Seq(Early)
<1>1. UNCHANGED burst
  BY DEF Arrive, lcore_conf, found
<1>2. PICK k \in Trains : \E ips \in [1 .. k -> Address] :
        rxq' = [rxq EXCEPT ![p] = @ \o Train(p, arrived[p], ips, AllInstalled, k)]
  BY DEF Arrive, Train
<1>3. PICK ips \in [1 .. k -> Address] : rxq' = [rxq EXCEPT ![p] = @ \o Train(p, arrived[p], ips, AllInstalled, k)]
  BY <1>2
<1>4. k \in Nat /\ arrived[p] \in Nat /\ rxq \in [Ports -> Seq(Packet)]
  BY SizesAssumption DEF OqInv, CardOK
<1>5. AllInstalled = FALSE
  <2>1. AllInstalled \in BOOLEAN
    BY Zenon DEF AllInstalled
  <2> QED
    BY <2>1
<1> DEFINE t == Train(p, arrived[p], ips, FALSE, k)
<1>6. t \in Seq(Early)
  BY <1>4, TrainEarly
<1>7. rxq' = [rxq EXCEPT ![p] = @ \o t]
  BY <1>3, <1>5
<1> HIDE DEF t
<1>8. \A o \in Ports : rxq[o] \in Seq(Early)
  BY DEF NoneLate
<1>9. rxq[p] \o t \in Seq(Early)
  BY <1>6, <1>8
<1> QED
  BY <1>1, <1>4, <1>7, <1>8, <1>9 DEF NoneLate

LEMMA RxBurstNoneLate ==
  ASSUME OqInv, NoneLate, ~AllInstalled, NEW l \in Slaves, RxBurst(l)
  PROVE  /\ \A o \in Ports : rxq'[o] \in Seq(Early)
         /\ \A k \in Slaves : burst'[k] \in Seq(Early)
<1> DEFINE p == Polled(l)
           q == rxq[p]
           nb == Lesser(Len(q), MaxBurst)
           f == First(q, nb)
           g == From(q, nb)
<1>1. i[l] <= Len(rx_queue_list[l])
  BY DEF RxBurst
<1>2. p \in Ports
  BY <1>1, PolledIsPort
<1>3. q \in Seq(Early) /\ rxq \in [Ports -> Seq(Packet)] /\ burst \in [Slaves -> Seq(Packet)]
  BY <1>2 DEF NoneLate, OqInv, CardOK, FoundOK
<1>4. nb \in 0 .. Len(q)
  <2> HIDE DEF q
  <2> QED
    BY <1>3, Numbers DEF Lesser
<1>5. f \in Seq(Early) /\ g \in Seq(Early)
  <2> HIDE DEF q, nb
  <2> QED
    BY <1>3, <1>4, TakenOff
<1>6. CASE nb = 0
  BY <1>6 DEF RxBurst, NoneLate
<1>7. CASE nb # 0
  <2>1. burst' = [burst EXCEPT ![l] = f] /\ rxq' = [rxq EXCEPT ![p] = g]
    BY <1>7 DEF RxBurst
  <2> HIDE DEF f, g
  <2> QED
    BY <1>2, <1>3, <1>5, <2>1 DEF NoneLate
<1> QED
  BY <1>6, <1>7

LEMMA NoneLateKept ==
  ASSUME OqInv, NoneLate, [Next]_vars
  PROVE  NoneLate'
<1>1. SUFFICES ASSUME ~AllInstalled' PROVE /\ \A p \in Ports : rxq'[p] \in Seq(Early)
                                           /\ \A l \in Slaves : burst'[l] \in Seq(Early)
  BY DEF NoneLate, Early
<1>2. ~AllInstalled
  BY <1>1, InstalledStays
<1>3. /\ \A p \in Ports : rxq[p] \in Seq(Early)
      /\ \A l \in Slaves : burst[l] \in Seq(Early)
  BY <1>2 DEF NoneLate
<1>4. CASE UNCHANGED <<rxq, burst>>
  BY <1>3, <1>4
<1>5. CASE SetUp \/ Failed \/ Dead \/ UNCHANGED vars
  BY <1>4, <1>5 DEF SetUp, SearchLcore, DealPort, AllDealt, ConfigureRxQueue, Launch, Failed, Dead, vars,
                    queues, lcore_conf, found
<1>6. ASSUME NEW s \in Sockets, AddRule(s) PROVE UNCHANGED <<rxq, burst>>
  BY <1>6 DEF AddRule, queues, lcore_conf, found
<1>7. CASE \E p \in Ports : Arrive(p)
  BY <1>2, <1>7, ArriveNoneLate
<1>8. ASSUME NEW p \in Ports, NEW l \in Slaves, Transmit(p, l) PROVE UNCHANGED <<rxq, burst>>
  BY <1>8 DEF Transmit, lcore_conf, found
<1>9. CASE \E l \in Slaves : RxBurst(l)
  BY <1>2, <1>9, RxBurstNoneLate
<1>10. ASSUME NEW l \in Slaves, GroupsSent(l)
       PROVE  /\ \A p \in Ports : rxq'[p] \in Seq(Early)
              /\ \A k \in Slaves : burst'[k] \in Seq(Early)
  <2>1. burst' = [burst EXCEPT ![l] = <<>>] /\ UNCHANGED rxq
    BY <1>10 DEF GroupsSent, queues
  <2>2. <<>> \in Seq(Early)
    OBVIOUS
  <2>3. burst \in [Slaves -> Seq(Packet)]
    BY DEF OqInv, FoundOK
  <2> QED
    BY <1>3, <2>1, <2>2, <2>3
<1>11. ASSUME NEW l \in Slaves, MainLoop(l), ~RxBurst(l), ~GroupsSent(l) PROVE UNCHANGED <<rxq, burst>>
  BY <1>11 DEF MainLoop, Top, Drain, Drained, TxBurst, NoSuchPort, Sent, AllPolled, Lookup, Group, SendGroup,
               queues, lcore_conf, found
<1> QED
  BY <1>4, <1>5, <1>6, <1>7, <1>8, <1>9, <1>10, <1>11 DEF Next

Mapped == <<Unrouted, Routed, wire>>

\* A step that keeps all lines and what was not looked up is not seen.
LEMMA SilentStep ==
  ASSUME OqInv, OqInv', Owned, LinesKept, UNCHANGED <<rx_queue_list, Unrouted, wire>>
  PROVE  Owned' /\ UNCHANGED Mapped
BY RoutedSame DEF Mapped

\* A step that moves no packet.
LEMMA IdleStep ==
  ASSUME OqInv, OqInv', Owned,
         UNCHANGED <<rx_queue_list, rxq, txq, wire, to_port, tosend, tx_mbufs, burst, dst_port, j>>
  PROVE  Owned' /\ UNCHANGED Mapped
<1>1. LinesKept
  BY IdleLines
<1>2. UNCHANGED Unrouted
  BY UnroutedSame
<1> QED
  BY <1>1, <1>2, SilentStep

\* A step that moves packets towards the wire and neither reads nor looks up.
LEMMA MovingStep ==
  ASSUME OqInv, OqInv', Owned, LinesKept, UNCHANGED <<setup, rxq, wire, burst, dst_port>>
  PROVE  Owned' /\ UNCHANGED Mapped
<1>1. UNCHANGED Unrouted
  BY UnroutedSame DEF setup
<1> QED
  BY <1>1, SilentStep DEF setup

\* The steps of main_loop, as steps of the switch.
LEMMA MainLoopSteps ==
  ASSUME OqInv, OqInv', Dealt, Owned, NoneLate, NEW l \in Slaves, MainLoop(l)
  PROVE  Owned' /\ [OQ!Next]_Mapped
<1>1. CASE Top(l) \/ Drained(l) \/ NoSuchPort(l) \/ AllPolled(l) \/ Group(l)
  <2>1. UNCHANGED <<rx_queue_list, rxq, txq, wire, to_port, tosend, tx_mbufs, burst, dst_port, j>>
    BY <1>1 DEF Top, Drained, NoSuchPort, AllPolled, Group, setup, queues, lcore_conf, found, tx
  <2> QED
    BY <2>1, IdleStep
<1>2. CASE Drain(l)
  BY <1>2, DrainLines, MovingStep
<1>3. CASE TxBurst(l)
  BY <1>3, TxBurstLines, MovingStep
<1>4. CASE Sent(l)
  BY <1>4, SentLines, MovingStep
<1>5. CASE SendGroup(l)
  BY <1>5, SendGroupLines, MovingStep
<1>6. CASE RxBurst(l)
  <2>1. LinesKept /\ UNCHANGED <<setup, wire, Unrouted>>
    BY <1>6, RxBurstLines
  <2> QED
    BY <2>1, SilentStep DEF setup
<1>7. CASE GroupsSent(l)
  <2>1. LinesKept /\ UNCHANGED <<setup, wire, Unrouted>>
    BY <1>7, GroupsSentLines
  <2> QED
    BY <2>1, SilentStep DEF setup
<1>8. CASE Lookup(l)
  BY <1>8, LookupRoutes
<1> QED
  BY <1>1, <1>2, <1>3, <1>4, <1>5, <1>6, <1>7, <1>8 DEF MainLoop

\* Before the lcores run only the set-up steps.
LEMMA QuietKept ==
  ASSUME OqInv, OqInv', Quiet, [Next]_vars
  PROVE  Quiet'
<1>1. CASE SetUp
  BY <1>1, SetUpIsSilent
<1>2. CASE Failed \/ Dead \/ UNCHANGED vars
  BY <1>2 DEF Failed, Dead, Quiet, vars, setup, queues, lcore_conf, loop, found, tx
<1>3. CASE \E s \in Sockets : AddRule(s)
  BY <1>3 DEF AddRule, Quiet, setup
<1>4. ASSUME NEW p \in Ports, Arrive(p) PROVE Quiet'
  BY <1>4 DEF Arrive, Quiet, setup
<1>5. ASSUME NEW p \in Ports, NEW l \in Slaves, Transmit(p, l) PROVE Quiet'
  <2>1. p \in EthPorts
    BY PortsAreNumbered
  <2>2. phase \in {"run", "dead"} /\ UNCHANGED phase
    BY <1>5, <2>1 DEF Transmit, Quiet, setup
  <2> QED
    BY <2>2 DEF Quiet
<1>6. ASSUME NEW l \in Slaves, MainLoop(l) PROVE Quiet'
  <2>1. phase' \in {"run", "dead"}
    BY <1>6 DEF MainLoop, Top, Drain, Drained, TxBurst, NoSuchPort, Sent, RxBurst, AllPolled, Lookup,
                Group, SendGroup, GroupsSent, At, setup
  <2> QED
    BY <2>1 DEF Quiet
<1> QED
  BY <1>1, <1>2, <1>3, <1>4, <1>5, <1>6 DEF Next

\* Each step is a step of the output-queued switch, or is not seen there.
LEMMA RefStep ==
  ASSUME RefInv, [Next]_vars
  PROVE  RefInv' /\ [OQ!Next]_Mapped
<1>1. OqInv /\ OqInv' /\ Quiet /\ Dealt /\ Owned /\ NoneLate
  BY OqInvStep DEF RefInv
<1>2. Quiet' /\ Dealt' /\ NoneLate'
  BY <1>1, QuietKept, DealtKept, NoneLateKept
<1>3. Owned' /\ [OQ!Next]_Mapped
  <2>1. CASE SetUp
    BY <1>1, <2>1, SetUpIsSilent DEF Mapped
  <2>2. CASE Failed \/ Dead \/ UNCHANGED vars
    <3>1. UNCHANGED <<rx_queue_list, rxq, txq, wire, to_port, tosend, tx_mbufs, burst, dst_port, j>>
      BY <2>2 DEF Failed, Dead, vars, setup, queues, lcore_conf, found, tx
    <3> QED
      BY <1>1, <3>1, IdleStep
  <2>3. ASSUME NEW s \in Sockets, AddRule(s) PROVE Owned' /\ [OQ!Next]_Mapped
    <3>1. UNCHANGED <<rx_queue_list, rxq, txq, wire, to_port, tosend, tx_mbufs, burst, dst_port, j>>
      BY <2>3 DEF AddRule, setup, queues, lcore_conf, found, tx
    <3> QED
      BY <1>1, <3>1, IdleStep
  <2>4. ASSUME NEW p \in Ports, Arrive(p) PROVE Owned' /\ [OQ!Next]_Mapped
    BY <1>1, <2>4, ArriveAccepts
  <2>5. ASSUME NEW p \in Ports, NEW l \in Slaves, Transmit(p, l) PROVE Owned' /\ [OQ!Next]_Mapped
    BY <1>1, <2>5, TransmitDelivers
  <2>6. ASSUME NEW l \in Slaves, MainLoop(l) PROVE Owned' /\ [OQ!Next]_Mapped
    BY <1>1, <2>6, MainLoopSteps
  <2> QED
    BY <2>1, <2>2, <2>3, <2>4, <2>5, <2>6 DEF Next
<1> QED
  BY <1>1, <1>2, <1>3 DEF RefInv

\* The datapath is an output-queued switch: packets of a pair of ports keep their
\* order, and none is lost, duplicated or sent by a port its rule does not name
\* (main_loop, send_packetsx4, send_burst).
THEOREM IsSwitch == Spec => IsOutputQueuedSwitch
<1>1. Init => RefInv /\ OQ!Init
  BY RefInvInit
<1>2. RefInv /\ [Next]_vars => RefInv' /\ [OQ!Next]_<<Unrouted, Routed, wire>>
  BY RefStep DEF Mapped
<1> QED
  BY <1>1, <1>2, PTL DEF Spec, IsOutputQueuedSwitch, OQ!Spec
=============================================================================
