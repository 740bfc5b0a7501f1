--------------------------- MODULE DaqRingProofs ---------------------------
(***************************************************************************)
(* Theorems about DaqRing, for any number of nodes, threads and mbufs, any *)
(* sizes and any rates: types and sizes, the rate limit, and that each     *)
(* mbuf has one owner.                                                     *)
(***************************************************************************)
EXTENDS DaqRing, TLAPS

-----------------------------------------------------------------------------
(* The beginning and the rest of a sequence. *)

LEMMA FirstOf ==
  ASSUME NEW S, NEW s \in Seq(S), NEW n \in 0 .. Len(s)
  PROVE  /\ First(s, n) \in Seq(S) /\ Len(First(s, n)) = n
         /\ \A k \in 1 .. n : First(s, n)[k] = s[k]
BY DEF First

LEMMA FromOf ==
  ASSUME NEW S, NEW s \in Seq(S), NEW n \in 0 .. Len(s)
  PROVE  /\ From(s, n) \in Seq(S) /\ Len(From(s, n)) = Len(s) - n
         /\ \A k \in 1 .. Len(s) - n : From(s, n)[k] = s[n + k]
BY DEF From

LEMMA ConcatOf ==
  ASSUME NEW S, NEW s \in Seq(S), NEW t \in Seq(S)
  PROVE  /\ s \o t \in Seq(S) /\ Len(s \o t) = Len(s) + Len(t)
         /\ \A k \in 1 .. Len(s) : (s \o t)[k] = s[k]
         /\ \A k \in 1 .. Len(t) : (s \o t)[Len(s) + k] = t[k]
OBVIOUS

\* What a subring gives is at most what it holds, however much it is asked for,
\* and what an int makes of the credit that is left is an int.
LEMMA Taken ==
  ASSUME DaqRingAssumption, NEW c \in Ints, NEW l \in 0 .. RingSize
  PROVE  /\ Lesser(Unsigned(c), l) \in 0 .. l
         /\ Wrapped(c - Lesser(Unsigned(c), l)) \in Ints
         /\ c >= 0 => /\ Lesser(Unsigned(c), l) <= c
                      /\ Wrapped(c - Lesser(Unsigned(c), l)) = c - Lesser(Unsigned(c), l)
<1> DEFINE n == Lesser(Unsigned(c), l)
<1>1. /\ IntMax \in Nat /\ RingSize \in Nat /\ RingSize <= IntMax
      /\ c \in Int /\ -IntMax - 1 <= c /\ c <= IntMax
      /\ l \in Int /\ 0 <= l /\ l <= RingSize
  BY DEF DaqRingAssumption, Ints
<1>2. Unsigned(c) \in Nat /\ (c >= 0 => Unsigned(c) = c)
  BY <1>1 DEF Unsigned
<1>3. n \in 0 .. l /\ n <= Unsigned(c)
  BY <1>1, <1>2 DEF Lesser
<1> HIDE DEF n
<1>4. Wrapped(c - n) \in Ints
  BY <1>1, <1>3 DEF Wrapped, Ints
<1>5. c >= 0 => n <= c /\ Wrapped(c - n) = c - n
  BY <1>1, <1>2, <1>3 DEF Wrapped
<1> QED BY <1>3, <1>4, <1>5 DEF n

LEMMA LesserOf ==
  \A a, b \in Nat : Lesser(a, b) \in 0 .. a /\ Lesser(a, b) <= b
BY DEF Lesser
-----------------------------------------------------------------------------
(***************************************************************************)
(* The rate.  Unless it was set to a negative number, what has been polled *)
(* since curr_burst was set and what is left of it make up what it was set *)
(* to; and while a thread polls, what it has taken out and what it may     *)
(* still take fit in its array.                                            *)
(***************************************************************************)

RateInv ==
  /\ TypeOK
  /\ pc \in {"idle", "rate"} => packets = <<>>
  /\ granted >= 0 => curr_burst >= 0 /\ polled + curr_burst = granted
  /\ granted >= 0 /\ pc = "dequeue" => Len(packets) + curr_burst <= NetdevMaxBurst

LEMMA RateStarts == Init => RateInv
<1> SUFFICES ASSUME Init
             PROVE  RateInv
  OBVIOUS
<1> USE DaqRingAssumption
<1>1. <<>> \in Seq(Mbufs) /\ Len(<<>>) = 0
  OBVIOUS
<1>2. batch \in [Threads -> Seq(Mbufs)] /\ \A t \in Threads : Len(batch[t]) <= RxBurst
  BY <1>1 DEF Init
<1>3. r \in [Nodes -> Seq(Mbufs)] /\ \A n \in Nodes : Len(r[n]) <= RingSize
  BY <1>1 DEF Init
<1>4. packets \in Seq(Mbufs) /\ Len(packets) <= NetdevMaxBurst
  BY <1>1 DEF Init
<1>5. i \in Nodes
  BY DEF Init, Nodes
<1>6. curr_burst \in Ints /\ elapsed \in 0 .. TscBound /\ polled \in Nat
      /\ max_burst \in MaxBursts
  BY DEF Init, Ints
<1>7. TypeOK
  BY <1>2, <1>3, <1>4, <1>5, <1>6 DEF Init, TypeOK
<1> QED BY <1>7 DEF Init, RateInv

LEMMA RateSteps == RateInv /\ [Next]_vars => RateInv'
<1> SUFFICES ASSUME RateInv, [Next]_vars
             PROVE  RateInv'
  OBVIOUS
<1> USE DaqRingAssumption
<1>1. CASE UNCHANGED vars
  BY <1>1 DEF RateInv, TypeOK, vars, config, recv, history
<1>2. ASSUME NEW t \in Threads, GetMbufs(t)
      PROVE  RateInv'
  <2>1. PICK n \in 1 .. RxBurst : \E s \in Injection(1 .. n, pool) :
             batch' = [batch EXCEPT ![t] = s] /\ pool' = pool \ Range(s)
    BY <1>2 DEF GetMbufs
  <2>2. PICK s \in Injection(1 .. n, pool) :
             batch' = [batch EXCEPT ![t] = s] /\ pool' = pool \ Range(s)
    BY <2>1
  <2>3. s \in [1 .. n -> Mbufs] /\ n \in Nat /\ n <= RxBurst
    BY <2>2 DEF Injection, RateInv, TypeOK
  <2>4. s \in Seq(Mbufs) /\ Len(s) = n
    BY <2>3
  <2>5. batch' \in [Threads -> Seq(Mbufs)] /\ \A u \in Threads : Len(batch'[u]) <= RxBurst
    BY <2>2, <2>3, <2>4 DEF RateInv, TypeOK
  <2> QED BY <1>2, <2>2, <2>5 DEF GetMbufs, RateInv, TypeOK, config, recv, history
<1>3. ASSUME NEW t \in Threads, Send(t)
      PROVE  RateInv'
  <2> DEFINE pkts == batch[t]
             n == SocketId[t]
             nb == Lesser(Len(pkts), RingSize - Len(r[n]))
  <2>1. pkts \in Seq(Mbufs) /\ n \in Nodes /\ r[n] \in Seq(Mbufs) /\ Len(r[n]) <= RingSize
    BY DEF RateInv, TypeOK
  <2>2. nb \in 0 .. Len(pkts) /\ nb <= RingSize - Len(r[n])
    <3>1. Len(pkts) \in Nat /\ RingSize - Len(r[n]) \in Nat
      BY <2>1
    <3> HIDE DEF pkts, n
    <3>2. nb \in 0 .. Len(pkts)
      BY <3>1, LesserOf
    <3>3. nb <= RingSize - Len(r[n])
      BY <3>1, LesserOf
    <3> QED BY <3>2, <3>3
  <2>3. First(pkts, nb) \in Seq(Mbufs) /\ Len(First(pkts, nb)) = nb
    BY <2>1, <2>2, FirstOf
  <2>4. r' = [r EXCEPT ![n] = @ \o First(pkts, nb)]
        /\ pool' = pool \cup Deleted(pkts, nb) /\ batch' = [batch EXCEPT ![t] = <<>>]
        /\ partly' = (partly \/ nb \in 1 .. Len(pkts) - 1)
    BY <1>3 DEF Send
  <2>5. r[n] \o First(pkts, nb) \in Seq(Mbufs) /\ Len(r[n] \o First(pkts, nb)) <= RingSize
    <3>1. /\ r[n] \o First(pkts, nb) \in Seq(Mbufs)
          /\ Len(r[n] \o First(pkts, nb)) = Len(r[n]) + Len(First(pkts, nb))
      BY <2>1, <2>3, ConcatOf
    <3> HIDE DEF pkts, n, nb
    <3> QED BY <3>1, <2>1, <2>2, <2>3
  <2>6. r' \in [Nodes -> Seq(Mbufs)] /\ \A k \in Nodes : Len(r'[k]) <= RingSize
    BY <2>4, <2>5 DEF RateInv, TypeOK
  <2>7. Deleted(pkts, nb) \subseteq Mbufs
    <3>1. Len(pkts) - nb \in 0 .. Len(pkts)
      BY <2>1, <2>2
    <3>2. First(pkts, Len(pkts) - nb) \in Seq(Mbufs)
      BY <2>1, <3>1, FirstOf
    <3> QED BY <3>2 DEF Deleted, Range
  <2>8. batch' \in [Threads -> Seq(Mbufs)] /\ \A u \in Threads : Len(batch'[u]) <= RxBurst
    BY <2>4 DEF RateInv, TypeOK
  <2>9. partly' \in BOOLEAN
    BY <2>4
  <2> HIDE DEF pkts, n, nb
  <2> QED BY <1>3, <2>4, <2>6, <2>7, <2>8, <2>9 DEF Send, RateInv, TypeOK, config, recv
<1>4. CASE ReadConfig
  BY <1>4 DEF ReadConfig, Goto, RateInv, TypeOK, config, recv, history
<1>5. CASE Rate
  <2>1. /\ NetdevMaxBurst \in Nat /\ granted \in MaxBursts \cup {0} /\ burst \in MaxBursts \cup {0}
        /\ \A b \in MaxBursts \cup {0} : b \in Ints /\ b \in Int /\ b <= NetdevMaxBurst
        /\ curr_burst \in Int /\ polled \in Nat
    BY DEF RateInv, TypeOK, Ints
  <2>2. \/ curr_burst' = burst /\ granted' = burst /\ polled' = 0
        \/ UNCHANGED <<curr_burst, granted, polled>>
    BY <1>5 DEF Rate, Credited
  <2>3. /\ curr_burst' \in Ints /\ granted' \in MaxBursts \cup {0} /\ polled' \in Nat
        /\ granted' >= 0 => /\ curr_burst' >= 0 /\ polled' + curr_burst' = granted'
                            /\ curr_burst' <= NetdevMaxBurst
    <3>1. CASE curr_burst' = burst /\ granted' = burst /\ polled' = 0
      BY <2>1, <3>1
    <3>2. CASE UNCHANGED <<curr_burst, granted, polled>>
      BY <2>1, <3>2 DEF RateInv, TypeOK
    <3> QED BY <2>2, <3>1, <3>2
  <2>4. /\ pc' \in {"idle", "dequeue"} /\ i' \in Nodes /\ packets' = <<>>
        /\ burst' \in MaxBursts \cup {0} /\ poll' \in PollTscs \cup {0}
    BY <1>5 DEF Rate, Goto, Return, RateInv, TypeOK, Nodes
  <2>5. elapsed' \in 0 .. TscBound
    BY <1>5 DEF Rate, RateInv, TypeOK
  <2>6. packets' \in Seq(Mbufs) /\ Len(packets') = 0
    BY <2>4
  <2>7. UNCHANGED <<pool, batch, r, max_burst, poll_tsc, partly>>
    BY <1>5 DEF Rate, config
  <2>8. TypeOK'
    BY <2>1, <2>3, <2>4, <2>5, <2>6, <2>7 DEF RateInv, TypeOK
  <2>9. granted' >= 0 => Len(packets') + curr_burst' <= NetdevMaxBurst
    <3>1. \A x, y, z : x = 0 /\ y \in Int /\ y <= z => x + y <= z
      OBVIOUS
    <3>2. curr_burst' \in Int
      BY <2>3 DEF Ints
    <3> QED BY <2>3, <2>6, <3>1, <3>2, Zenon
  <2> QED BY <2>3, <2>4, <2>8, <2>9 DEF RateInv
<1>6. CASE Dequeue
  <2> DEFINE n == Lesser(Unsigned(curr_burst), Len(r[i]))
  <2>1. /\ pc = "dequeue" /\ packets' = packets \o First(r[i], n) /\ r' = [r EXCEPT ![i] = From(@, n)]
        /\ curr_burst' = Wrapped(curr_burst - n) /\ polled' = polled + n
    BY <1>6 DEF Dequeue, Credit
  <2>2. r[i] \in Seq(Mbufs) /\ Len(r[i]) \in 0 .. RingSize /\ curr_burst \in Ints
        /\ packets \in Seq(Mbufs)
    BY DEF RateInv, TypeOK
  <2>3. /\ n \in 0 .. Len(r[i]) /\ Wrapped(curr_burst - n) \in Ints
        /\ curr_burst >= 0 => n <= curr_burst /\ Wrapped(curr_burst - n) = curr_burst - n
    BY <2>2, Taken
  <2> HIDE DEF n
  <2>4. First(r[i], n) \in Seq(Mbufs) /\ Len(First(r[i], n)) = n
    BY <2>2, <2>3, FirstOf
  <2>5. From(r[i], n) \in Seq(Mbufs) /\ Len(From(r[i], n)) <= RingSize
    BY <2>2, <2>3, FromOf
  <2>6. packets' \in Seq(Mbufs) /\ Len(packets') = Len(packets) + n
    BY <2>1, <2>2, <2>4, ConcatOf
  <2>7. r' \in [Nodes -> Seq(Mbufs)] /\ \A k \in Nodes : Len(r'[k]) <= RingSize
    BY <2>1, <2>5 DEF RateInv, TypeOK
  <2>8. n \in Nat /\ polled \in Nat /\ Len(packets) \in Nat /\ curr_burst \in Int
    BY <2>2, <2>3 DEF RateInv, TypeOK, Ints
  <2>9. curr_burst' \in Ints /\ polled' \in Nat
    BY <2>1, <2>3, <2>8
  <2>10. granted >= 0 => /\ curr_burst' >= 0 /\ polled' + curr_burst' = granted
                        /\ Len(packets') + curr_burst' <= NetdevMaxBurst
    BY <2>1, <2>3, <2>6, <2>8 DEF RateInv
  <2>11. i' \in Nodes /\ pc' \in {"dequeue", "output"}
    <3>1. i \in 0 .. NumaNodes - 1 /\ NumaNodes \in Nat
      BY DEF RateInv, TypeOK, Nodes
    <3>2. \/ pc' = "output" /\ i' = i
          \/ i # NumaNodes - 1 /\ i' = i + 1 /\ pc' = "dequeue"
      BY <1>6, <2>1 DEF Dequeue, Goto
    <3> QED BY <3>1, <3>2 DEF Nodes
  <2>12. UNCHANGED <<pool, batch, max_burst, poll_tsc, elapsed, burst, poll, granted, partly>>
    BY <1>6 DEF Dequeue, config
  <2>13. granted >= 0 => Len(packets') <= NetdevMaxBurst
    <3>1. curr_burst' \in Int /\ Len(packets') \in Nat /\ NetdevMaxBurst \in Nat
      BY <2>6, <2>8, <2>9 DEF Ints
    <3> QED BY <2>10, <3>1
  <2>14. TypeOK'
    BY <2>6, <2>7, <2>9, <2>11, <2>12, <2>13 DEF RateInv, TypeOK
  <2> QED BY <2>10, <2>11, <2>12, <2>14 DEF RateInv
<1>7. CASE Output
  <2>1. Range(packets) \subseteq Mbufs
    BY DEF Range, RateInv, TypeOK
  <2>2. packets' = <<>> /\ packets' \in Seq(Mbufs) /\ Len(packets') = 0 /\ i' \in Nodes
    BY <1>7 DEF Output, Return, Nodes
  <2> QED BY <1>7, <2>1, <2>2 DEF Output, Goto, Return, RateInv, TypeOK, config, history
<1>8. CASE SetMaxBurst
  BY <1>8 DEF SetMaxBurst, RateInv, TypeOK, recv, history
<1>9. CASE SetPollTsc
  BY <1>9 DEF SetPollTsc, RateInv, TypeOK, recv, history
<1>10. CASE Tick
  BY <1>10 DEF Tick, RateInv, TypeOK, config, recv, history
<1> QED BY <1>1, <1>2, <1>3, <1>4, <1>5, <1>6, <1>7, <1>8, <1>9, <1>10 DEF Next, Recv

\* Every variable keeps its type, no subring holds more than its size, and the
\* array of netdev_dpdk_daqring_rxq_recv is not overrun by polls that use a
\* credit that was not negative, whatever the operator sets meanwhile.
THEOREM TypesAndSizes == Spec => []TypeOK
<1>1. RateInv => TypeOK
  BY DEF RateInv
<1> QED BY <1>1, RateStarts, RateSteps, PTL DEF Spec

\* For every limit that is not negative and every interval, and however they
\* are changed, no more is polled in an interval than the credit it began with.
THEOREM RateIsLimited == Spec => []RateLimited
<1>1. RateInv => RateLimited
  <2> SUFFICES ASSUME RateInv, granted >= 0
               PROVE  polled <= granted
    BY DEF RateLimited
  <2>1. polled \in Nat /\ curr_burst \in Int /\ curr_burst >= 0 /\ polled + curr_burst = granted
    BY DEF RateInv, TypeOK, Ints
  <2> QED BY <2>1
<1> QED BY <1>1, RateStarts, RateSteps, PTL DEF Spec
-----------------------------------------------------------------------------
(***************************************************************************)
(* Owners.  Each step but a partial enqueue moves whole runs of places     *)
(* from one owner to another, or from an owner to the pool.                *)
(***************************************************************************)

Place(o, k, m) == k \in DOMAIN Owned(o) /\ Owned(o)[k] = m

FreeIsUnused(m) == m \in pool => \A o \in Owners : \A k \in Nat : ~Place(o, k, m)
OnePlace(m) == \A o, q \in Owners : \A j, k \in Nat : Place(o, k, m) /\ Place(q, j, m) => o = q /\ k = j
FreeOrUsed(m) == m \in pool \/ \E o \in Owners : \E k \in Nat : Place(o, k, m)
Accounted == \A m \in Mbufs : FreeIsUnused(m) /\ OnePlace(m) /\ FreeOrUsed(m)
OwnerInv == ~partly => Accounted

Batch(t) == <<"batch", t>>
Subring(n) == <<"subring", n>>
Packets == <<"packets", 0>>

LEMMA OwnersAre ==
  /\ \A t \in Threads : Batch(t) \in Owners
  /\ \A n \in Nodes : Subring(n) \in Owners
  /\ Packets \in Owners
  /\ \A o \in Owners : \/ \E t \in Threads : o = Batch(t)
                       \/ \E n \in Nodes : o = Subring(n)
                       \/ o = Packets
  /\ \A t, n : Batch(t) # Subring(n) /\ Batch(t) # Packets /\ Subring(n) # Packets
  /\ \A t, u : (Batch(t) = Batch(u) => t = u) /\ (Subring(t) = Subring(u) => t = u)
BY DEF Owners, Batch, Subring, Packets

LEMMA OwnedAre ==
  /\ \A t : Owned(Batch(t)) = batch[t] /\ Owned(Batch(t))' = batch'[t]
  /\ \A n : Owned(Subring(n)) = r[n] /\ Owned(Subring(n))' = r'[n]
  /\ Owned(Packets) = packets /\ Owned(Packets)' = packets'
BY DEF Owned, Batch, Subring, Packets

LEMMA OwnersStart == Init => OwnerInv
<1> SUFFICES ASSUME Init
             PROVE  Accounted
  BY DEF OwnerInv
<1>1. \A o \in Owners : Owned(o) = <<>>
  BY OwnersAre, OwnedAre DEF Init
<1>2. \A o \in Owners : \A k, m : ~Place(o, k, m)
  BY <1>1 DEF Place
<1> QED BY <1>2 DEF Accounted, FreeIsUnused, OnePlace, FreeOrUsed, Init
LEMMA OwnersKept ==
  ASSUME OwnerInv, UNCHANGED <<pool, batch, r, packets, partly>>
  PROVE  OwnerInv'
<1>1. \A o \in Owners : Owned(o)' = Owned(o)
  BY OwnersAre, OwnedAre
<1>2. Owners' = Owners
  BY DEF Owners
<1>3. \A o \in Owners : \A k, m : Place(o, k, m)' = Place(o, k, m)
  BY <1>1 DEF Place
<1> QED BY <1>2, <1>3 DEF OwnerInv, Accounted, FreeIsUnused, OnePlace, FreeOrUsed

\* An owner without packets gets some that were free.
LEMMA OwnersGet ==
  ASSUME RateInv, OwnerInv, NEW t \in Threads, GetMbufs(t)
  PROVE  OwnerInv'
<1>1. PICK n \in 1 .. RxBurst : \E s \in Injection(1 .. n, pool) :
           batch' = [batch EXCEPT ![t] = s] /\ pool' = pool \ Range(s)
  BY DEF GetMbufs
<1>2. PICK s \in Injection(1 .. n, pool) :
           batch' = [batch EXCEPT ![t] = s] /\ pool' = pool \ Range(s)
  BY <1>1
<1>3. /\ s \in [1 .. n -> pool] /\ DOMAIN s = 1 .. n
      /\ \A j, k \in 1 .. n : s[j] = s[k] => j = k
      /\ \A m : m \in Range(s) <=> \E k \in 1 .. n : s[k] = m
  BY <1>2 DEF Injection, IsInjective, Range
<1>4. UNCHANGED <<r, packets, partly>> /\ batch[t] = <<>> /\ Owners' = Owners
  BY DEF GetMbufs, history, Owners
<1>5. /\ batch'[t] = s /\ \A u \in Threads \ {t} : batch'[u] = batch[u]
  BY <1>2 DEF RateInv, TypeOK
<1>6. \A k, m : Place(Batch(t), k, m)' <=> k \in 1 .. n /\ s[k] = m
  BY <1>3, <1>5, OwnedAre DEF Place
<1>7. \A o \in Owners \ {Batch(t)} : Owned(o)' = Owned(o)
  BY <1>4, <1>5, OwnersAre, OwnedAre
<1>8. \A o \in Owners \ {Batch(t)} : \A k, m : Place(o, k, m)' <=> Place(o, k, m)
  BY <1>7 DEF Place
<1>9. \A k, m : ~Place(Batch(t), k, m)
  BY <1>4, OwnedAre DEF Place
<1>10. SUFFICES ASSUME Accounted, NEW m \in Mbufs
                PROVE  /\ FreeIsUnused(m)' /\ OnePlace(m)' /\ FreeOrUsed(m)'
  BY <1>4 DEF OwnerInv, Accounted
<1>11. FreeIsUnused(m) /\ OnePlace(m) /\ FreeOrUsed(m)
  BY <1>10 DEF Accounted
<1>12. FreeIsUnused(m)'
  BY <1>2, <1>3, <1>4, <1>6, <1>8, <1>11 DEF FreeIsUnused
<1>13. OnePlace(m)'
  BY <1>3, <1>4, <1>6, <1>8, <1>11 DEF OnePlace, FreeIsUnused
<1>14. FreeOrUsed(m)'
  <2>1. CASE m \in pool
    <3>1. m \in pool' \/ \E k \in 1 .. n : s[k] = m
      BY <1>2, <1>3, <2>1
    <3>2. Batch(t) \in Owners
      BY OwnersAre
    <3>3. \A k \in 1 .. n : k \in Nat
      OBVIOUS
    <3> QED BY <1>4, <1>6, <3>1, <3>2, <3>3 DEF FreeOrUsed
  <2>2. CASE m \notin pool
    <3>1. PICK o \in Owners, k \in Nat : Place(o, k, m)
      BY <1>11, <2>2 DEF FreeOrUsed
    <3>2. o # Batch(t)
      BY <1>9, <3>1
    <3> QED BY <1>4, <1>8, <3>1, <3>2 DEF FreeOrUsed
  <2> QED BY <2>1, <2>2
<1> QED BY <1>12, <1>13, <1>14

\* An owner gives all its packets back.
LEMMA OwnersFree ==
  ASSUME OwnerInv, NEW o \in Owners, Owned(o) \in Seq(Mbufs),
         Owned(o)' = <<>>, \A q \in Owners \ {o} : Owned(q)' = Owned(q),
         pool' = pool \cup Range(Owned(o)), UNCHANGED partly
  PROVE  OwnerInv'
<1>1. Owners' = Owners
  BY DEF Owners
<1>2. \A k, m : ~Place(o, k, m)'
  BY DEF Place
<1>3. \A q \in Owners \ {o} : \A k, m : Place(q, k, m)' <=> Place(q, k, m)
  BY DEF Place
<1>4. \A m : m \in Range(Owned(o)) <=> \E k \in Nat : Place(o, k, m)
  BY DEF Range, Place
<1>5. SUFFICES ASSUME Accounted, NEW m \in Mbufs
               PROVE  FreeIsUnused(m)' /\ OnePlace(m)' /\ FreeOrUsed(m)'
  BY <1>1 DEF OwnerInv, Accounted
<1>6. FreeIsUnused(m) /\ OnePlace(m) /\ FreeOrUsed(m)
  BY <1>5 DEF Accounted
<1>7. FreeIsUnused(m)'
  BY <1>1, <1>2, <1>3, <1>4, <1>6 DEF FreeIsUnused, OnePlace
<1>8. OnePlace(m)'
  BY <1>1, <1>2, <1>3, <1>6 DEF OnePlace
<1>9. FreeOrUsed(m)'
  BY <1>1, <1>3, <1>4, <1>6 DEF FreeOrUsed
<1> QED BY <1>7, <1>8, <1>9

\* An owner gives the first n of its packets to another, which puts them
\* behind its own.
LEMMA OwnersPass ==
  ASSUME OwnerInv, NEW a \in Owners, NEW b \in Owners, a # b,
         Owned(a) \in Seq(Mbufs), Owned(b) \in Seq(Mbufs), NEW n \in 0 .. Len(Owned(a)),
         Owned(a)' = From(Owned(a), n), Owned(b)' = Owned(b) \o First(Owned(a), n),
         \A q \in Owners \ {a, b} : Owned(q)' = Owned(q), UNCHANGED <<pool, partly>>
  PROVE  OwnerInv'
<1> DEFINE A == Owned(a)
           B == Owned(b)
<1>1. Owners' = Owners
  BY DEF Owners
<1>2. /\ Len(A) \in Nat /\ Len(B) \in Nat /\ n \in Nat /\ n <= Len(A)
      /\ DOMAIN A = 1 .. Len(A) /\ DOMAIN B = 1 .. Len(B)
  OBVIOUS
<1>3. \A k, m : Place(a, k, m)' <=> k \in 1 .. Len(A) - n /\ A[n + k] = m
  <2>1. From(A, n) \in Seq(Mbufs) /\ Len(From(A, n)) = Len(A) - n
        /\ \A k \in 1 .. Len(A) - n : From(A, n)[k] = A[n + k]
    BY FromOf
  <2>2. DOMAIN From(A, n) = 1 .. Len(A) - n
    BY <2>1
  <2> HIDE DEF A
  <2> QED BY <2>1, <2>2 DEF Place, A
<1>4. \A k, m : Place(b, k, m)' <=> \/ k \in 1 .. Len(B) /\ B[k] = m
                                    \/ k \in Len(B) + 1 .. Len(B) + n /\ A[k - Len(B)] = m
  <2>1. First(A, n) \in Seq(Mbufs) /\ Len(First(A, n)) = n /\ \A k \in 1 .. n : First(A, n)[k] = A[k]
    BY FirstOf
  <2> DEFINE C == B \o First(A, n)
  <2>2. /\ Len(C) = Len(B) + n /\ DOMAIN C = 1 .. Len(B) + n
        /\ \A k \in 1 .. Len(B) : C[k] = B[k]
        /\ \A k \in 1 .. n : C[Len(B) + k] = A[k]
    <3>1. /\ C \in Seq(Mbufs) /\ Len(C) = Len(B) + Len(First(A, n))
          /\ \A k \in 1 .. Len(B) : C[k] = B[k]
          /\ \A k \in 1 .. Len(First(A, n)) : C[Len(B) + k] = First(A, n)[k]
      <4>1. B \in Seq(Mbufs)
        OBVIOUS
      <4> DEFINE F == First(A, n)
      <4>2. F \in Seq(Mbufs)
        BY <2>1
      <4> HIDE DEF A, B, F
      <4>3. /\ B \o F \in Seq(Mbufs) /\ Len(B \o F) = Len(B) + Len(F)
            /\ \A k \in 1 .. Len(B) : (B \o F)[k] = B[k]
            /\ \A k \in 1 .. Len(F) : (B \o F)[Len(B) + k] = F[k]
        BY <4>1, <4>2, ConcatOf
      <4> QED BY <4>3 DEF F
    <3>2. DOMAIN C = 1 .. Len(C)
      BY <3>1
    <3> HIDE DEF A, B, C
    <3> QED BY <2>1, <3>1, <3>2
  <2>3. \A k \in Len(B) + 1 .. Len(B) + n : k - Len(B) \in 1 .. n /\ C[k] = A[k - Len(B)]
    <3> TAKE k \in Len(B) + 1 .. Len(B) + n
    <3>1. k - Len(B) \in 1 .. n /\ Len(B) + (k - Len(B)) = k
      BY <1>2
    <3> HIDE DEF A, B, C
    <3> QED BY <2>2, <3>1
  <2>4. \A k, m : Place(b, k, m)' <=> k \in 1 .. Len(B) + n /\ C[k] = m
    BY <2>2 DEF Place
  <2> HIDE DEF A, B, C
  <2>5. \A k : k \in 1 .. Len(B) + n <=> k \in 1 .. Len(B) \/ k \in Len(B) + 1 .. Len(B) + n
    BY <1>2
  <2> QED BY <2>2, <2>3, <2>4, <2>5
<1>5. \A k, m : Place(a, k, m) <=> k \in 1 .. Len(A) /\ A[k] = m
  BY DEF Place
<1>6. \A k, m : Place(b, k, m) <=> k \in 1 .. Len(B) /\ B[k] = m
  BY DEF Place
<1>7. \A q \in Owners \ {a, b} : \A k, m : Place(q, k, m)' <=> Place(q, k, m)
  BY DEF Place
<1> HIDE DEF A, B
<1>8. SUFFICES ASSUME Accounted, NEW m \in Mbufs
               PROVE  FreeIsUnused(m)' /\ OnePlace(m)' /\ FreeOrUsed(m)'
  BY <1>1 DEF OwnerInv, Accounted
<1>9. FreeIsUnused(m) /\ OnePlace(m) /\ FreeOrUsed(m)
  BY <1>8 DEF Accounted
\* Each place is the old place of the same packet: its owner, and its number there.
<1> DEFINE Was(q, k, p, j) ==
      \/ q = a /\ p = a /\ j = n + k
      \/ q = b /\ p = b /\ j = k /\ k <= Len(B)
      \/ q = b /\ p = a /\ j = k - Len(B) /\ k > Len(B) /\ k <= Len(B) + n
      \/ q \notin {a, b} /\ p = q /\ j = k
<1>10. \A q \in Owners, k \in Nat : Place(q, k, m)' =>
         \E p \in Owners, j \in Nat : Place(p, j, m) /\ Was(q, k, p, j)
  <2> SUFFICES ASSUME NEW q \in Owners, NEW k \in Nat, Place(q, k, m)'
               PROVE  \E p \in Owners, j \in Nat : Place(p, j, m) /\ Was(q, k, p, j)
    OBVIOUS
  <2>1. CASE q = a
    <3>1. k \in 1 .. Len(A) - n /\ A[n + k] = m
      BY <1>3, <2>1
    <3>2. n + k \in 1 .. Len(A) /\ n + k \in Nat
      BY <1>2, <3>1
    <3> QED BY <1>5, <2>1, <3>1, <3>2
  <2>2. CASE q = b
    <3>1. CASE k \in 1 .. Len(B) /\ B[k] = m
      BY <1>2, <1>6, <2>2, <3>1
    <3>2. CASE k \in Len(B) + 1 .. Len(B) + n /\ A[k - Len(B)] = m
      <4>1. k - Len(B) \in 1 .. Len(A) /\ k - Len(B) \in Nat /\ k > Len(B) /\ k <= Len(B) + n
        BY <1>2, <3>2
      <4> QED BY <1>5, <2>2, <3>2, <4>1
    <3> QED BY <1>4, <2>2, <3>1, <3>2
  <2>3. CASE q \notin {a, b}
    BY <1>7, <2>3
  <2> QED BY <2>1, <2>2, <2>3
<1>11. \A q, k, q2, k2, p, j : q \in Owners /\ q2 \in Owners /\ k \in Nat /\ k2 \in Nat
         /\ Was(q, k, p, j) /\ Was(q2, k2, p, j) /\ (q = a => k >= 1) /\ (q2 = a => k2 >= 1)
         => q = q2 /\ k = k2
  BY <1>2
<1>12. FreeIsUnused(m)'
  BY <1>1, <1>9, <1>10 DEF FreeIsUnused
<1>13. OnePlace(m)'
  <2> SUFFICES ASSUME NEW q \in Owners, NEW q2 \in Owners, NEW k \in Nat, NEW k2 \in Nat,
                      Place(q, k, m)', Place(q2, k2, m)'
               PROVE  q = q2 /\ k = k2
    BY <1>1 DEF OnePlace
  <2>1. PICK p \in Owners, j \in Nat : Place(p, j, m) /\ Was(q, k, p, j)
    BY <1>10
  <2>2. PICK p2 \in Owners, j2 \in Nat : Place(p2, j2, m) /\ Was(q2, k2, p2, j2)
    BY <1>10
  <2>3. p = p2 /\ j = j2
    BY <1>9, <2>1, <2>2 DEF OnePlace
  <2>4. (q = a => k >= 1) /\ (q2 = a => k2 >= 1)
    BY <1>3
  <2> HIDE DEF Was
  <2> QED BY <1>11, <2>1, <2>2, <2>3, <2>4
<1>14. FreeOrUsed(m)'
  <2>1. CASE m \in pool
    BY <2>1 DEF FreeOrUsed
  <2>2. CASE m \notin pool
    <3>1. PICK p \in Owners, j \in Nat : Place(p, j, m)
      BY <1>9, <2>2 DEF FreeOrUsed
    <3>2. \E q \in Owners, k \in Nat : Place(q, k, m)'
      <4>1. CASE p = a /\ j > n
        <5>1. j - n \in 1 .. Len(A) - n /\ n + (j - n) = j /\ j - n \in Nat /\ A[j] = m
          BY <1>2, <1>5, <3>1, <4>1
        <5> QED BY <1>3, <5>1
      <4>2. CASE p = a /\ j <= n
        <5>1. j + Len(B) \in Len(B) + 1 .. Len(B) + n /\ (j + Len(B)) - Len(B) = j
              /\ j + Len(B) \in Nat /\ A[j] = m
          BY <1>2, <1>5, <3>1, <4>2
        <5> QED BY <1>4, <5>1
      <4>3. CASE p = b
        BY <1>4, <1>6, <3>1, <4>3
      <4>4. CASE p \notin {a, b}
        BY <1>7, <3>1, <4>4
      <4> QED BY <1>2, <4>1, <4>2, <4>3, <4>4
    <3> QED BY <1>1, <3>2 DEF FreeOrUsed
  <2> QED BY <2>1, <2>2
<1> QED BY <1>12, <1>13, <1>14
LEMMA WholeAndNothing ==
  ASSUME NEW S, NEW s \in Seq(S)
  PROVE  /\ First(s, 0) = <<>> /\ First(s, Len(s)) = s
         /\ From(s, Len(s)) = <<>> /\ s \o <<>> = s
<1>1. First(s, 0) = <<>>
  BY DEF First
<1>2. First(s, Len(s)) = s
  BY DEF First
<1>3. From(s, Len(s)) = <<>>
  BY DEF From
<1>4. s \o <<>> = s
  OBVIOUS
<1> QED BY <1>1, <1>2, <1>3, <1>4

\* A batch is passed on whole, or freed whole, unless the subring takes a part.
LEMMA OwnersSend ==
  ASSUME RateInv, OwnerInv, NEW t \in Threads, Send(t)
  PROVE  OwnerInv'
<1> DEFINE pkts == batch[t]
           n == SocketId[t]
           nb == Lesser(Len(pkts), RingSize - Len(r[n]))
<1>1. /\ pkts \in Seq(Mbufs) /\ n \in Nodes /\ r[n] \in Seq(Mbufs) /\ Len(pkts) \in Nat
      /\ RingSize - Len(r[n]) \in Nat
  BY DaqRingAssumption DEF RateInv, TypeOK
<1>2. nb \in 0 .. Len(pkts)
  <2> HIDE DEF pkts, n
  <2> QED BY <1>1, LesserOf
<1>3. /\ r' = [r EXCEPT ![n] = @ \o First(pkts, nb)] /\ pool' = pool \cup Deleted(pkts, nb)
      /\ partly' = (partly \/ nb \in 1 .. Len(pkts) - 1)
      /\ batch' = [batch EXCEPT ![t] = <<>>] /\ UNCHANGED packets
  BY DEF Send
<1>4. /\ batch'[t] = <<>> /\ \A u \in Threads \ {t} : batch'[u] = batch[u]
      /\ r'[n] = r[n] \o First(pkts, nb) /\ \A k \in Nodes \ {n} : r'[k] = r[k]
  BY <1>1, <1>3 DEF RateInv, TypeOK
<1> HIDE DEF nb
<1>5. CASE partly'
  BY <1>5 DEF OwnerInv
<1>6. ASSUME ~partly'
      PROVE  UNCHANGED partly /\ ~(nb \in 1 .. Len(pkts) - 1)
  <2>1. partly \in BOOLEAN /\ partly' = (partly \/ nb \in 1 .. Len(pkts) - 1)
    BY <1>3 DEF RateInv, TypeOK
  <2> HIDE DEF pkts
  <2> QED BY <1>6, <2>1, Zenon
<1>7. CASE ~partly' /\ nb = 0
  <2>1. Deleted(pkts, nb) = Range(pkts) /\ First(pkts, nb) = <<>>
    <3>1. Len(pkts) - nb = Len(pkts)
      BY <1>1, <1>7
    <3> QED BY <1>1, <1>7, <3>1, WholeAndNothing DEF Deleted
  <2>2. r'[n] = r[n]
    BY <1>1, <1>4, <2>1, WholeAndNothing
  <2>3. Owned(Batch(t)) = pkts /\ Owned(Batch(t))' = <<>> /\ Batch(t) \in Owners
    BY <1>4, OwnedAre, OwnersAre
  <2>4. \A q \in Owners \ {Batch(t)} : Owned(q)' = Owned(q)
    BY <1>3, <1>4, <2>2, OwnedAre, OwnersAre
  <2>5. pool' = pool \cup Range(Owned(Batch(t))) /\ UNCHANGED partly
    BY <1>3, <1>7, <1>6, <2>1, <2>3
  <2>6. Owned(Batch(t)) \in Seq(Mbufs)
    BY <1>1, <2>3
  <2> QED BY <2>3, <2>4, <2>5, <2>6, OwnersFree
<1>8. CASE ~partly' /\ nb # 0
  <2>1. nb = Len(pkts) /\ UNCHANGED partly
    <3>1. ~(nb \in 1 .. Len(pkts) - 1) /\ UNCHANGED partly
      BY <1>8, <1>6
    <3> HIDE DEF pkts
    <3> QED BY <1>1, <1>2, <1>8, <3>1
  <2>2. Deleted(pkts, nb) = {}
    <3>1. Len(pkts) - nb = 0
      BY <1>1, <2>1
    <3>2. First(pkts, 0) = <<>>
      BY <1>1, WholeAndNothing
    <3>3. Range(<<>>) = {}
      BY DEF Range
    <3> QED BY <3>1, <3>2, <3>3 DEF Deleted
  <2>3. /\ Owned(Batch(t)) = pkts /\ Owned(Batch(t))' = <<>> /\ Batch(t) \in Owners
        /\ Owned(Subring(n)) = r[n] /\ Owned(Subring(n))' = r'[n] /\ Subring(n) \in Owners
        /\ Batch(t) # Subring(n)
    BY <1>1, <1>4, OwnedAre, OwnersAre
  <2>4. From(pkts, nb) = <<>>
    BY <1>1, <2>1, WholeAndNothing
  <2>5. \A q \in Owners \ {Batch(t), Subring(n)} : Owned(q)' = Owned(q)
    <3> HIDE DEF n, pkts
    <3> SUFFICES ASSUME NEW q \in Owners, q # Batch(t), q # Subring(n)
                 PROVE  Owned(q)' = Owned(q)
      OBVIOUS
    <3>1. CASE \E u \in Threads : q = Batch(u)
      BY <1>4, <3>1, OwnedAre
    <3>2. CASE \E k \in Nodes : q = Subring(k)
      BY <1>4, <3>2, OwnedAre
    <3>3. CASE q = Packets
      BY <1>3, <3>3, OwnedAre
    <3> QED BY <3>1, <3>2, <3>3, OwnersAre
  <2>6. UNCHANGED <<pool, partly>>
    BY <1>3, <2>1, <2>2
  <2>7. /\ Owned(Batch(t)) \in Seq(Mbufs) /\ Owned(Subring(n)) \in Seq(Mbufs)
        /\ nb \in 0 .. Len(Owned(Batch(t)))
        /\ Owned(Batch(t))' = From(Owned(Batch(t)), nb)
        /\ Owned(Subring(n))' = Owned(Subring(n)) \o First(Owned(Batch(t)), nb)
    BY <1>1, <1>2, <1>4, <2>3, <2>4
  <2> QED BY <2>3, <2>5, <2>6, <2>7, OwnersPass
<1> QED BY <1>5, <1>7, <1>8

LEMMA OwnersDequeue ==
  ASSUME RateInv, OwnerInv, Dequeue
  PROVE  OwnerInv'
<1> PICK x : x = i      \* the subring, whatever i is next
  OBVIOUS
<1> DEFINE n == Lesser(Unsigned(curr_burst), Len(r[x]))
<1>1. /\ packets' = packets \o First(r[x], n) /\ r' = [r EXCEPT ![x] = From(@, n)]
      /\ UNCHANGED <<pool, batch, partly>>
  BY DEF Dequeue, Credit
<1>2. r[x] \in Seq(Mbufs) /\ x \in Nodes /\ packets \in Seq(Mbufs)
  BY DEF RateInv, TypeOK
<1>3. n \in 0 .. Len(r[x])
  <2>1. curr_burst \in Ints /\ Len(r[x]) \in 0 .. RingSize
    BY <1>2 DEF RateInv, TypeOK
  <2> QED BY <2>1, DaqRingAssumption, Taken
<1> HIDE DEF n
<1>4. r'[x] = From(r[x], n) /\ \A k \in Nodes \ {x} : r'[k] = r[k]
  BY <1>1, <1>2 DEF RateInv, TypeOK
<1>5. /\ Owned(Subring(x)) = r[x] /\ r'[x] = Owned(Subring(x))' /\ Subring(x) \in Owners
      /\ Owned(Packets) = packets /\ Owned(Packets)' = packets' /\ Packets \in Owners
      /\ Subring(x) # Packets
  BY <1>2, OwnedAre, OwnersAre
<1>6. \A q \in Owners \ {Subring(x), Packets} : Owned(q)' = Owned(q)
  BY <1>1, <1>4, OwnedAre, OwnersAre
<1>7. /\ Owned(Subring(x)) \in Seq(Mbufs) /\ Owned(Packets) \in Seq(Mbufs)
      /\ n \in 0 .. Len(Owned(Subring(x)))
      /\ Owned(Subring(x))' = From(Owned(Subring(x)), n)
      /\ Owned(Packets)' = Owned(Packets) \o First(Owned(Subring(x)), n)
  BY <1>1, <1>2, <1>3, <1>4, <1>5
<1> QED BY <1>1, <1>5, <1>6, <1>7, OwnersPass

LEMMA OwnersOutput ==
  ASSUME RateInv, OwnerInv, Output
  PROVE  OwnerInv'
<1>1. pool' = pool \cup Range(packets) /\ packets' = <<>> /\ UNCHANGED <<batch, r, partly>>
  BY DEF Output, history
<1>2. Owned(Packets) = packets /\ Owned(Packets)' = <<>> /\ Packets \in Owners
      /\ packets \in Seq(Mbufs)
  BY <1>1, OwnedAre, OwnersAre DEF RateInv, TypeOK
<1>3. \A q \in Owners \ {Packets} : Owned(q)' = Owned(q)
  BY <1>1, OwnedAre, OwnersAre
<1> QED BY <1>1, <1>2, <1>3, OwnersFree

LEMMA OwnersSteps == RateInv /\ OwnerInv /\ [Next]_vars => OwnerInv'
<1> SUFFICES ASSUME RateInv, OwnerInv, [Next]_vars
             PROVE  OwnerInv'
  OBVIOUS
<1>1. CASE UNCHANGED vars
  BY <1>1, OwnersKept DEF vars, history
<1>2. ASSUME NEW t \in Threads, GetMbufs(t)
      PROVE  OwnerInv'
  BY <1>2, OwnersGet
<1>3. ASSUME NEW t \in Threads, Send(t)
      PROVE  OwnerInv'
  BY <1>3, OwnersSend
<1>4. CASE ReadConfig \/ Rate \/ SetMaxBurst \/ SetPollTsc \/ Tick
  <2>1. UNCHANGED <<pool, batch, r, packets, partly>>
    BY <1>4 DEF ReadConfig, Rate, SetMaxBurst, SetPollTsc, Tick, history
  <2> QED BY <2>1, OwnersKept
<1>5. CASE Dequeue
  BY <1>5, OwnersDequeue
<1>6. CASE Output
  BY <1>6, OwnersOutput
<1> QED BY <1>1, <1>2, <1>3, <1>4, <1>5, <1>6 DEF Next, Recv

\* As long as no subring takes a part of a batch, no mbuf is lost, freed while
\* it is in use, or in two places, whatever the sizes and the number of nodes.
THEOREM OneOwnerAlways == Spec => []OneOwner
<1>1. RateInv /\ OwnerInv => OneOwner
  <2> SUFFICES ASSUME RateInv, OwnerInv, ~partly, NEW m \in Mbufs
               PROVE  IF m \in pool THEN \A o \in Owners : m \notin Range(Owned(o))
                      ELSE \E o \in Owners : \E k \in DOMAIN Owned(o) :
                             /\ Owned(o)[k] = m
                             /\ \A q \in Owners : \A j \in DOMAIN Owned(q) :
                                  Owned(q)[j] = m => q = o /\ j = k
    BY DEF OneOwner
  <2>1. FreeIsUnused(m) /\ OnePlace(m) /\ FreeOrUsed(m)
    BY DEF OwnerInv, Accounted
  <2>2. \A o \in Owners : Owned(o) \in Seq(Mbufs)
    BY OwnersAre, OwnedAre DEF RateInv, TypeOK
  <2>3. \A o \in Owners : \A k \in DOMAIN Owned(o) : k \in Nat
    <3> TAKE o \in Owners
    <3> QED BY <2>2
  <2>4. CASE m \in pool
    BY <2>1, <2>3, <2>4 DEF FreeIsUnused, Place, Range
  <2>5. CASE m \notin pool
    <3>1. PICK o \in Owners, k \in Nat : Place(o, k, m)
      BY <2>1, <2>5 DEF FreeOrUsed
    <3>2. k \in DOMAIN Owned(o) /\ Owned(o)[k] = m
      BY <3>1 DEF Place
    <3>3. \A q \in Owners : \A j \in DOMAIN Owned(q) : Owned(q)[j] = m => q = o /\ j = k
      BY <2>1, <2>3, <3>1 DEF OnePlace, Place
    <3> QED BY <2>5, <3>2, <3>3
  <2> QED BY <2>4, <2>5
<1> QED BY <1>1, RateStarts, RateSteps, OwnersStart, OwnersSteps, PTL DEF Spec
=============================================================================
