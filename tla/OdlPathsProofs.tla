--------------------------- MODULE OdlPathsProofs ---------------------------
(***************************************************************************)
(* Proofs about OdlPaths: whatever the scripts ask for and the controller  *)
(* refuses, no packet goes astray, what has been distributed leads to the  *)
(* DCMs, no path is lost while others are made, and what has been removed  *)
(* is gone.                                                                *)
(*                                                                         *)
(* The flows of the bridges are always those of paths (Sane), and every    *)
(* ring that a flow leads into has a way out (Closed), at the bridges and  *)
(* at the controller, and after each of the requests on their way (Becomes)*)
(* in whatever order the bridges hear of them.  By such flows each hop of  *)
(* a packet brings it to a place of lower rank (At), and a connection is   *)
(* delivered if and only if the last leaf of every plane that it enters    *)
(* has a flow for it (Reaches).                                            *)
(***************************************************************************)
EXTENDS OdlPaths, Recursion, FiniteSetTheorems
-----------------------------------------------------------------------------
(* Sequences of the community modules. *)

\* What f has at i is the first i sequences of ss in a row.
Flattens(f, ss) ==
  /\ f[1] = ss[1]
  /\ \A i \in 2 .. Len(ss) : f[i] = f[i - 1] \o ss[i]

\* FlattenSeq is the last value of a function that flattens.
LEMMA FlattenBySome ==
  ASSUME NEW R, NEW ss \in Seq(Seq(R)), ss # <<>>
  PROVE  \E f : Flattens(f, ss) /\ FlattenSeq(ss) = f[Len(ss)]
<1> DEFINE n == Len(ss)
           T == Seq(R)
           Def(f) == f = [i \in 1 .. n |-> IF i = 1 THEN ss[i] ELSE f[i - 1] \o ss[i]]
           g == CHOOSE f : Def(f)
           step == [i \in 2 .. n |-> [t \in T |-> t \o ss[i]]]
           a == ss[1]
<1>1. n \in Nat /\ 1 \in Int /\ n \in Int /\ 1 <= n /\ n # 0
  OBVIOUS
<1>2. \A i \in 1 .. n : ss[i] \in T
  <2> DEFINE TT == Seq(R)
  <2>1. ss \in Seq(TT)
    OBVIOUS
  <2> HIDE DEF TT
  <2>2. \A i \in 1 .. Len(ss) : ss[i] \in TT
    BY <2>1, ElementOfSeq
  <2> QED
    BY <2>2 DEF TT
<1>3. \A t, u \in T : t \o u \in T
  BY ConcatProperties
<1>4. step \in [1 + 1 .. n -> [T -> T]]
  BY <1>2, <1>3
<1>5. \E f : IsRecursive(f, T, a, 1, n, step)
  <2>1. a \in T
    BY <1>1, <1>2
  <2> HIDE DEF T, n, a, step
  <2> QED
    BY <1>1, <1>4, <2>1, RecursiveFunction
<1>6. PICK f : IsRecursive(f, T, a, 1, n, step)
  BY <1>5
<1>7. /\ f \in [1 .. n -> T] /\ f[1] = ss[1]
      /\ \A i \in 2 .. n : f[i] = step[i][f[i - 1]]
  <2>1. 1 + 1 = 2
    OBVIOUS
  <2> HIDE DEF T, n, step
  <2> QED
    BY <1>6, <2>1 DEF IsRecursive, a
<1>8. ASSUME NEW i \in 2 .. n PROVE f[i] = f[i - 1] \o ss[i]
  <2>1. f[i - 1] \in T
    <3>1. i - 1 \in 1 .. n
      BY <1>1
    <3> HIDE DEF T, n
    <3> QED
      BY <1>7, <3>1
  <2>2. step[i][f[i - 1]] = f[i - 1] \o ss[i]
    BY <2>1
  <2> QED
    BY <1>7, <2>2
<1>9. Def(f)
  <2>1. DOMAIN f = 1 .. n /\ f = [i \in DOMAIN f |-> f[i]]
    BY <1>7
  <2>2. ASSUME NEW i \in 1 .. n PROVE f[i] = IF i = 1 THEN ss[i] ELSE f[i - 1] \o ss[i]
    <3>1. CASE i = 1
      BY <1>7, <3>1
    <3>2. CASE i # 1
      <4>1. i \in 2 .. n
        BY <1>1, <3>2
      <4> QED
        BY <1>8, <3>2, <4>1, Zenon
    <3> QED
      BY <3>1, <3>2
  <2> HIDE DEF n
  <2> QED
    BY <2>1, <2>2, Zenon
<1>10. Def(g)
  <2> HIDE DEF Def
  <2> QED
    BY <1>9, Zenon
<1>11. FlattenSeq(ss) = g[Len(ss)]
  BY <1>1 DEF FlattenSeq
<1>12. Flattens(g, ss)
  <2>1. \A i \in 1 .. n : g[i] = IF i = 1 THEN ss[i] ELSE g[i - 1] \o ss[i]
    <3> HIDE DEF g, n
    <3> QED
      BY <1>10, Zenon
  <2> HIDE DEF g
  <2>2. g[1] = ss[1]
    <3>1. 1 \in 1 .. n
      BY <1>1
    <3>2. g[1] = IF 1 = 1 THEN ss[1] ELSE g[1 - 1] \o ss[1]
      BY <2>1, <3>1, Zenon
    <3> QED
      BY <3>2
  <2>3. ASSUME NEW i \in 2 .. Len(ss) PROVE g[i] = g[i - 1] \o ss[i]
    <3>1. i \in 1 .. n /\ i # 1
      BY <1>1
    <3> QED
      BY <2>1, <3>1, Zenon
  <2> QED
    BY <2>2, <2>3 DEF Flattens
<1> QED
  BY <1>11, <1>12

\* What holds of the empty sequence, and of two in a row if it holds of each,
\* holds of what is flattened if it holds of each.
LEMMA FlattenIn ==
  ASSUME NEW R, NEW Q, Q \subseteq Seq(R), <<>> \in Q, \A a, b \in Q : a \o b \in Q,
         NEW ss \in Seq(Q)
  PROVE  FlattenSeq(ss) \in Q
<1>1. CASE ss = <<>>
  BY <1>1 DEF FlattenSeq
<1>2. CASE ss # <<>>
  <2>1. ss \in Seq(Seq(R))
    OBVIOUS
  <2>2. PICK f : Flattens(f, ss) /\ FlattenSeq(ss) = f[Len(ss)]
    BY <1>2, <2>1, FlattenBySome
  <2> DEFINE T == {i \in 1 .. Len(ss) : f[i] \in Q}
             n == Len(ss)
  <2>3. n \in Nat /\ 1 <= n /\ n \in Int /\ 1 \in Int
    BY <1>2
  <2>a. \A i \in 1 .. n : ss[i] \in Q
    BY ElementOfSeq
  <2>4. 1 \in T
    BY <2>2, <2>3, <2>a DEF Flattens
  <2>5. ASSUME NEW i \in 1 .. n - 1, i \in T PROVE i + 1 \in T
    <3>1. i + 1 \in 2 .. n /\ i + 1 - 1 = i /\ i + 1 \in 1 .. n
      BY <2>3
    <3>2. f[i + 1] = f[i] \o ss[i + 1]
      <4> DEFINE j == i + 1
      <4>1. j \in 2 .. Len(ss) /\ j - 1 = i
        BY <3>1
      <4> HIDE DEF j
      <4>2. f[j] = f[i] \o ss[j]
        BY <2>2, <4>1 DEF Flattens
      <4> QED
        BY <4>2 DEF j
    <3> QED
      BY <2>5, <2>a, <3>1, <3>2
  <2>6. 1 .. n \subseteq T
    <3> HIDE DEF T, n
    <3> QED
      BY <2>3, <2>4, <2>5, RangeInduction
  <2>7. n \in 1 .. n
    BY <2>3
  <2>8. f[n] \in Q
    BY <2>6, <2>7
  <2> QED
    BY <2>2, <2>8
<1> QED
  BY <1>1, <1>2

\* What is flattened has the elements of each.
LEMMA FlattenHas ==
  ASSUME NEW R, NEW ss \in Seq(Seq(R)), NEW k \in 1 .. Len(ss)
  PROVE  Range(ss[k]) \subseteq Range(FlattenSeq(ss))
<1>1. ss # <<>>
  OBVIOUS
<1>2. PICK f : Flattens(f, ss) /\ FlattenSeq(ss) = f[Len(ss)]
  BY <1>1, FlattenBySome
<1> DEFINE n == Len(ss)
           V == {i \in 1 .. n : f[i] \in Seq(R)}
           T == {i \in k .. n : Range(ss[k]) \subseteq Range(f[i])}
<1>3. n \in Nat /\ 1 <= n /\ n \in Int /\ 1 \in Int /\ k \in Int /\ k \in 1 .. n
  OBVIOUS
<1>a. \A i \in 1 .. n : ss[i] \in Seq(R)
  <2> DEFINE TT == Seq(R)
  <2>1. ss \in Seq(TT)
    OBVIOUS
  <2> HIDE DEF TT
  <2>2. \A i \in 1 .. Len(ss) : ss[i] \in TT
    BY <2>1, ElementOfSeq
  <2> QED
    BY <2>2 DEF TT
<1>b. ASSUME NEW i \in 1 .. n - 1
      PROVE  f[i + 1] = f[i] \o ss[i + 1] /\ i + 1 \in 1 .. n
  <2> DEFINE j == i + 1
  <2>1. j \in 2 .. Len(ss) /\ j - 1 = i
    BY <1>3
  <2> HIDE DEF j
  <2>2. f[j] = f[i] \o ss[j]
    BY <1>2, <2>1 DEF Flattens
  <2> QED
    BY <1>3, <2>2 DEF j
<1>4. 1 .. n \subseteq V
  <2>1. 1 \in V
    BY <1>2, <1>3, <1>a DEF Flattens
  <2>2. ASSUME NEW i \in 1 .. n - 1, i \in V PROVE i + 1 \in V
    <3>1. i + 1 \in 1 .. n
      BY <1>b
    <3>2. f[i] \in Seq(R) /\ ss[i + 1] \in Seq(R) /\ f[i + 1] = f[i] \o ss[i + 1]
      BY <2>2, <3>1, <1>a, <1>b
    <3>3. f[i + 1] \in Seq(R)
      BY <3>2, ConcatProperties
    <3> QED
      BY <3>1, <3>3
  <2> HIDE DEF V, n
  <2> QED
    BY <1>3, <2>1, <2>2, RangeInduction
<1>c. ASSUME NEW s \in Seq(R), NEW t \in Seq(R)
      PROVE  Range(s) \subseteq Range(s \o t) /\ Range(t) \subseteq Range(s \o t)
  <2>1. ASSUME NEW x \in DOMAIN s PROVE s[x] \in Range(s \o t)
    <3>1. x \in DOMAIN (s \o t) /\ (s \o t)[x] = s[x]
      OBVIOUS
    <3> QED
      BY <3>1 DEF Range
  <2>2. ASSUME NEW x \in DOMAIN t PROVE t[x] \in Range(s \o t)
    <3>1. Len(s) + x \in DOMAIN (s \o t) /\ (s \o t)[Len(s) + x] = t[x]
      OBVIOUS
    <3> QED
      BY <3>1 DEF Range
  <2> QED
    BY <2>1, <2>2 DEF Range
<1>5. k \in T
  <2>1. CASE k = 1
    BY <1>2, <1>3, <2>1 DEF Flattens
  <2>2. CASE k # 1
    <3>1. k - 1 \in 1 .. n - 1 /\ k - 1 \in 1 .. n /\ k - 1 + 1 = k
      BY <1>3, <2>2
    <3>a. k \in 2 .. Len(ss)
      BY <1>3, <2>2
    <3>2. f[k] = f[k - 1] \o ss[k]
      BY <1>2, <3>a DEF Flattens
    <3>3. f[k - 1] \in Seq(R) /\ ss[k] \in Seq(R)
      BY <1>4, <1>a, <1>3, <3>1
    <3>4. Range(ss[k]) \subseteq Range(f[k])
      BY <1>c, <3>2, <3>3
    <3> QED
      BY <1>3, <3>4
  <2> QED
    BY <2>1, <2>2
<1>6. ASSUME NEW i \in k .. n - 1, i \in T PROVE i + 1 \in T
  <2>1. i \in 1 .. n - 1 /\ i \in 1 .. n /\ i + 1 \in k .. n
    BY <1>3
  <2>2. f[i + 1] = f[i] \o ss[i + 1] /\ f[i] \in Seq(R) /\ ss[i + 1] \in Seq(R)
    BY <1>4, <1>a, <1>b, <2>1
  <2>3. Range(f[i]) \subseteq Range(f[i + 1])
    BY <1>c, <2>2
  <2> QED
    BY <1>6, <2>1, <2>3
<1>7. k .. n \subseteq T
  <2> HIDE DEF T, n
  <2> QED
    BY <1>3, <1>5, <1>6, RangeInduction
<1> QED
  BY <1>2, <1>3, <1>7
-----------------------------------------------------------------------------
(* The walk of a packet. *)

\* What f has at k is where the packet may be after k hops.
Walks(f, c) ==
  /\ f[0] = {<<Src[c], Local>>}
  /\ \A k \in 1 .. MaxHops : f[k] = UNION {Hop(pos, c) : pos \in f[k - 1]}

\* Walk is the last value of a function that walks, if the packet stays in a set.
LEMMA WalkBySome ==
  ASSUME NEW c, NEW G, <<Src[c], Local>> \in G, \A pos \in G : Hop(pos, c) \subseteq G
  PROVE  \E f : Walks(f, c) /\ Walk(c) = f[MaxHops]
<1> DEFINE T == SUBSET G
           next == [A \in T |-> UNION {Hop(pos, c) : pos \in A}]
           step == [k \in 1 .. MaxHops |-> next]
           a == {<<Src[c], Local>>}
           Def(f) == f = [k \in 0 .. MaxHops |->
                       IF k = 0 THEN {<<Src[c], Local>>} ELSE UNION {Hop(pos, c) : pos \in f[k - 1]}]
           g == CHOOSE f : Def(f)
<1>1. MaxHops \in Nat /\ 0 \in Int /\ MaxHops \in Int /\ 0 <= MaxHops /\ 0 + 1 = 1
  BY DEF MaxHops
<1>2. \A A \in T : UNION {Hop(pos, c) : pos \in A} \in T
  OBVIOUS
<1>3. next \in [T -> T]
  BY <1>2, Zenon
<1>4. step \in [0 + 1 .. MaxHops -> [T -> T]]
  <2> HIDE DEF next, T
  <2> QED
    BY <1>1, <1>3
<1>5. \E f : IsRecursive(f, T, a, 0, MaxHops, step)
  <2>1. a \in T
    OBVIOUS
  <2> HIDE DEF T, a, step
  <2> QED
    BY <1>1, <1>4, <2>1, RecursiveFunction
<1>6. PICK f : IsRecursive(f, T, a, 0, MaxHops, step)
  BY <1>5
<1>7. /\ f \in [0 .. MaxHops -> T] /\ f[0] = a
      /\ \A k \in 1 .. MaxHops : f[k] = step[k][f[k - 1]]
  <2> HIDE DEF T, a, step
  <2> QED
    BY <1>1, <1>6 DEF IsRecursive
<1>8. ASSUME NEW k \in 1 .. MaxHops PROVE f[k] = UNION {Hop(pos, c) : pos \in f[k - 1]}
  <2>1. f[k - 1] \in T
    <3>1. k - 1 \in 0 .. MaxHops
      BY <1>1
    <3> HIDE DEF T
    <3> QED
      BY <1>7, <3>1
  <2>2. step[k] = next
    OBVIOUS
  <2>3. next[f[k - 1]] = UNION {Hop(pos, c) : pos \in f[k - 1]}
    BY <2>1, Zenon
  <2> HIDE DEF next, step
  <2> QED
    BY <1>7, <2>2, <2>3, Zenon
<1>9. Def(f)
  <2>1. DOMAIN f = 0 .. MaxHops /\ f = [k \in DOMAIN f |-> f[k]]
    BY <1>7
  <2>2. ASSUME NEW k \in 0 .. MaxHops
        PROVE  f[k] = IF k = 0 THEN {<<Src[c], Local>>} ELSE UNION {Hop(pos, c) : pos \in f[k - 1]}
    <3>1. CASE k = 0
      BY <1>7, <3>1
    <3>2. CASE k # 0
      <4>1. k \in 1 .. MaxHops
        BY <1>1, <3>2
      <4> QED
        BY <1>8, <3>2, <4>1, Zenon
    <3> QED
      BY <3>1, <3>2
  <2> QED
    BY <2>1, <2>2, Zenon
<1>10. Def(g)
  <2> HIDE DEF Def
  <2> QED
    BY <1>9, Zenon
<1>11. Walk(c) = g[MaxHops]
  BY DEF Walk
<1>12. Walks(g, c)
  <2>1. \A k \in 0 .. MaxHops : g[k] = IF k = 0 THEN {<<Src[c], Local>>} ELSE UNION {Hop(pos, c) : pos \in g[k - 1]}
    <3> HIDE DEF g
    <3> QED
      BY <1>10, Zenon
  <2> HIDE DEF g
  <2>2. g[0] = {<<Src[c], Local>>}
    <3>1. 0 \in 0 .. MaxHops
      BY <1>1
    <3>2. g[0] = IF 0 = 0 THEN {<<Src[c], Local>>} ELSE UNION {Hop(pos, c) : pos \in g[0 - 1]}
      BY <2>1, <3>1, Zenon
    <3> QED
      BY <3>2
  <2>3. ASSUME NEW k \in 1 .. MaxHops PROVE g[k] = UNION {Hop(pos, c) : pos \in g[k - 1]}
    <3>1. k \in 0 .. MaxHops /\ k # 0
      BY <1>1
    <3> QED
      BY <2>1, <3>1, Zenon
  <2> QED
    BY <2>2, <2>3 DEF Walks
<1> HIDE DEF g
<1> QED
  BY <1>11, <1>12

\* Places by rank: if each hop leads to a place of lower rank, or of rank 0 to one
\* of rank 0, the walk ends at places of rank 0.
Falls(K, r, q) == \E m \in 0 .. MaxHops : q \in K[m] /\ (m < r \/ m = 0)

LEMMA WalkEnds ==
  ASSUME NEW c, NEW K, <<Src[c], Local>> \in K[MaxHops],
         \A r \in 0 .. MaxHops : \A pos \in K[r] : \A q \in Hop(pos, c) : Falls(K, r, q),
         \A r \in 0 .. MaxHops : \A pos \in K[r] : Hop(pos, c) # {}
  PROVE  Walk(c) # {} /\ Walk(c) \subseteq K[0]
<1> DEFINE G == UNION {K[r] : r \in 0 .. MaxHops}
<1>1. MaxHops = 12
  BY DEF MaxHops
<1>2. \A pos \in G : Hop(pos, c) \subseteq G
  BY DEF Falls
<1>3. <<Src[c], Local>> \in G
  BY <1>1
<1>4. PICK f : Walks(f, c) /\ Walk(c) = f[MaxHops]
  <2> HIDE DEF G
  <2> QED
    BY <1>2, <1>3, WalkBySome
<1> DEFINE Low(k, pos) == \E r \in 0 .. MaxHops - k : pos \in K[r]
           T == {k \in 0 .. MaxHops : f[k] # {} /\ \A pos \in f[k] : Low(k, pos)}
<1>5. 0 \in T
  BY <1>1, <1>4 DEF Walks
<1>6. ASSUME NEW k \in 0 .. MaxHops - 1, k \in T PROVE k + 1 \in T
  <2>1. f[k + 1] = UNION {Hop(pos, c) : pos \in f[k]} /\ k + 1 \in 0 .. MaxHops
    <3> DEFINE j == k + 1
    <3>1. j \in 1 .. MaxHops /\ j - 1 = k
      BY <1>1
    <3> HIDE DEF j
    <3>2. f[j] = UNION {Hop(pos, c) : pos \in f[j - 1]}
      BY <1>4, <3>1 DEF Walks
    <3> QED
      BY <1>1, <3>1, <3>2 DEF j
  <2>2. f[k + 1] # {}
    <3>1. PICK pos \in f[k] : Low(k, pos)
      BY <1>6
    <3>2. Hop(pos, c) # {}
      BY <1>1, <3>1
    <3> QED
      BY <2>1, <3>1, <3>2
  <2>3. ASSUME NEW q \in f[k + 1] PROVE Low(k + 1, q)
    <3>1. PICK pos \in f[k] : q \in Hop(pos, c)
      BY <2>1
    <3>2. PICK r \in 0 .. MaxHops - k : pos \in K[r]
      BY <1>6
    <3>3. r \in 0 .. MaxHops
      BY <1>1
    <3>4. Falls(K, r, q)
      BY <3>1, <3>2, <3>3
    <3>5. PICK m \in 0 .. MaxHops : q \in K[m] /\ (m < r \/ m = 0)
      BY <3>4 DEF Falls
    <3>6. m \in 0 .. MaxHops - (k + 1)
      BY <1>1, <3>5
    <3> QED
      BY <3>5, <3>6
  <2> HIDE DEF Low
  <2> QED
    BY <2>1, <2>2, <2>3
<1>7. MaxHops \in T
  <2>1. 0 .. MaxHops \subseteq T
    <3>1. 0 \in Int /\ MaxHops \in Int
      BY <1>1
    <3> HIDE DEF T
    <3> QED
      BY <1>5, <1>6, <3>1, RangeInduction
  <2>2. MaxHops \in 0 .. MaxHops
    BY <1>1
  <2> QED
    BY <2>1, <2>2
<1> QED
  BY <1>1, <1>4, <1>7
-----------------------------------------------------------------------------
(* Flows that lead towards their DCM. *)

\* The end node of the DCM of an id.
Home(id) == NodeOf[dcms[id]]

\* A neighbour of bridge n that is on a way to an end node.
Towards(n, home, to) ==
  \/ /\ n \in Ends \ {home}
     /\ \E x \in Planes : to = Leaf(x, PodOf[n])
  \/ \E x \in Planes : n = Leaf(x, PodOf[home]) /\ to = home
  \/ \E x \in Planes : \E i \in Pods \ {PodOf[home]} :
       n = Leaf(x, i) /\ to \in Spines /\ to[2] = x
  \/ n \in Spines /\ to = Leaf(n[2], PodOf[home])

\* A flow of some path of its DCM: the flow out of a ring, or one for an inflow, by a
\* ring or not.
OutFlow(f) ==
  /\ f.k = 0 /\ f.match = Ring(f.dcm) /\ f.node \notin Ends
  /\ Towards(f.node, Home(f.dcm), f.to)
InFlow(f) ==
  /\ f.k \in DOMAIN Inflows[dcms[f.dcm]] /\ f.match = Inflows[dcms[f.dcm]][f.k]
  /\ \/ Towards(f.node, Home(f.dcm), f.to)
     \/ f.node \notin Ends /\ f.to = Ring(f.dcm)
Sane(f) == f.dcm \in DOMAIN dcms /\ (OutFlow(f) \/ InFlow(f))

\* There is a way out of every ring that a flow leads into.
IsOutOf(g, f) == g.node = f.node /\ g.dcm = f.dcm /\ g.k = 0
Closed(S) == \A f \in S : f.to = Ring(f.dcm) => \E g \in S : IsOutOf(g, f)

\* The processes of a dump are different ones.
Dumped(d) ==
  /\ d \in Seq(Procs) /\ Len(d) <= Cardinality(Procs)
  /\ \A i, j \in DOMAIN d : i # j => d[i] # d[j]

\* The first part of a name tells what it names.
LEMMA Names ==
  /\ \A e \in Ends : e[1] = "end" /\ PodOf[e] \in Pods
  /\ \A s \in Spines : s[1] = "spine" /\ s[2] \in Planes
  /\ \A x, i : Leaf(x, i)[1] = "pod" /\ Leaf(x, i)[2] = x /\ Leaf(x, i)[3] = i
  /\ \A x \in Planes, i \in Pods : Leaf(x, i) \in Leaves
  /\ \A n \in Leaves : n[1] = "pod" /\ n[2] \in Planes /\ n[3] \in Pods /\ n = Leaf(n[2], n[3])
  /\ \A c \in Conns : c[1] = "conn"
  /\ \A id : Ring(id)[1] = "ring"
  /\ \A g \in Rings : g[1] = "ring"
  /\ Local[1] = "local"
  /\ <<"taken">>[1] = "taken" /\ <<"dropped">>[1] = "dropped"
BY TopologyAssumption, DcmAssumption DEF Leaf, Leaves, Ring, Rings, Local

\* Numbers of rings tell DCMs apart.
LEMMA RingsDiffer ==
  \A i, j \in Nat : Ring(i) = Ring(j) => i = j
<1> SUFFICES ASSUME NEW i \in Nat, NEW j \in Nat, Ring(i) = Ring(j) PROVE i = j
  OBVIOUS
<1>1. Ring(i)[2] = i + 100 /\ Ring(j)[2] = j + 100
  BY DEF Ring
<1> QED
  BY <1>1

\* Where connections lead.
LEMMA DstOfConn ==
  ASSUME NEW p \in Procs, NEW c \in Range(Inflows[p])
  PROVE  c \in Conns /\ Dst[c] = NodeOf[p]
<1>1. c \in Conns
  BY DEF Conns
<1>2. \A o \in Procs : c \in Range(Inflows[o]) => o = p
  BY DcmAssumption
<1>3. (CHOOSE o \in Procs : c \in Range(Inflows[o])) = p
  BY <1>2
<1> QED
  BY <1>1, <1>3 DEF Dst

LEMMA DstIsEnd ==
  \A c \in Conns : Dst[c] \in Ends /\ Src[c] \in Ends /\ Src[c] # Dst[c]
<1> SUFFICES ASSUME NEW c \in Conns PROVE Dst[c] \in Ends /\ Src[c] \in Ends /\ Src[c] # Dst[c]
  OBVIOUS
<1>1. PICK p \in Procs : c \in Range(Inflows[p])
  BY DEF Conns
<1>2. Dst[c] = NodeOf[p]
  BY <1>1, DstOfConn
<1> QED
  BY <1>1, <1>2, DcmAssumption

\* Where a flow leads that is on a way, at each kind of bridge.
LEMMA TowardsTyped ==
  ASSUME NEW n, NEW home \in Ends, NEW to, Towards(n, home, to)
  PROVE  n \in Bridges /\ to \in Bridges
<1>1. PodOf[home] \in Pods
  BY Names
<1>2. CASE n \in Ends \ {home} /\ \E x \in Planes : to = Leaf(x, PodOf[n])
  BY <1>2, Names DEF Bridges
<1>3. CASE \E x \in Planes : n = Leaf(x, PodOf[home]) /\ to = home
  BY <1>1, <1>3, Names DEF Bridges
<1>4. CASE \E x \in Planes : \E i \in Pods \ {PodOf[home]} :
       n = Leaf(x, i) /\ to \in Spines /\ to[2] = x
  BY <1>4, Names DEF Bridges
<1>5. CASE n \in Spines /\ to = Leaf(n[2], PodOf[home])
  BY <1>1, <1>5, Names DEF Bridges
<1> QED
  BY <1>2, <1>3, <1>4, <1>5 DEF Towards

LEMMA TowardsFromEnd ==
  ASSUME NEW n \in Ends, NEW home \in Ends, NEW to, Towards(n, home, to)
  PROVE  \E x \in Planes : to = Leaf(x, PodOf[n])
<1>1. n \notin Spines /\ \A x, i : n # Leaf(x, i)
  BY Names
<1> QED
  BY <1>1 DEF Towards

LEMMA TowardsFrom ==
  ASSUME NEW n, NEW home \in Ends, NEW to, Towards(n, home, to)
  PROVE  /\ n \in Ends => n # home
         /\ n \in Spines => to = Leaf(n[2], PodOf[home])
         /\ n \in Leaves /\ n[3] = PodOf[home] => to = home
         /\ n \in Leaves /\ n[3] # PodOf[home] => to \in Spines /\ to[2] = n[2]
<1>1. CASE n \in Ends \ {home} /\ \E x \in Planes : to = Leaf(x, PodOf[n])
  <2>1. n \notin Spines /\ n \notin Leaves
    BY <1>1, Names
  <2> QED
    BY <1>1, <2>1
<1>2. CASE \E x \in Planes : n = Leaf(x, PodOf[home]) /\ to = home
  <2>1. n[1] = "pod" /\ n[3] = PodOf[home] /\ to = home
    BY <1>2, Names
  <2>2. n \notin Spines /\ n \notin Ends
    BY <2>1, Names
  <2> QED
    BY <2>1, <2>2
<1>3. CASE \E x \in Planes : \E i \in Pods \ {PodOf[home]} :
       n = Leaf(x, i) /\ to \in Spines /\ to[2] = x
  <2>1. n[1] = "pod" /\ n[3] # PodOf[home] /\ to \in Spines /\ to[2] = n[2]
    BY <1>3, Names
  <2>2. n \notin Spines /\ n \notin Ends
    BY <2>1, Names
  <2> QED
    BY <2>1, <2>2
<1>4. CASE n \in Spines /\ to = Leaf(n[2], PodOf[home])
  <2>1. n \notin Ends /\ n \notin Leaves
    BY <1>4, Names
  <2> QED
    BY <1>4, <2>1
<1> QED
  BY <1>1, <1>2, <1>3, <1>4 DEF Towards
-----------------------------------------------------------------------------
(* What a packet meets at a bridge. *)

SaneTable == table \subseteq {f \in Flow : Sane(f)}

\* The way out of a ring of a DCM is there.
HasWayOut(n, id) == Matching(n, Ring(id)) # {}

\* The ring that a bridge sends a connection into, which is that of its DCM.  While each
\* ring that a flow leads into has a way out, so has this one.
RingTo(n, c, t) ==
  /\ n \notin Ends /\ t \in Matching(n, c)
  /\ \E id \in DOMAIN dcms :
       /\ t = Ring(id) /\ Home(id) = Dst[c] /\ c \in Range(Inflows[dcms[id]])
       /\ Closed(table) => HasWayOut(n, id)

LEMMA MatchingPort ==
  ASSUME SaneTable, NEW n, NEW b \in Bridges \cup {Local}
  PROVE  Matching(n, b) = {}
<1>1. SUFFICES ASSUME NEW f \in table, f.match = b PROVE FALSE
  BY DEF Matching
<1>2. f.match \in Conns \cup Rings
  BY DEF SaneTable, Flow
<1>3. f.match[1] \in {"conn", "ring"}
  BY <1>2, Names
<1>4. b[1] \in {"end", "pod", "spine", "local"}
  BY Names DEF Bridges
<1> QED
  BY <1>1, <1>3, <1>4

\* Flows for a connection lead towards its end node, or into a ring.
LEMMA MatchingConn ==
  ASSUME SaneTable, Dumped(dcms), NEW n, NEW c \in Conns, NEW t \in Matching(n, c)
  PROVE  Towards(n, Dst[c], t) \/ RingTo(n, c, t)
<1>1. PICK f \in table : f.node = n /\ f.match = c /\ f.to = t
  BY DEF Matching
<1>2. f \in Flow /\ Sane(f)
  BY DEF SaneTable
<1>3. c \notin Rings /\ f.match # Ring(f.dcm)
  <2>1. c[1] = "conn" /\ Ring(f.dcm)[1] = "ring" /\ \A g \in Rings : g[1] = "ring"
    BY Names
  <2> QED
    BY <1>1, <2>1
<1>4. InFlow(f) /\ f.dcm \in DOMAIN dcms
  BY <1>2, <1>3 DEF Sane, OutFlow
<1> DEFINE id == f.dcm
           p == dcms[id]
<1>5. p \in Procs /\ Inflows[p] \in Seq(Conns) /\ f.k \in DOMAIN Inflows[p] /\ c = Inflows[p][f.k]
  BY <1>1, <1>4, DcmAssumption DEF InFlow, Dumped
<1>6. c \in Range(Inflows[p])
  BY <1>5 DEF Range
<1>7. Dst[c] = Home(id)
  BY <1>5, <1>6, DstOfConn DEF Home
<1>8. CASE Towards(n, Home(id), t)
  BY <1>7, <1>8
<1>9. CASE n \notin Ends /\ t = Ring(id)
  <2>1. ASSUME Closed(table) PROVE HasWayOut(n, id)
    <3>1. PICK g \in table : g.node = f.node /\ g.dcm = f.dcm /\ g.k = 0
      BY <1>1, <1>9, <2>1 DEF Closed, IsOutOf
    <3>2. Sane(g)
      BY DEF SaneTable
    <3>3. ~InFlow(g)
      <4>1. dcms[g.dcm] \in Procs
        BY <1>5, <3>1
      <4>2. Inflows[dcms[g.dcm]] \in Seq(Conns)
        BY <4>1, DcmAssumption
      <4>3. 0 \notin DOMAIN Inflows[dcms[g.dcm]]
        BY <4>2
      <4> QED
        BY <3>1, <4>3 DEF InFlow
    <3>4. g.match = Ring(id)
      BY <3>1, <3>2, <3>3 DEF Sane, OutFlow
    <3> QED
      BY <1>1, <3>1, <3>4 DEF HasWayOut, Matching
  <2> QED
    BY <1>4, <1>6, <1>7, <1>9, <2>1 DEF RingTo
<1> QED
  BY <1>1, <1>4, <1>8, <1>9 DEF InFlow

\* The flow out of a ring leads towards the end node of its DCM.
LEMMA MatchingRing ==
  ASSUME SaneTable, Dumped(dcms), NEW n, NEW id \in DOMAIN dcms, NEW t \in Matching(n, Ring(id))
  PROVE  Towards(n, Home(id), t)
<1>1. PICK f \in table : f.node = n /\ f.match = Ring(id) /\ f.to = t
  BY DEF Matching
<1>2. f \in Flow /\ Sane(f) /\ f.dcm \in DOMAIN dcms
  BY DEF SaneTable, Sane
<1>3. ~InFlow(f)
  <2>1. ASSUME InFlow(f) PROVE FALSE
    <3> DEFINE p == dcms[f.dcm]
    <3>1. p \in Procs
      BY <1>2 DEF Dumped
    <3>2. f.match \in Range(Inflows[p])
      BY <2>1 DEF InFlow, Range
    <3>3. f.match \in Conns
      BY <3>1, <3>2, DstOfConn
    <3>4. f.match[1] = "conn" /\ Ring(id)[1] = "ring"
      BY <3>3, Names
    <3> QED
      BY <1>1, <3>4
  <2> QED
    BY <2>1
<1>4. f.match = Ring(f.dcm) /\ Towards(n, Home(f.dcm), t)
  BY <1>1, <1>2, <1>3 DEF Sane, OutFlow
<1>5. f.dcm = id
  <2>1. f.dcm \in Nat /\ id \in Nat
    BY <1>2 DEF Dumped
  <2> QED
    BY <1>1, <1>4, <2>1, RingsDiffer
<1> QED
  BY <1>4, <1>5
-----------------------------------------------------------------------------
(* One hop. *)

Taken == <<"taken">>
Dropped == <<"dropped">>
Stopped(from) == from \in {Taken, Dropped}

\* A packet that a flow sends to a port.
Sent(n, from, to) ==
  IF to = Local THEN <<n, Taken>>
  ELSE IF to = from THEN <<n, Dropped>>
  ELSE IF to \in Rings THEN <<n, to>> ELSE <<to, n>>

LEMMA HopSends ==
  ASSUME NEW n, NEW from, ~Stopped(from), NEW c, NEW q \in Hop(<<n, from>>, c)
  PROVE  \E to \in NextHops(n, from, c) : q = Sent(n, from, to)
BY DEF Hop, Sent, Stopped, Taken, Dropped

LEMMA HopStops ==
  ASSUME NEW n, NEW from, Stopped(from), NEW c
  PROVE  Hop(<<n, from>>, c) = {<<n, from>>}
BY DEF Hop, Stopped, Taken, Dropped

LEMMA HopSome ==
  ASSUME NEW n, NEW from, NEW c
  PROVE  Hop(<<n, from>>, c) # {}
<1>1. CASE Stopped(from)
  BY <1>1, HopStops
<1>2. CASE ~Stopped(from)
  <2>1. Defaults(n, from, Dst[c]) # {}
    BY DEF Defaults
  <2>2. PICK to : to \in NextHops(n, from, c)
    BY <2>1 DEF NextHops
  <2>3. Sent(n, from, to) \in Hop(<<n, from>>, c)
    BY <1>2, <2>2 DEF Hop, Sent, Stopped, Taken, Dropped
  <2> QED
    BY <2>3
<1> QED
  BY <1>1, <1>2

LEMMA BridgeNames ==
  /\ \A b \in Bridges \cup {Local} : b \notin Rings /\ ~Stopped(b)
  /\ \A b \in Bridges : b # Local
  /\ \A t \in Rings : t # Local /\ ~Stopped(t)
  /\ \A b \in Bridges : b \in Ends \/ b \in Leaves \/ b \in Spines
BY Names DEF Bridges, Stopped, Taken, Dropped

LEMMA RingIsRing ==
  ASSUME Dumped(dcms), NEW id \in DOMAIN dcms
  PROVE  Ring(id) \in Rings /\ id \in 1 .. Cardinality(Procs) /\ Home(id) \in Ends /\ dcms[id] \in Procs
<1>1. Cardinality(Procs) \in Nat
  BY DcmAssumption, FS_CardinalityType
<1>2. id \in 1 .. Len(dcms) /\ Len(dcms) \in Nat /\ Len(dcms) <= Cardinality(Procs)
  BY DEF Dumped
<1>3. id \in 1 .. Cardinality(Procs)
  BY <1>1, <1>2
<1>4. dcms[id] \in Procs
  BY DEF Dumped
<1> QED
  BY <1>3, <1>4, DcmAssumption DEF Rings, Home

\* A connection is sent into one ring only.
LEMMA OneRing ==
  ASSUME Dumped(dcms), NEW n, NEW c, NEW t, RingTo(n, c, t), NEW u, RingTo(n, c, u)
  PROVE  t = u
<1>1. PICK id \in DOMAIN dcms : t = Ring(id) /\ c \in Range(Inflows[dcms[id]])
  BY DEF RingTo
<1>2. PICK jd \in DOMAIN dcms : u = Ring(jd) /\ c \in Range(Inflows[dcms[jd]])
  BY DEF RingTo
<1>3. dcms[id] \in Procs /\ dcms[jd] \in Procs
  BY RingIsRing
<1>4. dcms[id] = dcms[jd]
  BY <1>1, <1>2, <1>3, DcmAssumption
<1>5. id = jd
  BY <1>4 DEF Dumped
<1> QED
  BY <1>1, <1>2, <1>5

\* Out of a ring.  The bridge drops what comes out of one without a way out, unless it
\* has another flow for the connection.
LEMMA HopOut ==
  ASSUME SaneTable, Dumped(dcms), NEW n, NEW c \in Conns, NEW t, RingTo(n, c, t),
         NEW q \in Hop(<<n, t>>, c)
  PROVE  \/ \E to : Towards(n, Dst[c], to) /\ q = <<to, n>>
         \/ ~Closed(table) /\ q = <<n, Dropped>>
<1>1. PICK id \in DOMAIN dcms : t = Ring(id) /\ Home(id) = Dst[c] /\ (Closed(table) => HasWayOut(n, id))
  BY DEF RingTo
<1>2. t \in Rings
  BY <1>1, RingIsRing
<1>3. PICK to \in NextHops(n, t, c) : q = Sent(n, t, to)
  BY <1>2, BridgeNames, HopSends
<1>4. ASSUME Towards(n, Dst[c], to) PROVE q = <<to, n>>
  <2>1. to \in Bridges
    BY <1>4, DstIsEnd, TowardsTyped
  <2> QED
    BY <1>2, <1>3, <2>1, BridgeNames DEF Sent
<1>5. CASE HasWayOut(n, id)
  <2>1. to \in Matching(n, Ring(id))
    BY <1>1, <1>3, <1>5 DEF NextHops, HasWayOut
  <2>2. Towards(n, Dst[c], to)
    BY <1>1, <2>1, MatchingRing
  <2> QED
    BY <1>4, <2>2
<1>6. CASE ~HasWayOut(n, id)
  <2>1. Matching(n, t) = {} /\ ~Closed(table)
    BY <1>1, <1>6 DEF HasWayOut
  <2>2. to \in Matching(n, c)
    BY <1>3, <2>1 DEF NextHops, RingTo
  <2>3. CASE RingTo(n, c, to)
    <3>1. to = t
      BY <2>3, OneRing
    <3>2. q = <<n, Dropped>>
      BY <1>2, <1>3, <3>1, BridgeNames DEF Sent
    <3> QED
      BY <2>1, <3>2
  <2> QED
    BY <1>4, <2>2, <2>3, MatchingConn
<1> QED
  BY <1>5, <1>6

\* By a flow for the connection.
LEMMA HopByFlow ==
  ASSUME SaneTable, Dumped(dcms), NEW n, NEW c \in Conns,
         NEW from \in Bridges \cup {Local}, Matching(n, c) # {}, NEW q \in Hop(<<n, from>>, c)
  PROVE  \/ \E to : Towards(n, Dst[c], to) /\ q = IF to = from THEN <<n, Dropped>> ELSE <<to, n>>
         \/ \E to : RingTo(n, c, to) /\ q = <<n, to>>
<1>1. PICK to \in NextHops(n, from, c) : q = Sent(n, from, to)
  BY BridgeNames, HopSends
<1>2. to \in Matching(n, c)
  BY <1>1, MatchingPort DEF NextHops
<1>3. CASE Towards(n, Dst[c], to)
  <2>1. to \in Bridges
    BY <1>3, TowardsTyped, DstIsEnd
  <2>2. q = IF to = from THEN <<n, Dropped>> ELSE <<to, n>>
    BY <1>1, <2>1, BridgeNames DEF Sent
  <2> QED
    BY <1>3, <2>2
<1>4. CASE RingTo(n, c, to)
  <2>1. to \in Rings
    BY <1>4, RingIsRing DEF RingTo
  <2>2. q = <<n, to>>
    BY <1>1, <2>1, BridgeNames DEF Sent
  <2> QED
    BY <1>4, <2>2
<1> QED
  BY <1>2, <1>3, <1>4, MatchingConn

\* By the default flows.
LEMMA HopByDefault ==
  ASSUME SaneTable, NEW n \in Bridges, NEW c \in Conns,
         NEW from \in Bridges \cup {Local}, Matching(n, c) = {}, NEW q \in Hop(<<n, from>>, c)
  PROVE  \E to \in Defaults(n, from, Dst[c]) :
           q = IF to = Local THEN <<n, Taken>> ELSE IF to = from THEN <<n, Dropped>> ELSE <<to, n>>
<1>1. PICK to \in NextHops(n, from, c) : q = Sent(n, from, to)
  BY BridgeNames, HopSends
<1>2. to \in Defaults(n, from, Dst[c])
  BY <1>1, MatchingPort DEF NextHops
<1>3. to \notin Rings
  <2> DEFINE d == Dst[c]
  <2>1. d \in Ends /\ PodOf[d] \in Pods
    BY DstIsEnd, Names
  <2> HIDE DEF d
  <2>2. to \in Defaults(n, from, d)
    BY <1>2 DEF d
  <2>3. CASE n \in Ends
    <3>1. to = Local \/ to = Leaf(DefaultPlane, PodOf[n])
      BY <2>2, <2>3 DEF Defaults
    <3> QED
      BY <3>1, Names
  <2>4. CASE n \notin Ends /\ n \in Spines
    BY <2>2, <2>4, Names DEF Defaults
  <2>5. CASE n \in Leaves /\ n \notin Ends /\ n \notin Spines
    <3>1. to = <<"spine", n[2], DefaultSpine>> \/ to = d
      BY <2>2, <2>5 DEF Defaults
    <3>2. <<"spine", n[2], DefaultSpine>> \in Spines
      BY <2>5, Names, TopologyAssumption
    <3> QED
      BY <2>1, <3>1, <3>2, Names
  <2> QED
    BY <2>3, <2>4, <2>5, BridgeNames
<1>4. q = IF to = Local THEN <<n, Taken>> ELSE IF to = from THEN <<n, Dropped>> ELSE <<to, n>>
  BY <1>1, <1>3 DEF Sent
<1> QED
  BY <1>2, <1>4
-----------------------------------------------------------------------------
(* Where a packet may be, by the number of hops it has still before it. *)

SpineOf(x) == <<"spine", x, DefaultSpine>>
Pod(c) == PodOf[Dst[c]]
LastLeaf(x, c) == Leaf(x, Pod(c))
Blank(x, c) == Matching(LastLeaf(x, c), c) = {}
Inland(n, c) == n \in Leaves /\ n[3] = Pod(c)
Abroad(n, c) == n \in Leaves /\ n[3] # Pod(c)

Over(n, from, c) ==
  \/ n = Dst[c] /\ from = Taken
  \/ from = Dropped /\ n \in Leaves \cup Spines /\ (Closed(table) => Blank(n[2], c))
AtHome(n, from, c) == n = Dst[c] /\ from \in Leaves
OutAtLast(n, from, c) == Inland(n, c) /\ RingTo(n, c, from)
AtLast(n, from, c) ==
  Inland(n, c) /\ from \in (Ends \ {Dst[c]}) \cup Spines /\ (Blank(n[2], c) => from = SpineOf(n[2]))
OutAtDefault(n, from, c) ==
  n \in Spines /\ n = SpineOf(n[2]) /\ RingTo(n, c, from)
BackAtDefault(n, from, c) ==
  n \in Spines /\ n = SpineOf(n[2]) /\ from = LastLeaf(n[2], c) /\ Blank(n[2], c)
AtBlank(n, from, c) ==
  Inland(n, c) /\ from \in (Ends \ {Dst[c]}) \cup Spines /\ Blank(n[2], c)
OutAtSpine(n, from, c) == n \in Spines /\ RingTo(n, c, from)
AtSpine(n, from, c) == n \in Spines /\ Abroad(from, c)
OutAtFirst(n, from, c) == Abroad(n, c) /\ RingTo(n, c, from)
AtFirst(n, from, c) == Abroad(n, c) /\ from \in Ends
AtSource(n, from, c) == n = Src[c] /\ from = Local

\* What is known of a packet's bridge and port.
At(r, pos, c) ==
  LET n == pos[1]
      from == pos[2]
  IN  \/ r = 0 /\ Over(n, from, c)
      \/ r = 1 /\ AtHome(n, from, c)
      \/ r = 2 /\ OutAtLast(n, from, c)
      \/ r = 3 /\ AtLast(n, from, c)
      \/ r = 4 /\ OutAtDefault(n, from, c)
      \/ r = 5 /\ BackAtDefault(n, from, c)
      \/ r = 6 /\ AtBlank(n, from, c)
      \/ r = 7 /\ OutAtSpine(n, from, c)
      \/ r = 8 /\ AtSpine(n, from, c)
      \/ r = 9 /\ OutAtFirst(n, from, c)
      \/ r = 10 /\ AtFirst(n, from, c)
      \/ r = 12 /\ AtSource(n, from, c)

\* Each hop brings a packet nearer to its end.
Nearer(r, q, c) == \E m \in 0 .. MaxHops : At(m, q, c) /\ (m < r \/ m = 0)

LEMMA NearerIf ==
  ASSUME NEW c, NEW r \in 1 .. MaxHops, NEW a, NEW b
  PROVE  /\ Over(a, b, c) => Nearer(r, <<a, b>>, c)
         /\ AtHome(a, b, c) /\ 1 < r => Nearer(r, <<a, b>>, c)
         /\ OutAtLast(a, b, c) /\ 2 < r => Nearer(r, <<a, b>>, c)
         /\ AtLast(a, b, c) /\ 3 < r => Nearer(r, <<a, b>>, c)
         /\ OutAtDefault(a, b, c) /\ 4 < r => Nearer(r, <<a, b>>, c)
         /\ BackAtDefault(a, b, c) /\ 5 < r => Nearer(r, <<a, b>>, c)
         /\ AtBlank(a, b, c) /\ 6 < r => Nearer(r, <<a, b>>, c)
         /\ OutAtSpine(a, b, c) /\ 7 < r => Nearer(r, <<a, b>>, c)
         /\ AtSpine(a, b, c) /\ 8 < r => Nearer(r, <<a, b>>, c)
         /\ OutAtFirst(a, b, c) /\ 9 < r => Nearer(r, <<a, b>>, c)
         /\ AtFirst(a, b, c) /\ 10 < r => Nearer(r, <<a, b>>, c)
<1>1. \A m \in 0 .. MaxHops : At(m, <<a, b>>, c) /\ (m < r \/ m = 0) => Nearer(r, <<a, b>>, c)
  BY DEF Nearer
<1>2. \A m \in 0 .. 10 : m \in 0 .. MaxHops
  BY DEF MaxHops
<1>3. <<a, b>>[1] = a /\ <<a, b>>[2] = b
  OBVIOUS
<1>a. Over(a, b, c) => At(0, <<a, b>>, c)
  BY <1>3, Zenon DEF At
<1>b. AtHome(a, b, c) => At(1, <<a, b>>, c)
  BY <1>3, Zenon DEF At
<1>c. OutAtLast(a, b, c) => At(2, <<a, b>>, c)
  BY <1>3, Zenon DEF At
<1>d. AtLast(a, b, c) => At(3, <<a, b>>, c)
  BY <1>3, Zenon DEF At
<1>e. OutAtDefault(a, b, c) => At(4, <<a, b>>, c)
  BY <1>3, Zenon DEF At
<1>f. BackAtDefault(a, b, c) => At(5, <<a, b>>, c)
  BY <1>3, Zenon DEF At
<1>g. AtBlank(a, b, c) => At(6, <<a, b>>, c)
  BY <1>3, Zenon DEF At
<1>h. OutAtSpine(a, b, c) => At(7, <<a, b>>, c)
  BY <1>3, Zenon DEF At
<1>i. AtSpine(a, b, c) => At(8, <<a, b>>, c)
  BY <1>3, Zenon DEF At
<1>j. OutAtFirst(a, b, c) => At(9, <<a, b>>, c)
  BY <1>3, Zenon DEF At
<1>k. AtFirst(a, b, c) => At(10, <<a, b>>, c)
  BY <1>3, Zenon DEF At
<1> QED
  BY <1>1, <1>2, <1>a, <1>b, <1>c, <1>d, <1>e, <1>f, <1>g, <1>h, <1>i, <1>j, <1>k

\* The table that the walks are about.
Laid == SaneTable /\ Dumped(dcms)

\* At a leaf of the pod of its DCM: to the end node, into the ring, or up and down once more.
LEMMA FromLast ==
  ASSUME Laid, NEW c \in Conns, NEW n, NEW from, AtLast(n, from, c) \/ AtBlank(n, from, c),
         NEW q \in Hop(<<n, from>>, c)
  PROVE  \/ AtHome(q[1], q[2], c) /\ q = <<q[1], q[2]>>
         \/ OutAtLast(q[1], q[2], c) /\ q = <<q[1], q[2]>>
         \/ Over(q[1], q[2], c) /\ q = <<q[1], q[2]>>
         \/ /\ ~AtLast(n, from, c)
            /\ BackAtDefault(q[1], q[2], c) /\ q = <<q[1], q[2]>>
<1> DEFINE D == Dst[c]
<1>0. D \in Ends /\ SaneTable /\ Dumped(dcms)
  BY DstIsEnd DEF Laid
<1>1. n \in Leaves /\ n[3] = PodOf[D] /\ from \in Bridges /\ from # D /\ n \in Bridges /\ n = LastLeaf(n[2], c)
      /\ n[2] \in Planes
  <2>1. n \in Leaves /\ n[3] = PodOf[D] /\ from \in (Ends \ {D}) \cup Spines
    BY DEF AtLast, AtBlank, Inland, Pod
  <2>2. from # D
    BY <1>0, <2>1, Names
  <2> QED
    BY <2>1, <2>2, Names DEF Bridges, LastLeaf, Pod
<1>2. CASE Matching(n, c) # {}
  <2>1. ASSUME NEW to, Towards(n, D, to), q = IF to = from THEN <<n, Dropped>> ELSE <<to, n>>
        PROVE  AtHome(q[1], q[2], c) /\ q = <<q[1], q[2]>>
    <3>1. to = D
      BY <1>0, <1>1, <2>1, TowardsFrom
    <3>2. q = <<D, n>>
      BY <1>1, <2>1, <3>1
    <3> QED
      BY <1>1, <3>2 DEF AtHome
  <2>2. ASSUME NEW to, RingTo(n, c, to), q = <<n, to>>
        PROVE  OutAtLast(q[1], q[2], c) /\ q = <<q[1], q[2]>>
    <3>1. q[1] = n /\ q[2] = to
      BY <2>2
    <3> QED
      BY <1>1, <2>2, <3>1 DEF OutAtLast, Inland, Pod
  <2> HIDE DEF D
  <2>3. \/ \E to : Towards(n, D, to) /\ q = IF to = from THEN <<n, Dropped>> ELSE <<to, n>>
        \/ \E to : RingTo(n, c, to) /\ q = <<n, to>>
    BY <1>0, <1>1, <1>2, HopByFlow DEF D
  <2> QED
    BY <2>1, <2>2, <2>3
<1>3. CASE Matching(n, c) = {}
  <2>1. Blank(n[2], c)
    BY <1>1, <1>3 DEF Blank
  <2>2. PICK to \in Defaults(n, from, D) :
           q = IF to = Local THEN <<n, Taken>> ELSE IF to = from THEN <<n, Dropped>> ELSE <<to, n>>
    BY <1>0, <1>1, <1>3, HopByDefault
  <2>3. n \notin Ends /\ n \notin Spines
    BY <1>1, Names
  <2>4. to = SpineOf(n[2]) \/ to = D
    BY <2>2, <2>3 DEF Defaults, SpineOf
  <2>5. SpineOf(n[2]) \in Spines /\ SpineOf(n[2])[2] = n[2]
    BY <1>1, TopologyAssumption DEF SpineOf
  <2>6. to # Local
    BY <1>0, <2>4, <2>5, Names
  <2>7. CASE to = D
    <3>1. q = <<D, n>>
      BY <1>1, <2>2, <2>6, <2>7
    <3> QED
      BY <1>1, <3>1 DEF AtHome
  <2>8. CASE to = SpineOf(n[2]) /\ to = from
    <3>1. q = <<n, Dropped>>
      BY <2>2, <2>6, <2>8
    <3> QED
      BY <1>1, <2>1, <3>1 DEF Over
  <2>9. CASE to = SpineOf(n[2]) /\ to # from
    <3>1. q = <<to, n>> /\ q[1] = to /\ q[2] = n
      BY <2>2, <2>6, <2>9
    <3>2. ~AtLast(n, from, c)
      BY <2>1, <2>9 DEF AtLast
    <3> QED
      BY <1>1, <2>1, <2>5, <2>9, <3>1, <3>2 DEF BackAtDefault
  <2> QED
    BY <2>4, <2>7, <2>8, <2>9
<1> QED
  BY <1>2, <1>3

\* From a spine a packet comes to the last leaf of its plane.
LEMMA ToLast ==
  ASSUME NEW c \in Conns, NEW n \in Spines
  PROVE  /\ AtLast(LastLeaf(n[2], c), n, c) \/ AtBlank(LastLeaf(n[2], c), n, c)
         /\ n = SpineOf(n[2]) => AtLast(LastLeaf(n[2], c), n, c)
<1>1. n[2] \in Planes /\ Pod(c) \in Pods
  BY Names, DstIsEnd DEF Pod
<1> DEFINE l == LastLeaf(n[2], c)
<1>2. l \in Leaves /\ l[3] = Pod(c) /\ l[2] = n[2]
  BY <1>1, Names DEF LastLeaf
<1>3. Inland(l, c)
  BY <1>2 DEF Inland
<1> HIDE DEF l
<1>4. AtLast(l, n, c) \/ AtBlank(l, n, c)
  BY <1>2, <1>3 DEF AtLast, AtBlank
<1>5. n = SpineOf(n[2]) => AtLast(l, n, c)
  BY <1>2, <1>3 DEF AtLast
<1> QED
  BY <1>4, <1>5 DEF l

\* At a spine, from a leaf: to the last leaf, or into the ring.
LEMMA FromSpine ==
  ASSUME Laid, NEW c \in Conns, NEW n \in Spines, NEW from \in Leaves, from[2] \in Planes,
         NEW q \in Hop(<<n, from>>, c)
  PROVE  \/ q = <<LastLeaf(n[2], c), n>>
         \/ q = <<n, Dropped>> /\ from = LastLeaf(n[2], c)
         \/ RingTo(n, c, q[2]) /\ q = <<n, q[2]>>
<1> DEFINE D == Dst[c]
<1>0. D \in Ends /\ SaneTable /\ Dumped(dcms) /\ from \in Bridges /\ n \in Bridges
  BY DstIsEnd DEF Laid, Bridges
<1>2. CASE Matching(n, c) # {}
  <2>1. ASSUME NEW to, Towards(n, D, to), q = IF to = from THEN <<n, Dropped>> ELSE <<to, n>>
        PROVE  \/ q = <<LastLeaf(n[2], c), n>>
               \/ q = <<n, Dropped>> /\ from = LastLeaf(n[2], c)
    <3>1. to = LastLeaf(n[2], c)
      BY <1>0, <2>1, TowardsFrom DEF LastLeaf, Pod
    <3> QED
      BY <2>1, <3>1
  <2>2. ASSUME NEW to, RingTo(n, c, to), q = <<n, to>>
        PROVE  RingTo(n, c, q[2]) /\ q = <<n, q[2]>>
    <3>1. q[1] = n /\ q[2] = to
      BY <2>2
    <3> QED
      BY <2>2, <3>1
  <2> HIDE DEF D
  <2>3. \/ \E to : Towards(n, D, to) /\ q = IF to = from THEN <<n, Dropped>> ELSE <<to, n>>
        \/ \E to : RingTo(n, c, to) /\ q = <<n, to>>
    BY <1>0, <1>2, HopByFlow DEF D
  <2> QED
    BY <2>1, <2>2, <2>3
<1>3. CASE Matching(n, c) = {}
  <2>2. PICK to \in Defaults(n, from, D) :
           q = IF to = Local THEN <<n, Taken>> ELSE IF to = from THEN <<n, Dropped>> ELSE <<to, n>>
    BY <1>0, <1>3, HopByDefault
  <2>3. n \notin Ends
    BY Names
  <2>4. to = LastLeaf(n[2], c)
    BY <2>2, <2>3 DEF Defaults, LastLeaf, Pod
  <2>5. to # Local
    BY <2>4, Names DEF LastLeaf
  <2> QED
    BY <2>2, <2>4, <2>5
<1> QED
  BY <1>2, <1>3

\* A packet at a leaf next to its end node comes nearer.
LEMMA FromLastNearer ==
  ASSUME Laid, NEW c \in Conns, NEW n, NEW from, NEW r \in 3 .. MaxHops,
         AtLast(n, from, c) \/ (AtBlank(n, from, c) /\ 5 < r),
         NEW q \in Hop(<<n, from>>, c)
  PROVE  Nearer(r, q, c) /\ q = <<q[1], q[2]>>
<1>1. MaxHops = 12 /\ r \in 1 .. MaxHops /\ 1 < r /\ 2 < r
  BY DEF MaxHops
<1> DEFINE a == q[1]
           b == q[2]
<1>2. \/ AtHome(a, b, c) /\ q = <<a, b>>
      \/ OutAtLast(a, b, c) /\ q = <<a, b>>
      \/ Over(a, b, c) /\ q = <<a, b>>
      \/ 5 < r /\ BackAtDefault(a, b, c) /\ q = <<a, b>>
  BY FromLast
<1> HIDE DEF a, b
<1>3. Nearer(r, <<a, b>>, c) /\ q = <<a, b>>
  BY <1>1, <1>2, NearerIf
<1> QED
  BY <1>3 DEF a, b

\* From a spine to the last leaf is nearer.
LEMMA ToLastNearer ==
  ASSUME NEW c \in Conns, NEW n \in Spines, NEW r \in 4 .. MaxHops, 6 < r \/ n = SpineOf(n[2])
  PROVE  Nearer(r, <<LastLeaf(n[2], c), n>>, c)
<1>1. MaxHops = 12 /\ r \in 1 .. MaxHops /\ 3 < r
  BY DEF MaxHops
<1> DEFINE l == LastLeaf(n[2], c)
<1>2. AtLast(l, n, c) \/ (AtBlank(l, n, c) /\ 6 < r)
  BY ToLast
<1> HIDE DEF l
<1>3. Nearer(r, <<l, n>>, c)
  BY <1>1, <1>2, NearerIf
<1> QED
  BY <1>3 DEF l

\* A packet that is dropped for want of a way out of a ring.
LEMMA DroppedNearer ==
  ASSUME NEW c, NEW n \in Leaves \cup Spines, ~Closed(table), NEW r \in 1 .. MaxHops
  PROVE  Nearer(r, <<n, Dropped>>, c)
<1>1. Over(n, Dropped, c)
  BY DEF Over
<1> QED
  BY <1>1, NearerIf

\* Out of the ring of a spine.
LEMMA OutOfSpineNearer ==
  ASSUME Laid, NEW c \in Conns, NEW n \in Spines, NEW t, RingTo(n, c, t),
         NEW r \in 4 .. MaxHops, 6 < r \/ n = SpineOf(n[2]), NEW q \in Hop(<<n, t>>, c)
  PROVE  Nearer(r, q, c) /\ q = <<q[1], q[2]>>
<1>1. Dst[c] \in Ends /\ SaneTable /\ Dumped(dcms)
  BY DstIsEnd DEF Laid
<1>m. MaxHops = 12 /\ r \in 1 .. MaxHops
  BY DEF MaxHops
<1>2. ASSUME NEW to, Towards(n, Dst[c], to), q = <<to, n>> PROVE Nearer(r, q, c) /\ q = <<q[1], q[2]>>
  <2>1. to = LastLeaf(n[2], c)
    BY <1>1, <1>2, TowardsFrom DEF LastLeaf, Pod
  <2> QED
    BY <1>2, <2>1, ToLastNearer
<1>3. ASSUME ~Closed(table), q = <<n, Dropped>> PROVE Nearer(r, q, c) /\ q = <<q[1], q[2]>>
  BY <1>m, <1>3, DroppedNearer
<1> QED
  BY <1>1, <1>2, <1>3, HopOut

\* At a leaf of another pod.
LEMMA ToSpineNearer ==
  ASSUME NEW c \in Conns, NEW n, Abroad(n, c), NEW s \in Spines, s[2] = n[2], NEW r \in 9 .. MaxHops
  PROVE  Nearer(r, <<s, n>>, c)
<1>1. MaxHops = 12 /\ r \in 1 .. MaxHops /\ 8 < r
  BY DEF MaxHops
<1>2. AtSpine(s, n, c)
  BY DEF AtSpine
<1> QED
  BY <1>1, <1>2, NearerIf

LEMMA FromFirstNearer ==
  ASSUME Laid, NEW c \in Conns, NEW n, NEW from, AtFirst(n, from, c),
         NEW q \in Hop(<<n, from>>, c)
  PROVE  Nearer(10, q, c) /\ q = <<q[1], q[2]>>
<1> DEFINE D == Dst[c]
<1>0. D \in Ends /\ SaneTable /\ Dumped(dcms)
  BY DstIsEnd DEF Laid
<1>1. n \in Leaves /\ n[3] # PodOf[D] /\ from \in Ends /\ from \in Bridges /\ n \in Bridges /\ Abroad(n, c)
      /\ n[2] \in Planes
  BY Names DEF AtFirst, Abroad, Pod, Bridges
<1>m. MaxHops = 12 /\ 10 \in 9 .. MaxHops /\ 10 \in 1 .. MaxHops /\ 9 < 10
  BY DEF MaxHops
<1>2. CASE Matching(n, c) # {}
  <2>1. ASSUME NEW to, Towards(n, D, to), q = IF to = from THEN <<n, Dropped>> ELSE <<to, n>>
        PROVE  Nearer(10, q, c) /\ q = <<q[1], q[2]>>
    <3>1. to \in Spines /\ to[2] = n[2]
      BY <1>0, <1>1, <2>1, TowardsFrom
    <3>2. q = <<to, n>>
      BY <1>1, <2>1, <3>1, Names
    <3> QED
      BY <1>1, <1>m, <3>1, <3>2, ToSpineNearer
  <2>2. ASSUME NEW to, RingTo(n, c, to), q = <<n, to>>
        PROVE  Nearer(10, q, c) /\ q = <<q[1], q[2]>>
    <3>1. OutAtFirst(n, to, c)
      BY <1>1, <2>2 DEF OutAtFirst
    <3>2. Nearer(10, <<n, to>>, c)
      BY <1>m, <3>1, NearerIf
    <3> QED
      BY <2>2, <3>2
  <2> HIDE DEF D
  <2>3. \/ \E to : Towards(n, D, to) /\ q = IF to = from THEN <<n, Dropped>> ELSE <<to, n>>
        \/ \E to : RingTo(n, c, to) /\ q = <<n, to>>
    BY <1>0, <1>1, <1>2, HopByFlow DEF D
  <2> QED
    BY <2>1, <2>2, <2>3
<1>3. CASE Matching(n, c) = {}
  <2>2. PICK to \in Defaults(n, from, D) :
           q = IF to = Local THEN <<n, Taken>> ELSE IF to = from THEN <<n, Dropped>> ELSE <<to, n>>
    BY <1>0, <1>1, <1>3, HopByDefault
  <2>3. n \notin Ends /\ n \notin Spines
    BY <1>1, Names
  <2>4. to = SpineOf(n[2])
    BY <1>1, <2>2, <2>3 DEF Defaults, SpineOf
  <2>5. to \in Spines /\ to[2] = n[2]
    BY <1>1, <2>4, TopologyAssumption DEF SpineOf
  <2>6. to # Local /\ to # from
    BY <1>1, <2>5, Names
  <2>7. q = <<to, n>>
    BY <2>2, <2>6
  <2> QED
    BY <1>1, <1>m, <2>5, <2>7, ToSpineNearer
<1> QED
  BY <1>2, <1>3

\* At the end node that the connection comes from.
LEMMA FromSourceNearer ==
  ASSUME Laid, NEW c \in Conns, NEW q \in Hop(<<Src[c], Local>>, c)
  PROVE  Nearer(12, q, c) /\ q = <<q[1], q[2]>>
<1> DEFINE D == Dst[c]
           n == Src[c]
<1>0. D \in Ends /\ SaneTable /\ Dumped(dcms) /\ n \in Ends /\ n \in Bridges /\ n # D
      /\ PodOf[n] \in Pods
  BY DstIsEnd, Names DEF Laid, Bridges
<1>m. MaxHops = 12 /\ 12 \in 1 .. MaxHops /\ 10 < 12 /\ 3 < 12 /\ 6 < 12
  BY DEF MaxHops
<1> HIDE DEF n
<1>1. ASSUME NEW x \in Planes PROVE Nearer(12, <<Leaf(x, PodOf[n]), n>>, c)
  <2> DEFINE l == Leaf(x, PodOf[n])
  <2>1. l \in Leaves /\ l[3] = PodOf[n] /\ l[2] = x
    BY <1>0, Names
  <2> HIDE DEF l
  <2>2. AtLast(l, n, c) \/ AtBlank(l, n, c) \/ AtFirst(l, n, c)
    BY <1>0, <2>1 DEF AtLast, AtBlank, AtFirst, Inland, Abroad
  <2>3. Nearer(12, <<l, n>>, c)
    BY <1>m, <2>2, NearerIf
  <2> QED
    BY <2>3 DEF l
<1>2. CASE Matching(n, c) # {}
  <2>1. ASSUME NEW to, Towards(n, D, to), q = IF to = Local THEN <<n, Dropped>> ELSE <<to, n>>
        PROVE  Nearer(12, q, c) /\ q = <<q[1], q[2]>>
    <3>a. D \in Ends /\ n \in Ends /\ Towards(n, D, to)
      BY <1>0, <2>1
    <3>1. PICK x \in Planes : to = Leaf(x, PodOf[n])
      BY <3>a, TowardsFromEnd
    <3>2. q = <<Leaf(x, PodOf[n]), n>>
      BY <2>1, <3>1, Names
    <3> QED
      BY <1>1, <3>2
  <2>2. ASSUME NEW to, RingTo(n, c, to) PROVE FALSE
    BY <1>0, <2>2 DEF RingTo
  <2> HIDE DEF D
  <2>3. \/ \E to : Towards(n, D, to) /\ q = IF to = Local THEN <<n, Dropped>> ELSE <<to, n>>
        \/ \E to : RingTo(n, c, to) /\ q = <<n, to>>
    BY <1>0, <1>2, HopByFlow DEF D, n
  <2> QED
    BY <2>1, <2>2, <2>3
<1>3. CASE Matching(n, c) = {}
  <2>2. PICK to \in Defaults(n, Local, D) :
           q = IF to = Local THEN <<n, Taken>> ELSE IF to = Local THEN <<n, Dropped>> ELSE <<to, n>>
    BY <1>0, <1>3, HopByDefault DEF n
  <2>4. to = Leaf(DefaultPlane, PodOf[n])
    BY <1>0, <2>2 DEF Defaults
  <2>5. q = <<Leaf(DefaultPlane, PodOf[n]), n>>
    BY <2>2, <2>4, Names
  <2> QED
    BY <1>1, <2>5, TopologyAssumption
<1> QED
  BY <1>2, <1>3

\* At its end node.
LEMMA FromHome ==
  ASSUME Laid, NEW c \in Conns, NEW from \in Leaves, NEW q \in Hop(<<Dst[c], from>>, c)
  PROVE  q = <<Dst[c], Taken>>
<1> DEFINE D == Dst[c]
<1>0. D \in Ends /\ SaneTable /\ Dumped(dcms) /\ D \in Bridges /\ from \in Bridges /\ from # Local
  BY DstIsEnd, Names DEF Laid, Bridges
<1>1. Matching(D, c) = {}
  <2>1. ASSUME NEW t \in Matching(D, c) PROVE FALSE
    <3>1. ~Towards(D, D, t)
      BY <1>0, TowardsFrom
    <3>2. ~RingTo(D, c, t)
      BY <1>0 DEF RingTo
    <3> QED
      BY <1>0, <2>1, <3>1, <3>2, MatchingConn
  <2> QED
    BY <2>1
<1>2. PICK to \in Defaults(D, from, D) :
         q = IF to = Local THEN <<D, Taken>> ELSE IF to = from THEN <<D, Dropped>> ELSE <<to, D>>
  BY <1>0, <1>1, HopByDefault
<1>3. to = Local
  BY <1>0, <1>2 DEF Defaults
<1> QED
  BY <1>2, <1>3

\* What At says at its ranks above 0, one by one.
LEMMA AtFalls ==
  ASSUME Laid, NEW c \in Conns, NEW r \in 0 .. MaxHops, NEW n, NEW from, At(r, <<n, from>>, c),
         NEW q \in Hop(<<n, from>>, c)
  PROVE  Nearer(r, q, c) /\ q = <<q[1], q[2]>>
<1>m. MaxHops = 12
  BY DEF MaxHops
<1>d. Dst[c] \in Ends /\ SaneTable /\ Dumped(dcms)
  BY DstIsEnd DEF Laid
<1>0. CASE r = 0 /\ Over(n, from, c)
  <2>1. Stopped(from)
    BY <1>0 DEF Over, Stopped
  <2>2. q = <<n, from>>
    BY <2>1, HopStops
  <2>3. 0 \in 0 .. MaxHops /\ At(0, <<n, from>>, c)
    BY <1>0, <1>m
  <2>4. Nearer(0, <<n, from>>, c)
    BY <2>3 DEF Nearer
  <2> QED
    BY <1>0, <2>2, <2>4
<1>1. CASE r = 1 /\ AtHome(n, from, c)
  <2>1. q = <<Dst[c], Taken>>
    BY <1>1, FromHome DEF AtHome
  <2>2. Over(Dst[c], Taken, c)
    BY DEF Over
  <2>3. Nearer(r, <<Dst[c], Taken>>, c)
    BY <1>1, <1>m, <2>2, NearerIf
  <2> QED
    BY <2>1, <2>3
<1>2. CASE r = 2 /\ OutAtLast(n, from, c)
  <2>1. ASSUME NEW to, Towards(n, Dst[c], to), q = <<to, n>> PROVE Nearer(r, q, c) /\ q = <<q[1], q[2]>>
    <3>1. to = Dst[c] /\ n \in Leaves
      BY <1>2, <1>d, <2>1, TowardsFrom DEF OutAtLast, Inland, Pod
    <3>2. AtHome(to, n, c)
      BY <3>1 DEF AtHome
    <3>3. Nearer(r, <<to, n>>, c)
      BY <1>2, <1>m, <3>2, NearerIf
    <3> QED
      BY <2>1, <3>3
  <2>2. ASSUME ~Closed(table), q = <<n, Dropped>> PROVE Nearer(r, q, c) /\ q = <<q[1], q[2]>>
    BY <1>2, <1>m, <2>2, DroppedNearer DEF OutAtLast, Inland
  <2> QED
    BY <1>2, <1>d, <2>1, <2>2, HopOut DEF OutAtLast
<1>3. CASE r = 3 /\ AtLast(n, from, c)
  BY <1>3, <1>m, FromLastNearer
<1>4. CASE r = 4 /\ OutAtDefault(n, from, c)
  BY <1>4, <1>m, OutOfSpineNearer DEF OutAtDefault
<1>5. CASE r = 5 /\ BackAtDefault(n, from, c)
  <2>1. n \in Spines /\ n = SpineOf(n[2]) /\ from = LastLeaf(n[2], c) /\ Blank(n[2], c)
    BY <1>5 DEF BackAtDefault
  <2>2. from \in Leaves /\ from[2] \in Planes
    BY <2>1, <1>d, Names DEF LastLeaf, Pod
  <2>a. r \in 4 .. MaxHops /\ r \in 1 .. MaxHops /\ 4 < r
    BY <1>5, <1>m
  <2>3. CASE q = <<LastLeaf(n[2], c), n>>
    BY <2>1, <2>3, <2>a, ToLastNearer
  <2>4. CASE q = <<n, Dropped>>
    <3>1. Over(n, Dropped, c)
      BY <2>1 DEF Over
    <3> QED
      BY <2>4, <2>a, <3>1, NearerIf
  <2>5. CASE RingTo(n, c, q[2]) /\ q = <<n, q[2]>>
    <3> DEFINE b == q[2]
    <3>1. OutAtDefault(n, b, c) /\ q = <<n, b>>
      BY <2>1, <2>5 DEF OutAtDefault
    <3> HIDE DEF b
    <3> QED
      BY <2>a, <3>1, NearerIf
  <2> QED
    BY <2>1, <2>2, <2>3, <2>4, <2>5, FromSpine
<1>6. CASE r = 6 /\ AtBlank(n, from, c)
  BY <1>6, <1>m, FromLastNearer
<1>7. CASE r = 7 /\ OutAtSpine(n, from, c)
  BY <1>7, <1>m, OutOfSpineNearer DEF OutAtSpine
<1>8. CASE r = 8 /\ AtSpine(n, from, c)
  <2>1. n \in Spines /\ from \in Leaves /\ from[2] \in Planes /\ from[3] # Pod(c)
    BY <1>8, Names DEF AtSpine, Abroad
  <2>a. r \in 4 .. MaxHops /\ r \in 1 .. MaxHops /\ 6 < r /\ 7 < r
    BY <1>8, <1>m
  <2>3. CASE q = <<LastLeaf(n[2], c), n>>
    BY <2>1, <2>3, <2>a, ToLastNearer
  <2>4. from # LastLeaf(n[2], c)
    BY <2>1, Names DEF LastLeaf
  <2>5. CASE RingTo(n, c, q[2]) /\ q = <<n, q[2]>>
    <3> DEFINE b == q[2]
    <3>1. OutAtSpine(n, b, c) /\ q = <<n, b>>
      BY <2>1, <2>5 DEF OutAtSpine
    <3> HIDE DEF b
    <3> QED
      BY <2>a, <3>1, NearerIf
  <2> QED
    BY <2>1, <2>3, <2>4, <2>5, FromSpine
<1>9. CASE r = 9 /\ OutAtFirst(n, from, c)
  <2>1. ASSUME NEW to, Towards(n, Dst[c], to), q = <<to, n>> PROVE Nearer(r, q, c) /\ q = <<q[1], q[2]>>
    <3>1. to \in Spines /\ to[2] = n[2] /\ Abroad(n, c)
      BY <1>9, <1>d, <2>1, TowardsFrom DEF OutAtFirst, Abroad, Pod
    <3> QED
      BY <1>9, <1>m, <2>1, <3>1, ToSpineNearer
  <2>2. ASSUME ~Closed(table), q = <<n, Dropped>> PROVE Nearer(r, q, c) /\ q = <<q[1], q[2]>>
    BY <1>9, <1>m, <2>2, DroppedNearer DEF OutAtFirst, Abroad
  <2> QED
    BY <1>9, <1>d, <2>1, <2>2, HopOut DEF OutAtFirst
<1>10. CASE r = 10 /\ AtFirst(n, from, c)
  BY <1>10, FromFirstNearer
<1>12. CASE r = 12 /\ AtSource(n, from, c)
  BY <1>12, FromSourceNearer DEF AtSource
<1>z. <<n, from>>[1] = n /\ <<n, from>>[2] = from
  OBVIOUS
<1> QED
  BY <1>0, <1>1, <1>2, <1>3, <1>4, <1>5, <1>6, <1>7, <1>8, <1>9, <1>10, <1>12, <1>z, Zenon DEF At
-----------------------------------------------------------------------------
(* No packet goes astray. *)

Ports == Bridges \cup Rings \cup {Local, Taken, Dropped}

\* Bridges and ports are all that At speaks of.
LEMMA AtTyped ==
  ASSUME Laid, NEW c \in Conns, NEW r, NEW n, NEW from, At(r, <<n, from>>, c)
  PROVE  <<n, from>> \in Bridges \X Ports
<1>0. Dst[c] \in Bridges /\ Src[c] \in Bridges /\ Dumped(dcms) /\ Pod(c) \in Pods
  BY DstIsEnd, Names DEF Laid, Bridges, Pod
<1>1. \A m, t : RingTo(m, c, t) => t \in Ports
  BY <1>0, RingIsRing DEF RingTo, Ports
<1>2. \A m \in Leaves \cup Spines \cup Ends : m \in Bridges /\ m \in Ports
  BY DEF Bridges, Ports
<1>3. \A m \in Spines : LastLeaf(m[2], c) \in Ports
  BY <1>0, <1>2, Names DEF LastLeaf
<1>4. Local \in Ports /\ Taken \in Ports /\ Dropped \in Ports
  BY DEF Ports
<1>z. <<n, from>>[1] = n /\ <<n, from>>[2] = from
  OBVIOUS
<1>5. \/ Over(n, from, c) \/ AtHome(n, from, c) \/ OutAtLast(n, from, c) \/ AtLast(n, from, c)
      \/ OutAtDefault(n, from, c) \/ BackAtDefault(n, from, c) \/ AtBlank(n, from, c)
      \/ OutAtSpine(n, from, c) \/ AtSpine(n, from, c) \/ OutAtFirst(n, from, c)
      \/ AtFirst(n, from, c) \/ AtSource(n, from, c)
  BY <1>z, Zenon DEF At
<1>6. n \in Bridges /\ from \in Ports
  <2>1. CASE Over(n, from, c) \/ AtHome(n, from, c) \/ AtSource(n, from, c)
    BY <1>0, <1>2, <1>4, <2>1 DEF Over, AtHome, AtSource
  <2>2. CASE OutAtLast(n, from, c) \/ OutAtDefault(n, from, c) \/ OutAtSpine(n, from, c) \/ OutAtFirst(n, from, c)
    BY <1>1, <1>2, <2>2 DEF OutAtLast, OutAtDefault, OutAtSpine, OutAtFirst, Inland, Abroad
  <2>3. CASE AtLast(n, from, c) \/ AtBlank(n, from, c) \/ AtSpine(n, from, c) \/ AtFirst(n, from, c)
    BY <1>2, <2>3 DEF AtLast, AtBlank, AtSpine, AtFirst, Inland, Abroad
  <2>4. CASE BackAtDefault(n, from, c)
    BY <1>2, <1>3, <2>4 DEF BackAtDefault
  <2> QED
    BY <1>5, <2>1, <2>2, <2>3, <2>4
<1> QED
  BY <1>6

LEMMA WalkIsOver ==
  ASSUME Laid, NEW c \in Conns
  PROVE  Walk(c) # {} /\ \A pos \in Walk(c) : Over(pos[1], pos[2], c) /\ pos = <<pos[1], pos[2]>>
<1> DEFINE Pos == Bridges \X Ports
           K == [r \in 0 .. MaxHops |-> {pos \in Pos : At(r, pos, c)}]
<1>m. MaxHops = 12 /\ 0 \in 0 .. MaxHops /\ MaxHops \in 0 .. MaxHops
  BY DEF MaxHops
<1>1. \A r \in 0 .. MaxHops : K[r] = {pos \in Pos : At(r, pos, c)}
  BY Zenon
<1>2. \A n, from, r : At(r, <<n, from>>, c) => <<n, from>> \in Pos
  BY AtTyped
<1>3. \A pos \in Pos : pos = <<pos[1], pos[2]>>
  OBVIOUS
<1> HIDE DEF Pos, K
<1>4. <<Src[c], Local>> \in K[MaxHops]
  <2>1. AtSource(Src[c], Local, c)
    BY DEF AtSource
  <2>2. At(12, <<Src[c], Local>>, c)
    BY <2>1 DEF At
  <2> QED
    BY <1>m, <1>1, <1>2, <2>2
<1>5. ASSUME NEW r \in 0 .. MaxHops, NEW pos \in K[r], NEW q \in Hop(pos, c)
      PROVE  Falls(K, r, q)
  <2> DEFINE n == pos[1]
             from == pos[2]
  <2>1. pos = <<n, from>> /\ At(r, pos, c)
    BY <1>1, <1>3
  <2>2. At(r, <<n, from>>, c) /\ q \in Hop(<<n, from>>, c)
    BY <2>1
  <2> HIDE DEF n, from
  <2>3. Nearer(r, q, c) /\ q = <<q[1], q[2]>>
    BY <2>2, AtFalls
  <2>4. PICK m \in 0 .. MaxHops : At(m, q, c) /\ (m < r \/ m = 0)
    BY <2>3 DEF Nearer
  <2> DEFINE a == q[1]
             b == q[2]
  <2>5. At(m, <<a, b>>, c) /\ q = <<a, b>>
    BY <2>3, <2>4
  <2> HIDE DEF a, b
  <2>6. q \in K[m]
    BY <1>1, <1>2, <2>4, <2>5
  <2> QED
    BY <2>4, <2>6 DEF Falls
<1>6. ASSUME NEW r \in 0 .. MaxHops, NEW pos \in K[r] PROVE Hop(pos, c) # {}
  <2> DEFINE n == pos[1]
             from == pos[2]
  <2>1. pos = <<n, from>>
    BY <1>1, <1>3
  <2>2. Hop(<<n, from>>, c) # {}
    BY HopSome
  <2> QED
    BY <2>1, <2>2
<1>7. Walk(c) # {} /\ Walk(c) \subseteq K[0]
  BY <1>4, <1>5, <1>6, WalkEnds
<1>8. ASSUME NEW pos \in K[0] PROVE Over(pos[1], pos[2], c) /\ pos = <<pos[1], pos[2]>>
  <2>1. At(0, pos, c) /\ pos = <<pos[1], pos[2]>>
    BY <1>m, <1>1, <1>3
  <2> QED
    BY <2>1 DEF At
<1> QED
  BY <1>7, <1>8

\* The walks are those NeverAstray allows.
LEMMA LaidNeverAstray ==
  ASSUME Laid, ~strayed => Closed(table), NEW c \in Conns, NEW pos \in Walk(c)
  PROVE  \/ pos = <<Dst[c], <<"taken">>>>
         \/ /\ pos[2] = <<"dropped">> /\ pos[1] \in Leaves \cup Spines
            /\ ~strayed => Matching(Leaf(pos[1][2], PodOf[Dst[c]]), c) = {}
<1>1. Over(pos[1], pos[2], c) /\ pos = <<pos[1], pos[2]>>
  BY WalkIsOver
<1> QED
  BY <1>1 DEF Over, Blank, LastLeaf, Pod, Taken, Dropped
-----------------------------------------------------------------------------
(* Requests, and what they make of a set of flows. *)

Puts == [op : {"put"}, flow : Flow]
Deletions == [op : {"delete"}, flow : Flow]
Gets == [op : {"get"}, node : Bridges, dcm : Nat]
Changes == Puts \cup Deletions
Requests == Changes \cup Gets

\* No two flows of a bridge have one id.
OneEach(S) == \A f, g \in S : SameId(f, g) => f = g
Flows(S) == S \subseteq Flow /\ IsFiniteSet(S) /\ OneEach(S)

LEMMA ChangeTyped ==
  ASSUME NEW r \in Changes
  PROVE  r.flow \in Flow /\ r.op \in {"put", "delete"}
BY DEF Changes, Puts, Deletions

LEMMA AppliedHas ==
  ASSUME NEW S, NEW r, NEW f
  PROVE  f \in Applied(S, r) <=> (f \in S /\ ~SameId(f, r.flow)) \/ (r.op = "put" /\ f = r.flow)
BY DEF Applied

LEMMA AppliedFlows ==
  ASSUME NEW S, Flows(S), NEW r \in Changes
  PROVE  Flows(Applied(S, r))
<1> DEFINE keep == {f \in S : ~SameId(f, r.flow)}
<1>1. IsFiniteSet(keep)
  <2>1. IsFiniteSet(S) /\ keep \in SUBSET S
    BY DEF Flows
  <2> HIDE DEF keep
  <2> QED
    BY <2>1, FS_Subset
<1>2. IsFiniteSet(keep \cup {r.flow}) /\ IsFiniteSet(keep \cup {})
  <2>1. keep \cup {} = keep
    OBVIOUS
  <2> HIDE DEF keep
  <2> QED
    BY <1>1, <2>1, FS_AddElement
<1>3. IsFiniteSet(Applied(S, r))
  BY <1>2 DEF Applied
<1>4. Applied(S, r) \subseteq Flow
  BY AppliedHas, ChangeTyped DEF Flows
<1>5. OneEach(Applied(S, r))
  <2> SUFFICES ASSUME NEW f \in Applied(S, r), NEW g \in Applied(S, r), SameId(f, g) PROVE f = g
    BY DEF OneEach
  <2>1. f \in S /\ g \in S => f = g
    BY DEF Flows, OneEach
  <2>2. SameId(g, f)
    BY DEF SameId
  <2> QED
    BY <2>1, <2>2, AppliedHas
<1> QED
  BY <1>3, <1>4, <1>5 DEF Flows

\* Requests for different bridges may be made in either order.
LEMMA AppliedCommutes ==
  ASSUME NEW S, NEW a \in Changes, NEW b \in Changes, a.flow.node # b.flow.node
  PROVE  Applied(Applied(S, a), b) = Applied(Applied(S, b), a)
<1>1. ~SameId(a.flow, b.flow) /\ ~SameId(b.flow, a.flow)
  BY DEF SameId
<1> SUFFICES ASSUME NEW f PROVE f \in Applied(Applied(S, a), b) <=> f \in Applied(Applied(S, b), a)
  OBVIOUS
<1> QED
  BY <1>1, AppliedHas

\* A request leaves the flows of other bridges alone.
LEMMA AppliedElsewhere ==
  ASSUME NEW S, NEW r, NEW f, f.node # r.flow.node
  PROVE  f \in Applied(S, r) <=> f \in S
BY AppliedHas DEF SameId

\* No two with one id: as many ids as flows.
LEMMA OneEachCounted ==
  ASSUME NEW S, IsFiniteSet(S), OneEach(S)
  PROVE  Cardinality({<<f.node, f.dcm, f.k>> : f \in S}) = Cardinality(S)
<1> DEFINE T == {<<f.node, f.dcm, f.k>> : f \in S}
           g == [f \in S |-> <<f.node, f.dcm, f.k>>]
<1>1. g \in [S -> T]
  OBVIOUS
<1>2. \A t \in T : \E f \in S : g[f] = t
  OBVIOUS
<1>3. \A e, f \in S : g[e] = g[f] => e = f
  <2> SUFFICES ASSUME NEW e \in S, NEW f \in S, g[e] = g[f] PROVE e = f
    OBVIOUS
  <2>1. e.node = f.node /\ e.dcm = f.dcm /\ e.k = f.k
    OBVIOUS
  <2> QED
    BY <2>1 DEF OneEach, SameId
<1> HIDE DEF g, T
<1>4. g \in Surjection(S, T) /\ g \in Injection(S, T)
  BY <1>1, <1>2, <1>3 DEF Surjection, Injection, IsInjective
<1>5. Cardinality(T) = Cardinality(S)
  BY <1>4, FS_Surjection
<1> QED
  BY <1>5 DEF T
-----------------------------------------------------------------------------
(* The requests of a path. *)

\* A way out of a ring is asked for before a way into it.
WayOutFirst(s) ==
  \A x \in DOMAIN s : s[x].flow.to = Ring(s[x].flow.dcm) =>
    \E y \in 1 .. x - 1 : IsOutOf(s[y].flow, s[x].flow)
Routes == {s \in Seq(Puts) : WayOutFirst(s) /\ \A x \in DOMAIN s : Sane(s[x].flow)}

LEMMA RoutesJoin ==
  /\ Routes \subseteq Seq(Puts) /\ <<>> \in Routes
  /\ \A a, b \in Routes : a \o b \in Routes
<1>1. Routes \subseteq Seq(Puts)
  BY DEF Routes
<1>2. <<>> \in Routes
  <2>1. <<>> \in Seq(Puts)
    OBVIOUS
  <2> QED
    BY <2>1 DEF Routes, WayOutFirst
<1>3. ASSUME NEW a \in Routes, NEW b \in Routes PROVE a \o b \in Routes
  <2> DEFINE P == Puts
             s == a \o b
             m == Len(a)
  <2>0. a \in Seq(P) /\ b \in Seq(P) /\ WayOutFirst(a) /\ WayOutFirst(b)
        /\ (\A x \in DOMAIN a : Sane(a[x].flow)) /\ \A x \in DOMAIN b : Sane(b[x].flow)
    BY DEF Routes
  <2> HIDE DEF P
  <2>1. s \in Seq(P) /\ Len(s) = m + Len(b) /\ m \in Nat /\ Len(b) \in Nat
    BY <2>0
  <2>2. \A x \in 1 .. Len(s) : (x \in 1 .. m /\ s[x] = a[x]) \/ (x > m /\ x - m \in 1 .. Len(b) /\ s[x] = b[x - m])
    BY <2>0
  <2>3. \A y \in 1 .. m : s[y] = a[y]
    BY <2>0
  <2>4. \A y \in 1 .. Len(b) : s[m + y] = b[y]
    BY <2>0
  <2>5. DOMAIN s = 1 .. Len(s) /\ DOMAIN a = 1 .. m /\ DOMAIN b = 1 .. Len(b)
    BY <2>0, <2>1
  <2> HIDE DEF s, m
  <2>6. ASSUME NEW x \in 1 .. Len(s) PROVE Sane(s[x].flow)
    BY <2>0, <2>2, <2>5
  <2>7. ASSUME NEW x \in 1 .. Len(s), s[x].flow.to = Ring(s[x].flow.dcm)
        PROVE  \E y \in 1 .. x - 1 : IsOutOf(s[y].flow, s[x].flow)
    <3>1. CASE x \in 1 .. m /\ s[x] = a[x]
      <4>1. PICK y \in 1 .. x - 1 : IsOutOf(a[y].flow, a[x].flow)
        BY <2>0, <2>5, <2>7, <3>1 DEF WayOutFirst
      <4>2. y \in 1 .. m
        BY <2>1, <3>1
      <4> QED
        BY <2>3, <3>1, <4>1, <4>2
    <3>2. CASE x > m /\ x - m \in 1 .. Len(b) /\ s[x] = b[x - m]
      <4> DEFINE z == x - m
      <4>0. z \in DOMAIN b /\ b[z].flow.to = Ring(b[z].flow.dcm) /\ s[x] = b[z]
        BY <2>5, <2>7, <3>2
      <4>a. z - 1 = x - m - 1
        BY <2>1
      <4> HIDE DEF z
      <4>1. PICK y \in 1 .. z - 1 : IsOutOf(b[y].flow, b[z].flow)
        BY <2>0, <4>0 DEF WayOutFirst
      <4>2. y \in 1 .. Len(b) /\ m + y \in 1 .. x - 1
        BY <2>1, <2>5, <4>0, <4>a
      <4>3. s[m + y] = b[y]
        BY <2>4, <4>2
      <4> QED
        BY <4>0, <4>1, <4>2, <4>3
    <3> QED
      BY <2>2, <3>1, <3>2
  <2>8. WayOutFirst(s)
    BY <2>5, <2>7 DEF WayOutFirst
  <2> QED
    BY <2>1, <2>5, <2>6, <2>8 DEF Routes, P, s
<1> QED
  BY <1>1, <1>2, <1>3

\* The flows of one bridge of a path.
LegOut(id, at, to) == [node |-> at, dcm |-> id, k |-> 0, match |-> Ring(id), to |-> to]
LegIn(id, at, to, k) ==
  [node |-> at, dcm |-> id, k |-> k, match |-> Inflows[dcms[id]][k], to |-> to]
Leg(id, at, to, usedaqring) ==
  (IF usedaqring THEN {LegOut(id, at, to)} ELSE {}) \cup
  {LegIn(id, at, IF usedaqring THEN Ring(id) ELSE to, k) : k \in DOMAIN Inflows[dcms[id]]}

LEMMA LegFields ==
  \A id, at, to, k :
    /\ LegOut(id, at, to).node = at /\ LegOut(id, at, to).dcm = id /\ LegOut(id, at, to).k = 0
    /\ LegOut(id, at, to).match = Ring(id) /\ LegOut(id, at, to).to = to
    /\ LegIn(id, at, to, k).node = at /\ LegIn(id, at, to, k).dcm = id /\ LegIn(id, at, to, k).k = k
    /\ LegIn(id, at, to, k).match = Inflows[dcms[id]][k] /\ LegIn(id, at, to, k).to = to
BY DEF LegOut, LegIn

\* Whether the ring is used is a condition on the mode: the cases are taken one by one.
LEMMA LegSane ==
  ASSUME Dumped(dcms), NEW id \in DOMAIN dcms, NEW at, NEW to, Towards(at, Home(id), to)
  PROVE  /\ at \notin Ends => Sane(LegOut(id, at, to)) /\ LegOut(id, at, to) \in Flow
         /\ \A k \in DOMAIN Inflows[dcms[id]] :
              /\ Sane(LegIn(id, at, to, k)) /\ LegIn(id, at, to, k) \in Flow
              /\ at \notin Ends => Sane(LegIn(id, at, Ring(id), k)) /\ LegIn(id, at, Ring(id), k) \in Flow
              /\ k # 0
<1>0. Home(id) \in Ends /\ Ring(id) \in Rings /\ id \in 1 .. Cardinality(Procs) /\ dcms[id] \in Procs
  BY RingIsRing
<1>1. at \in Bridges /\ to \in Bridges
  BY <1>0, TowardsTyped
<1>2. ASSUME NEW k \in DOMAIN Inflows[dcms[id]]
      PROVE  k \in Nat /\ k # 0 /\ Inflows[dcms[id]][k] \in Conns
  <2> DEFINE in == Inflows[dcms[id]]
  <2>1. in \in Seq(Conns)
    BY <1>0, DcmAssumption
  <2> HIDE DEF in
  <2>2. k \in 1 .. Len(in) /\ Len(in) \in Nat
    BY <2>1 DEF in
  <2>3. in[k] \in Conns
    BY <2>1, <2>2
  <2> QED
    BY <2>2, <2>3 DEF in
<1>3. ASSUME at \notin Ends PROVE Sane(LegOut(id, at, to)) /\ LegOut(id, at, to) \in Flow
  <2>1. LegOut(id, at, to) \in Flow
    BY <1>0, <1>1 DEF LegOut, Flow
  <2>2. OutFlow(LegOut(id, at, to))
    <3> DEFINE f == LegOut(id, at, to)
    <3>1. f.node = at /\ f.dcm = id /\ f.k = 0 /\ f.match = Ring(id) /\ f.to = to
      BY LegFields
    <3> HIDE DEF f
    <3>2. OutFlow(f)
      BY <1>3, <3>1 DEF OutFlow
    <3> QED
      BY <3>2 DEF f
  <2> QED
    BY <2>1, <2>2, LegFields DEF Sane
<1>4. ASSUME NEW k \in DOMAIN Inflows[dcms[id]]
      PROVE  Sane(LegIn(id, at, to, k)) /\ LegIn(id, at, to, k) \in Flow
  <2>1. LegIn(id, at, to, k) \in Flow
    BY <1>0, <1>1, <1>2 DEF LegIn, Flow
  <2>2. InFlow(LegIn(id, at, to, k))
    <3> DEFINE f == LegIn(id, at, to, k)
    <3>1. f.node = at /\ f.dcm = id /\ f.k = k /\ f.match = Inflows[dcms[id]][k] /\ f.to = to
      BY LegFields
    <3> HIDE DEF f
    <3>2. InFlow(f)
      BY <3>1 DEF InFlow
    <3> QED
      BY <3>2 DEF f
  <2> QED
    BY <2>1, <2>2, LegFields DEF Sane
<1>5. ASSUME NEW k \in DOMAIN Inflows[dcms[id]], at \notin Ends
      PROVE  Sane(LegIn(id, at, Ring(id), k)) /\ LegIn(id, at, Ring(id), k) \in Flow
  <2>1. LegIn(id, at, Ring(id), k) \in Flow
    BY <1>0, <1>1, <1>2 DEF LegIn, Flow
  <2>2. InFlow(LegIn(id, at, Ring(id), k))
    <3> DEFINE f == LegIn(id, at, Ring(id), k)
    <3>1. f.node = at /\ f.dcm = id /\ f.k = k /\ f.match = Inflows[dcms[id]][k] /\ f.to = Ring(id)
      BY LegFields
    <3> HIDE DEF f
    <3>2. InFlow(f)
      BY <1>5, <3>1 DEF InFlow
    <3> QED
      BY <3>2 DEF f
  <2> QED
    BY <2>1, <2>2, LegFields DEF Sane
<1> QED
  BY <1>2, <1>3, <1>4, <1>5

\* A request for each flow of a leg, the way out of the ring first.
LEMMA Subpath ==
  ASSUME Dumped(dcms), NEW id \in DOMAIN dcms, NEW at, NEW to, Towards(at, Home(id), to),
         NEW usedaqring \in BOOLEAN, usedaqring => at \notin Ends
  PROVE  /\ InstallSubpath(id, at, to, usedaqring) \in Routes
         /\ Range(InstallSubpath(id, at, to, usedaqring)) = {Put(f) : f \in Leg(id, at, to, usedaqring)}
<1> DEFINE in == Inflows[dcms[id]]
           next == IF usedaqring THEN Ring(id) ELSE to
           ways == [k \in DOMAIN in |-> Put(LegIn(id, at, next, k))]
           out == IF usedaqring THEN <<Put(LegOut(id, at, to))>> ELSE <<>>
<1>0. in \in Seq(Conns) /\ Len(in) \in Nat /\ DOMAIN in = 1 .. Len(in)
  BY RingIsRing, DcmAssumption
<1>1. InstallSubpath(id, at, to, usedaqring) = out \o ways
  BY DEF InstallSubpath, LegIn, LegOut, RingOf
<1>2. ASSUME NEW k \in DOMAIN in
      PROVE  LegIn(id, at, next, k) \in Flow /\ Sane(LegIn(id, at, next, k)) /\ k # 0
  BY LegSane
<1>3. \A f \in Flow : Put(f) \in Puts /\ Put(f).flow = f /\ Put(f).op = "put"
  BY DEF Put, Puts
<1>4. ways \in Seq(Puts) /\ DOMAIN ways = 1 .. Len(in) /\ Len(ways) = Len(in)
  <2>1. \A k \in 1 .. Len(in) : Put(LegIn(id, at, next, k)) \in Puts
    BY <1>0, <1>2, <1>3
  <2>2. ways = [k \in 1 .. Len(in) |-> Put(LegIn(id, at, next, k))]
    BY <1>0
  <2> HIDE DEF next, in
  <2> DEFINE P == Puts
             n == Len(in)
  <2>3. ways \in [1 .. n -> P]
    BY <2>1, <2>2
  <2> HIDE DEF P, n, ways
  <2>4. ways \in Seq(P) /\ DOMAIN ways = 1 .. n /\ Len(ways) = n
    <3>1. n \in Nat
      BY <1>0 DEF n
    <3> QED
      BY <2>3, <3>1
  <2> QED
    BY <2>4 DEF P, n
<1>5. \A k \in 1 .. Len(in) : ways[k] = Put(LegIn(id, at, next, k))
  BY <1>0
<1>6. CASE ~usedaqring
  <2>1. out \o ways = ways
    <3>1. out = <<>>
      BY <1>6
    <3> HIDE DEF ways, out
    <3> QED
      BY <1>4, <3>1, ConcatEmptySeq
  <2>2. Range(ways) = {Put(f) : f \in Leg(id, at, to, usedaqring)}
    <3>1. next = to
      BY <1>6
    <3>2. Leg(id, at, to, usedaqring) = {LegIn(id, at, to, k) : k \in DOMAIN in}
      BY <1>6 DEF Leg
    <3> HIDE DEF next
    <3> QED
      BY <1>0, <1>4, <1>5, <3>1, <3>2 DEF Range
  <2>3. WayOutFirst(ways)
    <3> SUFFICES ASSUME NEW k \in 1 .. Len(in), ways[k].flow.to = Ring(ways[k].flow.dcm) PROVE FALSE
      BY <1>4 DEF WayOutFirst
    <3>1. ways[k].flow = LegIn(id, at, to, k)
      BY <1>0, <1>2, <1>3, <1>5, <1>6
    <3>2. to = Ring(id)
      BY <3>1, LegFields
    <3>3. to \in Bridges /\ Ring(id) \in Rings
      BY RingIsRing, TowardsTyped
    <3> QED
      BY <3>2, <3>3, BridgeNames
  <2>4. \A k \in DOMAIN ways : Sane(ways[k].flow)
    BY <1>0, <1>2, <1>3, <1>4, <1>5
  <2> QED
    BY <1>1, <1>4, <2>1, <2>2, <2>3, <2>4 DEF Routes
<1>7. CASE usedaqring
  <2> DEFINE first == Put(LegOut(id, at, to))
             s == out \o ways
  <2>1. first \in Puts /\ first.flow = LegOut(id, at, to) /\ Sane(first.flow)
    BY <1>3, <1>7, LegSane
  <2>2. out = <<first>> /\ next = Ring(id)
    BY <1>7
  <2> HIDE DEF out, ways, first
  <2>3. s \in Seq(Puts) /\ Len(s) = Len(in) + 1
    <3> DEFINE P == Puts
    <3>1. first \in P /\ ways \in Seq(P)
      BY <1>4, <2>1
    <3> HIDE DEF P
    <3>2. s \in Seq(P) /\ Len(s) = Len(ways) + 1
      BY <2>2, <3>1
    <3> QED
      BY <1>4, <3>2 DEF P
  <2>4. s[1] = first /\ \A k \in 1 .. Len(in) : s[k + 1] = ways[k]
    <3> DEFINE P == Puts
    <3>1. first \in P /\ ways \in Seq(P)
      BY <1>4, <2>1
    <3> HIDE DEF P
    <3> QED
      BY <1>4, <2>2, <3>1
  <2>5. DOMAIN s = 1 .. Len(in) + 1
    BY <2>3
  <2> HIDE DEF s
  <2>6. \A x \in DOMAIN s : x = 1 \/ (x - 1 \in 1 .. Len(in) /\ s[x] = ways[x - 1])
    <3> SUFFICES ASSUME NEW x \in 1 .. Len(in) + 1, x # 1
        PROVE  x - 1 \in 1 .. Len(in) /\ s[x] = ways[x - 1]
      BY <2>5
    <3> DEFINE z == x - 1
    <3>1. z \in 1 .. Len(in) /\ x = z + 1
      BY <1>0
    <3> HIDE DEF z
    <3>2. s[z + 1] = ways[z]
      BY <2>4, <3>1
    <3> QED
      BY <3>1, <3>2 DEF z
  <2>7. \A k \in 1 .. Len(in) : ways[k].flow = LegIn(id, at, Ring(id), k) /\ Sane(ways[k].flow)
    BY <1>0, <1>2, <1>3, <1>5, <2>2
  <2>8. WayOutFirst(s)
    <3> SUFFICES ASSUME NEW x \in DOMAIN s, s[x].flow.to = Ring(s[x].flow.dcm)
        PROVE  \E y \in 1 .. x - 1 : IsOutOf(s[y].flow, s[x].flow)
      BY DEF WayOutFirst
    <3>1. x # 1
      <4>1. first.flow.to = to /\ first.flow.dcm = id
        BY <2>1, LegFields
      <4>2. to \in Bridges /\ Ring(id) \in Rings
        BY RingIsRing, TowardsTyped
      <4> QED
        BY <2>4, <4>1, <4>2, BridgeNames
    <3>2. x - 1 \in 1 .. Len(in) /\ s[x] = ways[x - 1]
      BY <2>6, <3>1
    <3>3. s[x].flow.node = at /\ s[x].flow.dcm = id
      BY <2>7, <3>2, LegFields
    <3>4. s[1].flow.node = at /\ s[1].flow.dcm = id /\ s[1].flow.k = 0
      BY <2>1, <2>4, LegFields
    <3>5. 1 \in 1 .. x - 1
      BY <1>0, <3>2
    <3> QED
      BY <3>3, <3>4, <3>5 DEF IsOutOf
  <2>9. \A x \in DOMAIN s : Sane(s[x].flow)
    BY <2>1, <2>4, <2>6, <2>7
  <2>10. Range(s) = {Put(f) : f \in Leg(id, at, to, usedaqring)}
    <3>1. Leg(id, at, to, usedaqring) = {LegOut(id, at, to)} \cup {LegIn(id, at, Ring(id), k) : k \in DOMAIN in}
      BY <1>7 DEF Leg
    <3>2. \A k \in 1 .. Len(in) : ways[k] = Put(LegIn(id, at, Ring(id), k))
      BY <1>5, <2>2
    <3>3. ASSUME NEW x \in DOMAIN s PROVE s[x] \in {Put(f) : f \in Leg(id, at, to, usedaqring)}
      BY <1>0, <2>4, <2>6, <3>1, <3>2 DEF first
    <3>4. ASSUME NEW f \in Leg(id, at, to, usedaqring) PROVE \E x \in DOMAIN s : s[x] = Put(f)
      <4>1. CASE f = LegOut(id, at, to)
        <5>1. 1 \in DOMAIN s
          BY <1>0, <2>5
        <5> QED
          BY <2>4, <4>1, <5>1 DEF first
      <4>2. ASSUME NEW k \in DOMAIN in, f = LegIn(id, at, Ring(id), k)
            PROVE  \E x \in DOMAIN s : s[x] = Put(f)
        <5>1. k \in 1 .. Len(in) /\ k + 1 \in DOMAIN s
          BY <1>0, <2>5
        <5>2. s[k + 1] = Put(f)
          BY <2>4, <3>2, <4>2, <5>1
        <5> QED
          BY <5>1, <5>2
      <4> QED
        BY <3>1, <4>1, <4>2
    <3> QED
      BY <3>3, <3>4 DEF Range
  <2> QED
    BY <1>1, <2>3, <2>8, <2>9, <2>10 DEF Routes, s
<1> QED
  BY <1>6, <1>7

LEMMA RangeOfBoth ==
  ASSUME NEW R, NEW s \in Seq(R), NEW t \in Seq(R)
  PROVE  Range(s \o t) = Range(s) \cup Range(t)
<1>0. s \o t \in Seq(R) /\ Len(s \o t) = Len(s) + Len(t) /\ DOMAIN (s \o t) = 1 .. Len(s) + Len(t)
      /\ Len(s) \in Nat /\ Len(t) \in Nat
  OBVIOUS
<1>1. ASSUME NEW x \in DOMAIN s PROVE s[x] \in Range(s \o t)
  <2>1. x \in DOMAIN (s \o t) /\ (s \o t)[x] = s[x]
    OBVIOUS
  <2> QED
    BY <2>1 DEF Range
<1>2. ASSUME NEW x \in DOMAIN t PROVE t[x] \in Range(s \o t)
  <2>1. Len(s) + x \in DOMAIN (s \o t) /\ (s \o t)[Len(s) + x] = t[x]
    OBVIOUS
  <2> QED
    BY <2>1 DEF Range
<1>3. ASSUME NEW x \in DOMAIN (s \o t) PROVE (s \o t)[x] \in Range(s) \cup Range(t)
  <2>1. CASE x <= Len(s)
    <3>1. x \in DOMAIN s /\ (s \o t)[x] = s[x]
      BY <2>1
    <3> QED
      BY <3>1 DEF Range
  <2>2. CASE x > Len(s)
    <3>1. x - Len(s) \in DOMAIN t /\ (s \o t)[x] = t[x - Len(s)]
      BY <1>0, <2>2
    <3> QED
      BY <3>1 DEF Range
  <2> QED
    BY <1>0, <2>1, <2>2
<1> QED
  BY <1>1, <1>2, <1>3 DEF Range

\* What is flattened has the elements of each and no other.
LEMMA FlattenRange ==
  ASSUME NEW R, NEW ss \in Seq(Seq(R))
  PROVE  Range(FlattenSeq(ss)) = UNION {Range(ss[k]) : k \in 1 .. Len(ss)}
<1> DEFINE X == UNION {Range(ss[k]) : k \in 1 .. Len(ss)}
           Q == {s \in Seq(R) : Range(s) \subseteq X}
<1>1. Q \subseteq Seq(R)
  OBVIOUS
<1>2. <<>> \in Q
  <2>1. <<>> \in Seq(R) /\ Range(<<>>) = {}
    BY DEF Range
  <2> QED
    BY <2>1
<1>3. \A a, b \in Q : a \o b \in Q
  <2> SUFFICES ASSUME NEW a \in Q, NEW b \in Q PROVE a \o b \in Q
    OBVIOUS
  <2>1. a \in Seq(R) /\ b \in Seq(R) /\ Range(a) \subseteq X /\ Range(b) \subseteq X
    OBVIOUS
  <2>2. a \o b \in Seq(R) /\ Range(a \o b) = Range(a) \cup Range(b)
    BY <2>1, RangeOfBoth, ConcatProperties
  <2> QED
    BY <2>1, <2>2
<1>4. ss \in Seq(Q)
  <2> DEFINE T == Seq(R)
             n == Len(ss)
  <2>1. n \in Nat /\ ss \in [1 .. n -> T]
    OBVIOUS
  <2>2. \A k \in 1 .. n : Range(ss[k]) \subseteq X
    OBVIOUS
  <2>3. \A k \in 1 .. n : ss[k] \in Q
    <3> HIDE DEF X, n
    <3> QED
      BY <2>1, <2>2
  <2> HIDE DEF Q, n
  <2>4. ss \in [1 .. n -> Q]
    BY <2>1, <2>3
  <2> QED
    BY <2>1, <2>4
<1>5. FlattenSeq(ss) \in Q
  <2> HIDE DEF Q
  <2> QED
    BY <1>1, <1>2, <1>3, <1>4, FlattenIn
<1>6. X \subseteq Range(FlattenSeq(ss))
  BY FlattenHas
<1> QED
  BY <1>5, <1>6

\* Routes put together.
LEMMA RoutesFlatten ==
  ASSUME NEW n \in Nat, NEW ss \in [1 .. n -> Routes]
  PROVE  /\ FlattenSeq(ss) \in Routes
         /\ Range(FlattenSeq(ss)) = UNION {Range(ss[k]) : k \in 1 .. n}
<1> DEFINE Q == Routes
           T == Seq(Puts)
<1>1. Q \subseteq T /\ <<>> \in Q /\ \A a, b \in Q : a \o b \in Q
  BY RoutesJoin
<1>2. ss \in Seq(Q) /\ Len(ss) = n
  <2> HIDE DEF Q
  <2>1. ss \in [1 .. n -> Q]
    BY DEF Q
  <2> QED
    BY <2>1
<1>3. ss \in Seq(T)
  <2>1. ss \in [1 .. n -> T]
    <3> HIDE DEF T, Q
    <3> QED
      BY <1>1 DEF Q
  <2> HIDE DEF T
  <2> QED
    BY <2>1
<1>4. FlattenSeq(ss) \in Q
  <2> HIDE DEF Q
  <2> QED
    BY <1>1, <1>2, FlattenIn DEF T
<1>5. Range(FlattenSeq(ss)) = UNION {Range(ss[k]) : k \in 1 .. Len(ss)}
  BY <1>3, FlattenRange
<1> QED
  BY <1>2, <1>4, <1>5

LEMMA RoutesBoth ==
  ASSUME NEW s \in Routes, NEW t \in Routes
  PROVE  s \o t \in Routes /\ Range(s \o t) = Range(s) \cup Range(t)
<1>1. s \in Seq(Puts) /\ t \in Seq(Puts)
  BY DEF Routes
<1> QED
  BY <1>1, RoutesJoin, RangeOfBoth

\* The flows of a path by a spine.
PodFlows(id, spine, mode, i) ==
  (IF i = PodOf[Home(id)] THEN {} ELSE Leg(id, Leaf(spine[2], i), spine, mode = "all")) \cup
  UNION {Leg(id, e, Leaf(spine[2], i), FALSE) : e \in {d \in Ends : PodOf[d] = i /\ d # Home(id)}}
PathFlows(id, spine, mode) ==
  Leg(id, Leaf(spine[2], PodOf[Home(id)]), Home(id), mode # "none") \cup
  Leg(id, spine, Leaf(spine[2], PodOf[Home(id)]), mode = "all") \cup
  UNION {PodFlows(id, spine, mode, i) : i \in Pods}
PodPath(id, spine, mode, i) ==
  (IF i = PodOf[Home(id)] THEN <<>> ELSE InstallSubpath(id, Leaf(spine[2], i), spine, mode = "all")) \o
  FlattenSeq([x \in DOMAIN EndNodes |->
    IF PodOf[EndNodes[x]] = i /\ EndNodes[x] # Home(id)
    THEN InstallSubpath(id, EndNodes[x], Leaf(spine[2], i), FALSE) ELSE <<>>])

Asked(F) == {Put(f) : f \in F}

LEMMA AskedBoth == \A F, G : Asked(F \cup G) = Asked(F) \cup Asked(G)
BY DEF Asked

LEMMA AskedNone == Asked({}) = {} /\ Range(<<>>) = {}
BY DEF Asked, Range

LEMMA PodPathRoutes ==
  ASSUME Dumped(dcms), NEW id \in DOMAIN dcms, NEW spine \in Spines, NEW mode, NEW i \in Pods
  PROVE  /\ PodPath(id, spine, mode, i) \in Routes
         /\ Range(PodPath(id, spine, mode, i)) = Asked(PodFlows(id, spine, mode, i))
<1> DEFINE home == Home(id)
           leaf == Leaf(spine[2], i)
           a == IF i = PodOf[home] THEN <<>> ELSE InstallSubpath(id, leaf, spine, mode = "all")
           F == IF i = PodOf[home] THEN {} ELSE Leg(id, leaf, spine, mode = "all")
           sub(e) == IF PodOf[e] = i /\ e # home THEN InstallSubpath(id, e, leaf, FALSE) ELSE <<>>
           flows(e) == IF PodOf[e] = i /\ e # home THEN Leg(id, e, leaf, FALSE) ELSE {}
           ss == [x \in DOMAIN EndNodes |-> sub(EndNodes[x])]
           b == FlattenSeq(ss)
           G == UNION {Leg(id, e, leaf, FALSE) : e \in {d \in Ends : PodOf[d] = i /\ d # home}}
<1>0. home \in Ends /\ spine[2] \in Planes /\ leaf \in Leaves /\ PodOf[home] \in Pods
  BY RingIsRing, Names
<1>1. a \in Routes /\ Range(a) = Asked(F)
  <2>1. CASE i = PodOf[home]
    BY <2>1, RoutesJoin, AskedNone
  <2>2. CASE i # PodOf[home]
    <3>1. Towards(leaf, home, spine)
      BY <1>0, <2>2 DEF Towards
    <3>2. leaf \notin Ends
      BY <1>0, Names
    <3> DEFINE ring == mode = "all"
    <3>3. ring \in BOOLEAN
      OBVIOUS
    <3> HIDE DEF leaf, ring
    <3>4. /\ InstallSubpath(id, leaf, spine, ring) \in Routes
          /\ Range(InstallSubpath(id, leaf, spine, ring)) = {Put(f) : f \in Leg(id, leaf, spine, ring)}
      BY <3>1, <3>2, <3>3, Subpath DEF home
    <3> QED
      BY <2>2, <3>4 DEF ring, Asked
  <2> QED
    BY <2>1, <2>2
<1>2. ASSUME NEW e \in Ends PROVE sub(e) \in Routes /\ Range(sub(e)) = Asked(flows(e))
  <2>1. CASE ~(PodOf[e] = i /\ e # home)
    BY <2>1, RoutesJoin, AskedNone
  <2>2. CASE PodOf[e] = i /\ e # home
    <3>1. Towards(e, home, leaf)
      BY <1>0, <2>2 DEF Towards
    <3> HIDE DEF leaf
    <3>4. /\ InstallSubpath(id, e, leaf, FALSE) \in Routes
          /\ Range(InstallSubpath(id, e, leaf, FALSE)) = {Put(f) : f \in Leg(id, e, leaf, FALSE)}
      BY <3>1, Subpath DEF home
    <3> QED
      BY <2>2, <3>4 DEF Asked
  <2> QED
    BY <2>1, <2>2
<1> DEFINE n == Len(EndNodes)
<1>3. n \in Nat /\ DOMAIN EndNodes = 1 .. n /\ (\A x \in 1 .. n : EndNodes[x] \in Ends)
      /\ \A e \in Ends : \E x \in 1 .. n : EndNodes[x] = e
  <2>1. EndNodes \in Seq(Ends)
    BY TopologyAssumption
  <2>2. n \in Nat /\ DOMAIN EndNodes = 1 .. n /\ (\A x \in 1 .. n : EndNodes[x] \in Ends)
    BY <2>1
  <2>3. \A e \in Ends : \E x \in DOMAIN EndNodes : EndNodes[x] = e
    BY DEF Ends, Range
  <2> QED
    BY <2>2, <2>3
<1>4. ss \in [1 .. n -> Routes] /\ \A x \in 1 .. n : ss[x] = sub(EndNodes[x])
  <2> HIDE DEF sub, n
  <2> QED
    BY <1>2, <1>3
<1>5. b \in Routes /\ Range(b) = UNION {Range(ss[x]) : x \in 1 .. n}
  <2> HIDE DEF ss, n
  <2> QED
    BY <1>3, <1>4, RoutesFlatten
<1>6. Range(b) = Asked(G)
  <2>1. UNION {Range(ss[x]) : x \in 1 .. n} = UNION {Range(sub(e)) : e \in Ends}
    <3> HIDE DEF sub, ss, n
    <3> QED
      BY <1>3, <1>4
  <2>2. UNION {Range(sub(e)) : e \in Ends} = UNION {Asked(flows(e)) : e \in Ends}
    <3> HIDE DEF sub, flows
    <3> QED
      BY <1>2
  <2>3. UNION {Asked(flows(e)) : e \in Ends} = Asked(UNION {flows(e) : e \in Ends})
    <3> HIDE DEF flows
    <3> QED
      BY DEF Asked
  <2>4. UNION {flows(e) : e \in Ends} = G
    <3> DEFINE L(e) == Leg(id, e, leaf, FALSE)
    <3> HIDE DEF home, leaf, L
    <3>1. \A e : flows(e) = IF PodOf[e] = i /\ e # home THEN L(e) ELSE {}
      BY DEF L
    <3>2. G = UNION {L(e) : e \in {d \in Ends : PodOf[d] = i /\ d # home}}
      BY DEF L
    <3> HIDE DEF flows, G
    <3> QED
      BY <3>1, <3>2
  <2> HIDE DEF b, ss, sub, flows, G
  <2> QED
    BY <1>5, <2>1, <2>2, <2>3, <2>4
<1>7. PodPath(id, spine, mode, i) = a \o b /\ PodFlows(id, spine, mode, i) = F \cup G
  BY DEF PodPath, PodFlows
<1> HIDE DEF a, b, F, G
<1>8. a \o b \in Routes /\ Range(a \o b) = Range(a) \cup Range(b)
  BY <1>1, <1>5, RoutesBoth
<1>9. Asked(F \cup G) = Asked(F) \cup Asked(G)
  BY AskedBoth
<1> QED
  BY <1>1, <1>6, <1>7, <1>8, <1>9

LEMMA Path ==
  ASSUME Dumped(dcms), NEW id \in DOMAIN dcms, NEW spine \in Spines, NEW mode
  PROVE  /\ InstallPath(id, spine, mode) \in Routes
         /\ Range(InstallPath(id, spine, mode)) = Asked(PathFlows(id, spine, mode))
<1> DEFINE home == Home(id)
           leaf == Leaf(spine[2], PodOf[home])
           one == mode # "none"
           all == mode = "all"
           a == InstallSubpath(id, leaf, home, one)
           b == InstallSubpath(id, spine, leaf, all)
           ss == [i \in 1 .. NPods |-> PodPath(id, spine, mode, i)]
           p == FlattenSeq(ss)
           F == Leg(id, leaf, home, one)
           G == Leg(id, spine, leaf, all)
           H == UNION {PodFlows(id, spine, mode, i) : i \in Pods}
<1>0. home \in Ends /\ spine[2] \in Planes /\ leaf \in Leaves /\ PodOf[home] \in Pods
      /\ leaf \notin Ends /\ spine \notin Ends /\ one \in BOOLEAN /\ all \in BOOLEAN
  <2>1. home \in Ends /\ spine[2] \in Planes /\ leaf \in Leaves /\ PodOf[home] \in Pods
    BY RingIsRing, Names
  <2> QED
    BY <2>1, Names
<1>1. Towards(leaf, home, home) /\ Towards(spine, home, leaf)
  BY <1>0 DEF Towards
<1>2. a \in Routes /\ Range(a) = Asked(F)
  <2> HIDE DEF leaf, one
  <2>1. a \in Routes /\ Range(a) = {Put(f) : f \in Leg(id, leaf, home, one)}
    BY <1>0, <1>1, Subpath DEF home
  <2> QED
    BY <2>1 DEF Asked
<1>3. b \in Routes /\ Range(b) = Asked(G)
  <2> HIDE DEF leaf, all
  <2>1. b \in Routes /\ Range(b) = {Put(f) : f \in Leg(id, spine, leaf, all)}
    BY <1>0, <1>1, Subpath DEF home
  <2> QED
    BY <2>1 DEF Asked
<1>4. p \in Routes /\ Range(p) = Asked(H)
  <2>1. NPods \in Nat /\ Pods = 1 .. NPods
    BY TopologyAssumption DEF Pods
  <2>2. \A i \in Pods : PodPath(id, spine, mode, i) \in Routes
          /\ Range(PodPath(id, spine, mode, i)) = Asked(PodFlows(id, spine, mode, i))
    BY PodPathRoutes
  <2>3. ss \in [1 .. NPods -> Routes] /\ \A i \in 1 .. NPods : ss[i] = PodPath(id, spine, mode, i)
    BY <2>1, <2>2
  <2>4. p \in Routes /\ Range(p) = UNION {Range(ss[i]) : i \in 1 .. NPods}
    <3> HIDE DEF ss
    <3> QED
      BY <2>1, <2>3, RoutesFlatten
  <2>5. UNION {Range(ss[i]) : i \in 1 .. NPods} = Asked(H)
    <3>1. \A i \in 1 .. NPods : Range(ss[i]) = Asked(PodFlows(id, spine, mode, i))
      BY <2>1, <2>2, <2>3
    <3> DEFINE L(i) == PodFlows(id, spine, mode, i)
    <3>2. UNION {Range(ss[i]) : i \in 1 .. NPods} = UNION {Asked(L(i)) : i \in Pods}
      <4> HIDE DEF ss, L
      <4> QED
        BY <2>1, <3>1 DEF L
    <3>3. UNION {Asked(L(i)) : i \in Pods} = Asked(UNION {L(i) : i \in Pods})
      <4> HIDE DEF L
      <4> QED
        BY DEF Asked
    <3> HIDE DEF ss
    <3> QED
      BY <3>2, <3>3
  <2> QED
    BY <2>4, <2>5
<1>5. InstallPath(id, spine, mode) = a \o b \o p
  BY DEF InstallPath, DcmFirst, FromPods, PodPath, Home
<1>6. PathFlows(id, spine, mode) = F \cup G \cup H
  BY DEF PathFlows
<1> HIDE DEF a, b, p, F, G, H
<1>7. a \o b \in Routes /\ Range(a \o b) = Asked(F) \cup Asked(G)
  BY <1>2, <1>3, RoutesBoth
<1>8. a \o b \o p \in Routes /\ Range(a \o b \o p) = Range(a \o b) \cup Range(p)
  BY <1>4, <1>7, RoutesBoth
<1>9. Asked(F \cup G \cup H) = Asked(F \cup G) \cup Asked(H) /\ Asked(F \cup G) = Asked(F) \cup Asked(G)
  BY AskedBoth
<1> QED
  BY <1>4, <1>5, <1>6, <1>7, <1>8, <1>9

\* A path bridge by bridge.
PathLeg(id, spine, mode, at, to, usedaqring) ==
  LET home == Home(id)
  IN  \/ at = Leaf(spine[2], PodOf[home]) /\ to = home /\ usedaqring = (mode # "none")
      \/ at = spine /\ to = Leaf(spine[2], PodOf[home]) /\ usedaqring = (mode = "all")
      \/ \E i \in Pods \ {PodOf[home]} :
           at = Leaf(spine[2], i) /\ to = spine /\ usedaqring = (mode = "all")
      \/ at \in Ends \ {home} /\ to = Leaf(spine[2], PodOf[at]) /\ usedaqring = FALSE

LEMMA LegOfPath ==
  ASSUME NEW id, NEW spine, NEW mode, NEW f \in PathFlows(id, spine, mode)
  PROVE  \E at, to, u : PathLeg(id, spine, mode, at, to, u) /\ f \in Leg(id, at, to, u)
<1> DEFINE home == Home(id)
           leaf == Leaf(spine[2], PodOf[home])
           Found == \E at, to, u : PathLeg(id, spine, mode, at, to, u) /\ f \in Leg(id, at, to, u)
<1> SUFFICES Found
  OBVIOUS
<1>1. CASE f \in Leg(id, leaf, home, mode # "none")
  <2>1. PathLeg(id, spine, mode, leaf, home, mode # "none")
    BY Zenon DEF PathLeg
  <2> QED
    BY <1>1, <2>1, Zenon
<1>2. CASE f \in Leg(id, spine, leaf, mode = "all")
  <2>1. PathLeg(id, spine, mode, spine, leaf, mode = "all")
    BY Zenon DEF PathLeg
  <2> QED
    BY <1>2, <2>1, Zenon
<1>3. ASSUME NEW i \in Pods, f \in PodFlows(id, spine, mode, i) PROVE Found
  <2>1. CASE i # PodOf[home] /\ f \in Leg(id, Leaf(spine[2], i), spine, mode = "all")
    <3>1. PathLeg(id, spine, mode, Leaf(spine[2], i), spine, mode = "all")
      BY <2>1, Zenon DEF PathLeg
    <3> QED
      BY <2>1, <3>1, Zenon
  <2>2. ASSUME NEW e \in Ends, PodOf[e] = i, e # home, f \in Leg(id, e, Leaf(spine[2], i), FALSE)
        PROVE  Found
    <3>1. PathLeg(id, spine, mode, e, Leaf(spine[2], i), FALSE)
      BY <2>2, Zenon DEF PathLeg
    <3> QED
      BY <2>2, <3>1, Zenon
  <2> DEFINE L(e) == Leg(id, e, Leaf(spine[2], i), FALSE)
             M == Leg(id, Leaf(spine[2], i), spine, mode = "all")
  <2>3. f \in (IF i = PodOf[home] THEN {} ELSE M) \cup UNION {L(e) : e \in {d \in Ends : PodOf[d] = i /\ d # home}}
    BY <1>3 DEF PodFlows
  <2> HIDE DEF L, M, home, Found
  <2>4. (i # PodOf[home] /\ f \in M) \/ \E e \in Ends : PodOf[e] = i /\ e # home /\ f \in L(e)
    BY <2>3
  <2> QED
    BY <2>1, <2>2, <2>4 DEF L, M
<1>4. \/ f \in Leg(id, leaf, home, mode # "none")
      \/ f \in Leg(id, spine, leaf, mode = "all")
      \/ \E i \in Pods : f \in PodFlows(id, spine, mode, i)
  <2> DEFINE A == Leg(id, leaf, home, mode # "none")
             B == Leg(id, spine, leaf, mode = "all")
             C(i) == PodFlows(id, spine, mode, i)
  <2>1. f \in A \cup B \cup UNION {C(i) : i \in Pods}
    BY DEF PathFlows
  <2> HIDE DEF A, B, C
  <2>2. f \in A \/ f \in B \/ \E i \in Pods : f \in C(i)
    BY <2>1
  <2> QED
    BY <2>2 DEF A, B, C
<1> HIDE DEF Found
<1> QED
  BY <1>1, <1>2, <1>3, <1>4

\* The legs of a path have flows for its DCM's id at their bridges.
LEMMA LegFlow ==
  ASSUME NEW id, NEW at, NEW to, NEW u, NEW f \in Leg(id, at, to, u)
  PROVE  f.node = at /\ f.dcm = id
<1>1. f \in (IF u THEN {LegOut(id, at, to)} ELSE {}) \cup
           {LegIn(id, at, IF u THEN Ring(id) ELSE to, k) : k \in DOMAIN Inflows[dcms[id]]}
  BY DEF Leg
<1> DEFINE t == IF u THEN Ring(id) ELSE to
<1> HIDE DEF t
<1>2. f \in {LegOut(id, at, to)} \cup {LegIn(id, at, t, k) : k \in DOMAIN Inflows[dcms[id]]}
  BY <1>1 DEF t
<1> QED
  BY <1>2, LegFields
-----------------------------------------------------------------------------
(* Sets in some order. *)

LEMMA OrderCovers ==
  ASSUME NEW S, IsFiniteSet(S), NEW order \in SetToSeqs(S)
  PROVE  /\ Cardinality(S) \in Nat
         /\ order \in [1 .. Cardinality(S) -> S] /\ DOMAIN order = 1 .. Cardinality(S)
         /\ \A i, j \in 1 .. Cardinality(S) : i # j => order[i] # order[j]
         /\ \A s \in S : \E i \in 1 .. Cardinality(S) : order[i] = s
<1> DEFINE n == Cardinality(S)
<1>1. n \in Nat
  BY FS_CardinalityType
<1>2. order \in [1 .. n -> S] /\ \A i, j \in 1 .. n : i # j => order[i] # order[j]
  BY DEF SetToSeqs
<1>3. IsFiniteSet(1 .. n) /\ Cardinality(1 .. n) = n
  BY <1>1, FS_Interval
<1> HIDE DEF n
<1>4. order \in Injection(1 .. n, S)
  BY <1>2 DEF Injection, IsInjective
<1>5. order \in Surjection(1 .. n, S)
  <2> DEFINE N == 1 .. n
  <2>1. Cardinality(N) = Cardinality(S) /\ order \in Injection(N, S)
    BY <1>3, <1>4 DEF n
  <2> HIDE DEF N
  <2>2. order \in Surjection(N, S)
    BY <2>1, FS_Injection
  <2> QED
    BY <2>2 DEF N
<1> QED
  BY <1>1, <1>2, <1>5 DEF n, Surjection

LEMMA SetToSeqRange ==
  ASSUME NEW S, IsFiniteSet(S)
  PROVE  SetToSeq(S) \in Seq(S) /\ Range(SetToSeq(S)) = S
<1> DEFINE n == Cardinality(S)
           Def(f) == f \in [1 .. n -> S] /\ IsInjective(f)
           g == CHOOSE f \in [1 .. n -> S] : IsInjective(f)
<1>1. n \in Nat /\ ExistsBijection(1 .. n, S)
  BY FS_CardinalityType
<1>2. PICK f : f \in Bijection(1 .. n, S)
  BY <1>1 DEF ExistsBijection
<1>3. Def(f)
  BY <1>2 DEF Bijection, Injection
<1>4. Def(g)
  BY <1>3, Zenon
<1>5. SetToSeq(S) = g
  BY DEF SetToSeq
<1> HIDE DEF g, n
<1>6. g \in SetToSeqs(S)
  BY <1>4 DEF SetToSeqs, IsInjective, n
<1>7. g \in [1 .. n -> S] /\ \A s \in S : \E i \in 1 .. n : g[i] = s
  BY <1>6, OrderCovers DEF n
<1> QED
  BY <1>1, <1>5, <1>7 DEF Range

LEMMA ScannedDumped ==
  ASSUME running \subseteq Procs, NEW d \in Scanned
  PROVE  Dumped(d) /\ Len(d) = Cardinality(running) /\ Cardinality(running) \in Nat
<1>1. IsFiniteSet(Procs) /\ running \in SUBSET Procs
  BY DcmAssumption
<1>2. IsFiniteSet(running) /\ Cardinality(running) <= Cardinality(Procs)
  BY <1>1, FS_Subset
<1>3. d \in SetToSeqs(running)
  BY DEF Scanned
<1> DEFINE n == Cardinality(running)
<1>4. n \in Nat /\ d \in [1 .. n -> running] /\ DOMAIN d = 1 .. n
      /\ \A i, j \in 1 .. n : i # j => d[i] # d[j]
  BY <1>2, <1>3, OrderCovers
<1> HIDE DEF n
<1>5. d \in Seq(Procs) /\ Len(d) = n
  BY <1>4
<1> QED
  BY <1>2, <1>4, <1>5 DEF Dumped, n
-----------------------------------------------------------------------------
(* What remove_path deletes. *)

Selected(n, id, out) == {g \in conf : g.node = n /\ g.dcm = id /\ (g.k = 0) = out}

LEMMA FlowsOfAre ==
  ASSUME Flows(conf), NEW n, NEW id, NEW out
  PROVE  /\ FlowsOf(n, id, out) \in Seq(Deletions)
         /\ Range(FlowsOf(n, id, out)) = {Delete(f) : f \in Selected(n, id, out)}
<1> DEFINE S == Selected(n, id, out)
           T == {Delete(f) : f \in S}
           g == [f \in S |-> Delete(f)]
<1>1. S \in SUBSET conf /\ IsFiniteSet(conf) /\ S \subseteq Flow
  BY DEF Flows, Selected
<1>2. IsFiniteSet(S)
  BY <1>1, FS_Subset
<1>3. g \in Surjection(S, T)
  BY DEF Surjection
<1>4. IsFiniteSet(T)
  <2> HIDE DEF S, T, g
  <2> QED
    BY <1>2, <1>3, FS_Surjection
<1>5. T \subseteq Deletions
  BY <1>1 DEF Delete, Deletions
<1>6. FlowsOf(n, id, out) = SetToSeq(T)
  BY DEF FlowsOf, Selected
<1> HIDE DEF T
<1>7. SetToSeq(T) \in Seq(T) /\ Range(SetToSeq(T)) = T
  BY <1>4, SetToSeqRange
<1>8. SetToSeq(T) \in Seq(Deletions)
  <2> DEFINE s == SetToSeq(T)
             D == Deletions
  <2>1. s \in Seq(T) /\ T \subseteq D
    BY <1>5, <1>7
  <2> HIDE DEF s, D
  <2>2. s \in Seq(D)
    BY <2>1
  <2> QED
    BY <2>2 DEF s, D
<1> QED
  BY <1>6, <1>7, <1>8 DEF T

\* All flows of an id on a bridge, the inflows first.
InflowsFirst(s, S) ==
  \A x \in DOMAIN s : s[x].op = "delete" /\ s[x].flow.k = 0 =>
    \A f \in S : f.node = s[x].flow.node /\ f.dcm = s[x].flow.dcm /\ f.k # 0 =>
      \E y \in 1 .. x - 1 : s[y].op = "delete" /\ SameId(s[y].flow, f)

LEMMA DeletesAre ==
  ASSUME Flows(conf), NEW n, NEW id
  PROVE  /\ Deletes(n, id) \in Seq(Deletions)
         /\ Range(Deletes(n, id)) = {Delete(f) : f \in {g \in conf : g.node = n /\ g.dcm = id}}
         /\ InflowsFirst(Deletes(n, id), conf)
<1> DEFINE D == Deletions
           a == FlowsOf(n, id, FALSE)
           b == FlowsOf(n, id, TRUE)
           s == a \o b
           A == Selected(n, id, FALSE)
           B == Selected(n, id, TRUE)
<1>0. Deletes(n, id) = s
  BY DEF Deletes
<1>1. a \in Seq(D) /\ b \in Seq(D) /\ Range(a) = {Delete(f) : f \in A} /\ Range(b) = {Delete(f) : f \in B}
  BY FlowsOfAre
<1>2. A \cup B = {g \in conf : g.node = n /\ g.dcm = id}
  BY DEF Selected
<1>3. \A f : Delete(f).flow = f /\ Delete(f).op = "delete"
  BY DEF Delete
<1>4. \A f \in A : f.k # 0
  BY DEF Selected
<1>a. \A f \in conf : f.node = n /\ f.dcm = id /\ f.k # 0 => f \in A
  BY DEF Selected
<1>b. \A f \in A \cup B : f.node = n /\ f.dcm = id
  BY DEF Selected
<1> HIDE DEF a, b, A, B, D
<1>5. s \in Seq(D) /\ Range(s) = Range(a) \cup Range(b)
  BY <1>1, RangeOfBoth, ConcatProperties
<1>6. Range(s) = {Delete(f) : f \in A \cup B}
  BY <1>1, <1>5
<1>7. /\ Len(a) \in Nat /\ Len(b) \in Nat /\ DOMAIN s = 1 .. Len(a) + Len(b)
      /\ \A x \in DOMAIN a : x \in 1 .. Len(a) /\ s[x] = a[x]
      /\ \A x \in 1 .. Len(a) : x \in DOMAIN a
  BY <1>1
<1> HIDE DEF s
<1>8. InflowsFirst(s, conf)
  <2> SUFFICES ASSUME NEW x \in DOMAIN s, s[x].flow.k = 0,
                      NEW f \in conf, f.node = s[x].flow.node, f.dcm = s[x].flow.dcm, f.k # 0
      PROVE  \E y \in 1 .. x - 1 : s[y].op = "delete" /\ SameId(s[y].flow, f)
    BY DEF InflowsFirst
  <2>1. PICK e \in A \cup B : s[x] = Delete(e)
    BY <1>6 DEF Range
  <2>2. f \in A
    BY <1>3, <1>a, <1>b, <2>1
  <2>3. PICK y \in DOMAIN a : a[y] = Delete(f)
    BY <1>1, <2>2 DEF Range
  <2>4. x \notin DOMAIN a
    <3>1. ASSUME x \in DOMAIN a PROVE FALSE
      <4>1. a[x] \in {Delete(g) : g \in A}
        BY <1>1, <3>1 DEF Range
      <4>2. PICK g \in A : s[x] = Delete(g)
        BY <1>7, <3>1, <4>1
      <4> QED
        BY <1>3, <1>4, <4>2
    <3> QED
      BY <3>1
  <2>5. y \in 1 .. x - 1 /\ s[y] = Delete(f)
    BY <1>7, <2>3, <2>4
  <2> QED
    BY <1>3, <2>5 DEF SameId
<1> QED
  BY <1>0, <1>2, <1>5, <1>6, <1>8 DEF D
-----------------------------------------------------------------------------
(* The requests of the scripts. *)

LEMMA SpinesInTurn ==
  ASSUME NEW l \in SpineLists, NEW k \in Nat \ {0}
  PROVE  l[((k - 1) % Len(l)) + 1] \in Range(l) /\ Range(l) \subseteq Spines /\ l \in Seq(Spines)
<1>1. l \in Seq(Spines) /\ l # <<>>
  BY TopologyAssumption
<1> DEFINE n == Len(l)
           m == k - 1
<1>2. n \in Nat \ {0} /\ m \in Nat /\ DOMAIN l = 1 .. n
  BY <1>1
<1> HIDE DEF n, m
<1>3. m % n \in 0 .. n - 1
  BY <1>2
<1>4. (m % n) + 1 \in DOMAIN l
  BY <1>2, <1>3
<1>5. Range(l) \subseteq Spines
  BY <1>1 DEF Range
<1> QED
  BY <1>1, <1>4, <1>5 DEF n, m, Range

\* The requests of a distribution.
Distribution(order, l, mode) ==
  FlattenSeq([k \in DOMAIN order |-> InstallPath(order[k], l[((k - 1) % Len(l)) + 1], mode)])

LEMMA DistributedRoutes ==
  ASSUME Dumped(dcms), NEW mode, NEW l \in SpineLists, NEW order \in SetToSeqs(DOMAIN dcms), NEW s,
         s = Distribution(order, l, mode)
  PROVE  /\ s \in Routes
         /\ \A id \in DOMAIN dcms : \E spine \in Range(l) :
              /\ Asked(PathFlows(id, spine, mode)) \subseteq Range(s)
              /\ \A r \in Range(s) : r.flow.dcm = id => r \in Asked(PathFlows(id, spine, mode))
<1> DEFINE n == Cardinality(DOMAIN dcms)
           way(k) == l[((k - 1) % Len(l)) + 1]
           ss == [k \in DOMAIN order |-> InstallPath(order[k], way(k), mode)]
<1>1. IsFiniteSet(DOMAIN dcms)
  <2>1. Len(dcms) \in Nat /\ DOMAIN dcms = 1 .. Len(dcms)
    BY DEF Dumped
  <2> QED
    BY <2>1, FS_Interval
<1>2. /\ n \in Nat /\ order \in [1 .. n -> DOMAIN dcms] /\ DOMAIN order = 1 .. n
      /\ \A i, j \in 1 .. n : i # j => order[i] # order[j]
      /\ \A id \in DOMAIN dcms : \E i \in 1 .. n : order[i] = id
  BY <1>1, OrderCovers
<1> HIDE DEF n
<1>3. \A k \in 1 .. n : way(k) \in Range(l) /\ way(k) \in Spines
  <2> SUFFICES ASSUME NEW k \in 1 .. n PROVE way(k) \in Range(l) /\ way(k) \in Spines
    OBVIOUS
  <2>1. k \in Nat \ {0}
    BY <1>2
  <2> QED
    BY <2>1, SpinesInTurn
<1> HIDE DEF way
<1>4. \A k \in 1 .. n : /\ InstallPath(order[k], way(k), mode) \in Routes
                        /\ Range(InstallPath(order[k], way(k), mode)) = Asked(PathFlows(order[k], way(k), mode))
  <2> SUFFICES ASSUME NEW k \in 1 .. n
      PROVE  /\ InstallPath(order[k], way(k), mode) \in Routes
             /\ Range(InstallPath(order[k], way(k), mode)) = Asked(PathFlows(order[k], way(k), mode))
    OBVIOUS
  <2>1. order[k] \in DOMAIN dcms /\ way(k) \in Spines
    BY <1>2, <1>3
  <2> QED
    BY <2>1, Path
<1>5. ss \in [1 .. n -> Routes]
      /\ \A k \in 1 .. n : Range(ss[k]) = Asked(PathFlows(order[k], way(k), mode))
  BY <1>2, <1>4
<1>6. s = FlattenSeq(ss)
  BY DEF way, Distribution
<1> HIDE DEF ss
<1>7. s \in Routes /\ Range(s) = UNION {Range(ss[k]) : k \in 1 .. n}
  BY <1>2, <1>5, <1>6, RoutesFlatten
<1>8. \A k \in 1 .. n : \A r \in Asked(PathFlows(order[k], way(k), mode)) : r.flow.dcm = order[k]
  <2> SUFFICES ASSUME NEW k \in 1 .. n, NEW f \in PathFlows(order[k], way(k), mode) PROVE f.dcm = order[k]
    BY DEF Asked, Put
  <2> DEFINE id == order[k]
             spine == way(k)
  <2>1. PICK at, to, u : f \in Leg(id, at, to, u)
    BY LegOfPath
  <2> QED
    BY <2>1, LegFlow
<1>9. ASSUME NEW id \in DOMAIN dcms
      PROVE  \E spine \in Range(l) :
              /\ Asked(PathFlows(id, spine, mode)) \subseteq Range(s)
              /\ \A r \in Range(s) : r.flow.dcm = id => r \in Asked(PathFlows(id, spine, mode))
  <2>1. PICK k \in 1 .. n : order[k] = id
    BY <1>2
  <2>2. way(k) \in Range(l)
    BY <1>3
  <2>3. Asked(PathFlows(id, way(k), mode)) \subseteq Range(s)
    BY <1>5, <1>7, <2>1
  <2>4. ASSUME NEW r \in Range(s), r.flow.dcm = id PROVE r \in Asked(PathFlows(id, way(k), mode))
    <3>1. PICK j \in 1 .. n : r \in Asked(PathFlows(order[j], way(j), mode))
      BY <1>5, <1>7
    <3>2. order[j] = id
      BY <1>8, <2>4, <3>1
    <3>3. j = k
      BY <1>2, <2>1, <3>2
    <3> QED
      BY <2>1, <3>1, <3>3
  <2> QED
    BY <2>2, <2>3, <2>4
<1> QED
  BY <1>7, <1>9
-----------------------------------------------------------------------------
(* One request after another. *)

\* Before each way into a ring that is still to be asked for, a way out is there or asked for.
OutsFirst(s, S) ==
  \A x \in DOMAIN s : s[x].flow.to = Ring(s[x].flow.dcm) =>
    \/ \E g \in S : IsOutOf(g, s[x].flow)
    \/ \E y \in 1 .. x - 1 : IsOutOf(s[y].flow, s[x].flow)

LEMMA TailOf ==
  ASSUME NEW R, NEW s \in Seq(R), s # <<>>
  PROVE  /\ Head(s) \in R /\ Head(s) = s[1] /\ Tail(s) \in Seq(R)
         /\ Len(s) \in Nat \ {0} /\ DOMAIN s = 1 .. Len(s) /\ DOMAIN Tail(s) = 1 .. Len(s) - 1
         /\ \A x \in 1 .. Len(s) - 1 : Tail(s)[x] = s[x + 1] /\ x + 1 \in 1 .. Len(s)
         /\ \A x \in 2 .. Len(s) : x - 1 \in DOMAIN Tail(s) /\ Tail(s)[x - 1] = s[x]
         /\ 1 \in DOMAIN s
         /\ Range(s) = {Head(s)} \cup Range(Tail(s)) /\ Len(Tail(s)) = Len(s) - 1
<1>1. /\ Head(s) \in R /\ Head(s) = s[1] /\ Tail(s) \in Seq(R)
      /\ Len(s) \in Nat \ {0} /\ DOMAIN s = 1 .. Len(s) /\ DOMAIN Tail(s) = 1 .. Len(s) - 1
      /\ 1 \in DOMAIN s
  OBVIOUS
<1>2. \A x \in 1 .. Len(s) - 1 : Tail(s)[x] = s[x + 1] /\ x + 1 \in 1 .. Len(s)
  OBVIOUS
<1>3. \A x \in 2 .. Len(s) : x - 1 \in DOMAIN Tail(s) /\ Tail(s)[x - 1] = s[x]
  OBVIOUS
<1> DEFINE n == Len(s)
           t == Tail(s)
<1> HIDE DEF n, t
<1>4. \A x \in DOMAIN s : x = 1 \/ (x - 1 \in DOMAIN t /\ t[x - 1] = s[x])
  <2>1. \A x \in DOMAIN s : x = 1 \/ x \in 2 .. n
    BY <1>1 DEF n
  <2> QED
    BY <2>1, <1>3 DEF n, t
<1>5. \A x \in DOMAIN t : x + 1 \in DOMAIN s /\ t[x] = s[x + 1]
  BY <1>1, <1>2 DEF n, t
<1>6. Range(s) = {Head(s)} \cup Range(t)
  BY <1>1, <1>4, <1>5 DEF Range
<1>7. Len(Tail(s)) = Len(s) - 1
  OBVIOUS
<1> QED
  BY <1>1, <1>2, <1>3, <1>6, <1>7 DEF t

\* A ring has one way out, and no way into it is one.
LEMMA IntoRing ==
  ASSUME Dumped(dcms), NEW f, Sane(f), f.to = Ring(f.dcm)
  PROVE  f.k # 0
<1>1. f.dcm \in DOMAIN dcms /\ Home(f.dcm) \in Ends /\ Ring(f.dcm) \in Rings
  BY RingIsRing DEF Sane
<1>2. ASSUME OutFlow(f) PROVE FALSE
  <2>1. f.to \in Bridges
    BY <1>1, <1>2, TowardsTyped DEF OutFlow
  <2> QED
    BY <1>1, <2>1, BridgeNames
<1>3. InFlow(f)
  BY <1>2 DEF Sane
<1>4. Inflows[dcms[f.dcm]] \in Seq(Conns)
  BY <1>1, RingIsRing, DcmAssumption
<1>5. 0 \notin DOMAIN Inflows[dcms[f.dcm]]
  BY <1>4
<1> QED
  BY <1>3, <1>5 DEF InFlow

\* A flow asked for is put in place.
LEMMA PutKeepsClosed ==
  ASSUME Dumped(dcms), NEW S, Closed(S), NEW s \in Seq(Puts), s # <<>>, OutsFirst(s, S), Sane(Head(s).flow)
  PROVE  Closed(Applied(S, Head(s)))
<1> DEFINE r == Head(s)
           f == r.flow
<1>1. r \in Puts /\ r.op = "put" /\ r = s[1] /\ 1 \in DOMAIN s
  <2> DEFINE P == Puts
  <2>1. s \in Seq(P)
    OBVIOUS
  <2> HIDE DEF P
  <2>2. r \in P /\ r = s[1] /\ 1 \in DOMAIN s
    BY <2>1, TailOf
  <2> QED
    BY <2>2 DEF P, Puts
<1>a. Sane(f)
  OBVIOUS
<1> HIDE DEF r, f
<1>2. f = r.flow
  BY DEF f
<1> SUFFICES ASSUME NEW e \in Applied(S, r), e.to = Ring(e.dcm)
    PROVE  \E g \in Applied(S, r) : IsOutOf(g, e)
  BY DEF Closed, r
<1>3. CASE e = f
  <2>1. ~ \E y \in 1 .. 1 - 1 : TRUE
    OBVIOUS
  <2>2. PICK g \in S : IsOutOf(g, f)
    BY <1>1, <1>2, <1>3, <2>1 DEF OutsFirst
  <2>3. f.k # 0
    BY <1>3, <1>a, IntoRing
  <2>4. ~SameId(g, f)
    BY <2>2, <2>3 DEF SameId, IsOutOf
  <2>5. g \in Applied(S, r)
    BY <1>2, <2>4, AppliedHas
  <2> QED
    BY <1>3, <2>2, <2>5
<1>4. CASE e # f
  <2>1. e \in S
    BY <1>2, <1>4, AppliedHas
  <2>2. PICK g \in S : IsOutOf(g, e)
    BY <2>1 DEF Closed
  <2>3. CASE SameId(g, f)
    <3>1. IsOutOf(f, e)
      BY <2>2, <2>3 DEF SameId, IsOutOf
    <3>2. f \in Applied(S, r)
      BY <1>1, <1>2, AppliedHas
    <3> QED
      BY <3>1, <3>2
  <2>4. CASE ~SameId(g, f)
    <3>1. g \in Applied(S, r)
      BY <1>2, <2>4, AppliedHas
    <3> QED
      BY <2>2, <3>1
  <2> QED
    BY <2>3, <2>4
<1> QED
  BY <1>3, <1>4

LEMMA PutKeepsOutsFirst ==
  ASSUME NEW S, NEW s \in Seq(Puts), s # <<>>, OutsFirst(s, S)
  PROVE  OutsFirst(Tail(s), Applied(S, Head(s)))
<1> DEFINE r == Head(s)
           f == r.flow
           t == Tail(s)
<1>1. /\ r = s[1] /\ Len(s) \in Nat /\ DOMAIN s = 1 .. Len(s) /\ DOMAIN t = 1 .. Len(s) - 1
      /\ \A x \in 1 .. Len(s) - 1 : t[x] = s[x + 1] /\ x + 1 \in 1 .. Len(s)
      /\ \A x \in 2 .. Len(s) : x - 1 \in DOMAIN t /\ t[x - 1] = s[x]
      /\ r.op = "put"
  <2> DEFINE P == Puts
  <2>1. s \in Seq(P)
    OBVIOUS
  <2> HIDE DEF P
  <2>2. /\ r = s[1] /\ Len(s) \in Nat /\ DOMAIN s = 1 .. Len(s) /\ DOMAIN t = 1 .. Len(s) - 1
        /\ \A x \in 1 .. Len(s) - 1 : t[x] = s[x + 1] /\ x + 1 \in 1 .. Len(s)
        /\ \A x \in 2 .. Len(s) : x - 1 \in DOMAIN t /\ t[x - 1] = s[x]
        /\ r \in P
    BY <2>1, TailOf
  <2> QED
    BY <2>2 DEF P, Puts
<1> HIDE DEF r, t
<1> SUFFICES ASSUME NEW x \in DOMAIN t, t[x].flow.to = Ring(t[x].flow.dcm)
    PROVE  \/ \E g \in Applied(S, r) : IsOutOf(g, t[x].flow)
           \/ \E y \in 1 .. x - 1 : IsOutOf(t[y].flow, t[x].flow)
  BY DEF OutsFirst, r, t
<1> DEFINE e == t[x].flow
<1>2. x + 1 \in DOMAIN s /\ s[x + 1] = t[x] /\ x \in Nat /\ x <= Len(s) - 1
  BY <1>1
<1>3. (\E g \in S : IsOutOf(g, e)) \/ (\E y \in 1 .. x + 1 - 1 : IsOutOf(s[y].flow, e))
  <2> DEFINE z == x + 1
  <2>1. z \in DOMAIN s /\ s[z].flow = e /\ e.to = Ring(e.dcm)
    BY <1>2
  <2> HIDE DEF z, e
  <2>2. (\E g \in S : IsOutOf(g, e)) \/ (\E y \in 1 .. z - 1 : IsOutOf(s[y].flow, e))
    BY <2>1 DEF OutsFirst
  <2> QED
    BY <2>2 DEF z
<1> HIDE DEF e
<1>4. f \in Applied(S, r)
  BY <1>1, AppliedHas
<1>5. ASSUME NEW g \in S, IsOutOf(g, e) PROVE \E h \in Applied(S, r) : IsOutOf(h, e)
  <2>1. CASE SameId(g, f)
    <3>1. IsOutOf(f, e)
      BY <1>5, <2>1 DEF SameId, IsOutOf
    <3> QED
      BY <1>4, <3>1
  <2>2. CASE ~SameId(g, f)
    <3>1. g \in Applied(S, r)
      BY <2>2, AppliedHas
    <3> QED
      BY <1>5, <3>1
  <2> QED
    BY <2>1, <2>2
<1>6. ASSUME NEW y \in 1 .. x, IsOutOf(s[y].flow, e)
      PROVE  \/ \E g \in Applied(S, r) : IsOutOf(g, e)
             \/ \E z \in 1 .. x - 1 : IsOutOf(t[z].flow, e)
  <2>1. CASE y = 1
    BY <1>1, <1>4, <1>6, <2>1
  <2>2. CASE y # 1
    <3>1. y \in 2 .. Len(s) /\ y - 1 \in 1 .. x - 1
      BY <1>2, <2>2
    <3>2. t[y - 1] = s[y]
      BY <1>1, <3>1
    <3> QED
      BY <1>6, <3>1, <3>2
  <2> QED
    BY <2>1, <2>2
<1>7. x + 1 - 1 = x
  BY <1>2
<1>8. \/ \E g \in Applied(S, r) : IsOutOf(g, e)
      \/ \E y \in 1 .. x - 1 : IsOutOf(t[y].flow, e)
  BY <1>3, <1>5, <1>6, <1>7
<1> QED
  BY <1>8 DEF e

\* A way out is deleted when there is no way in any more.
LEMMA DeleteKeepsClosed ==
  ASSUME Dumped(dcms), NEW S, Closed(S), \A f \in S : Sane(f), NEW s, 1 \in DOMAIN s,
         s[1].op = "delete", InflowsFirst(s, S)
  PROVE  Closed(Applied(S, s[1]))
<1> DEFINE r == s[1]
           f == r.flow
<1>1. \A e : e \in Applied(S, r) <=> e \in S /\ ~SameId(e, f)
  BY AppliedHas
<1> HIDE DEF r, f
<1> SUFFICES ASSUME NEW e \in Applied(S, r), e.to = Ring(e.dcm)
    PROVE  \E g \in Applied(S, r) : IsOutOf(g, e)
  BY DEF Closed, r
<1>2. e \in S /\ e.k # 0
  BY <1>1, IntoRing
<1>3. PICK g \in S : IsOutOf(g, e)
  BY <1>2 DEF Closed
<1>4. ~SameId(g, f)
  <2>1. ASSUME SameId(g, f) PROVE FALSE
    <3>1. f.k = 0 /\ e.node = f.node /\ e.dcm = f.dcm
      BY <1>3, <2>1 DEF SameId, IsOutOf
    <3>2. \E y \in 1 .. 1 - 1 : s[y].op = "delete" /\ SameId(s[y].flow, e)
      BY <1>2, <3>1 DEF InflowsFirst, f, r
    <3> QED
      BY <3>2
  <2> QED
    BY <2>1
<1> QED
  BY <1>1, <1>3, <1>4

LEMMA DeleteKeepsInflowsFirst ==
  ASSUME NEW S, NEW R, NEW s \in Seq(R), s # <<>>, InflowsFirst(s, S), Head(s).op = "delete"
  PROVE  InflowsFirst(Tail(s), Applied(S, Head(s)))
<1> DEFINE r == Head(s)
           f == r.flow
           t == Tail(s)
<1>1. /\ r = s[1] /\ Len(s) \in Nat /\ DOMAIN s = 1 .. Len(s) /\ DOMAIN t = 1 .. Len(s) - 1
      /\ \A x \in 1 .. Len(s) - 1 : t[x] = s[x + 1] /\ x + 1 \in 1 .. Len(s)
      /\ \A x \in 2 .. Len(s) : x - 1 \in DOMAIN t /\ t[x - 1] = s[x]
      /\ r.op = "delete"
  BY TailOf
<1> HIDE DEF r, t
<1> SUFFICES ASSUME NEW x \in DOMAIN t, t[x].op = "delete", t[x].flow.k = 0,
                    NEW e \in Applied(S, r), e.node = t[x].flow.node, e.dcm = t[x].flow.dcm, e.k # 0
    PROVE  \E y \in 1 .. x - 1 : t[y].op = "delete" /\ SameId(t[y].flow, e)
  BY DEF InflowsFirst, r, t
<1>2. x + 1 \in DOMAIN s /\ s[x + 1] = t[x] /\ x \in Nat /\ x <= Len(s) - 1 /\ x + 1 - 1 = x
  BY <1>1
<1>3. e \in S /\ ~SameId(e, f)
  BY <1>1, AppliedHas
<1>4. PICK y \in 1 .. x : s[y].op = "delete" /\ SameId(s[y].flow, e)
  <2> DEFINE z == x + 1
  <2>1. z \in DOMAIN s /\ s[z] = t[x] /\ z - 1 = x
    BY <1>2
  <2> HIDE DEF z
  <2>2. \E y \in 1 .. z - 1 : s[y].op = "delete" /\ SameId(s[y].flow, e)
    BY <1>3, <2>1 DEF InflowsFirst
  <2> QED
    BY <2>1, <2>2
<1>5. y # 1
  BY <1>1, <1>3, <1>4 DEF SameId
<1>6. y \in 2 .. Len(s) /\ y - 1 \in 1 .. x - 1
  BY <1>2, <1>5
<1>7. t[y - 1] = s[y]
  BY <1>1, <1>6
<1> QED
  BY <1>4, <1>6, <1>7

\* The flows of an id on a bridge take the place of the request to look for them.
LEMMA GetKeepsInflowsFirst ==
  ASSUME NEW S, NEW R, NEW s \in Seq(R), s # <<>>, InflowsFirst(s, S), Head(s).op # "delete",
         NEW d \in Seq(R), InflowsFirst(d, S)
  PROVE  InflowsFirst(d \o Tail(s), S)
<1> DEFINE t == Tail(s)
           u == d \o t
           m == Len(d)
<1>1. /\ Len(s) \in Nat /\ DOMAIN s = 1 .. Len(s) /\ DOMAIN t = 1 .. Len(s) - 1
      /\ \A x \in 1 .. Len(s) - 1 : t[x] = s[x + 1] /\ x + 1 \in 1 .. Len(s)
      /\ \A x \in 2 .. Len(s) : x - 1 \in DOMAIN t /\ t[x - 1] = s[x]
      /\ s[1].op # "delete" /\ t \in Seq(R) /\ Len(t) = Len(s) - 1
  BY TailOf
<1> HIDE DEF t
<1>a. d \in Seq(R) /\ t \in Seq(R) /\ Len(t) = Len(s) - 1
  BY <1>1
<1>2. /\ m \in Nat /\ DOMAIN d = 1 .. m /\ DOMAIN u = 1 .. m + (Len(s) - 1) /\ Len(t) = Len(s) - 1
      /\ \A x \in 1 .. m : u[x] = d[x]
      /\ \A x \in 1 .. Len(s) - 1 : u[m + x] = t[x]
  <2>1. m \in Nat /\ DOMAIN d = 1 .. m /\ Len(u) = m + Len(t) /\ DOMAIN u = 1 .. m + Len(t)
    BY <1>a
  <2>2. \A x \in 1 .. m : u[x] = d[x]
    BY <1>a
  <2>3. \A x \in 1 .. Len(t) : u[m + x] = t[x]
    BY <1>a
  <2> HIDE DEF u, m
  <2> QED
    BY <1>a, <2>1, <2>2, <2>3
<1> HIDE DEF u, m
<1> SUFFICES ASSUME NEW x \in DOMAIN u, u[x].op = "delete", u[x].flow.k = 0,
                    NEW e \in S, e.node = u[x].flow.node, e.dcm = u[x].flow.dcm, e.k # 0
    PROVE  \E y \in 1 .. x - 1 : u[y].op = "delete" /\ SameId(u[y].flow, e)
  BY DEF InflowsFirst, u, t
<1>3. CASE x <= m
  <2>1. x \in DOMAIN d /\ u[x] = d[x]
    BY <1>2, <1>3
  <2>2. PICK y \in 1 .. x - 1 : d[y].op = "delete" /\ SameId(d[y].flow, e)
    BY <2>1 DEF InflowsFirst
  <2>3. u[y] = d[y]
    BY <1>2, <1>3
  <2> QED
    BY <2>2, <2>3
<1>4. CASE x > m
  <2> DEFINE z == x - m + 1
  <2>1. z \in DOMAIN s /\ z - 1 \in 1 .. Len(s) - 1 /\ m + (z - 1) = x
    BY <1>1, <1>2, <1>4
  <2>2. u[m + (z - 1)] = t[z - 1] /\ t[z - 1] = s[z]
    <3>1. z \in 2 .. Len(s)
      BY <1>1, <2>1
    <3> QED
      BY <1>1, <1>2, <2>1, <3>1
  <2>3. u[x] = s[z]
    BY <2>1, <2>2
  <2> HIDE DEF z
  <2>4. PICK y \in 1 .. z - 1 : s[y].op = "delete" /\ SameId(s[y].flow, e)
    BY <2>1, <2>3 DEF InflowsFirst
  <2>5. y # 1
    BY <1>1, <2>4
  <2>6. y \in 2 .. Len(s) /\ y - 1 \in 1 .. Len(s) - 1 /\ m + (y - 1) \in 1 .. x - 1
    BY <1>1, <1>2, <2>1, <2>5
  <2>7. u[m + (y - 1)] = s[y]
    BY <1>1, <1>2, <2>6
  <2> QED
    BY <2>4, <2>6, <2>7
<1> QED
  BY <1>2, <1>3, <1>4
-----------------------------------------------------------------------------
(* What requests on their way make of the bridges' flows. *)

\* Flows S become flows T, one request after another; if c, with ways out of all rings.
Happens(h, q, S, T, c) ==
  /\ h[0] = S /\ h[Len(q)] = T
  /\ \A i \in 1 .. Len(q) : h[i] = Applied(h[i - 1], q[i])
  /\ c => \A i \in 0 .. Len(q) : Closed(h[i])
Becomes(q, S, T, c) == \E h : Happens(h, q, S, T, c)

LEMMA NothingHappens ==
  ASSUME NEW S, NEW T, NEW c, Becomes(<<>>, S, T, c)
  PROVE  S = T
BY DEF Becomes, Happens

LEMMA ClosedNow ==
  ASSUME NEW q \in Seq(Changes), NEW S, NEW T, NEW c, Becomes(q, S, T, c), c
  PROVE  Closed(S) /\ Closed(T)
<1>1. PICK h : Happens(h, q, S, T, c)
  BY DEF Becomes
<1>2. 0 \in 0 .. Len(q) /\ Len(q) \in 0 .. Len(q)
  BY LenProperties
<1> QED
  BY <1>1, <1>2 DEF Happens

\* One more request at the controller.
LEMMA OneMoreHappens ==
  ASSUME NEW q \in Seq(Changes), NEW S, NEW T, NEW c, Becomes(q, S, T, c), NEW r \in Changes,
         c => Closed(Applied(T, r))
  PROVE  Becomes(Append(q, r), S, Applied(T, r), c)
<1>1. PICK h : Happens(h, q, S, T, c)
  BY DEF Becomes
<1> DEFINE C == Changes
           n == Len(q)
           qr == Append(q, r)
           g == [i \in 0 .. n + 1 |-> IF i = n + 1 THEN Applied(T, r) ELSE h[i]]
<1>2. n \in Nat /\ Len(qr) = n + 1 /\ qr[n + 1] = r /\ \A i \in 1 .. n : qr[i] = q[i]
  <2>1. q \in Seq(C) /\ r \in C
    OBVIOUS
  <2> HIDE DEF C
  <2> QED
    BY <2>1, AppendProperties
<1>3. g[n + 1] = Applied(T, r) /\ \A i \in 0 .. n : g[i] = h[i]
  BY <1>2
<1> HIDE DEF g, qr
<1>4. h[0] = S /\ h[n] = T /\ (\A i \in 1 .. n : h[i] = Applied(h[i - 1], q[i]))
      /\ (c => \A i \in 0 .. n : Closed(h[i]))
  BY <1>1 DEF Happens
<1> HIDE DEF n
<1>5. g[0] = S /\ g[Len(qr)] = Applied(T, r)
  BY <1>2, <1>3, <1>4
<1>6. ASSUME NEW i \in 1 .. Len(qr) PROVE g[i] = Applied(g[i - 1], qr[i])
  <2>1. CASE i = n + 1
    <3>1. i - 1 = n /\ n \in 0 .. n
      BY <1>2, <2>1
    <3> QED
      BY <1>2, <1>3, <1>4, <2>1, <3>1
  <2>2. CASE i # n + 1
    <3>1. i \in 1 .. n /\ i \in 0 .. n /\ i - 1 \in 0 .. n
      BY <1>2, <2>2
    <3> QED
      BY <1>2, <1>3, <1>4, <3>1
  <2> QED
    BY <2>1, <2>2
<1>7. ASSUME c, NEW i \in 0 .. Len(qr) PROVE Closed(g[i])
  <2>1. CASE i = n + 1
    BY <1>3, <1>7, <2>1
  <2>2. CASE i # n + 1
    <3>1. i \in 0 .. n
      BY <1>2, <2>2
    <3> QED
      BY <1>3, <1>4, <1>7, <3>1
  <2> QED
    BY <2>1, <2>2
<1>8. Happens(g, qr, S, Applied(T, r), c)
  BY <1>5, <1>6, <1>7 DEF Happens
<1> QED
  BY <1>8 DEF Becomes, qr

LEMMA RemovedAt ==
  ASSUME NEW R, NEW q \in Seq(R), NEW x \in DOMAIN q
  PROVE  /\ RemoveAt(q, x) \in Seq(R) /\ Len(RemoveAt(q, x)) = Len(q) - 1
         /\ \A i \in 1 .. x - 1 : RemoveAt(q, x)[i] = q[i]
         /\ \A i \in x .. Len(q) - 1 : RemoveAt(q, x)[i] = q[i + 1]
<1> DEFINE a == SubSeq(q, 1, x - 1)
           b == SubSeq(q, x + 1, Len(q))
           n == Len(q)
<1>1. n \in Nat /\ x \in 1 .. n
  OBVIOUS
<1>2. a \in Seq(R) /\ Len(a) = x - 1 /\ \A i \in 1 .. x - 1 : a[i] = q[i]
  OBVIOUS
<1>3. b \in Seq(R) /\ Len(b) = n - x /\ \A i \in 1 .. n - x : b[i] = q[x + i]
  <2>1. \A i \in x + 1 .. n : q[i] \in R
    OBVIOUS
  <2>2. b \in Seq(R)
    BY <1>1, <2>1, SubSeqProperties
  <2>3. Len(b) = n - x
    BY <1>1, SubSeqProperties
  <2>4. \A i \in 1 .. n - x : b[i] = q[x + i]
    OBVIOUS
  <2> QED
    BY <2>2, <2>3, <2>4
<1> HIDE DEF a, b
<1> DEFINE s == a \o b
<1>4. s \in Seq(R) /\ Len(s) = Len(a) + Len(b)
  <2>1. a \in Seq(R) /\ b \in Seq(R)
    BY <1>2, <1>3
  <2> QED
    BY <2>1, ConcatProperties
<1>5. \A i \in 1 .. Len(a) : s[i] = a[i]
  BY <1>2, <1>3
<1>6. \A i \in 1 .. Len(b) : s[Len(a) + i] = b[i]
  BY <1>2, <1>3
<1> HIDE DEF s, n
<1>7. Len(s) = n - 1
  BY <1>1, <1>2, <1>3, <1>4
<1>8. \A i \in 1 .. x - 1 : s[i] = q[i]
  BY <1>2, <1>5
<1>9. ASSUME NEW i \in x .. n - 1 PROVE s[i] = q[i + 1]
  <2> DEFINE j == i - (x - 1)
  <2>1. j \in 1 .. n - x /\ x - 1 + j = i /\ x + j = i + 1
    BY <1>1
  <2> HIDE DEF j
  <2>2. s[x - 1 + j] = b[j] /\ b[j] = q[x + j]
    BY <1>2, <1>3, <1>6, <2>1
  <2> QED
    BY <2>1, <2>2
<1>10. RemoveAt(q, x) = s
  BY DEF RemoveAt, s, a, b
<1> QED
  BY <1>4, <1>7, <1>8, <1>9, <1>10 DEF n

\* The oldest request of a bridge reaches it.
LEMMA OneLessHappens ==
  ASSUME NEW q \in Seq(Changes), NEW S, NEW T, NEW c, Becomes(q, S, T, c), NEW x \in DOMAIN q,
         \A y \in 1 .. x - 1 : q[y].flow.node # q[x].flow.node
  PROVE  Becomes(RemoveAt(q, x), Applied(S, q[x]), T, c)
<1>1. PICK h : Happens(h, q, S, T, c)
  BY DEF Becomes
<1> DEFINE n == Len(q)
           r == q[x]
           p == RemoveAt(q, x)
           here == r.flow.node
           g == [i \in 0 .. n - 1 |-> IF i < x THEN Applied(h[i], r) ELSE h[i + 1]]
<1>2. n \in Nat /\ x \in 1 .. n /\ x \in Nat /\ \A i \in 1 .. n : q[i] \in Changes
  <2> DEFINE C == Changes
  <2>1. q \in Seq(C)
    OBVIOUS
  <2> HIDE DEF C
  <2>2. n \in Nat /\ x \in 1 .. n /\ \A i \in 1 .. n : q[i] \in C
    BY <2>1
  <2> QED
    BY <2>2 DEF C
<1>3. /\ Len(p) = n - 1
      /\ \A i \in 1 .. x - 1 : p[i] = q[i]
      /\ \A i \in x .. n - 1 : p[i] = q[i + 1]
  BY RemovedAt
<1>4. /\ \A i \in 0 .. x - 1 : g[i] = Applied(h[i], r)
      /\ \A i \in x .. n - 1 : g[i] = h[i + 1]
  BY <1>2
<1>5. h[0] = S /\ h[n] = T /\ (\A i \in 1 .. n : h[i] = Applied(h[i - 1], q[i]))
      /\ (c => \A i \in 0 .. n : Closed(h[i]))
  BY <1>1 DEF Happens
<1>6. \A y \in 1 .. x - 1 : q[y].flow.node # here
  OBVIOUS
<1> HIDE DEF g, p, n, r, here
<1>r. r = q[x] /\ here = r.flow.node /\ r \in Changes
  BY <1>2 DEF r, here
<1>a. h[x] = Applied(h[x - 1], r) /\ x - 1 \in 0 .. x - 1
  BY <1>2, <1>5, <1>r
<1>7. g[0] = Applied(S, r)
  BY <1>2, <1>4, <1>5
<1>8. g[n - 1] = T
  <2>1. CASE x = n
    BY <1>2, <1>4, <1>5, <1>a, <2>1
  <2>2. CASE x # n
    BY <1>2, <1>4, <1>5, <2>2
  <2> QED
    BY <2>1, <2>2
<1>9. ASSUME NEW i \in 1 .. n - 1 PROVE g[i] = Applied(g[i - 1], p[i])
  <2>1. CASE i < x
    <3>1. i \in 0 .. x - 1 /\ i - 1 \in 0 .. x - 1 /\ i \in 1 .. n /\ i \in 1 .. x - 1
      BY <1>2, <2>1
    <3>2. g[i] = Applied(h[i], r) /\ g[i - 1] = Applied(h[i - 1], r) /\ p[i] = q[i]
          /\ h[i] = Applied(h[i - 1], q[i])
      BY <1>3, <1>4, <1>5, <3>1
    <3>3. q[i] \in Changes /\ q[i].flow.node # r.flow.node
      BY <1>2, <1>6, <1>r, <3>1
    <3>4. Applied(Applied(h[i - 1], q[i]), r) = Applied(Applied(h[i - 1], r), q[i])
      BY <1>r, <3>3, AppliedCommutes
    <3> QED
      BY <3>2, <3>4
  <2>2. CASE i = x
    <3>1. i \in x .. n - 1 /\ i - 1 = x - 1 /\ i + 1 \in 1 .. n /\ i + 1 - 1 = x
      BY <1>2, <2>2
    <3>2. g[i] = h[i + 1] /\ g[i - 1] = h[x] /\ p[i] = q[i + 1]
      BY <1>3, <1>4, <1>a, <3>1
    <3>3. h[i + 1] = Applied(h[x], q[i + 1])
      <4> DEFINE j == i + 1
      <4>1. j \in 1 .. n /\ j - 1 = x
        BY <3>1
      <4> HIDE DEF j
      <4>2. h[j] = Applied(h[j - 1], q[j])
        BY <1>5, <4>1
      <4> QED
        BY <4>1, <4>2 DEF j
    <3> QED
      BY <3>2, <3>3
  <2>3. CASE i > x
    <3>1. i \in x .. n - 1 /\ i - 1 \in x .. n - 1 /\ i - 1 + 1 = i
      BY <1>2, <2>3
    <3>2. g[i] = h[i + 1] /\ g[i - 1] = h[i] /\ p[i] = q[i + 1]
      BY <1>3, <1>4, <3>1
    <3>3. h[i + 1] = Applied(h[i], q[i + 1])
      <4> DEFINE j == i + 1
      <4>1. j \in 1 .. n /\ j - 1 = i
        BY <1>2
      <4> HIDE DEF j
      <4>2. h[j] = Applied(h[j - 1], q[j])
        BY <1>5, <4>1
      <4> QED
        BY <4>1, <4>2 DEF j
    <3> QED
      BY <3>2, <3>3
  <2> QED
    BY <1>2, <2>1, <2>2, <2>3
\* Before it, the flows of its bridge are the same all along.
<1> DEFINE Same(i) == \A f : f.node = here => (f \in h[i] <=> f \in h[0])
           U == {i \in 0 .. x - 1 : Same(i)}
<1>10. 0 .. x - 1 \subseteq U
  <2>1. 0 \in U
    BY <1>2
  <2>2. ASSUME NEW i \in 0 .. x - 1 - 1, i \in U PROVE i + 1 \in U
    <3>1. i + 1 \in 0 .. x - 1 /\ i + 1 \in 1 .. x - 1 /\ i + 1 \in 1 .. n /\ i + 1 - 1 = i
      BY <1>2
    <3>2. h[i + 1] = Applied(h[i], q[i + 1]) /\ q[i + 1].flow.node # here
      <4> DEFINE j == i + 1
      <4>1. j \in 1 .. n /\ j - 1 = i /\ j \in 1 .. x - 1
        BY <3>1
      <4> HIDE DEF j
      <4>2. h[j] = Applied(h[j - 1], q[j]) /\ q[j].flow.node # here
        BY <1>5, <1>6, <4>1
      <4> QED
        BY <4>1, <4>2 DEF j
    <3>3. Same(i + 1)
      BY <2>2, <3>2, AppliedElsewhere
    <3> QED
      BY <3>1, <3>3
  <2>3. 0 \in Int /\ x - 1 \in Int
    BY <1>2
  <2> HIDE DEF U
  <2> QED
    BY <2>1, <2>2, <2>3, RangeInduction
<1>11. ASSUME c, NEW i \in 0 .. n - 1 PROVE Closed(g[i])
  <2>1. CASE i < x
    <3>1. i \in 0 .. x - 1 /\ i \in 0 .. n /\ x \in 0 .. n
      BY <1>2, <2>1
    <3>2. g[i] = Applied(h[i], r) /\ Closed(h[i]) /\ Closed(h[x])
      BY <1>4, <1>5, <1>11, <3>1
    <3>3. Same(i) /\ Same(x - 1)
      BY <1>10, <1>a, <3>1
    <3>4. \A f : f.node = here => (f \in g[i] <=> f \in h[x])
      <4>1. \A f : f.node = here => (f \in h[i] <=> f \in h[x - 1])
        BY <3>3
      <4> QED
        BY <1>a, <3>2, <4>1, AppliedHas
    <3>5. \A f : f.node # here => (f \in g[i] <=> f \in h[i])
      BY <1>r, <3>2, AppliedElsewhere
    <3> SUFFICES ASSUME NEW f \in g[i], f.to = Ring(f.dcm) PROVE \E o \in g[i] : IsOutOf(o, f)
      BY DEF Closed
    <3>6. CASE f.node = here
      <4>1. PICK o \in h[x] : IsOutOf(o, f)
        BY <3>2, <3>4, <3>6 DEF Closed
      <4>2. o.node = here
        BY <3>6, <4>1 DEF IsOutOf
      <4> QED
        BY <3>4, <4>1, <4>2
    <3>7. CASE f.node # here
      <4>1. PICK o \in h[i] : IsOutOf(o, f)
        BY <3>2, <3>5, <3>7 DEF Closed
      <4>2. o.node # here
        BY <3>7, <4>1 DEF IsOutOf
      <4> QED
        BY <3>5, <4>1, <4>2
    <3> QED
      BY <3>6, <3>7
  <2>2. CASE ~(i < x)
    <3>1. i \in x .. n - 1 /\ i + 1 \in 0 .. n
      BY <1>2, <2>2
    <3> QED
      BY <1>4, <1>5, <1>11, <3>1
  <2> QED
    BY <2>1, <2>2
<1>12. Happens(g, p, Applied(S, r), T, c)
  BY <1>3, <1>7, <1>8, <1>9, <1>11 DEF Happens
<1> QED
  BY <1>12 DEF Becomes, p, r
-----------------------------------------------------------------------------
(* The flows of a path, one of each id. *)

LEMMA LegHas ==
  ASSUME NEW id, NEW at, NEW to, NEW u \in BOOLEAN, NEW f
  PROVE  f \in Leg(id, at, to, u) <=>
           \/ u /\ f = LegOut(id, at, to)
           \/ \E k \in DOMAIN Inflows[dcms[id]] : f = LegIn(id, at, IF u THEN Ring(id) ELSE to, k)
<1> DEFINE t == IF u THEN Ring(id) ELSE to
<1>1. Leg(id, at, to, u) =
        (IF u THEN {LegOut(id, at, to)} ELSE {}) \cup {LegIn(id, at, t, k) : k \in DOMAIN Inflows[dcms[id]]}
  BY DEF Leg
<1> HIDE DEF t
<1>2. f \in Leg(id, at, to, u) <=>
        (u /\ f = LegOut(id, at, to)) \/ \E k \in DOMAIN Inflows[dcms[id]] : f = LegIn(id, at, t, k)
  BY <1>1
<1> QED
  BY <1>2 DEF t

\* A bridge of a path has one place on it.
LEMMA PathLegOnce ==
  ASSUME NEW id, Home(id) \in Ends, NEW spine \in Spines, NEW mode, NEW at,
         NEW to, NEW u, PathLeg(id, spine, mode, at, to, u),
         NEW t, NEW v, PathLeg(id, spine, mode, at, t, v)
  PROVE  to = t /\ u = v
<1> DEFINE home == Home(id)
           x == spine[2]
           p == PodOf[home]
           A(a, b, c) == a = Leaf(x, p) /\ b = home /\ c = (mode # "none")
           B(a, b, c) == a = spine /\ b = Leaf(x, p) /\ c = (mode = "all")
           C(a, b, c) == \E i \in Pods \ {p} : a = Leaf(x, i) /\ b = spine /\ c = (mode = "all")
           D(a, b, c) == a \in Ends \ {home} /\ b = Leaf(x, PodOf[a]) /\ c = FALSE
<1>1. \A a, b, c : PathLeg(id, spine, mode, a, b, c) => A(a, b, c) \/ B(a, b, c) \/ C(a, b, c) \/ D(a, b, c)
  BY Zenon DEF PathLeg
<1>2. \A a, b, c : A(a, b, c) => a[1] = "pod" /\ a[3] = p
  BY Names
<1>3. \A a, b, c : B(a, b, c) => a[1] = "spine"
  BY Names
<1>4. \A a, b, c : C(a, b, c) => a[1] = "pod" /\ a[3] # p
  BY Names
<1>5. \A a, b, c : D(a, b, c) => a[1] = "end"
  BY Names
<1>6. A(at, to, u) \/ B(at, to, u) \/ C(at, to, u) \/ D(at, to, u)
  BY <1>1
<1>7. A(at, t, v) \/ B(at, t, v) \/ C(at, t, v) \/ D(at, t, v)
  BY <1>1
<1>8. \A a, b, c, d, e : A(a, b, c) /\ A(a, d, e) => b = d /\ c = e
  OBVIOUS
<1>9. \A a, b, c, d, e : B(a, b, c) /\ B(a, d, e) => b = d /\ c = e
  OBVIOUS
<1>10. \A a, b, c, d, e : C(a, b, c) /\ C(a, d, e) => b = d /\ c = e
  OBVIOUS
<1>11. \A a, b, c, d, e : D(a, b, c) /\ D(a, d, e) => b = d /\ c = e
  OBVIOUS
<1> HIDE DEF A, B, C, D
<1>12. CASE A(at, to, u)
  BY <1>2, <1>3, <1>4, <1>5, <1>7, <1>8, <1>12
<1>13. CASE B(at, to, u)
  BY <1>2, <1>3, <1>4, <1>5, <1>7, <1>9, <1>13
<1>14. CASE C(at, to, u)
  BY <1>2, <1>3, <1>4, <1>5, <1>7, <1>10, <1>14
<1>15. CASE D(at, to, u)
  BY <1>2, <1>3, <1>4, <1>5, <1>7, <1>11, <1>15
<1> QED
  BY <1>6, <1>12, <1>13, <1>14, <1>15

\* What a path has at a bridge are flows of the path.
LEMMA PathHasLeg ==
  ASSUME NEW id, Home(id) \in Ends, NEW spine \in Spines, NEW mode, NEW at,
         NEW to, NEW u, PathLeg(id, spine, mode, at, to, u)
  PROVE  Leg(id, at, to, u) \subseteq PathFlows(id, spine, mode)
<1> DEFINE home == Home(id)
           x == spine[2]
           p == PodOf[home]
           F == PathFlows(id, spine, mode)
           P(i) == PodFlows(id, spine, mode, i)
           L(e) == Leg(id, e, Leaf(x, PodOf[e]), FALSE)
<1>1. \A i \in Pods : P(i) \subseteq F
  BY DEF PathFlows
<1>2. CASE at = Leaf(x, p) /\ to = home /\ u = (mode # "none")
  BY <1>2 DEF PathFlows
<1>3. CASE at = spine /\ to = Leaf(x, p) /\ u = (mode = "all")
  BY <1>3 DEF PathFlows
<1>4. ASSUME NEW i \in Pods \ {p}, at = Leaf(x, i) /\ to = spine /\ u = (mode = "all")
      PROVE  Leg(id, at, to, u) \subseteq F
  <2>1. Leg(id, at, to, u) \subseteq P(i)
    BY <1>4 DEF PodFlows
  <2> QED
    BY <1>1, <2>1
<1>5. CASE at \in Ends \ {home} /\ to = Leaf(x, PodOf[at]) /\ u = FALSE
  <2>1. PodOf[at] \in Pods
    BY <1>5, Names
  <2> DEFINE j == PodOf[at]
             M(e) == Leg(id, e, Leaf(x, j), FALSE)
  <2>2. P(j) = (IF j = p THEN {} ELSE Leg(id, Leaf(x, j), spine, mode = "all")) \cup
               UNION {M(e) : e \in {d \in Ends : PodOf[d] = j /\ d # home}}
    BY DEF PodFlows
  <2>3. at \in {d \in Ends : PodOf[d] = j /\ d # home}
    BY <1>5
  <2>4. M(at) = Leg(id, at, to, u)
    BY <1>5
  <2> HIDE DEF M, P, j
  <2>5. M(at) \subseteq P(j)
    BY <2>2, <2>3
  <2> QED
    BY <1>1, <2>1, <2>4, <2>5 DEF j
<1>6. \/ at = Leaf(x, p) /\ to = home /\ u = (mode # "none")
      \/ at = spine /\ to = Leaf(x, p) /\ u = (mode = "all")
      \/ \E i \in Pods \ {p} : at = Leaf(x, i) /\ to = spine /\ u = (mode = "all")
      \/ at \in Ends \ {home} /\ to = Leaf(x, PodOf[at]) /\ u = FALSE
  BY Zenon DEF PathLeg
<1> HIDE DEF F, home, x, p, P, L
<1> QED
  BY <1>2, <1>3, <1>4, <1>5, <1>6 DEF F

LEMMA PathLegTyped ==
  ASSUME NEW id, NEW spine, NEW mode, NEW at, NEW to, NEW u, PathLeg(id, spine, mode, at, to, u)
  PROVE  u \in BOOLEAN
BY DEF PathLeg

LEMMA PathFlowsOneEach ==
  ASSUME Dumped(dcms), NEW id \in DOMAIN dcms, NEW spine \in Spines, NEW mode
  PROVE  OneEach(PathFlows(id, spine, mode)) /\ \A f \in PathFlows(id, spine, mode) : f.dcm = id
<1>1. Home(id) \in Ends /\ dcms[id] \in Procs
  BY RingIsRing
<1>2. \A f \in PathFlows(id, spine, mode) : f.dcm = id
  BY LegOfPath, LegFlow
<1>3. ASSUME NEW f \in PathFlows(id, spine, mode), NEW g \in PathFlows(id, spine, mode), SameId(f, g)
      PROVE  f = g
  <2>1. PICK at, to, u : PathLeg(id, spine, mode, at, to, u) /\ f \in Leg(id, at, to, u)
    BY LegOfPath
  <2>2. PICK a, t, v : PathLeg(id, spine, mode, a, t, v) /\ g \in Leg(id, a, t, v)
    BY LegOfPath
  <2>3. f.node = at /\ g.node = a
    BY <2>1, <2>2, LegFlow
  <2>4. a = at
    BY <1>3, <2>3 DEF SameId
  <2>5. PathLeg(id, spine, mode, at, t, v)
    BY <2>2, <2>4
  <2>6. to = t /\ u = v
    BY <1>1, <2>1, <2>5, PathLegOnce
  <2>7. u \in BOOLEAN
    BY <2>1, PathLegTyped
  <2>8. f \in Leg(id, at, to, u) /\ g \in Leg(id, at, to, u)
    BY <2>1, <2>2, <2>4, <2>6
  <2> DEFINE w == IF u THEN Ring(id) ELSE to
  <2>9. (u /\ f = LegOut(id, at, to)) \/ \E k \in DOMAIN Inflows[dcms[id]] : f = LegIn(id, at, w, k)
    BY <2>7, <2>8, LegHas
  <2>10. (u /\ g = LegOut(id, at, to)) \/ \E k \in DOMAIN Inflows[dcms[id]] : g = LegIn(id, at, w, k)
    BY <2>7, <2>8, LegHas
  <2>11. \A k \in DOMAIN Inflows[dcms[id]] : k # 0
    <3>1. Inflows[dcms[id]] \in Seq(Conns)
      BY <1>1, DcmAssumption
    <3> QED
      BY <3>1
  <2>12. f.k = g.k
    BY <1>3 DEF SameId
  <2> HIDE DEF w
  <2> QED
    BY <2>9, <2>10, <2>11, <2>12, LegFields
<1> QED
  BY <1>2, <1>3 DEF OneEach
-----------------------------------------------------------------------------
(* The requests of a distribution, and the flows it has put in place. *)

\* Each flow of the path of an id is there or is still asked for, and no other of the id is.
PathAsked(F, id, s, S) ==
  /\ \A f \in F : f \in S \/ Put(f) \in Range(s)
  /\ \A r \in Range(s) : r.flow.dcm = id => r.flow \in F
IsPath(F, id) == OneEach(F) /\ \A f \in F : f.dcm = id

LEMMA PutKeepsPathAsked ==
  ASSUME NEW F, NEW id, IsPath(F, id), NEW S, NEW s \in Seq(Puts), s # <<>>, PathAsked(F, id, s, S)
  PROVE  PathAsked(F, id, Tail(s), Applied(S, Head(s)))
<1> DEFINE P == Puts
           r == Head(s)
           t == Tail(s)
<1>1. r \in P /\ Range(s) = {r} \cup Range(t)
  <2>1. s \in Seq(P) /\ s # <<>>
    OBVIOUS
  <2> HIDE DEF P
  <2> QED
    BY <2>1, TailOf
<1>2. r.op = "put"
  BY <1>1 DEF Puts
<1> HIDE DEF P, r, t
<1>3. ASSUME NEW f \in F PROVE f \in Applied(S, r) \/ Put(f) \in Range(t)
  <2>1. f \in S \/ Put(f) = r \/ Put(f) \in Range(t)
    BY <1>1 DEF PathAsked
  <2>2. CASE Put(f) = r
    <3>1. f = r.flow
      BY <2>2 DEF Put
    <3> QED
      BY <1>2, <3>1, AppliedHas
  <2>3. CASE f \in S
    <3>1. CASE SameId(f, r.flow)
      <4>1. r.flow.dcm = id /\ r \in Range(s)
        BY <1>1, <3>1 DEF SameId, IsPath
      <4>2. r.flow = f
        BY <3>1, <4>1 DEF PathAsked, IsPath, OneEach
      <4> QED
        BY <1>2, <4>2, AppliedHas
    <3>2. CASE ~SameId(f, r.flow)
      BY <2>3, <3>2, AppliedHas
    <3> QED
      BY <3>1, <3>2
  <2> QED
    BY <2>1, <2>2, <2>3
<1>4. \A q \in Range(t) : q.flow.dcm = id => q.flow \in F
  BY <1>1 DEF PathAsked
<1>5. PathAsked(F, id, t, Applied(S, r))
  BY <1>3, <1>4 DEF PathAsked
<1> QED
  BY <1>5 DEF r, t

\* Every DCM of the dump has a path by some spine.
PathsAsked(mode, s, S) ==
  \A id \in DOMAIN dcms : \E spine \in Spines : PathAsked(PathFlows(id, spine, mode), id, s, S)

LEMMA PutKeepsPathsAsked ==
  ASSUME Dumped(dcms), NEW mode, NEW S, NEW s \in Seq(Puts), s # <<>>, PathsAsked(mode, s, S)
  PROVE  PathsAsked(mode, Tail(s), Applied(S, Head(s)))
<1> SUFFICES ASSUME NEW id \in DOMAIN dcms
    PROVE  \E spine \in Spines : PathAsked(PathFlows(id, spine, mode), id, Tail(s), Applied(S, Head(s)))
  BY DEF PathsAsked
<1>1. PICK spine \in Spines : PathAsked(PathFlows(id, spine, mode), id, s, S)
  BY DEF PathsAsked
<1> DEFINE F == PathFlows(id, spine, mode)
<1>2. IsPath(F, id)
  BY PathFlowsOneEach DEF IsPath
<1> HIDE DEF F
<1>3. PathAsked(F, id, Tail(s), Applied(S, Head(s)))
  BY <1>1, <1>2, PutKeepsPathAsked DEF F
<1> QED
  BY <1>3 DEF F

LEMMA DistributedAsked ==
  ASSUME Dumped(dcms), NEW mode, NEW l \in SpineLists, NEW order \in SetToSeqs(DOMAIN dcms), NEW s,
         s = Distribution(order, l, mode), NEW S
  PROVE  PathsAsked(mode, s, S)
<1> SUFFICES ASSUME NEW id \in DOMAIN dcms
    PROVE  \E spine \in Spines : PathAsked(PathFlows(id, spine, mode), id, s, S)
  BY DEF PathsAsked
<1>0. /\ s \in Routes
      /\ \A i \in DOMAIN dcms : \E spine \in Range(l) :
           /\ Asked(PathFlows(i, spine, mode)) \subseteq Range(s)
           /\ \A r \in Range(s) : r.flow.dcm = i => r \in Asked(PathFlows(i, spine, mode))
  BY DistributedRoutes
<1>1. PICK spine \in Range(l) :
        /\ Asked(PathFlows(id, spine, mode)) \subseteq Range(s)
        /\ \A r \in Range(s) : r.flow.dcm = id => r \in Asked(PathFlows(id, spine, mode))
  BY <1>0
<1>2. spine \in Spines
  <2>1. l \in Seq(Spines)
    BY TopologyAssumption
  <2> QED
    BY <2>1 DEF Range
<1> DEFINE F == PathFlows(id, spine, mode)
<1> HIDE DEF F
<1>3. \A r \in Range(s) : r.flow.dcm = id => r.flow \in F
  BY <1>1 DEF Asked, Put, F
<1>4. \A f \in F : Put(f) \in Range(s)
  BY <1>1 DEF Asked, F
<1>5. PathAsked(F, id, s, S)
  BY <1>3, <1>4 DEF PathAsked
<1> QED
  BY <1>2, <1>5 DEF F

\* When all is asked for, the flows of the paths are there.
LEMMA PathsThere ==
  ASSUME NEW mode, NEW S, PathsAsked(mode, <<>>, S), NEW id \in DOMAIN dcms
  PROVE  \E spine \in Spines : PathFlows(id, spine, mode) \subseteq S
BY AskedNone DEF PathsAsked, PathAsked
-----------------------------------------------------------------------------
(* The walk along a path. *)

\* A flow for a connection has the id of its DCM.
LEMMA ConnFlow ==
  ASSUME SaneTable, Dumped(dcms), NEW id \in DOMAIN dcms, NEW c \in Range(Inflows[dcms[id]]),
         NEW f \in table, f.match = c
  PROVE  f.dcm = id /\ InFlow(f) /\ f.k \in DOMAIN Inflows[dcms[id]]
<1>1. f \in Flow /\ Sane(f)
  BY DEF SaneTable
<1>2. dcms[id] \in Procs
  BY RingIsRing
<1>3. c[1] = "conn" /\ Ring(f.dcm)[1] = "ring"
  BY <1>2, DstOfConn, Names
<1>4. InFlow(f) /\ f.dcm \in DOMAIN dcms
  BY <1>1, <1>3 DEF Sane, OutFlow
<1>5. dcms[f.dcm] \in Procs
  BY <1>4, RingIsRing
<1>6. c \in Range(Inflows[dcms[f.dcm]])
  BY <1>4 DEF InFlow, Range
<1>7. dcms[f.dcm] = dcms[id]
  BY <1>2, <1>5, <1>6, DcmAssumption
<1>8. f.dcm = id
  BY <1>4, <1>7 DEF Dumped
<1> QED
  BY <1>4, <1>8 DEF InFlow

\* The flow out of a ring.
LEMMA RingFlow ==
  ASSUME SaneTable, Dumped(dcms), NEW id \in DOMAIN dcms, NEW f \in table, f.match = Ring(id)
  PROVE  f.dcm = id /\ f.k = 0
<1>1. f \in Flow /\ Sane(f) /\ f.dcm \in DOMAIN dcms
  BY DEF SaneTable, Sane
<1>2. ~InFlow(f)
  <2>1. ASSUME InFlow(f) PROVE FALSE
    <3> DEFINE p == dcms[f.dcm]
    <3>1. p \in Procs
      BY <1>1, RingIsRing
    <3>2. f.match \in Range(Inflows[p])
      BY <2>1 DEF InFlow, Range
    <3>3. f.match[1] = "conn" /\ Ring(id)[1] = "ring"
      BY <3>1, <3>2, DstOfConn, Names
    <3> QED
      BY <3>3
  <2> QED
    BY <2>1
<1>3. f.match = Ring(f.dcm) /\ f.k = 0
  BY <1>1, <1>2 DEF Sane, OutFlow
<1>4. f.dcm \in Nat /\ id \in Nat
  BY <1>1 DEF Dumped
<1> QED
  BY <1>3, <1>4, RingsDiffer

\* With the flows of its path a bridge has one way for a connection and one out of the ring.
LEMMA LegMatching ==
  ASSUME SaneTable, OneEach(table), Dumped(dcms), NEW id \in DOMAIN dcms,
         NEW c \in Range(Inflows[dcms[id]]), NEW at, NEW to, NEW u \in BOOLEAN,
         Leg(id, at, to, u) \subseteq table
  PROVE  /\ u => Matching(at, c) = {Ring(id)} /\ Matching(at, Ring(id)) = {to}
         /\ ~u => Matching(at, c) = {to}
<1> DEFINE t == IF u THEN Ring(id) ELSE to
           in == Inflows[dcms[id]]
<1>1. Matching(at, c) = {t}
  <2>1. PICK k \in DOMAIN in : c = in[k]
    BY DEF Range
  <2>2. LegIn(id, at, t, k) \in table
    BY LegHas
  <2>3. t \in Matching(at, c)
    BY <2>1, <2>2, LegFields DEF Matching
  <2>4. ASSUME NEW f \in table, f.node = at, f.match = c PROVE f.to = t
    <3>1. f.dcm = id /\ f.k \in DOMAIN in
      BY <2>4, ConnFlow
    <3> DEFINE g == LegIn(id, at, t, f.k)
    <3>2. g \in table
      BY <3>1, LegHas
    <3>3. g.node = at /\ g.dcm = id /\ g.k = f.k /\ g.to = t
      BY LegFields
    <3> HIDE DEF g, t, in
    <3>4. SameId(f, g)
      BY <2>4, <3>1, <3>3 DEF SameId
    <3> QED
      BY <3>2, <3>3, <3>4 DEF OneEach
  <2> QED
    BY <2>3, <2>4 DEF Matching
<1>2. u => Matching(at, Ring(id)) = {to}
  <2> SUFFICES ASSUME u PROVE Matching(at, Ring(id)) = {to}
    OBVIOUS
  <2> DEFINE g == LegOut(id, at, to)
  <2>2. g \in table
    BY LegHas
  <2>3. g.node = at /\ g.dcm = id /\ g.k = 0 /\ g.to = to /\ g.match = Ring(id)
    BY LegFields
  <2> HIDE DEF g
  <2>4. ASSUME NEW f \in table, f.node = at, f.match = Ring(id) PROVE f.to = to
    <3>1. f.dcm = id /\ f.k = 0
      BY <2>4, RingFlow
    <3>4. SameId(f, g)
      BY <2>3, <2>4, <3>1 DEF SameId
    <3> QED
      BY <2>2, <2>3, <3>4 DEF OneEach
  <2> QED
    BY <2>2, <2>3, <2>4 DEF Matching
<1> QED
  BY <1>1, <1>2

\* One hop by the one flow there is.
LEMMA HopByOne ==
  ASSUME SaneTable, NEW n, NEW c, NEW from \in Bridges \cup {Local}, NEW t, Matching(n, c) = {t},
         t # Local, t # from, NEW q \in Hop(<<n, from>>, c)
  PROVE  (t \in Rings => q = <<n, t>>) /\ (t \notin Rings => q = <<t, n>>)
<1>1. PICK to \in NextHops(n, from, c) : q = Sent(n, from, to)
  BY BridgeNames, HopSends
<1>2. to = t
  BY <1>1, MatchingPort DEF NextHops
<1> QED
  BY <1>1, <1>2 DEF Sent

LEMMA HopOutByOne ==
  ASSUME NEW n, NEW c, NEW g \in Rings, NEW t \in Bridges, Matching(n, g) = {t}, NEW q \in Hop(<<n, g>>, c)
  PROVE  q = <<t, n>>
<1>1. PICK to \in NextHops(n, g, c) : q = Sent(n, g, to)
  BY BridgeNames, HopSends
<1>2. to = t
  BY <1>1 DEF NextHops
<1> QED
  BY <1>1, <1>2, BridgeNames DEF Sent

\* At its end node a packet is taken.
LEMMA HopTaken ==
  ASSUME SaneTable, Dumped(dcms), NEW id \in DOMAIN dcms, NEW c \in Range(Inflows[dcms[id]]),
         NEW from \in Leaves, NEW q \in Hop(<<Home(id), from>>, c)
  PROVE  q = <<Home(id), Taken>>
<1>0. Home(id) \in Ends /\ dcms[id] \in Procs /\ c \in Conns /\ Home(id) \in Bridges
  BY RingIsRing, DstOfConn DEF Bridges
<1>1. Matching(Home(id), c) = {}
  <2> SUFFICES ASSUME NEW f \in table, f.node = Home(id), f.match = c PROVE FALSE
    BY DEF Matching
  <2>1. InFlow(f) /\ f.dcm = id
    BY ConnFlow
  <2>2. Towards(Home(id), Home(id), f.to)
    BY <1>0, <2>1 DEF InFlow
  <2> QED
    BY <1>0, <2>2, TowardsFrom
<1>2. from \in Bridges /\ from # Local
  BY Names DEF Bridges
<1>3. PICK to \in Defaults(Home(id), from, Dst[c]) :
           q = IF to = Local THEN <<Home(id), Taken>> ELSE IF to = from THEN <<Home(id), Dropped>> ELSE <<to, Home(id)>>
  BY <1>0, <1>1, <1>2, HopByDefault
<1>4. to = Local
  BY <1>0, <1>2, <1>3 DEF Defaults
<1> QED
  BY <1>3, <1>4

\* The table has the path of an id by a spine.
OnPath(id, spine, mode) ==
  /\ SaneTable /\ OneEach(table) /\ Dumped(dcms)
  /\ id \in DOMAIN dcms /\ spine \in Spines /\ PathFlows(id, spine, mode) \subseteq table

\* From a bridge of the path to the next, by its ring or not.
LEMMA LegHop ==
  ASSUME NEW id, NEW spine, NEW mode, OnPath(id, spine, mode), NEW c \in Range(Inflows[dcms[id]]),
         NEW at, NEW to \in Bridges, NEW u, PathLeg(id, spine, mode, at, to, u),
         NEW from \in Bridges \cup {Local}, from # to, NEW q \in Hop(<<at, from>>, c)
  PROVE  (u => q = <<at, Ring(id)>>) /\ (~u => q = <<to, at>>)
<1>0. SaneTable /\ OneEach(table) /\ Dumped(dcms) /\ id \in DOMAIN dcms /\ spine \in Spines
      /\ PathFlows(id, spine, mode) \subseteq table
  BY DEF OnPath
<1>1. Home(id) \in Ends /\ Ring(id) \in Rings /\ u \in BOOLEAN
  BY <1>0, RingIsRing, PathLegTyped
<1>2. Leg(id, at, to, u) \subseteq table
  BY <1>0, <1>1, PathHasLeg
<1>3. /\ u => Matching(at, c) = {Ring(id)}
      /\ ~u => Matching(at, c) = {to}
  BY <1>0, <1>1, <1>2, LegMatching
<1>4. from \notin Rings /\ to # Local /\ to \notin Rings /\ Ring(id) # Local
  BY <1>1, BridgeNames
<1>5. CASE u
  BY <1>0, <1>1, <1>3, <1>4, <1>5, HopByOne
<1>6. CASE ~u
  BY <1>0, <1>3, <1>4, <1>6, HopByOne
<1> QED
  BY <1>5, <1>6

LEMMA LegHopOut ==
  ASSUME NEW id, NEW spine, NEW mode, OnPath(id, spine, mode), NEW c \in Range(Inflows[dcms[id]]),
         NEW at, NEW to \in Bridges, NEW u, PathLeg(id, spine, mode, at, to, u),
         u = TRUE, NEW from, from = Ring(id)
  PROVE  Hop(<<at, from>>, c) \subseteq {<<to, at>>}
<1> SUFFICES ASSUME NEW q \in Hop(<<at, Ring(id)>>, c) PROVE q = <<to, at>>
  OBVIOUS
<1>0. SaneTable /\ OneEach(table) /\ Dumped(dcms) /\ id \in DOMAIN dcms /\ spine \in Spines
      /\ PathFlows(id, spine, mode) \subseteq table
  BY DEF OnPath
<1>1. Home(id) \in Ends /\ Ring(id) \in Rings /\ u \in BOOLEAN
  BY <1>0, RingIsRing, PathLegTyped
<1>2. Leg(id, at, to, u) \subseteq table
  BY <1>0, <1>1, PathHasLeg
<1>3. Matching(at, Ring(id)) = {to}
  BY <1>0, <1>1, <1>2, LegMatching
<1> QED
  BY <1>1, <1>3, HopOutByOne

\* The places on a path by the hops there are still before a packet.
Along(r, n, from, id, spine, mode, c) ==
  LET x == spine[2]
      home == Home(id)
      last == Leaf(x, PodOf[home])
      others == {Leaf(x, i) : i \in Pods \ {PodOf[home]}}
  IN  \/ r = 0 /\ n = home /\ from = Taken
      \/ r = 1 /\ n = home /\ from = last
      \/ r = 2 /\ n = last /\ from = Ring(id) /\ mode # "none"
      \/ r = 3 /\ n = last /\ from \in (Ends \ {home}) \cup {spine}
      \/ r = 4 /\ n = spine /\ from = Ring(id) /\ mode = "all"
      \/ r = 5 /\ n = spine /\ from \in others
      \/ r = 6 /\ n \in others /\ from = Ring(id) /\ mode = "all"
      \/ r = 7 /\ n \in others /\ from \in Ends \ {home}
      \/ r = 12 /\ n = Src[c] /\ from = Local

Further(r, q, id, spine, mode, c) ==
  \E m \in 0 .. MaxHops : Along(m, q[1], q[2], id, spine, mode, c) /\ (m < r \/ m = 0)

LEMMA AlongFalls ==
  ASSUME NEW id, NEW spine, NEW mode, OnPath(id, spine, mode), NEW c \in Range(Inflows[dcms[id]]),
         NEW r, NEW n, NEW from, Along(r, n, from, id, spine, mode, c), NEW q \in Hop(<<n, from>>, c)
  PROVE  Further(r, q, id, spine, mode, c) /\ q = <<q[1], q[2]>>
<1> DEFINE x == spine[2]
           home == Home(id)
           p == PodOf[home]
           last == Leaf(x, p)
           others == {Leaf(x, i) : i \in Pods \ {p}}
           Good(s) == Further(r, s, id, spine, mode, c) /\ s = <<s[1], s[2]>>
           one == mode # "none"
           all == mode = "all"
<1>0. /\ home \in Ends /\ spine \in Spines /\ x \in Planes /\ p \in Pods /\ dcms[id] \in Procs
      /\ SaneTable /\ Dumped(dcms) /\ id \in DOMAIN dcms
  BY RingIsRing, Names DEF OnPath
<1>1. c \in Conns /\ Dst[c] = home /\ Src[c] \in Ends \ {home}
  BY <1>0, DstOfConn, DstIsEnd DEF Home
<1>2. /\ last \in Leaves /\ others \subseteq Leaves
      /\ last[1] = "pod" /\ last[3] = p /\ \A l \in others : l[1] = "pod" /\ l[2] = x /\ l[3] \in Pods \ {p}
      /\ spine[1] = "spine" /\ \A e \in Ends : e[1] = "end"
  BY <1>0, Names
<1>3. Ends \cup Leaves \cup Spines = Bridges /\ MaxHops = 12
  BY DEF Bridges, MaxHops
<1>p. /\ PathLeg(id, spine, mode, last, home, one)
      /\ PathLeg(id, spine, mode, spine, last, all)
      /\ \A l \in others : PathLeg(id, spine, mode, l, spine, all)
      /\ \A e \in Ends \ {home} : PathLeg(id, spine, mode, e, Leaf(x, PodOf[e]), FALSE)
  <2>1. PathLeg(id, spine, mode, last, home, mode # "none")
    BY Zenon DEF PathLeg
  <2>2. PathLeg(id, spine, mode, spine, last, mode = "all")
    BY Zenon DEF PathLeg
  <2>3. ASSUME NEW i \in Pods \ {p} PROVE PathLeg(id, spine, mode, Leaf(x, i), spine, mode = "all")
    BY <2>3, Zenon DEF PathLeg
  <2>4. ASSUME NEW e \in Ends \ {home} PROVE PathLeg(id, spine, mode, e, Leaf(x, PodOf[e]), FALSE)
    BY <2>4, Zenon DEF PathLeg
  <2> QED
    BY <2>1, <2>2, <2>3, <2>4
<1>4. ASSUME NEW f \in (Ends \ {home}) \cup {spine}, NEW s \in Hop(<<last, f>>, c)
      PROVE  (one => s = <<last, Ring(id)>>) /\ (~one => s = <<home, last>>)
  <2>1. home \in Bridges /\ f \in Bridges \cup {Local} /\ f # home
    BY <1>0, <1>2, <1>3
  <2> HIDE DEF home, last, one, all
  <2> QED
    BY <1>4, <1>p, <2>1, LegHop
<1>5. ASSUME NEW f \in others, NEW s \in Hop(<<spine, f>>, c)
      PROVE  (all => s = <<spine, Ring(id)>>) /\ (~all => s = <<last, spine>>)
  <2>1. last \in Bridges /\ f \in Bridges \cup {Local} /\ f # last
    BY <1>0, <1>2, <1>3
  <2> HIDE DEF home, last, others, one, all
  <2> QED
    BY <1>5, <1>p, <2>1, LegHop
<1>6. ASSUME NEW l \in others, NEW f \in Ends \ {home}, NEW s \in Hop(<<l, f>>, c)
      PROVE  (all => s = <<l, Ring(id)>>) /\ (~all => s = <<spine, l>>)
  <2>1. spine \in Bridges /\ f \in Bridges \cup {Local} /\ f # spine
    BY <1>0, <1>2, <1>3
  <2> HIDE DEF home, last, others, one, all
  <2> QED
    BY <1>6, <1>p, <2>1, LegHop
<1>7. CASE r = 0 /\ n = home /\ from = Taken
  <2>1. q = <<n, from>>
    BY <1>7, HopStops DEF Stopped
  <2>2. Along(0, q[1], q[2], id, spine, mode, c)
    BY <1>7, <2>1 DEF Along
  <2> QED
    BY <1>3, <2>1, <2>2 DEF Further
<1>8. CASE r = 1 /\ n = home /\ from = last
  <2>1. q = <<home, Taken>>
    BY <1>0, <1>2, <1>8, HopTaken
  <2>2. Along(0, q[1], q[2], id, spine, mode, c)
    BY <2>1 DEF Along
  <2> QED
    BY <1>3, <1>8, <2>1, <2>2 DEF Further
<1>9. ASSUME q = <<home, last>>, r \in 2 .. 12 PROVE Good(q)
  <2>2. Along(1, q[1], q[2], id, spine, mode, c)
    BY <1>9 DEF Along
  <2>3. 1 \in 0 .. MaxHops /\ 1 < r
    BY <1>3, <1>9
  <2> QED
    BY <1>9, <2>2, <2>3 DEF Further
<1>10. CASE r = 2 /\ n = last /\ from = Ring(id) /\ mode # "none"
  <2>1. q = <<home, last>>
    <3>1. home \in Bridges
      BY <1>0, <1>3
    <3>2. one = TRUE /\ from = Ring(id) /\ q \in Hop(<<last, from>>, c) /\ PathLeg(id, spine, mode, last, home, one)
      BY <1>10, <1>p
    <3> HIDE DEF home, last, others, x, p, one, all
    <3>3. Hop(<<last, from>>, c) \subseteq {<<home, last>>}
      BY <3>1, <3>2, LegHopOut
    <3> QED
      BY <3>2, <3>3
  <2> QED
    BY <1>9, <1>10, <2>1
<1>11. CASE r = 3 /\ n = last /\ from \in (Ends \ {home}) \cup {spine}
  <2>1. CASE one
    <3>1. q = <<last, Ring(id)>>
      BY <1>4, <1>11, <2>1
    <3>2. Along(2, q[1], q[2], id, spine, mode, c)
      BY <2>1, <3>1 DEF Along
    <3> QED
      BY <1>3, <1>11, <3>1, <3>2 DEF Further
  <2>2. CASE ~one
    BY <1>4, <1>9, <1>11, <2>2
  <2> QED
    BY <2>1, <2>2
<1>12. ASSUME q = <<last, spine>>, r \in 4 .. 12 PROVE Good(q)
  <2>2. Along(3, q[1], q[2], id, spine, mode, c)
    BY <1>12 DEF Along
  <2>3. 3 \in 0 .. MaxHops /\ 3 < r
    BY <1>3, <1>12
  <2> QED
    BY <1>12, <2>2, <2>3 DEF Further
<1>13. CASE r = 4 /\ n = spine /\ from = Ring(id) /\ mode = "all"
  <2>1. q = <<last, spine>>
    <3>1. last \in Bridges
      BY <1>2, <1>3
    <3>2. all = TRUE /\ from = Ring(id) /\ q \in Hop(<<spine, from>>, c)
      BY <1>13
    <3> HIDE DEF home, last, one, all
    <3>3. Hop(<<spine, from>>, c) \subseteq {<<last, spine>>}
      BY <1>13, <1>p, <3>1, <3>2, LegHopOut
    <3> QED
      BY <3>2, <3>3
  <2> QED
    BY <1>12, <1>13, <2>1
<1>14. CASE r = 5 /\ n = spine /\ from \in others
  <2>1. CASE all
    <3>1. q = <<spine, Ring(id)>>
      BY <1>5, <1>14, <2>1
    <3>2. Along(4, q[1], q[2], id, spine, mode, c)
      BY <2>1, <3>1 DEF Along
    <3> QED
      BY <1>3, <1>14, <3>1, <3>2 DEF Further
  <2>2. CASE ~all
    BY <1>5, <1>12, <1>14, <2>2
  <2> QED
    BY <2>1, <2>2
<1>15. ASSUME NEW l \in others, q = <<spine, l>>, r \in 6 .. 12 PROVE Good(q)
  <2>2. Along(5, q[1], q[2], id, spine, mode, c)
    BY <1>15 DEF Along
  <2>3. 5 \in 0 .. MaxHops /\ 5 < r
    BY <1>3, <1>15
  <2> QED
    BY <1>15, <2>2, <2>3 DEF Further
<1>16. CASE r = 6 /\ n \in others /\ from = Ring(id) /\ mode = "all"
  <2>1. q = <<spine, n>>
    <3>1. spine \in Bridges /\ PathLeg(id, spine, mode, n, spine, all)
      BY <1>0, <1>3, <1>16, <1>p
    <3>2. all = TRUE /\ from = Ring(id) /\ q \in Hop(<<n, from>>, c)
      BY <1>16
    <3> HIDE DEF home, last, one, all
    <3>3. Hop(<<n, from>>, c) \subseteq {<<spine, n>>}
      BY <1>16, <3>1, <3>2, LegHopOut
    <3> QED
      BY <3>2, <3>3
  <2> QED
    BY <1>15, <1>16, <2>1
<1>17. CASE r = 7 /\ n \in others /\ from \in Ends \ {home}
  <2>1. CASE all
    <3>1. q = <<n, Ring(id)>>
      BY <1>6, <1>17, <2>1
    <3>2. Along(6, q[1], q[2], id, spine, mode, c)
      BY <1>17, <2>1, <3>1 DEF Along
    <3> QED
      BY <1>3, <1>17, <3>1, <3>2 DEF Further
  <2>2. CASE ~all
    BY <1>6, <1>15, <1>17, <2>2
  <2> QED
    BY <2>1, <2>2
<1>18. CASE r = 12 /\ n = Src[c] /\ from = Local
  <2> DEFINE l == Leaf(x, PodOf[n])
  <2>1. PodOf[n] \in Pods /\ n \in Ends \ {home}
    BY <1>1, <1>18, Names
  <2>2. l \in Leaves /\ l \in Bridges /\ l # Local /\ PathLeg(id, spine, mode, n, l, FALSE)
    BY <1>0, <1>3, <1>p, <2>1, Names
  <2>3. q = <<l, n>>
    <3> DEFINE no == FALSE
    <3>1. PathLeg(id, spine, mode, n, l, no) /\ ~no /\ Local \in Bridges \cup {Local}
      BY <2>2
    <3>2. q \in Hop(<<n, Local>>, c)
      BY <1>18
    <3> HIDE DEF l, no
    <3> QED
      BY <2>2, <3>1, <3>2, LegHop
  <2>4. CASE PodOf[n] = p
    <3>2. Along(3, q[1], q[2], id, spine, mode, c)
      BY <2>1, <2>3, <2>4 DEF Along
    <3> QED
      BY <1>3, <1>18, <2>3, <3>2 DEF Further
  <2>5. CASE PodOf[n] # p
    <3>1. l \in others
      BY <2>1, <2>5
    <3>2. Along(7, q[1], q[2], id, spine, mode, c)
      BY <2>1, <2>3, <3>1 DEF Along
    <3> QED
      BY <1>3, <1>18, <2>3, <3>2 DEF Further
  <2> QED
    BY <2>4, <2>5
<1>19. \/ r = 0 /\ n = home /\ from = Taken
       \/ r = 1 /\ n = home /\ from = last
       \/ r = 2 /\ n = last /\ from = Ring(id) /\ mode # "none"
       \/ r = 3 /\ n = last /\ from \in (Ends \ {home}) \cup {spine}
       \/ r = 4 /\ n = spine /\ from = Ring(id) /\ mode = "all"
       \/ r = 5 /\ n = spine /\ from \in others
       \/ r = 6 /\ n \in others /\ from = Ring(id) /\ mode = "all"
       \/ r = 7 /\ n \in others /\ from \in Ends \ {home}
       \/ r = 12 /\ n = Src[c] /\ from = Local
  BY Zenon DEF Along
<1> HIDE DEF home, last, others
<1> QED
  BY <1>7, <1>8, <1>10, <1>11, <1>13, <1>14, <1>16, <1>17, <1>18, <1>19

\* Bridges and ports are all that Along speaks of.
LEMMA AlongTyped ==
  ASSUME NEW id, NEW spine, NEW mode, OnPath(id, spine, mode), NEW c \in Range(Inflows[dcms[id]]),
         NEW r, NEW n, NEW from, Along(r, n, from, id, spine, mode, c)
  PROVE  <<n, from>> \in Bridges \X Ports
<1> DEFINE x == spine[2]
           home == Home(id)
           p == PodOf[home]
           last == Leaf(x, p)
           others == {Leaf(x, i) : i \in Pods \ {p}}
<1>0. /\ home \in Ends /\ spine \in Spines /\ x \in Planes /\ p \in Pods /\ dcms[id] \in Procs
      /\ Ring(id) \in Rings
  BY RingIsRing, Names DEF OnPath
<1>1. Src[c] \in Ends
  BY <1>0, DstOfConn, DstIsEnd
<1>2. last \in Leaves /\ others \subseteq Leaves
  BY <1>0, Names
<1>3. \/ r = 0 /\ n = home /\ from = Taken
      \/ r = 1 /\ n = home /\ from = last
      \/ r = 2 /\ n = last /\ from = Ring(id) /\ mode # "none"
      \/ r = 3 /\ n = last /\ from \in (Ends \ {home}) \cup {spine}
      \/ r = 4 /\ n = spine /\ from = Ring(id) /\ mode = "all"
      \/ r = 5 /\ n = spine /\ from \in others
      \/ r = 6 /\ n \in others /\ from = Ring(id) /\ mode = "all"
      \/ r = 7 /\ n \in others /\ from \in Ends \ {home}
      \/ r = 12 /\ n = Src[c] /\ from = Local
  BY Zenon DEF Along
<1> HIDE DEF home, last, others
<1>4. n \in Ends \cup Leaves \cup Spines
      /\ from \in Ends \cup Leaves \cup Spines \cup Rings \cup {Local, Taken}
  BY <1>0, <1>1, <1>2, <1>3
<1> QED
  BY <1>4 DEF Bridges, Ports

\* A packet of a connection comes to its end node along the path.
LEMMA PathDelivers ==
  ASSUME NEW id, NEW spine, NEW mode, OnPath(id, spine, mode), NEW c \in Range(Inflows[dcms[id]])
  PROVE  Delivered(c)
<1> DEFINE Pos == Bridges \X Ports
           K == [r \in 0 .. MaxHops |-> {pos \in Pos : Along(r, pos[1], pos[2], id, spine, mode, c)}]
<1>m. MaxHops = 12 /\ 0 \in 0 .. MaxHops /\ MaxHops \in 0 .. MaxHops
  BY DEF MaxHops
<1>1. \A r \in 0 .. MaxHops : K[r] = {pos \in Pos : Along(r, pos[1], pos[2], id, spine, mode, c)}
  BY Zenon
<1>2. \A n, from, r : Along(r, n, from, id, spine, mode, c) => <<n, from>> \in Pos
  BY AlongTyped
<1>3. \A pos \in Pos : pos = <<pos[1], pos[2]>>
  OBVIOUS
<1> HIDE DEF Pos, K
<1>4. <<Src[c], Local>> \in K[MaxHops]
  <2> DEFINE a == Src[c]
             b == Local
  <2>1. Along(12, a, b, id, spine, mode, c)
    BY Zenon DEF Along
  <2>2. <<a, b>>[1] = a /\ <<a, b>>[2] = b
    OBVIOUS
  <2> HIDE DEF a, b
  <2>3. <<a, b>> \in K[MaxHops]
    BY <1>m, <1>1, <1>2, <2>1, <2>2
  <2> QED
    BY <2>3 DEF a, b
<1>5. ASSUME NEW r \in 0 .. MaxHops, NEW pos \in K[r], NEW q \in Hop(pos, c)
      PROVE  Falls(K, r, q)
  <2> DEFINE n == pos[1]
             from == pos[2]
  <2>1. pos = <<n, from>> /\ Along(r, n, from, id, spine, mode, c)
    BY <1>1, <1>3
  <2>2. q \in Hop(<<n, from>>, c)
    BY <2>1
  <2> HIDE DEF n, from
  <2>3. Further(r, q, id, spine, mode, c) /\ q = <<q[1], q[2]>>
    BY <2>1, <2>2, AlongFalls
  <2>4. PICK m \in 0 .. MaxHops : Along(m, q[1], q[2], id, spine, mode, c) /\ (m < r \/ m = 0)
    BY <2>3 DEF Further
  <2> DEFINE a == q[1]
             b == q[2]
  <2>5. Along(m, a, b, id, spine, mode, c) /\ q = <<a, b>>
    BY <2>3, <2>4
  <2>6. q \in Pos
    <3> HIDE DEF a, b
    <3> QED
      BY <1>2, <2>5
  <2>7. q \in K[m]
    BY <1>1, <2>5, <2>6
  <2> QED
    BY <2>4, <2>7 DEF Falls
<1>6. ASSUME NEW r \in 0 .. MaxHops, NEW pos \in K[r] PROVE Hop(pos, c) # {}
  <2> DEFINE n == pos[1]
             from == pos[2]
  <2>1. pos = <<n, from>>
    BY <1>1, <1>3
  <2>2. Hop(<<n, from>>, c) # {}
    BY HopSome
  <2> QED
    BY <2>1, <2>2
<1>7. Walk(c) # {} /\ Walk(c) \subseteq K[0]
  BY <1>4, <1>5, <1>6, WalkEnds
<1>8. Dst[c] = Home(id)
  <2>1. dcms[id] \in Procs
    BY RingIsRing DEF OnPath
  <2> QED
    BY <2>1, DstOfConn DEF Home
<1>9. ASSUME NEW pos \in K[0] PROVE pos = <<Dst[c], <<"taken">>>>
  <2>1. Along(0, pos[1], pos[2], id, spine, mode, c) /\ pos = <<pos[1], pos[2]>>
    BY <1>m, <1>1, <1>3
  <2>2. pos[1] = Home(id) /\ pos[2] = Taken
    BY <2>1 DEF Along
  <2> QED
    BY <1>8, <2>1, <2>2 DEF Taken
<1> QED
  BY <1>7, <1>9 DEF Delivered
-----------------------------------------------------------------------------
(* The requests of a removal, and the flows it leaves. *)

\* A flow is looked for, or there is a request to delete it.
WillGo(f, s) ==
  \/ Get(f.node, f.dcm) \in Range(s)
  \/ \E r \in Range(s) : r.op = "delete" /\ SameId(r.flow, f)
\* Only flows of other ids and of spines that are not listed will be left.
Remaining(s, S, n, l) == \A f \in S : f.dcm > n \/ f.node \in Spines \ Range(l) \/ WillGo(f, s)

Removals == Deletions \cup Gets

LEMMA DeleteKeepsRemaining ==
  ASSUME NEW S, NEW s \in Seq(Removals), s # <<>>, Head(s).op = "delete", NEW n, NEW l,
         Remaining(s, S, n, l)
  PROVE  Remaining(Tail(s), Applied(S, Head(s)), n, l)
<1> DEFINE P == Removals
           r == Head(s)
           t == Tail(s)
<1>1. Range(s) = {r} \cup Range(t)
  <2>1. s \in Seq(P) /\ s # <<>>
    OBVIOUS
  <2> HIDE DEF P
  <2> QED
    BY <2>1, TailOf
<1> HIDE DEF t
<1>2. r.op = "delete" /\ r.op # "put"
  OBVIOUS
<1> HIDE DEF r
<1>3. ASSUME NEW f \in Applied(S, r) PROVE f.dcm > n \/ f.node \in Spines \ Range(l) \/ WillGo(f, t)
  <2>1. f \in S /\ ~SameId(f, r.flow)
    BY <1>2, AppliedHas
  <2>2. f.dcm > n \/ f.node \in Spines \ Range(l) \/ WillGo(f, s)
    BY <2>1 DEF Remaining
  <2>3. CASE Get(f.node, f.dcm) \in Range(s)
    <3>1. Get(f.node, f.dcm) # r
      BY <1>2 DEF Get
    <3> QED
      BY <1>1, <2>3, <3>1 DEF WillGo
  <2>4. ASSUME NEW q \in Range(s), q.op = "delete" /\ SameId(q.flow, f) PROVE WillGo(f, t)
    <3>1. q # r
      BY <2>1, <2>4 DEF SameId
    <3> QED
      BY <1>1, <2>4, <3>1 DEF WillGo
  <2> QED
    BY <2>2, <2>3, <2>4 DEF WillGo
<1>4. Remaining(t, Applied(S, r), n, l)
  BY <1>3 DEF Remaining
<1> QED
  BY <1>4 DEF t, r

\* There is a request to delete each flow that a request looks for.
Covers(d, S, r) == \A f \in S : f.node = r.node /\ f.dcm = r.dcm => Delete(f) \in Range(d)

LEMMA GetKeepsRemaining ==
  ASSUME NEW S, NEW s \in Seq(Removals), s # <<>>, Head(s).op = "get", NEW n, NEW l,
         Remaining(s, S, n, l), NEW d \in Seq(Removals),
         Covers(d, S, Head(s)), NEW v, v = d \o Tail(s)
  PROVE  Remaining(v, S, n, l)
<1> DEFINE P == Removals
           r == Head(s)
           t == Tail(s)
           u == d \o t
<1>1. Range(s) = {r} \cup Range(t) /\ Range(u) = Range(d) \cup Range(t)
  <2>1. s \in Seq(P) /\ s # <<>> /\ d \in Seq(P)
    OBVIOUS
  <2> HIDE DEF P
  <2>2. t \in Seq(P) /\ Range(s) = {r} \cup Range(t)
    BY <2>1, TailOf
  <2> HIDE DEF t, r
  <2>3. Range(d \o t) = Range(d) \cup Range(t)
    BY <2>1, <2>2, RangeOfBoth
  <2> QED
    BY <2>2, <2>3
<1>2. r.op = "get"
  OBVIOUS
<1>3. \A f \in S : f.node = r.node /\ f.dcm = r.dcm => Delete(f) \in Range(d)
  BY DEF Covers
<1> HIDE DEF t, u, r
<1>4. ASSUME NEW f \in S PROVE f.dcm > n \/ f.node \in Spines \ Range(l) \/ WillGo(f, u)
  <2>2. f.dcm > n \/ f.node \in Spines \ Range(l) \/ WillGo(f, s)
    BY DEF Remaining
  <2>3. CASE Get(f.node, f.dcm) \in Range(s)
    <3>1. CASE Get(f.node, f.dcm) = r
      <4>1. f.node = r.node /\ f.dcm = r.dcm
        BY <3>1 DEF Get
      <4>2. Delete(f) \in Range(u)
        BY <1>1, <1>3, <4>1
      <4>3. Delete(f).op = "delete" /\ SameId(Delete(f).flow, f)
        BY DEF Delete, SameId
      <4> QED
        BY <4>2, <4>3 DEF WillGo
    <3>2. CASE Get(f.node, f.dcm) # r
      BY <1>1, <2>3, <3>2 DEF WillGo
    <3> QED
      BY <3>1, <3>2
  <2>4. ASSUME NEW q \in Range(s), q.op = "delete" /\ SameId(q.flow, f) PROVE WillGo(f, u)
    <3>1. q # r
      BY <1>2, <2>4
    <3> QED
      BY <1>1, <2>4, <3>1 DEF WillGo
  <2> QED
    BY <2>2, <2>3, <2>4 DEF WillGo
<1>5. Remaining(u, S, n, l)
  BY <1>4 DEF Remaining
<1> QED
  BY <1>5 DEF t, u

\* The requests of a removal: each id is looked for on each bridge that is listed.
LookFor(nodes, id) == [n \in DOMAIN nodes |-> Get(nodes[n], id)]
Removal(order, nodes) == FlattenSeq([k \in DOMAIN order |-> LookFor(nodes, order[k])])

LEMMA LookForIs ==
  ASSUME NEW s \in BridgeLists, NEW id \in Nat
  PROVE  LookFor(s, id) \in Seq(Gets) /\ Range(LookFor(s, id)) = {Get(n, id) : n \in Range(s)}
<1> DEFINE t == LookFor(s, id)
           N == Len(s)
<1>1. N \in Nat /\ DOMAIN s = 1 .. N /\ \A n \in 1 .. N : s[n] \in Bridges
  <2> DEFINE B == Bridges
  <2>1. s \in Seq(B)
    BY TopologyAssumption
  <2> HIDE DEF B
  <2> QED
    BY <2>1 DEF B
<1>2. t = [n \in DOMAIN s |-> Get(s[n], id)]
  BY DEF LookFor
<1> HIDE DEF t, N
<1>3. DOMAIN t = 1 .. N /\ \A n \in 1 .. N : t[n] = Get(s[n], id)
  BY <1>1, <1>2
<1>4. \A n \in 1 .. N : t[n] \in Gets
  BY <1>1, <1>3 DEF Get, Gets
<1>5. t \in Seq(Gets)
  <2>1. t \in [1 .. N -> Gets]
    <3> DEFINE G == Gets
    <3> HIDE DEF G
    <3> QED
      BY <1>1, <1>2, <1>3, <1>4 DEF G
  <2> QED
    BY <1>1, <2>1, SeqDef
<1>6. Range(t) = {Get(n, id) : n \in Range(s)}
  BY <1>1, <1>3 DEF Range
<1> QED
  BY <1>5, <1>6 DEF t

LEMMA RemovalLooks ==
  ASSUME running \subseteq Procs, NEW d \in Scanned, NEW l \in SpineLists, NEW nodes \in BridgeLists,
         Range(nodes) = Ends \cup Leaves \cup Range(l),
         NEW order \in SetToSeqs(DOMAIN d), NEW s, s = Removal(order, nodes)
  PROVE  s \in Seq(Gets) /\ \A S \in SUBSET Flow : Remaining(s, S, Cardinality(running), l)
<1> DEFINE n == Cardinality(DOMAIN d)
           Q == Seq(Gets)
           ss == [k \in DOMAIN order |-> LookFor(nodes, order[k])]
<1>0. Len(d) = Cardinality(running) /\ Len(d) \in Nat /\ DOMAIN d = 1 .. Len(d)
  BY ScannedDumped DEF Dumped
<1>1. IsFiniteSet(DOMAIN d)
  BY <1>0, FS_Interval
<1>2. /\ n \in Nat /\ order \in [1 .. n -> DOMAIN d] /\ DOMAIN order = 1 .. n
      /\ \A id \in DOMAIN d : \E i \in 1 .. n : order[i] = id
  BY <1>1, OrderCovers
<1> HIDE DEF n
<1>3. \A k \in 1 .. n : order[k] \in Nat
  BY <1>0, <1>2
<1>4. \A k \in 1 .. n : LookFor(nodes, order[k]) \in Q /\ Range(LookFor(nodes, order[k])) = {Get(m, order[k]) : m \in Range(nodes)}
  BY <1>3, LookForIs
<1>5. /\ DOMAIN ss = 1 .. n /\ ss \in [1 .. n -> Q]
      /\ \A k \in 1 .. n : Range(ss[k]) = {Get(m, order[k]) : m \in Range(nodes)}
  BY <1>2, <1>4
<1>6. s = FlattenSeq(ss)
  BY DEF Removal
<1> HIDE DEF ss
<1>7. ss \in Seq(Q) /\ Len(ss) = n
  <2> HIDE DEF Q
  <2>1. ss \in Seq(Q)
    BY <1>2, <1>5, SeqDef
  <2> QED
    BY <1>2, <1>5, <2>1
<1>8. s \in Seq(Gets)
  <2> DEFINE G == Gets
  <2>1. Q \subseteq Seq(G) /\ <<>> \in Q /\ \A a, b \in Q : a \o b \in Q
    <3>1. \A a, b \in Seq(G) : a \o b \in Seq(G)
      <4> HIDE DEF G
      <4> QED
        BY ConcatProperties
    <3>2. <<>> \in Seq(G)
      OBVIOUS
    <3> QED
      BY <3>1, <3>2
  <2> HIDE DEF Q, G
  <2>2. FlattenSeq(ss) \in Q
    BY <1>7, <2>1, FlattenIn
  <2> QED
    BY <1>6, <2>2 DEF Q
<1>9. Range(s) = UNION {Range(ss[k]) : k \in 1 .. n}
  <2> DEFINE G == Gets
  <2> HIDE DEF G
  <2>1. ss \in Seq(Seq(G))
    BY <1>7 DEF G
  <2> QED
    BY <1>6, <1>7, <2>1, FlattenRange
<1>10. ASSUME NEW S \in SUBSET Flow, NEW f \in S
       PROVE  f.dcm > Cardinality(running) \/ f.node \in Spines \ Range(l) \/ WillGo(f, s)
  <2>1. f \in Flow
    OBVIOUS
  <2>2. f.node \in Bridges /\ f.dcm \in Nat \ {0}
    <3>1. Cardinality(Procs) \in Nat
      BY DcmAssumption, FS_CardinalityType
    <3> QED
      BY <2>1, <3>1 DEF Flow
  <2> SUFFICES ASSUME ~(f.dcm > Cardinality(running)), f.node \notin Spines \ Range(l) PROVE WillGo(f, s)
    OBVIOUS
  <2>3. f.dcm \in DOMAIN d
    BY <1>0, <2>2
  <2>4. f.node \in Range(nodes)
    BY <2>2 DEF Bridges
  <2>5. PICK k \in 1 .. n : order[k] = f.dcm
    BY <1>2, <2>3
  <2>6. Get(f.node, f.dcm) \in Range(ss[k])
    BY <1>5, <2>4, <2>5
  <2> QED
    BY <1>9, <2>6 DEF WillGo
<1> QED
  BY <1>8, <1>10 DEF Remaining
-----------------------------------------------------------------------------
(* The planes that a packet comes to. *)

\* A table with a way out of each ring.
Sound == Laid /\ Closed(table)

\* A bridge of plane x, and the ports by which a packet may come in there.
InPlane(n, x) == n \in Leaves \cup Spines /\ n[2] = x
CameBy(n, from, c) == from \in Bridges \/ from = Dropped \/ RingTo(n, c, from)

\* A connection enters plane x at the end node it comes from.
Enters(S, c, x) ==
  \/ \E g \in S : g.node = Src[c] /\ g.match = c /\ g.to = Leaf(x, PodOf[Src[c]])
  \/ x = DefaultPlane /\ \A g \in S : ~(g.node = Src[c] /\ g.match = c)
\* The last leaf of plane x has a flow for it.
HasLast(S, c, x) == \E g \in S : g.node = LastLeaf(x, c) /\ g.match = c
Reaches(S, c) == \A x \in Planes : Enters(S, c, x) => HasLast(S, c, x)

\* On a way a packet stays in its plane or comes home.
LEMMA TowardsInPlane ==
  ASSUME NEW x, NEW c \in Conns, NEW n, InPlane(n, x), NEW to, Towards(n, Dst[c], to)
  PROVE  (to = Dst[c] /\ Inland(n, c)) \/ InPlane(to, x)
<1> DEFINE D == Dst[c]
<1>0. D \in Ends /\ PodOf[D] \in Pods
  BY DstIsEnd, Names
<1> HIDE DEF D
<1>1. /\ n \in Spines => to = Leaf(n[2], PodOf[D])
      /\ n \in Leaves /\ n[3] = PodOf[D] => to = D
      /\ n \in Leaves /\ n[3] # PodOf[D] => to \in Spines /\ to[2] = n[2]
  <2>1. Towards(n, D, to)
    BY DEF D
  <2> QED
    BY <1>0, <2>1, TowardsFrom
<1>2. CASE n \in Spines
  <2>1. n[2] \in Planes /\ Leaf(n[2], PodOf[D]) \in Leaves /\ Leaf(n[2], PodOf[D])[2] = n[2]
    BY <1>0, <1>2, Names
  <2> QED
    BY <1>1, <1>2, <2>1 DEF InPlane
<1>3. CASE n \in Leaves
  BY <1>1, <1>3 DEF InPlane, Inland, Pod, D
<1> QED
  BY <1>2, <1>3 DEF InPlane

LEMMA DefaultsInPlane ==
  ASSUME NEW x, NEW c \in Conns, NEW n, InPlane(n, x), NEW from, NEW to \in Defaults(n, from, Dst[c])
  PROVE  (to = Dst[c] /\ Inland(n, c)) \/ InPlane(to, x)
<1> DEFINE D == Dst[c]
<1>0. D \in Ends /\ PodOf[D] \in Pods
  BY DstIsEnd, Names
<1> HIDE DEF D
<1>1. to \in Defaults(n, from, D)
  BY DEF D
<1>2. n \notin Ends
  BY Names DEF InPlane
<1>3. CASE n \in Spines
  <2>1. n[2] \in Planes /\ Leaf(n[2], PodOf[D]) \in Leaves /\ Leaf(n[2], PodOf[D])[2] = n[2]
    BY <1>0, <1>3, Names
  <2>2. to = Leaf(n[2], PodOf[D])
    BY <1>1, <1>2, <1>3 DEF Defaults
  <2> QED
    BY <2>1, <2>2, <1>3 DEF InPlane
<1>4. CASE n \in Leaves
  <2>1. n \notin Spines /\ n[2] \in Planes
    BY <1>4, Names
  <2>2. to = <<"spine", n[2], DefaultSpine>> \/ (PodOf[D] = n[3] /\ to = D)
    BY <1>1, <1>2, <2>1 DEF Defaults
  <2>3. <<"spine", n[2], DefaultSpine>> \in Spines
    BY <2>1, TopologyAssumption
  <2>4. <<"spine", n[2], DefaultSpine>>[2] = n[2]
    OBVIOUS
  <2> QED
    BY <1>4, <2>2, <2>3, <2>4 DEF InPlane, Inland, Pod, D
<1> QED
  BY <1>3, <1>4 DEF InPlane

\* One hop in a plane.
LEMMA HopInPlane ==
  ASSUME Sound, NEW c \in Conns, NEW x, NEW n, InPlane(n, x), NEW from, CameBy(n, from, c),
         NEW q \in Hop(<<n, from>>, c)
  PROVE  \/ q = <<Dst[c], n>> /\ Inland(n, c)
         \/ /\ q = <<q[1], q[2]>> /\ InPlane(q[1], x) /\ CameBy(q[1], q[2], c)
            /\ q[1] = n \/ q[2] = n
<1> DEFINE Goal == \/ q = <<Dst[c], n>> /\ Inland(n, c)
                   \/ /\ q = <<q[1], q[2]>> /\ InPlane(q[1], x) /\ CameBy(q[1], q[2], c)
                      /\ q[1] = n \/ q[2] = n
<1> SUFFICES Goal
  OBVIOUS
<1>0. SaneTable /\ Dumped(dcms) /\ Closed(table) /\ Dst[c] \in Ends /\ n \in Bridges
  BY DstIsEnd DEF Sound, Laid, InPlane, Bridges
<1>1. ASSUME NEW to, (to = Dst[c] /\ Inland(n, c)) \/ InPlane(to, x), q = <<to, n>> PROVE Goal
  BY <1>0, <1>1 DEF CameBy
<1>2. ASSUME q = <<n, Dropped>> PROVE Goal
  BY <1>2 DEF CameBy
<1>3. ASSUME NEW to, RingTo(n, c, to), q = <<n, to>> PROVE Goal
  BY <1>3 DEF CameBy
<1> HIDE DEF Goal
<1>4. CASE from = Dropped
  BY <1>2, <1>4, HopStops DEF Stopped
<1>5. CASE RingTo(n, c, from)
  <2>1. PICK to : Towards(n, Dst[c], to) /\ q = <<to, n>>
    BY <1>0, <1>5, HopOut
  <2> QED
    BY <1>1, <2>1, TowardsInPlane
<1>6. CASE from \in Bridges /\ Matching(n, c) # {}
  <2>1. \/ \E to : Towards(n, Dst[c], to) /\ q = IF to = from THEN <<n, Dropped>> ELSE <<to, n>>
        \/ \E to : RingTo(n, c, to) /\ q = <<n, to>>
    BY <1>0, <1>6, HopByFlow
  <2>2. ASSUME NEW to, Towards(n, Dst[c], to), q = IF to = from THEN <<n, Dropped>> ELSE <<to, n>>
        PROVE  Goal
    BY <1>1, <1>2, <2>2, TowardsInPlane
  <2> QED
    BY <1>3, <2>1, <2>2
<1>7. CASE from \in Bridges /\ Matching(n, c) = {}
  <2>1. PICK to \in Defaults(n, from, Dst[c]) :
          q = IF to = Local THEN <<n, Taken>> ELSE IF to = from THEN <<n, Dropped>> ELSE <<to, n>>
    BY <1>0, <1>7, HopByDefault
  <2>2. (to = Dst[c] /\ Inland(n, c)) \/ InPlane(to, x)
    BY DefaultsInPlane
  <2>3. to # Local
    BY <1>0, <2>2, BridgeNames DEF InPlane, Bridges
  <2> QED
    BY <1>1, <1>2, <2>1, <2>2, <2>3
<1> QED
  BY <1>4, <1>5, <1>6, <1>7 DEF CameBy

\* The first hop is into a plane that the connection enters.
LEMMA SourceHop ==
  ASSUME Sound, NEW c \in Conns, NEW q \in Hop(<<Src[c], Local>>, c)
  PROVE  \E x \in Planes : Enters(table, c, x) /\ q = <<Leaf(x, PodOf[Src[c]]), Src[c]>>
<1> DEFINE n == Src[c]
<1>0. Dst[c] \in Ends /\ SaneTable /\ Dumped(dcms) /\ Closed(table) /\ n \in Ends /\ n \in Bridges
      /\ PodOf[n] \in Pods
  BY DstIsEnd, Names DEF Sound, Laid, Bridges
<1>1. PICK to \in NextHops(n, Local, c) : q = Sent(n, Local, to)
  <2>1. ~Stopped(Local)
    BY BridgeNames
  <2> QED
    BY <2>1, HopSends
<1>2. NextHops(n, Local, c) = IF Matching(n, c) # {} THEN Matching(n, c) ELSE Defaults(n, Local, Dst[c])
  BY <1>0, MatchingPort DEF NextHops
<1>3. \E x \in Planes : Enters(table, c, x) /\ to = Leaf(x, PodOf[n])
  <2>1. CASE Matching(n, c) # {}
    <3>1. to \in Matching(n, c)
      BY <1>1, <1>2, <2>1
    <3>2. Towards(n, Dst[c], to) \/ RingTo(n, c, to)
      BY <1>0, <3>1, MatchingConn
    <3>3. PICK x \in Planes : to = Leaf(x, PodOf[n])
      BY <1>0, <3>2, TowardsFromEnd DEF RingTo
    <3>4. \E g \in table : g.node = n /\ g.match = c /\ g.to = to
      BY <3>1 DEF Matching
    <3> QED
      BY <3>3, <3>4 DEF Enters
  <2>2. CASE Matching(n, c) = {}
    <3>1. to \in Defaults(n, Local, Dst[c])
      BY <1>1, <1>2, <2>2
    <3>2. to = Leaf(DefaultPlane, PodOf[n])
      <4> HIDE DEF n
      <4> QED
        BY <1>0, <3>1 DEF Defaults
    <3>3. \A g \in table : ~(g.node = n /\ g.match = c)
      BY <2>2 DEF Matching
    <3> QED
      BY <3>2, <3>3, TopologyAssumption DEF Enters
  <2> QED
    BY <2>1, <2>2
<1>4. q = <<to, n>>
  <2>1. PICK x \in Planes : to = Leaf(x, PodOf[n])
    BY <1>3
  <2>2. to[1] = "pod"
    BY <1>0, <2>1, Names
  <2>3. to # Local /\ to \notin Rings
    BY <2>2, Names
  <2> QED
    BY <1>1, <2>3 DEF Sent
<1> QED
  BY <1>3, <1>4

LEMMA EnteredHop ==
  ASSUME Sound, NEW c \in Conns, NEW x \in Planes, Enters(table, c, x)
  PROVE  <<Leaf(x, PodOf[Src[c]]), Src[c]>> \in Hop(<<Src[c], Local>>, c)
<1> DEFINE n == Src[c]
           to == Leaf(x, PodOf[n])
<1>0. Dst[c] \in Ends /\ SaneTable /\ Dumped(dcms) /\ Closed(table) /\ n \in Ends /\ n \in Bridges
      /\ PodOf[n] \in Pods
  BY DstIsEnd, Names DEF Sound, Laid, Bridges
<1>1. to \in NextHops(n, Local, c)
  <2>1. NextHops(n, Local, c) = IF Matching(n, c) # {} THEN Matching(n, c) ELSE Defaults(n, Local, Dst[c])
    BY <1>0, MatchingPort DEF NextHops
  <2>2. CASE \E g \in table : g.node = n /\ g.match = c /\ g.to = to
    <3>1. to \in Matching(n, c)
      BY <2>2 DEF Matching
    <3> QED
      BY <2>1, <3>1
  <2>3. CASE x = DefaultPlane /\ \A g \in table : ~(g.node = n /\ g.match = c)
    <3>1. Matching(n, c) = {}
      BY <2>3 DEF Matching
    <3>2. to \in Defaults(n, Local, Dst[c])
      <4>1. to = Leaf(DefaultPlane, PodOf[n])
        BY <2>3
      <4> HIDE DEF n, to
      <4> QED
        BY <1>0, <4>1 DEF Defaults
    <3> QED
      BY <2>1, <3>1, <3>2
  <2> QED
    BY <2>2, <2>3 DEF Enters
<1>2. to[1] = "pod" /\ to # Local /\ to \notin Rings
  BY <1>0, Names
<1> HIDE DEF n, to
<1>3. Sent(n, Local, to) = <<to, n>>
  BY <1>2 DEF Sent
<1>4. Local \notin {<<"dropped">>, <<"taken">>}
  BY DEF Local
<1>5. <<n, Local>>[1] = n /\ <<n, Local>>[2] = Local
  OBVIOUS
<1>6. Sent(n, Local, to) \in Hop(<<n, Local>>, c)
  <2> DEFINE N == NextHops(n, Local, c)
  <2>1. Hop(<<n, Local>>, c) = {Sent(n, Local, t) : t \in N}
    BY <1>4, <1>5, Zenon DEF Hop, Sent, Taken, Dropped
  <2> QED
    BY <1>1, <2>1
<1> QED
  BY <1>3, <1>6 DEF n, to

\* A packet in a plane whose last leaf has no flow for it has not come home.
Lost(pos, x, c) ==
  /\ pos = <<pos[1], pos[2]>> /\ InPlane(pos[1], x) /\ CameBy(pos[1], pos[2], c)
  /\ Inland(pos[1], c) => pos[2] \in Bridges \cup {Dropped}

LEMMA LostStays ==
  ASSUME Sound, NEW c \in Conns, NEW x \in Planes, ~HasLast(table, c, x), NEW pos, Lost(pos, x, c)
  PROVE  \E q \in Hop(pos, c) : Lost(q, x, c)
<1> DEFINE n == pos[1]
           from == pos[2]
<1>0. pos = <<n, from>> /\ InPlane(n, x) /\ CameBy(n, from, c)
      /\ (Inland(n, c) => from \in Bridges \cup {Dropped})
  BY DEF Lost
<1>1. \E q \in Hop(<<n, from>>, c) : Lost(q, x, c)
  <2> HIDE DEF n, from
  <2>1. CASE from = Dropped
    <3>1. Hop(<<n, from>>, c) = {<<n, from>>}
      BY <2>1, HopStops DEF Stopped
    <3>2. Lost(<<n, from>>, x, c)
      BY <1>0 DEF Lost
    <3> QED
      BY <3>1, <3>2
  <2>2. CASE ~Inland(n, c)
    <3>1. PICK q \in Hop(<<n, from>>, c) : TRUE
      BY HopSome
    <3>2. /\ q = <<q[1], q[2]>> /\ InPlane(q[1], x) /\ CameBy(q[1], q[2], c)
          /\ q[1] = n \/ q[2] = n
      BY <1>0, <2>2, HopInPlane
    <3>3. n \in Bridges
      BY <1>0 DEF InPlane, Bridges
    <3>4. Lost(q, x, c)
      BY <2>2, <3>2, <3>3 DEF Lost
    <3> QED
      BY <3>4
  <2>3. CASE Inland(n, c) /\ from \in Bridges
    <3> DEFINE D == Dst[c]
               s == SpineOf(x)
    <3>0. D \in Ends /\ PodOf[D] \in Pods /\ SaneTable
      BY DstIsEnd, Names DEF Sound, Laid
    <3>1. n \in Leaves /\ n[3] = PodOf[D] /\ n[2] = x /\ n = Leaf(x, PodOf[D]) /\ n \notin Ends /\ n \notin Spines
      BY <1>0, <2>3, Names DEF Inland, InPlane, Pod
    <3>2. Matching(n, c) = {}
      <4>1. \A g \in table : ~(g.node = n /\ g.match = c)
        BY <3>1 DEF HasLast, LastLeaf, Pod
      <4> QED
        BY <4>1 DEF Matching
    <3>3. Matching(n, from) = {}
      BY <2>3, <3>0, MatchingPort
    <3>4. NextHops(n, from, c) = Defaults(n, from, D)
      BY <3>2, <3>3 DEF NextHops
    <3>5. s \in Defaults(n, from, D)
      <4> HIDE DEF D
      <4> QED
        BY <3>1 DEF Defaults, SpineOf
    <3>6. s \in Spines /\ s[2] = x
      BY TopologyAssumption DEF SpineOf
    <3> HIDE DEF s, D
    <3>7. s # Local /\ s \notin Rings /\ s \in Bridges /\ ~Inland(s, c)
      BY <3>6, Names DEF Inland, Bridges
    <3>8. Sent(n, from, s) = IF s = from THEN <<n, Dropped>> ELSE <<s, n>>
      BY <3>7 DEF Sent
    <3>9. Sent(n, from, s) \in Hop(<<n, from>>, c)
      <4> DEFINE N == NextHops(n, from, c)
      <4>1. from \notin {<<"dropped">>, <<"taken">>}
        BY <2>3, BridgeNames DEF Stopped, Taken, Dropped
      <4>2. <<n, from>>[1] = n /\ <<n, from>>[2] = from
        OBVIOUS
      <4>3. Hop(<<n, from>>, c) = {Sent(n, from, t) : t \in N}
        BY <4>1, <4>2, Zenon DEF Hop, Sent, Taken, Dropped
      <4>4. s \in N
        BY <3>4, <3>5
      <4> QED
        BY <4>3, <4>4
    <3>10. n \in Bridges /\ InPlane(n, x) /\ InPlane(s, x)
      BY <1>0, <3>1, <3>6 DEF Bridges, InPlane
    <3>11. Lost(<<n, Dropped>>, x, c)
      BY <3>10 DEF Lost, CameBy
    <3>12. Lost(<<s, n>>, x, c)
      BY <3>7, <3>10 DEF Lost, CameBy
    <3> QED
      BY <3>8, <3>9, <3>11, <3>12
  <2> QED
    BY <1>0, <2>1, <2>2, <2>3
<1> QED
  BY <1>0, <1>1

\* The places a packet may come to: its source, the planes it enters, its end node.
Entered(pos, c) ==
  \/ pos = <<Src[c], Local>>
  \/ pos[1] = Dst[c] /\ pos[2] \in Leaves \cup {Taken}
  \/ \E x \in Planes : Enters(table, c, x) /\ InPlane(pos[1], x) /\ CameBy(pos[1], pos[2], c)
Places(c) == {pos \in Bridges \X Ports : Entered(pos, c)}

LEMMA PlacesTyped ==
  ASSUME Sound, NEW c \in Conns, NEW n, NEW from, Entered(<<n, from>>, c)
  PROVE  <<n, from>> \in Places(c)
<1>0. Dumped(dcms) /\ Dst[c] \in Bridges /\ Src[c] \in Bridges
  BY DstIsEnd DEF Sound, Laid, Bridges
<1>z. <<n, from>>[1] = n /\ <<n, from>>[2] = from
  OBVIOUS
<1>1. CASE <<n, from>> = <<Src[c], Local>>
  BY <1>0, <1>1 DEF Ports, Places
<1>2. CASE n = Dst[c] /\ from \in Leaves \cup {Taken}
  BY <1>0, <1>2 DEF Ports, Places, Bridges
<1>3. CASE \E x \in Planes : Enters(table, c, x) /\ InPlane(n, x) /\ CameBy(n, from, c)
  <2>1. n \in Bridges
    BY <1>3 DEF InPlane, Bridges
  <2>2. RingTo(n, c, from) => from \in Ports
    BY <1>0, RingIsRing DEF RingTo, Ports
  <2>3. from \in Ports
    BY <1>3, <2>2 DEF CameBy, Ports
  <2> QED
    BY <2>1, <2>3 DEF Places
<1> QED
  BY <1>1, <1>2, <1>3, <1>z DEF Entered

LEMMA PlacesClosed ==
  ASSUME Sound, NEW c \in Conns
  PROVE  <<Src[c], Local>> \in Places(c) /\ \A pos \in Places(c) : Hop(pos, c) \subseteq Places(c)
<1>0. Dst[c] \in Bridges /\ Src[c] \in Bridges /\ Src[c] \in Ends /\ Dst[c] \in Ends
  BY DstIsEnd DEF Bridges
<1>1. <<Src[c], Local>> \in Places(c)
  BY PlacesTyped DEF Entered
<1>2. ASSUME NEW n, NEW from, Entered(<<n, from>>, c), NEW q \in Hop(<<n, from>>, c)
      PROVE  q = <<q[1], q[2]>> /\ Entered(q, c)
  <2>z. <<n, from>>[1] = n /\ <<n, from>>[2] = from
    OBVIOUS
  <2>1. CASE n = Src[c] /\ from = Local
    <3>1. PICK x \in Planes : Enters(table, c, x) /\ q = <<Leaf(x, PodOf[Src[c]]), Src[c]>>
      BY <2>1, SourceHop
    <3>2. InPlane(Leaf(x, PodOf[Src[c]]), x)
      BY <1>0, Names DEF InPlane
    <3> QED
      BY <1>0, <3>1, <3>2 DEF Entered, CameBy
  <2>2. CASE n = Dst[c] /\ from \in Leaves
    <3>1. q = <<Dst[c], Taken>>
      BY <2>2, FromHome DEF Sound
    <3> QED
      BY <3>1 DEF Entered
  <2>3. CASE n = Dst[c] /\ from = Taken
    <3>1. q = <<Dst[c], Taken>>
      BY <2>3, HopStops DEF Stopped
    <3> QED
      BY <3>1 DEF Entered
  <2>4. CASE \E x \in Planes : Enters(table, c, x) /\ InPlane(n, x) /\ CameBy(n, from, c)
    <3>1. PICK x \in Planes : Enters(table, c, x) /\ InPlane(n, x) /\ CameBy(n, from, c)
      BY <2>4
    <3>2. \/ q = <<Dst[c], n>> /\ Inland(n, c)
          \/ q = <<q[1], q[2]>> /\ InPlane(q[1], x) /\ CameBy(q[1], q[2], c)
      BY <3>1, HopInPlane
    <3> QED
      BY <3>1, <3>2 DEF Entered, Inland
  <2> QED
    BY <1>2, <2>1, <2>2, <2>3, <2>4, <2>z DEF Entered
<1>3. ASSUME NEW pos \in Places(c), NEW q \in Hop(pos, c) PROVE q \in Places(c)
  <2> DEFINE n == pos[1]
             from == pos[2]
  <2>1. pos = <<n, from>> /\ Entered(pos, c)
    BY DEF Places
  <2>2. Entered(<<n, from>>, c) /\ q \in Hop(<<n, from>>, c)
    BY <2>1
  <2> HIDE DEF n, from
  <2>3. q = <<q[1], q[2]>> /\ Entered(q, c)
    BY <1>2, <2>2
  <2> DEFINE a == q[1]
             b == q[2]
  <2>4. q = <<a, b>> /\ Entered(<<a, b>>, c)
    BY <2>3
  <2> HIDE DEF a, b
  <2> QED
    BY <2>4, PlacesTyped
<1> QED
  BY <1>1, <1>3

\* A walk stays where hops stay.
LEMMA WalkStays ==
  ASSUME NEW c, NEW G, <<Src[c], Local>> \in G, \A pos \in G : Hop(pos, c) \subseteq G
  PROVE  Walk(c) \subseteq G
<1>1. PICK f : Walks(f, c) /\ Walk(c) = f[MaxHops]
  BY WalkBySome
<1>m. MaxHops = 12 /\ 0 \in Int /\ MaxHops \in Int
  BY DEF MaxHops
<1> DEFINE T == {k \in 0 .. MaxHops : f[k] \subseteq G}
<1>2. 0 \in T
  BY <1>1, <1>m DEF Walks
<1>3. ASSUME NEW k \in 0 .. MaxHops - 1, k \in T PROVE k + 1 \in T
  <2> DEFINE j == k + 1
  <2>1. j \in 1 .. MaxHops /\ j - 1 = k /\ j \in 0 .. MaxHops
    BY <1>m
  <2> HIDE DEF j
  <2>2. f[j] = UNION {Hop(pos, c) : pos \in f[j - 1]}
    BY <1>1, <2>1 DEF Walks
  <2>3. f[k] \subseteq G
    BY <1>3
  <2>4. f[j] \subseteq G
    BY <2>1, <2>2, <2>3
  <2>5. j \in T
    BY <2>1, <2>4
  <2> QED
    BY <2>5 DEF j
<1>4. 0 .. MaxHops \subseteq T
  <2> HIDE DEF T
  <2> QED
    BY <1>2, <1>3, <1>m, RangeInduction
<1> QED
  BY <1>1, <1>4, <1>m

\* A walk has somewhere to be among places that each have a hop to one of them.
LEMMA WalkGoesOn ==
  ASSUME NEW c, NEW G, <<Src[c], Local>> \in G, \A pos \in G : Hop(pos, c) \subseteq G,
         NEW L, Hop(<<Src[c], Local>>, c) \cap L # {}, \A pos \in L : Hop(pos, c) \cap L # {}
  PROVE  Walk(c) \cap L # {}
<1>1. PICK f : Walks(f, c) /\ Walk(c) = f[MaxHops]
  BY WalkBySome
<1>m. MaxHops = 12 /\ 1 \in Int /\ MaxHops \in Int
  BY DEF MaxHops
<1> DEFINE T == {k \in 1 .. MaxHops : f[k] \cap L # {}}
<1>2. 1 \in T
  <2>1. f[1] = UNION {Hop(pos, c) : pos \in f[0]}
    <3> DEFINE j == 1
    <3>1. j \in 1 .. MaxHops /\ j - 1 = 0
      BY <1>m
    <3> HIDE DEF j
    <3>2. f[j] = UNION {Hop(pos, c) : pos \in f[j - 1]}
      BY <1>1, <3>1 DEF Walks
    <3> QED
      BY <3>1, <3>2 DEF j
  <2>2. f[0] = {<<Src[c], Local>>}
    BY <1>1 DEF Walks
  <2>3. f[1] = Hop(<<Src[c], Local>>, c)
    BY <2>1, <2>2
  <2> QED
    BY <1>m, <2>3
<1>3. ASSUME NEW k \in 1 .. MaxHops - 1, k \in T PROVE k + 1 \in T
  <2> DEFINE j == k + 1
  <2>1. j \in 1 .. MaxHops /\ j - 1 = k
    BY <1>m
  <2> HIDE DEF j
  <2>2. f[j] = UNION {Hop(pos, c) : pos \in f[j - 1]}
    BY <1>1, <2>1 DEF Walks
  <2>3. f[k] \cap L # {}
    BY <1>3
  <2>4. PICK pos \in f[k] : pos \in L
    BY <2>3
  <2>5. Hop(pos, c) \cap L # {}
    BY <2>4
  <2>6. f[j] \cap L # {}
    BY <2>1, <2>2, <2>4, <2>5
  <2>7. j \in T
    BY <2>1, <2>6
  <2> QED
    BY <2>7 DEF j
<1>4. 1 .. MaxHops \subseteq T
  <2> HIDE DEF T
  <2> QED
    BY <1>2, <1>3, <1>m, RangeInduction
<1> QED
  BY <1>1, <1>4, <1>m

\* A connection is delivered if and only if each plane it enters has a flow for it at
\* its last leaf.
LEMMA ReachedIsDelivered ==
  ASSUME Sound, NEW c \in Conns, Reaches(table, c)
  PROVE  Delivered(c)
<1>1. Walk(c) # {} /\ \A pos \in Walk(c) : Over(pos[1], pos[2], c) /\ pos = <<pos[1], pos[2]>>
  BY WalkIsOver DEF Sound
<1>2. Walk(c) \subseteq Places(c)
  BY PlacesClosed, WalkStays
<1>3. ASSUME NEW pos \in Walk(c) PROVE pos = <<Dst[c], Taken>>
  <2> DEFINE n == pos[1]
             from == pos[2]
  <2>1. pos = <<n, from>> /\ Over(n, from, c) /\ Entered(pos, c)
    BY <1>1, <1>2 DEF Places
  <2>2. CASE from = Dropped /\ n \in Leaves \cup Spines /\ Blank(n[2], c)
    <3>1. pos # <<Src[c], Local>>
      <4>1. Local[1] = "local" /\ Dropped[1] = "dropped"
        BY DEF Local, Dropped
      <4> QED
        BY <2>2, <4>1
    <3>2. ~(pos[1] = Dst[c] /\ pos[2] \in Leaves \cup {Taken})
      BY <2>2, DstIsEnd, Names
    <3>3. PICK x \in Planes : Enters(table, c, x) /\ InPlane(n, x)
      BY <2>1, <3>1, <3>2 DEF Entered
    <3>4. HasLast(table, c, x) /\ n[2] = x
      BY <3>3 DEF Reaches, InPlane
    <3>5. Matching(LastLeaf(x, c), c) # {}
      BY <3>4 DEF HasLast, Matching
    <3> QED
      BY <2>2, <3>4, <3>5 DEF Blank
  <2> QED
    BY <2>1, <2>2 DEF Over, Sound
<1> QED
  BY <1>1, <1>3 DEF Delivered, Taken

LEMMA DeliveredIsReached ==
  ASSUME Sound, NEW c \in Conns, Delivered(c)
  PROVE  Reaches(table, c)
<1> SUFFICES ASSUME NEW x \in Planes, Enters(table, c, x), ~HasLast(table, c, x) PROVE FALSE
  BY DEF Reaches
<1> DEFINE G == Places(c)
           L == {pos \in G : Lost(pos, x, c)}
<1>0. Dst[c] \in Ends /\ Src[c] \in Bridges /\ PodOf[Src[c]] \in Pods
  BY DstIsEnd, Names DEF Bridges
<1>1. <<Src[c], Local>> \in G /\ \A pos \in G : Hop(pos, c) \subseteq G
  BY PlacesClosed
<1>2. Hop(<<Src[c], Local>>, c) \cap L # {}
  <2> DEFINE l == Leaf(x, PodOf[Src[c]])
             q == <<l, Src[c]>>
  <2>1. q \in Hop(<<Src[c], Local>>, c)
    BY EnteredHop
  <2>2. l \in Leaves /\ l[2] = x
    BY <1>0, Names
  <2>3. Lost(q, x, c)
    BY <1>0, <2>2 DEF Lost, InPlane, CameBy
  <2> HIDE DEF G, q
  <2>4. q \in G
    BY <1>1, <2>1
  <2> QED
    BY <2>1, <2>3, <2>4
<1>3. ASSUME NEW pos \in L PROVE Hop(pos, c) \cap L # {}
  <2>1. PICK q \in Hop(pos, c) : Lost(q, x, c)
    BY LostStays
  <2> HIDE DEF G
  <2>2. q \in G
    BY <1>1
  <2> QED
    BY <2>1, <2>2
<1>4. Walk(c) \cap L # {}
  <2> HIDE DEF G, L
  <2> QED
    BY <1>1, <1>2, <1>3, WalkGoesOn
<1>5. PICK pos \in Walk(c) : Lost(pos, x, c)
  BY <1>4
<1>6. pos = <<Dst[c], Taken>>
  BY <1>5 DEF Delivered, Taken
<1>7. pos[1] = Dst[c]
  BY <1>6
<1> QED
  BY <1>0, <1>5, <1>7, Names DEF Lost, InPlane

LEMMA SoundReaches == Sound => \A c \in Conns : Delivered(c) <=> Reaches(table, c)
BY ReachedIsDelivered, DeliveredIsReached
-----------------------------------------------------------------------------
(* A distribution asks for the last leaf first. *)
\* The flow at the last leaf of the plane that a flow at an end node leads into.
IsLastOf(d, g, f) ==
  g.node = Leaf(f.to[2], PodOf[NodeOf[d[f.dcm]]]) /\ g.dcm = f.dcm /\ g.k = f.k

\* Flows of one id are for one connection.
LEMMA SameConn ==
  ASSUME Dumped(dcms), NEW f, NEW g, Sane(f), Sane(g), f.dcm = g.dcm, f.k = g.k, g.match \in Conns
  PROVE  f.match = g.match /\ Dst[g.match] = Home(g.dcm) /\ g.k # 0
<1>1. g.dcm \in DOMAIN dcms /\ dcms[g.dcm] \in Procs
  BY RingIsRing DEF Sane
<1>2. ~OutFlow(g)
  BY Names DEF OutFlow
<1>3. g.k \in DOMAIN Inflows[dcms[g.dcm]] /\ g.match = Inflows[dcms[g.dcm]][g.k]
  BY <1>2 DEF Sane, InFlow
<1>4. g.k \in Nat \ {0}
  BY <1>1, <1>3, DcmAssumption
<1>5. f.match = g.match
  BY <1>3, <1>4 DEF Sane, InFlow, OutFlow
<1>6. g.match \in Range(Inflows[dcms[g.dcm]])
  BY <1>3 DEF Range
<1> QED
  BY <1>1, <1>4, <1>5, <1>6, DstOfConn DEF Home

\* A flow at an end node, put when the last leaf of its plane has the flow of its
\* connection, takes no delivered connection from its way.
LEMMA PutKeepsReach ==
  ASSUME Dumped(dcms), NEW S, \A g \in S : Sane(g), NEW r \in Puts, Sane(r.flow),
         r.flow.node \in Ends => \E g \in S : IsLastOf(dcms, g, r.flow),
         NEW c \in Conns, Reaches(S, c)
  PROVE  Reaches(Applied(S, r), c)
<1> DEFINE f == r.flow
           T == Applied(S, r)
<1>0. \A g : g \in T <=> (g \in S /\ ~SameId(g, f)) \/ g = f
  BY AppliedHas DEF Puts
<1>s. Sane(f) /\ (f.node \in Ends => \E g \in S : IsLastOf(dcms, g, f)) /\ Src[c] \in Ends
  BY DstIsEnd
<1> HIDE DEF f, T
<1>1. ASSUME NEW g \in S, SameId(g, f), g.match = c PROVE f.match = c /\ f.node = g.node
  BY <1>1, <1>s, SameConn DEF SameId
<1>2. ASSUME NEW x, HasLast(S, c, x) PROVE HasLast(T, c, x)
  <2>1. PICK g \in S : g.node = LastLeaf(x, c) /\ g.match = c
    BY <1>2 DEF HasLast
  <2>2. CASE SameId(g, f)
    BY <1>0, <1>1, <2>1, <2>2 DEF HasLast
  <2>3. CASE ~SameId(g, f)
    BY <1>0, <2>1, <2>3 DEF HasLast
  <2> QED
    BY <2>2, <2>3
<1>3. ASSUME NEW x \in Planes, Enters(T, c, x) PROVE HasLast(S, c, x)
  <2> DEFINE l == Leaf(x, PodOf[Src[c]])
  <2>1. CASE f.node = Src[c] /\ f.match = c /\ f.to = l
    <3>1. PICK g \in S : IsLastOf(dcms, g, f)
      BY <1>s, <2>1
    <3>2. g.match = c /\ Dst[c] = Home(f.dcm)
      <4>1. Sane(g) /\ g.dcm = f.dcm /\ g.k = f.k
        BY <3>1 DEF IsLastOf
      <4> QED
        BY <1>s, <2>1, <4>1, SameConn
    <3>3. f.to[2] = x
      BY <2>1, Names
    <3>4. g.node = LastLeaf(x, c)
      BY <3>1, <3>2, <3>3 DEF IsLastOf, Home, LastLeaf, Pod
    <3> QED
      BY <3>2, <3>4 DEF HasLast
  <2>2. CASE \E g \in S : g.node = Src[c] /\ g.match = c /\ g.to = l
    BY <2>2 DEF Reaches, Enters
  <2>3. CASE x = DefaultPlane /\ \A g \in T : ~(g.node = Src[c] /\ g.match = c)
    <3>1. ASSUME NEW g \in S, g.node = Src[c], g.match = c PROVE FALSE
      <4>1. CASE SameId(g, f)
        BY <1>0, <1>1, <2>3, <3>1, <4>1
      <4>2. CASE ~SameId(g, f)
        BY <1>0, <2>3, <3>1, <4>2
      <4> QED
        BY <4>1, <4>2
    <3> QED
      BY <2>3, <3>1 DEF Reaches, Enters
  <2> HIDE DEF l
  <2>4. (\E g \in T : g.node = Src[c] /\ g.match = c /\ g.to = l)
        \/ (x = DefaultPlane /\ \A g \in T : ~(g.node = Src[c] /\ g.match = c))
    BY <1>3 DEF Enters, l
  <2> QED
    BY <1>0, <2>1, <2>2, <2>3, <2>4
<1> QED
  BY <1>2, <1>3 DEF Reaches, T

\* Before a flow at an end node, the one at the last leaf of its plane is there or asked for.
LastThere(d, f, S) == f.node \in Ends => \E g \in S : IsLastOf(d, g, f)
LastsFirst(d, s, S) ==
  \A x \in DOMAIN s : s[x].flow.node \in Ends =>
    \/ \E g \in S : IsLastOf(d, g, s[x].flow)
    \/ \E y \in 1 .. x - 1 : IsLastOf(d, s[y].flow, s[x].flow)
LastRoutes(d) == {s \in Seq(Puts) : LastsFirst(d, s, {})}

LEMMA LastsOfSame ==
  ASSUME NEW d, NEW g, NEW h, NEW f, SameId(g, h), IsLastOf(d, g, f)
  PROVE  IsLastOf(d, h, f)
BY DEF SameId, IsLastOf

LEMMA LastsJoin ==
  ASSUME NEW d
  PROVE  /\ LastRoutes(d) \subseteq Seq(Puts) /\ <<>> \in LastRoutes(d)
         /\ \A a, b \in LastRoutes(d) : a \o b \in LastRoutes(d)
<1>1. LastRoutes(d) \subseteq Seq(Puts)
  BY DEF LastRoutes
<1>2. <<>> \in LastRoutes(d)
  <2>1. <<>> \in Seq(Puts)
    OBVIOUS
  <2> QED
    BY <2>1 DEF LastRoutes, LastsFirst
<1>3. ASSUME NEW a \in LastRoutes(d), NEW b \in LastRoutes(d) PROVE a \o b \in LastRoutes(d)
  <2> DEFINE P == Puts
             s == a \o b
             m == Len(a)
             Lasts(t) == \A x \in DOMAIN t : t[x].flow.node \in Ends =>
                           \E y \in 1 .. x - 1 : IsLastOf(d, t[y].flow, t[x].flow)
  <2>0. a \in Seq(P) /\ b \in Seq(P) /\ Lasts(a) /\ Lasts(b)
    BY DEF LastRoutes, LastsFirst
  <2> HIDE DEF P
  <2>1. s \in Seq(P) /\ Len(s) = m + Len(b) /\ m \in Nat /\ Len(b) \in Nat
    BY <2>0
  <2>2. \A x \in 1 .. Len(s) : (x \in 1 .. m /\ s[x] = a[x]) \/ (x > m /\ x - m \in 1 .. Len(b) /\ s[x] = b[x - m])
    BY <2>0
  <2>3. \A y \in 1 .. m : s[y] = a[y]
    BY <2>0
  <2>4. \A y \in 1 .. Len(b) : s[m + y] = b[y]
    BY <2>0
  <2>5. DOMAIN s = 1 .. Len(s) /\ DOMAIN a = 1 .. m /\ DOMAIN b = 1 .. Len(b)
    BY <2>0, <2>1
  <2> HIDE DEF s, m
  <2>6. ASSUME NEW x \in 1 .. Len(s), s[x].flow.node \in Ends
        PROVE  \E y \in 1 .. x - 1 : IsLastOf(d, s[y].flow, s[x].flow)
    <3>1. CASE x \in 1 .. m /\ s[x] = a[x]
      <4>1. PICK y \in 1 .. x - 1 : IsLastOf(d, a[y].flow, a[x].flow)
        BY <2>0, <2>5, <2>6, <3>1
      <4>2. y \in 1 .. m
        BY <2>1, <3>1
      <4> QED
        BY <2>3, <3>1, <4>1, <4>2
    <3>2. CASE x > m /\ x - m \in 1 .. Len(b) /\ s[x] = b[x - m]
      <4> DEFINE z == x - m
      <4>0. z \in 1 .. Len(b) /\ s[x] = b[z] /\ x = m + z /\ z \in Nat
        BY <2>1, <3>2
      <4> HIDE DEF z
      <4>1. PICK y \in 1 .. z - 1 : IsLastOf(d, b[y].flow, b[z].flow)
        BY <2>0, <2>5, <2>6, <4>0
      <4>2. m + y \in 1 .. x - 1 /\ y \in 1 .. Len(b)
        BY <2>1, <4>0
      <4>3. s[m + y] = b[y]
        BY <2>4, <4>2
      <4> QED
        BY <4>0, <4>1, <4>2, <4>3
    <3> QED
      BY <2>2, <3>1, <3>2
  <2>7. Lasts(s)
    BY <2>5, <2>6
  <2> QED
    BY <2>1, <2>7 DEF LastRoutes, LastsFirst, P, s
<1> QED
  BY <1>1, <1>2, <1>3

\* What two sequences in a row have in the first.
LEMMA FirstOfBoth ==
  ASSUME NEW R, NEW a \in Seq(R), NEW b \in Seq(R)
  PROVE  /\ Len(a) \in Nat /\ DOMAIN a = 1 .. Len(a) /\ DOMAIN (a \o b) \subseteq Nat
         /\ Len(a) <= Len(a \o b)
         /\ \A y \in 1 .. Len(a) : y \in DOMAIN (a \o b) /\ (a \o b)[y] = a[y]
OBVIOUS

LEMMA InARow ==
  ASSUME NEW R, NEW a \in Seq(R), NEW b \in Seq(R), NEW p \in Seq(R), NEW s, s = (a \o b) \o p
  PROVE  /\ s \in Seq(R) /\ Len(a) \in Nat /\ DOMAIN a = 1 .. Len(a)
         /\ \A y \in 1 .. Len(a) : y \in DOMAIN s /\ s[y] = a[y]
         /\ \A x \in DOMAIN s : x \in Nat /\ (x \in 1 .. Len(a) \/ x > Len(a))
<1> DEFINE q == a \o b
<1>0. q \in Seq(R) /\ q \o p \in Seq(R)
  OBVIOUS
<1>1. /\ Len(a) \in Nat /\ DOMAIN a = 1 .. Len(a) /\ Len(a) <= Len(q)
      /\ \A y \in 1 .. Len(a) : y \in DOMAIN q /\ q[y] = a[y]
  BY FirstOfBoth
<1> HIDE DEF q
<1> DEFINE v == q \o p
<1>2. /\ Len(q) \in Nat /\ DOMAIN q = 1 .. Len(q) /\ DOMAIN v \subseteq Nat
      /\ \A y \in 1 .. Len(q) : y \in DOMAIN v /\ v[y] = q[y]
  BY <1>0, FirstOfBoth
<1>3. s = v
  BY DEF q
<1>4. v \in Seq(R) /\ DOMAIN v = 1 .. Len(v) /\ Len(v) \in Nat
  <2>1. v \in Seq(R)
    BY <1>0
  <2> HIDE DEF v
  <2> QED
    BY <2>1
<1> HIDE DEF v
<1>5. /\ v \in Seq(R) /\ Len(a) \in Nat /\ DOMAIN a = 1 .. Len(a)
      /\ \A y \in 1 .. Len(a) : y \in DOMAIN v /\ v[y] = a[y]
      /\ \A x \in DOMAIN v : x \in Nat /\ (x \in 1 .. Len(a) \/ x > Len(a))
  BY <1>1, <1>2, <1>4
<1> QED
  BY <1>3, <1>5

\* A flow of a path at an end node, and the one at the last leaf.
LEMMA LastOfPath ==
  ASSUME Dumped(dcms), NEW id \in DOMAIN dcms, NEW spine \in Spines, NEW mode,
         NEW f \in PathFlows(id, spine, mode), f.node \in Ends
  PROVE  \E g \in Leg(id, Leaf(spine[2], PodOf[Home(id)]), Home(id), mode # "none") : IsLastOf(dcms, g, f)
<1> DEFINE home == Home(id)
           x == spine[2]
           leaf == Leaf(x, PodOf[home])
           one == mode # "none"
<1>0. home \in Ends /\ x \in Planes /\ PodOf[home] \in Pods /\ leaf \notin Ends /\ spine \notin Ends
  <2>1. home \in Ends /\ x \in Planes /\ leaf \in Leaves /\ PodOf[home] \in Pods
    BY RingIsRing, Names
  <2> QED
    BY <2>1, Names
<1>1. PICK at, to, u : PathLeg(id, spine, mode, at, to, u) /\ f \in Leg(id, at, to, u)
  BY LegOfPath
<1>2. at \in Ends /\ f.dcm = id
  BY <1>1, LegFlow
<1>3. at \in Ends \ {home} /\ to = Leaf(x, PodOf[at]) /\ u = FALSE
  <2>1. \A i \in Pods : Leaf(x, i) \notin Ends
    BY <1>0, Names
  <2> QED
    BY <1>0, <1>1, <1>2, <2>1 DEF PathLeg
<1>4. PICK k \in DOMAIN Inflows[dcms[id]] : f = LegIn(id, at, to, k)
  BY <1>1, <1>3 DEF Leg
<1>5. f.to = to /\ f.k = k /\ to[2] = x
  BY <1>3, <1>4, LegFields, Names
<1> DEFINE g == LegIn(id, leaf, IF one THEN Ring(id) ELSE home, k)
<1>6. g \in Leg(id, leaf, home, one)
  BY <1>4 DEF Leg
<1>7. g.node = leaf /\ g.dcm = id /\ g.k = k
  BY LegFields
<1> HIDE DEF g
<1>8. IsLastOf(dcms, g, f)
  BY <1>2, <1>5, <1>7 DEF IsLastOf, Home
<1> QED
  BY <1>6, <1>8

LEMMA PathLasts ==
  ASSUME Dumped(dcms), NEW id \in DOMAIN dcms, NEW spine \in Spines, NEW mode
  PROVE  InstallPath(id, spine, mode) \in LastRoutes(dcms)
<1> DEFINE home == Home(id)
           leaf == Leaf(spine[2], PodOf[home])
           one == mode # "none"
           all == mode = "all"
           a == InstallSubpath(id, leaf, home, one)
           b == InstallSubpath(id, spine, leaf, all)
           ss == [i \in 1 .. NPods |-> PodPath(id, spine, mode, i)]
           p == FlattenSeq(ss)
           s == InstallPath(id, spine, mode)
           F == Leg(id, leaf, home, one)
           P == Puts
<1>0. home \in Ends /\ spine[2] \in Planes /\ leaf \in Leaves /\ PodOf[home] \in Pods
      /\ leaf \notin Ends /\ spine \notin Ends /\ one \in BOOLEAN /\ all \in BOOLEAN
  <2>1. home \in Ends /\ spine[2] \in Planes /\ leaf \in Leaves /\ PodOf[home] \in Pods
    BY RingIsRing, Names
  <2> QED
    BY <2>1, Names
<1>1. Towards(leaf, home, home) /\ Towards(spine, home, leaf)
  BY <1>0 DEF Towards
<1>2. a \in Routes /\ Range(a) = Asked(F)
  <2> HIDE DEF leaf, one
  <2>1. a \in Routes /\ Range(a) = {Put(f) : f \in Leg(id, leaf, home, one)}
    BY <1>0, <1>1, Subpath DEF home
  <2> QED
    BY <2>1 DEF Asked
<1>3. b \in Routes
  <2> HIDE DEF leaf, all
  <2> QED
    BY <1>0, <1>1, Subpath DEF home
<1>4. p \in Routes
  <2>1. NPods \in Nat /\ Pods = 1 .. NPods
    BY TopologyAssumption DEF Pods
  <2>2. \A i \in Pods : PodPath(id, spine, mode, i) \in Routes
    BY PodPathRoutes
  <2>3. ss \in [1 .. NPods -> Routes]
    BY <2>1, <2>2
  <2> HIDE DEF ss
  <2> QED
    BY <2>1, <2>3, RoutesFlatten
<1>5. s = a \o b \o p
  BY DEF InstallPath, DcmFirst, FromPods, PodPath, Home
<1>6. s \in Routes /\ Range(s) = Asked(PathFlows(id, spine, mode))
  BY Path
<1>7. \A g \in F : g.node \notin Ends
  BY <1>0, LegFlow
<1>8. \A f \in PathFlows(id, spine, mode) : f.node \in Ends => \E g \in F : IsLastOf(dcms, g, f)
  BY LastOfPath
<1>9. a \in Seq(P) /\ b \in Seq(P) /\ p \in Seq(P) /\ s \in Seq(P)
  BY <1>2, <1>3, <1>4, <1>6 DEF Routes
<1> HIDE DEF a, b, p, F, P, s
<1>10. /\ Len(a) \in Nat /\ DOMAIN a = 1 .. Len(a)
       /\ \A y \in 1 .. Len(a) : y \in DOMAIN s /\ s[y] = a[y]
       /\ \A x \in DOMAIN s : x \in Nat /\ (x \in 1 .. Len(a) \/ x > Len(a))
  BY <1>5, <1>9, InARow
<1>11. ASSUME NEW x \in DOMAIN s, s[x].flow.node \in Ends
       PROVE  \E y \in 1 .. x - 1 : IsLastOf(dcms, s[y].flow, s[x].flow)
  <2>1. PICK f \in PathFlows(id, spine, mode) : s[x] = Put(f)
    <3>1. s[x] \in Range(s)
      BY DEF Range
    <3> QED
      BY <1>6, <3>1 DEF Asked
  <2>2. s[x].flow = f
    BY <2>1 DEF Put
  <2>3. PICK g \in F : IsLastOf(dcms, g, f)
    BY <1>8, <1>11, <2>2
  <2>4. PICK y \in 1 .. Len(a) : a[y] = Put(g)
    <3>1. Put(g) \in Range(a)
      BY <1>2 DEF Asked
    <3> QED
      BY <1>10, <3>1 DEF Range
  <2>5. s[y].flow = g
    BY <1>10, <2>4 DEF Put
  <2>6. x \notin 1 .. Len(a)
    <3> SUFFICES ASSUME x \in 1 .. Len(a) PROVE FALSE
      OBVIOUS
    <3>1. a[x] \in Range(a) /\ s[x] = a[x]
      BY <1>10 DEF Range
    <3>2. PICK h \in F : s[x] = Put(h)
      BY <1>2, <3>1 DEF Asked
    <3>3. s[x].flow = h
      BY <3>2 DEF Put
    <3> QED
      BY <1>7, <1>11, <3>3
  <2>7. y \in 1 .. x - 1
    BY <1>10, <2>6
  <2> QED
    BY <2>2, <2>3, <2>5, <2>7
<1> QED
  BY <1>9, <1>11 DEF LastRoutes, LastsFirst, P, s

LEMMA DistributionLasts ==
  ASSUME Dumped(dcms), NEW mode, NEW l \in SpineLists, NEW order \in SetToSeqs(DOMAIN dcms), NEW s,
         s = Distribution(order, l, mode), NEW S
  PROVE  LastsFirst(dcms, s, S)
<1> DEFINE n == Cardinality(DOMAIN dcms)
           way(k) == l[((k - 1) % Len(l)) + 1]
           ss == [k \in DOMAIN order |-> InstallPath(order[k], way(k), mode)]
           Q == LastRoutes(dcms)
           P == Puts
<1>1. IsFiniteSet(DOMAIN dcms)
  <2>1. Len(dcms) \in Nat /\ DOMAIN dcms = 1 .. Len(dcms)
    BY DEF Dumped
  <2> QED
    BY <2>1, FS_Interval
<1>2. n \in Nat /\ order \in [1 .. n -> DOMAIN dcms] /\ DOMAIN order = 1 .. n
  BY <1>1, OrderCovers
<1> HIDE DEF n
<1>3. \A k \in 1 .. n : way(k) \in Spines
  <2> SUFFICES ASSUME NEW k \in 1 .. n PROVE way(k) \in Spines
    OBVIOUS
  <2>1. k \in Nat \ {0}
    BY <1>2
  <2> QED
    BY <2>1, SpinesInTurn
<1> HIDE DEF way
<1>4. \A k \in 1 .. n : InstallPath(order[k], way(k), mode) \in Q
  <2> SUFFICES ASSUME NEW k \in 1 .. n PROVE InstallPath(order[k], way(k), mode) \in Q
    OBVIOUS
  <2>1. order[k] \in DOMAIN dcms /\ way(k) \in Spines
    BY <1>2, <1>3
  <2> QED
    BY <2>1, PathLasts
<1>5. ss \in [1 .. n -> Q]
  BY <1>2, <1>4
<1>6. s = FlattenSeq(ss)
  BY DEF way, Distribution
<1>7. Q \subseteq Seq(P) /\ <<>> \in Q /\ \A a, b \in Q : a \o b \in Q
  BY LastsJoin
<1> HIDE DEF ss, Q, P
<1>8. ss \in Seq(Q)
  BY <1>2, <1>5
<1>9. s \in Q
  BY <1>6, <1>7, <1>8, FlattenIn
<1> QED
  BY <1>9 DEF Q, LastRoutes, LastsFirst

LEMMA PutKeepsLast ==
  ASSUME NEW d, NEW S, NEW r, r.op = "put", NEW f, LastThere(d, f, S)
  PROVE  LastThere(d, f, Applied(S, r))
<1> SUFFICES ASSUME NEW g \in S, IsLastOf(d, g, f)
    PROVE \E h \in Applied(S, r) : IsLastOf(d, h, f)
  BY DEF LastThere
<1>1. CASE SameId(g, r.flow)
  <2>1. IsLastOf(d, r.flow, f)
    BY <1>1, LastsOfSame
  <2>2. r.flow \in Applied(S, r)
    BY AppliedHas
  <2> QED
    BY <2>1, <2>2
<1>2. CASE ~SameId(g, r.flow)
  <2>1. g \in Applied(S, r)
    BY <1>2, AppliedHas
  <2> QED
    BY <2>1
<1> QED
  BY <1>1, <1>2

LEMMA PutKeepsLasts ==
  ASSUME NEW d, NEW S, NEW s \in Seq(Puts), s # <<>>, LastsFirst(d, s, S)
  PROVE  LastsFirst(d, Tail(s), Applied(S, Head(s))) /\ LastThere(d, Head(s).flow, S)
<1> DEFINE r == Head(s)
           f == r.flow
           t == Tail(s)
<1>1. /\ r = s[1] /\ Len(s) \in Nat /\ DOMAIN s = 1 .. Len(s) /\ DOMAIN t = 1 .. Len(s) - 1
      /\ 1 \in DOMAIN s
      /\ \A x \in 1 .. Len(s) - 1 : t[x] = s[x + 1] /\ x + 1 \in 1 .. Len(s)
      /\ \A x \in 2 .. Len(s) : x - 1 \in DOMAIN t /\ t[x - 1] = s[x]
      /\ r.op = "put"
  <2> DEFINE P == Puts
  <2>1. s \in Seq(P)
    OBVIOUS
  <2> HIDE DEF P
  <2>2. /\ r = s[1] /\ Len(s) \in Nat /\ DOMAIN s = 1 .. Len(s) /\ DOMAIN t = 1 .. Len(s) - 1
        /\ 1 \in DOMAIN s
        /\ \A x \in 1 .. Len(s) - 1 : t[x] = s[x + 1] /\ x + 1 \in 1 .. Len(s)
        /\ \A x \in 2 .. Len(s) : x - 1 \in DOMAIN t /\ t[x - 1] = s[x]
        /\ r \in P
    BY <2>1, TailOf
  <2> QED
    BY <2>2 DEF P, Puts
<1>2. LastThere(d, r.flow, S)
  <2> HIDE DEF t
  <2> QED
    BY <1>1 DEF LastsFirst, LastThere
<1> HIDE DEF r, t
<1>3. ASSUME NEW x \in DOMAIN t, t[x].flow.node \in Ends
      PROVE  \/ \E g \in Applied(S, r) : IsLastOf(d, g, t[x].flow)
             \/ \E y \in 1 .. x - 1 : IsLastOf(d, t[y].flow, t[x].flow)
  <2> DEFINE e == t[x].flow
             z == x + 1
  <2>1. z \in DOMAIN s /\ s[z] = t[x] /\ x \in Nat /\ x <= Len(s) - 1 /\ z - 1 = x
    BY <1>1
  <2>2. e.node \in Ends
    BY <1>3
  <2>3. s[z].flow = e
    BY <2>1
  <2> HIDE DEF z, e
  <2>4. (\E g \in S : IsLastOf(d, g, e)) \/ (\E y \in 1 .. z - 1 : IsLastOf(d, s[y].flow, e))
    BY <2>1, <2>2, <2>3 DEF LastsFirst
  <2>5. f \in Applied(S, r)
    BY <1>1, AppliedHas
  <2>6. ASSUME NEW g \in S, IsLastOf(d, g, e) PROVE \E h \in Applied(S, r) : IsLastOf(d, h, e)
    <3>1. LastThere(d, e, S)
      BY <2>6 DEF LastThere
    <3>2. LastThere(d, e, Applied(S, r))
      BY <1>1, <3>1, PutKeepsLast
    <3> QED
      BY <2>2, <3>2 DEF LastThere
  <2>7. ASSUME NEW y \in 1 .. x, IsLastOf(d, s[y].flow, e)
        PROVE  \/ \E g \in Applied(S, r) : IsLastOf(d, g, e)
               \/ \E v \in 1 .. x - 1 : IsLastOf(d, t[v].flow, e)
    <3>1. CASE y = 1
      BY <1>1, <2>5, <2>7, <3>1
    <3>2. CASE y # 1
      <4>1. y \in 2 .. Len(s) /\ y - 1 \in 1 .. x - 1
        BY <2>1, <3>2
      <4>2. t[y - 1] = s[y]
        BY <1>1, <4>1
      <4> QED
        BY <2>7, <4>1, <4>2
    <3> QED
      BY <3>1, <3>2
  <2>8. \/ \E g \in Applied(S, r) : IsLastOf(d, g, e)
        \/ \E y \in 1 .. x - 1 : IsLastOf(d, t[y].flow, e)
    BY <2>1, <2>4, <2>6, <2>7
  <2> QED
    BY <2>8 DEF e
<1>4. LastsFirst(d, t, Applied(S, r))
  BY <1>3 DEF LastsFirst
<1> QED
  BY <1>2, <1>4 DEF r, t
-----------------------------------------------------------------------------
(* The inductive invariant. *)

\* TypeOK, with each request's place and the dump's processes different ones.
TypesInv ==
  /\ running \subseteq Procs /\ Dumped(dcms)
  /\ script \in {"none", "distribute", "remove"}
  /\ refused \in BOOLEAN /\ strayed \in BOOLEAN /\ renumbered \in BOOLEAN
  /\ scripts \in 0 .. MaxScripts
  /\ Flows(conf) /\ Flows(table)
  /\ pending \in Seq(Changes) /\ Len(pending) <= MaxPending
\* What the scripts ask for: only a distribution puts, only a removal looks and deletes.
ScriptInv ==
  /\ script = "none" => spines = <<>> /\ todo = <<>> /\ ~refused
  /\ script # "none" => spines \in SpineLists
  /\ script = "distribute" => todo \in Seq(Puts)
  /\ script = "remove" => todo \in Seq(Removals)
\* All flows, wherever they are, are flows of some path of their DCM, as long as ids mean
\* the DCMs they were installed for.
SaneInv ==
  ~renumbered =>
    /\ \A f \in conf : Sane(f)
    /\ \A f \in table : Sane(f)
    /\ \A r \in Range(pending) : r.op = "put" => Sane(r.flow)
    /\ \A r \in Range(todo) : r.op = "put" => Sane(r.flow)
\* Neither has a DELETE been passed over nor have ids changed their meaning.
Orderly == ~strayed /\ ~renumbered
\* Ways out of rings are made before ways in, and deleted after them.
OrderInv ==
  Orderly =>
    /\ script = "distribute" => OutsFirst(todo, conf)
    /\ script = "remove" => InflowsFirst(todo, conf)
\* The bridges' flows become the controller's, with a way out of each ring all along.
HistoryInv == Becomes(pending, table, conf, Orderly)
\* The paths of a distribution are there or asked for.
PathsInv ==
  script = "distribute" /\ ~refused /\ ~renumbered =>
    \E mode, s, S : s = todo /\ S = conf /\ PathsAsked(mode, s, S)
\* A removal leaves no other flows than those it cannot see.
RemovalInv ==
  script = "remove" /\ ~refused => Remaining(todo, conf, Cardinality(running), spines)

Inv == TypesInv /\ ScriptInv /\ SaneInv /\ OrderInv /\ HistoryInv /\ PathsInv /\ RemovalInv

LEMMA SaneKept ==
  ASSUME dcms' = dcms
  PROVE  \A f : Sane(f)' <=> Sane(f)
BY DEF Sane, OutFlow, InFlow, Home

LEMMA PathFlowsKept ==
  ASSUME dcms' = dcms, NEW id, NEW spine, NEW mode
  PROVE  PathFlows(id, spine, mode)' = PathFlows(id, spine, mode)
<1>1. Home(id)' = Home(id)
  BY DEF Home
<1>2. \A at, to, u : Leg(id, at, to, u)' = Leg(id, at, to, u)
  BY DEF Leg, LegOut, LegIn
<1>3. ASSUME NEW i PROVE PodFlows(id, spine, mode, i)' = PodFlows(id, spine, mode, i)
  <2>1. PICK L : L = [e \in Ends |-> Leg(id, e, Leaf(spine[2], i), FALSE)]
    OBVIOUS
  <2>2. PICK M : M = Leg(id, Leaf(spine[2], i), spine, mode = "all")
    OBVIOUS
  <2>3. PICK home : home = Home(id)
    OBVIOUS
  <2>4. \A e \in Ends : L[e] = Leg(id, e, Leaf(spine[2], i), FALSE)
    BY <2>1
  <2>5. \A e \in Ends : L[e] = Leg(id, e, Leaf(spine[2], i), FALSE)'
    BY <1>2, <2>4
  <2>6. M = Leg(id, Leaf(spine[2], i), spine, mode = "all")'
    BY <1>2, <2>2
  <2> DEFINE All == (IF i = PodOf[home] THEN {} ELSE M) \cup
                    UNION {L[e] : e \in {d \in Ends : PodOf[d] = i /\ d # home}}
  <2>7. PodFlows(id, spine, mode, i) = All
    BY <2>2, <2>3, <2>4 DEF PodFlows
  <2>8. PodFlows(id, spine, mode, i)' = All
    BY <1>1, <2>3, <2>5, <2>6 DEF PodFlows
  <2> QED
    BY <2>7, <2>8
<1> QED
  BY <1>1, <1>2, <1>3 DEF PathFlows

LEMMA PathsKept ==
  ASSUME dcms' = dcms, NEW mode, NEW s, NEW S
  PROVE  PathsAsked(mode, s, S)' <=> PathsAsked(mode, s, S)
BY PathFlowsKept DEF PathsAsked

\* Without a way out of every ring.
LEMMA BecomesWeaker ==
  ASSUME NEW q, NEW S, NEW T, NEW c, Becomes(q, S, T, c)
  PROVE  Becomes(q, S, T, FALSE)
BY DEF Becomes, Happens

LEMMA NothingYet == \A c \in BOOLEAN : Becomes(<<>>, {}, {}, c)
<1> SUFFICES ASSUME NEW c \in BOOLEAN PROVE Becomes(<<>>, {}, {}, c)
  OBVIOUS
<1> DEFINE h == [i \in {0} |-> {}]
<1>1. h[0] = {} /\ Len(<<>>) = 0 /\ 1 .. 0 = {} /\ 0 .. 0 = {0}
  OBVIOUS
<1>2. Closed({})
  BY DEF Closed
<1> HIDE DEF h
<1>3. Happens(h, <<>>, {}, {}, c)
  BY <1>1, <1>2 DEF Happens
<1> QED
  BY <1>3 DEF Becomes

LEMMA NoFlows == Flows({})
BY FS_EmptySet DEF Flows, OneEach

LEMMA InitInv == Init => Inv
<1> SUFFICES ASSUME Init PROVE Inv
  OBVIOUS
<1>1. Dumped(dcms)
  <2>1. running \subseteq Procs /\ dcms \in Scanned
    BY DEF Init
  <2> QED
    BY <2>1, ScannedDumped
<1>2. TypesInv
  <2>1. <<>> \in Seq(Changes) /\ Len(<<>>) = 0
    OBVIOUS
  <2>2. pending \in Seq(Changes) /\ Len(pending) <= MaxPending /\ scripts \in 0 .. MaxScripts
    BY <2>1, BoundsAssumption DEF Init
  <2>3. Flows(conf) /\ Flows(table)
    BY NoFlows DEF Init
  <2> QED
    BY <1>1, <2>2, <2>3 DEF Init, TypesInv
<1>3. HistoryInv
  <2>1. table = {} /\ conf = {} /\ pending = <<>> /\ ~strayed /\ ~renumbered
    BY DEF Init
  <2>2. Becomes(<<>>, {}, {}, TRUE)
    BY NothingYet
  <2>3. Orderly = TRUE
    BY <2>1 DEF Orderly
  <2> QED
    BY <2>1, <2>2, <2>3 DEF HistoryInv
<1> QED
  BY <1>2, <1>3, AskedNone DEF Init, Inv, ScriptInv, SaneInv, OrderInv, PathsInv, RemovalInv
-----------------------------------------------------------------------------
(* The scripts. *)

\* A distribution's requests when it starts.
LEMMA DistributionStarts ==
  ASSUME Dumped(dcms), NEW mode, NEW l \in SpineLists, NEW order \in SetToSeqs(DOMAIN dcms), NEW s,
         s = Distribution(order, l, mode), NEW S
  PROVE  /\ s \in Seq(Puts)
         /\ \A r \in Range(s) : Sane(r.flow)
         /\ OutsFirst(s, S)
         /\ PathsAsked(mode, s, S)
<1>1. s \in Routes
  BY DistributedRoutes
<1>2. PathsAsked(mode, s, S)
  BY DistributedAsked
<1>3. s \in Seq(Puts) /\ WayOutFirst(s) /\ \A x \in DOMAIN s : Sane(s[x].flow)
  BY <1>1 DEF Routes
<1> QED
  BY <1>2, <1>3 DEF OutsFirst, WayOutFirst, Range

LEMMA DistributeKeepsInv == Inv /\ DistributeDcms => Inv'
<1> SUFFICES ASSUME Inv, DistributeDcms PROVE Inv'
  OBVIOUS
<1>0. /\ UNCHANGED <<running, dcms, refused, strayed, renumbered, conf, table, pending>>
      /\ script = "none" /\ script' = "distribute" /\ scripts < MaxScripts /\ scripts' = scripts + 1
  BY DEF DistributeDcms, Idle
<1>1. PICK mode \in Modes, l \in SpineLists, order \in SetToSeqs(DOMAIN dcms) :
        spines' = l /\ todo' = Distribution(order, l, mode)
  BY DEF DistributeDcms, Distribution
<1>2. PICK s : s = todo'
  OBVIOUS
<1>3. PICK S : S = conf
  OBVIOUS
<1>d. Dumped(dcms)
  BY DEF Inv, TypesInv
<1>4. /\ s \in Seq(Puts)
      /\ \A r \in Range(s) : Sane(r.flow)
      /\ OutsFirst(s, S)
      /\ PathsAsked(mode, s, S)
  <2>1. s = Distribution(order, l, mode)
    BY <1>1, <1>2
  <2> QED
    BY <1>d, <2>1, DistributionStarts
<1>5. TypesInv'
  <2>1. scripts' \in 0 .. MaxScripts
    BY <1>0, BoundsAssumption DEF Inv, TypesInv
  <2> QED
    BY <1>0, <2>1 DEF Inv, TypesInv
<1>6. ScriptInv'
  <2>1. todo' \in Seq(Puts)
    BY <1>2, <1>4
  <2> QED
    BY <1>0, <1>1, <2>1 DEF ScriptInv
<1>7. SaneInv'
  BY <1>0, <1>2, <1>4, SaneKept DEF Inv, SaneInv
<1>8. OrderInv'
  BY <1>0, <1>2, <1>3, <1>4 DEF OrderInv
<1>9. HistoryInv'
  BY <1>0 DEF Inv, HistoryInv, Orderly
<1>10. PathsInv'
  <2>1. PathsAsked(mode, s, S)'
    BY <1>0, <1>4, PathsKept
  <2>2. s = todo' /\ S = conf'
    BY <1>0, <1>2, <1>3
  <2> QED
    BY <2>1, <2>2 DEF PathsInv
<1>11. RemovalInv'
  BY <1>0 DEF RemovalInv
<1> QED
  BY <1>5, <1>6, <1>7, <1>8, <1>9, <1>10, <1>11 DEF Inv

LEMMA RemoveKeepsInv == Inv /\ RemoveDcms => Inv'
<1> SUFFICES ASSUME Inv, RemoveDcms PROVE Inv'
  OBVIOUS
<1>0. /\ UNCHANGED <<running, dcms, refused, strayed, renumbered, conf, table, pending>>
      /\ script = "none" /\ script' = "remove" /\ scripts < MaxScripts /\ scripts' = scripts + 1
  BY DEF RemoveDcms, Idle, history
<1>1. PICK d \in Scanned, l \in SpineLists, nodes \in BridgeLists :
        /\ Range(nodes) = Ends \cup Leaves \cup Range(l) /\ spines' = l
        /\ \E order \in SetToSeqs(DOMAIN d) : todo' = Removal(order, nodes)
  BY DEF RemoveDcms, Removal, LookFor
<1>2. PICK order \in SetToSeqs(DOMAIN d) : spines' = l /\ todo' = Removal(order, nodes)
  BY <1>1
<1>3. PICK s : s = Removal(order, nodes)
  OBVIOUS
<1>4. s \in Seq(Gets) /\ \A S \in SUBSET Flow : Remaining(s, S, Cardinality(running), l)
  <2>1. running \subseteq Procs
    BY DEF Inv, TypesInv
  <2> QED
    BY <1>1, <1>3, <2>1, RemovalLooks
<1>5. todo' = s
  BY <1>2, <1>3
<1>6. \A x \in DOMAIN s : s[x] \in Gets /\ s[x].op = "get"
  <2> DEFINE G == Gets
  <2>1. s \in Seq(G)
    BY <1>4
  <2>2. \A r \in G : r.op = "get"
    BY DEF Gets
  <2> HIDE DEF G
  <2>3. \A x \in DOMAIN s : s[x] \in G
    BY <2>1
  <2> QED
    BY <2>2, <2>3 DEF G
<1>7. TypesInv'
  <2>1. scripts' \in 0 .. MaxScripts
    BY <1>0, BoundsAssumption DEF Inv, TypesInv
  <2> QED
    BY <1>0, <2>1 DEF Inv, TypesInv
<1>8. ScriptInv'
  <2>1. s \in Seq(Removals)
    <3> DEFINE G == Gets
               R == Removals
    <3>1. s \in Seq(G) /\ G \subseteq R
      BY <1>4 DEF Removals
    <3> HIDE DEF G, R
    <3> QED
      BY <3>1 DEF R
  <2> QED
    BY <1>0, <1>2, <1>5, <2>1 DEF ScriptInv
<1>9. SaneInv'
  <2>1. \A r \in Range(s) : r.op # "put"
    BY <1>6 DEF Range
  <2> QED
    BY <1>0, <1>5, <2>1, SaneKept DEF Inv, SaneInv
<1>10. OrderInv'
  <2>1. InflowsFirst(s, conf)
    BY <1>6 DEF InflowsFirst
  <2> QED
    BY <1>0, <1>5, <2>1 DEF OrderInv
<1>11. HistoryInv'
  BY <1>0 DEF Inv, HistoryInv, Orderly
<1>12. PathsInv'
  BY <1>0 DEF PathsInv
<1>13. RemovalInv'
  <2>1. conf \in SUBSET Flow
    BY DEF Inv, TypesInv, Flows
  <2>2. Remaining(s, conf, Cardinality(running), l)
    BY <1>4, <2>1
  <2> QED
    BY <1>0, <1>2, <1>5, <2>2 DEF RemovalInv
<1> QED
  BY <1>7, <1>8, <1>9, <1>10, <1>11, <1>12, <1>13 DEF Inv

\* A dump without flows gives ids their meaning back; with flows nothing is claimed of them
\* from there on, unless the ids of all of them mean the DCMs that they meant.
LEMMA ShowKeepsInv == Inv /\ ShowDcms => Inv'
<1> SUFFICES ASSUME Inv, ShowDcms PROVE Inv'
  OBVIOUS
<1> DEFINE same == \A f \in Known : f.dcm \in DOMAIN dcms' /\ dcms'[f.dcm] = dcms[f.dcm]
<1>0. /\ UNCHANGED <<running, script, spines, todo, refused, strayed, conf, table, pending, scripts>>
      /\ script = "none" /\ renumbered' \in BOOLEAN
      /\ ~renumbered' => Known = {} \/ (~renumbered /\ same)
  BY DEF ShowDcms, Idle
<1>1. PICK d \in Scanned : dcms' = d
  BY DEF ShowDcms
<1>2. Dumped(d) /\ Dumped(dcms')
  <2>1. running \subseteq Procs
    BY DEF Inv, TypesInv
  <2>2. Dumped(d)
    BY <2>1, ScannedDumped
  <2> QED
    BY <1>1, <2>2
<1>3. todo = <<>> /\ ~refused
  BY <1>0 DEF Inv, ScriptInv
<1>4. TypesInv'
  BY <1>0, <1>2 DEF Inv, TypesInv
<1>5. ScriptInv' /\ OrderInv' /\ PathsInv' /\ RemovalInv'
  BY <1>0 DEF Inv, ScriptInv, OrderInv, PathsInv, RemovalInv
<1>6. Becomes(pending, table, conf, FALSE)
  <2> DEFINE c == Orderly
  <2>1. Becomes(pending, table, conf, c)
    BY DEF Inv, HistoryInv
  <2> HIDE DEF c
  <2> QED
    BY <2>1, BecomesWeaker
<1>7. CASE renumbered'
  <2>1. SaneInv'
    BY <1>7 DEF SaneInv
  <2>2. Orderly' = FALSE
    BY <1>7 DEF Orderly
  <2>3. HistoryInv'
    BY <1>0, <1>6, <2>2 DEF HistoryInv
  <2> QED
    BY <1>4, <1>5, <2>1, <2>3 DEF Inv
<1>8. CASE Known = {}
  <2>1. conf = {} /\ table = {} /\ pending = <<>>
    <3>1. pending \in Seq(Changes) /\ {r.flow : r \in Range(pending)} = {}
      BY <1>8 DEF Known, Inv, TypesInv
    <3>2. Range(pending) = {}
      BY <3>1
    <3>3. pending = <<>>
      BY <3>1, <3>2 DEF Range
    <3> QED
      BY <1>8, <3>3 DEF Known
  <2>2. SaneInv'
    BY <1>0, <1>3, <2>1, AskedNone DEF SaneInv
  <2>3. HistoryInv'
    <3> DEFINE c == Orderly'
    <3>1. c \in BOOLEAN
      BY DEF Orderly
    <3> HIDE DEF c
    <3>2. Becomes(<<>>, {}, {}, c)
      BY <3>1, NothingYet
    <3> QED
      BY <1>0, <2>1, <3>2 DEF HistoryInv, c
  <2> QED
    BY <1>4, <1>5, <2>2, <2>3 DEF Inv
<1>9. CASE ~renumbered' /\ ~renumbered /\ same
  <2>1. ASSUME NEW f \in Known, Sane(f) PROVE Sane(f)'
    <3>1. f.dcm \in DOMAIN dcms' /\ dcms'[f.dcm] = dcms[f.dcm]
      BY <1>9
    <3>2. Home(f.dcm)' = Home(f.dcm)
      BY <3>1 DEF Home
    <3> QED
      BY <2>1, <3>1, <3>2 DEF Sane, OutFlow, InFlow
  <2>2. /\ \A f \in conf : f \in Known /\ Sane(f)
        /\ \A f \in table : f \in Known /\ Sane(f)
        /\ \A r \in Range(pending) : r.flow \in Known /\ (r.op = "put" => Sane(r.flow))
    BY <1>9 DEF Known, Inv, SaneInv
  <2>3. SaneInv'
    BY <1>0, <1>3, <2>1, <2>2, AskedNone DEF SaneInv
  <2>4. HistoryInv'
    <3> DEFINE c == Orderly
    <3>1. Becomes(pending, table, conf, c) /\ Orderly' = c
      BY <1>0, <1>9 DEF Inv, HistoryInv, Orderly
    <3> HIDE DEF c
    <3> QED
      BY <1>0, <3>1 DEF HistoryInv
  <2> QED
    BY <1>4, <1>5, <2>3, <2>4 DEF Inv
<1> QED
  BY <1>0, <1>7, <1>8, <1>9

LEMMA EndsKeepsInv == ASSUME NEW p \in Procs PROVE Inv /\ ProcessEnds(p) => Inv'
<1> SUFFICES ASSUME Inv, ProcessEnds(p) PROVE Inv'
  OBVIOUS
<1>0. /\ UNCHANGED <<dcms, script, spines, todo, refused, strayed, renumbered, conf, table, pending, scripts>>
      /\ script = "none" /\ running' \subseteq running
  BY DEF ProcessEnds, Idle, history
<1>1. TypesInv'
  BY <1>0 DEF Inv, TypesInv
<1>2. SaneInv'
  BY <1>0, SaneKept DEF Inv, SaneInv
<1>3. ScriptInv' /\ OrderInv' /\ HistoryInv' /\ PathsInv' /\ RemovalInv'
  BY <1>0 DEF Inv, ScriptInv, OrderInv, HistoryInv, Orderly, PathsInv, RemovalInv
<1> QED
  BY <1>1, <1>2, <1>3 DEF Inv

LEMMA ScriptEndKeepsInv == Inv /\ ScriptEnds => Inv'
<1> SUFFICES ASSUME Inv, ScriptEnds PROVE Inv'
  OBVIOUS
<1>0. /\ UNCHANGED <<running, dcms, todo, strayed, renumbered, conf, table, pending, scripts>>
      /\ todo = <<>> /\ script' = "none" /\ spines' = <<>> /\ refused' = FALSE
  BY DEF ScriptEnds
<1>1. TypesInv'
  BY <1>0 DEF Inv, TypesInv
<1>2. SaneInv'
  BY <1>0, SaneKept DEF Inv, SaneInv
<1>3. ScriptInv' /\ OrderInv' /\ HistoryInv' /\ PathsInv' /\ RemovalInv'
  BY <1>0 DEF Inv, ScriptInv, OrderInv, HistoryInv, Orderly, PathsInv, RemovalInv
<1> QED
  BY <1>1, <1>2, <1>3 DEF Inv
-----------------------------------------------------------------------------
(* The requests. *)

LEMMA Working ==
  ASSUME Inv, todo # <<>>
  PROVE  \/ script = "distribute" /\ todo \in Seq(Puts) /\ Head(todo).op = "put"
         \/ script = "remove" /\ todo \in Seq(Removals) /\ Head(todo).op # "put"
<1>1. script \in {"distribute", "remove"}
  BY DEF Inv, TypesInv, ScriptInv
<1>2. CASE script = "distribute"
  <2> DEFINE P == Puts
  <2>1. todo \in Seq(P) /\ \A r \in P : r.op = "put"
    BY <1>2 DEF Inv, ScriptInv, Puts
  <2> HIDE DEF P
  <2>2. Head(todo) \in P
    BY <2>1, TailOf
  <2> QED
    BY <1>2, <2>1, <2>2 DEF P
<1>3. CASE script = "remove"
  <2> DEFINE P == Removals
  <2>1. todo \in Seq(P) /\ \A r \in P : r.op # "put"
    BY <1>3 DEF Inv, ScriptInv, Removals, Deletions, Gets
  <2> HIDE DEF P
  <2>2. Head(todo) \in P
    BY <2>1, TailOf
  <2> QED
    BY <1>3, <2>1, <2>2 DEF P
<1> QED
  BY <1>1, <1>2, <1>3

LEMMA RequestKinds ==
  /\ \A r \in Puts : r \in Changes /\ r.op = "put"
  /\ \A r \in Removals : r.op = "delete" => r \in Changes
  /\ \A r \in Removals : r.op = "get" => r \in Gets
  /\ \A r \in Removals : r.op \in {"delete", "get"}
BY DEF Removals, Puts, Deletions, Gets, Changes

\* What the controller does with a request that it grants.
LEMMA GrantKeeps ==
  ASSUME Inv, Granted, UNCHANGED <<running, dcms, script, renumbered, table, scripts>>,
         Head(todo) \in Changes, ~renumbered /\ Head(todo).op = "put" => Sane(Head(todo).flow),
         Orderly => Closed(Applied(conf, Head(todo)))
  PROVE  /\ TypesInv' /\ HistoryInv'
         /\ ~renumbered => /\ \A f \in conf' : Sane(f)
                           /\ \A r \in Range(pending)' : r.op = "put" => Sane(r.flow)
<1>1. PICK r : r = Head(todo)
  OBVIOUS
<1>2. /\ Len(pending) < MaxPending /\ conf' = Applied(conf, r) /\ pending' = Append(pending, r)
      /\ todo' = Tail(todo) /\ UNCHANGED <<refused, strayed>>
  BY <1>1 DEF Granted
<1>3. Flows(conf')
  BY <1>1, <1>2, AppliedFlows DEF Inv, TypesInv
<1>4. pending' \in Seq(Changes) /\ Len(pending') <= MaxPending /\ Range(pending)' = Range(pending) \cup {r}
  <2> DEFINE C == Changes
  <2>1. pending \in Seq(C) /\ r \in C /\ MaxPending \in Nat
    BY <1>1, BoundsAssumption DEF Inv, TypesInv
  <2> HIDE DEF C
  <2>2. /\ Append(pending, r) \in Seq(C) /\ Len(Append(pending, r)) = Len(pending) + 1
        /\ Len(pending) \in Nat
    BY <2>1
  <2>3. Range(Append(pending, r)) = Range(pending) \cup {r}
    <3> DEFINE q == Append(pending, r)
               n == Len(pending)
    <3>1. n \in Nat /\ q[n + 1] = r /\ (\A i \in 1 .. n : q[i] = pending[i])
          /\ DOMAIN q = 1 .. n + 1 /\ DOMAIN pending = 1 .. n
      BY <2>1
    <3> HIDE DEF q, n
    <3>2. Range(q) = {q[i] : i \in 1 .. n + 1} /\ Range(pending) = {pending[i] : i \in 1 .. n}
      BY <3>1 DEF Range
    <3> QED
      BY <3>1, <3>2 DEF q
  <2> QED
    BY <1>2, <2>1, <2>2, <2>3 DEF C
<1>5. TypesInv'
  BY <1>2, <1>3, <1>4 DEF Inv, TypesInv
<1>6. HistoryInv'
  <2> DEFINE c == Orderly
  <2>1. Becomes(pending, table, conf, c) /\ pending \in Seq(Changes) /\ r \in Changes
        /\ (c => Closed(Applied(conf, r)))
    BY <1>1 DEF Inv, HistoryInv, TypesInv
  <2> HIDE DEF c
  <2>2. Becomes(Append(pending, r), table, Applied(conf, r), c)
    BY <2>1, OneMoreHappens
  <2> QED
    BY <1>2, <2>2 DEF HistoryInv, Orderly, c
<1>7. ~renumbered => \A f \in conf' : Sane(f)
  <2> SUFFICES ASSUME ~renumbered, NEW f \in conf' PROVE Sane(f)
    OBVIOUS
  <2>1. f \in conf \/ (r.op = "put" /\ f = r.flow)
    BY <1>2, AppliedHas
  <2> QED
    BY <1>1, <2>1 DEF Inv, SaneInv
<1> QED
  BY <1>1, <1>4, <1>5, <1>6, <1>7 DEF Inv, SaneInv

LEMMA AddKeepsInv == Inv /\ FlowAdd => Inv'
<1> SUFFICES ASSUME Inv, FlowAdd PROVE Inv'
  OBVIOUS
<1>0. /\ todo # <<>> /\ Head(todo).op = "put"
      /\ UNCHANGED <<running, dcms, script, spines, renumbered, table, scripts>>
  BY DEF FlowAdd
<1>1. script = "distribute" /\ todo \in Seq(Puts)
  BY <1>0, Working
<1>2. /\ Head(todo) \in Changes /\ Tail(todo) \in Seq(Puts)
      /\ Range(todo) = {Head(todo)} \cup Range(Tail(todo))
  <2> DEFINE P == Puts
  <2>1. todo \in Seq(P)
    BY <1>1
  <2> HIDE DEF P
  <2>2. Head(todo) \in P /\ Tail(todo) \in Seq(P) /\ Range(todo) = {Head(todo)} \cup Range(Tail(todo))
    BY <1>0, <2>1, TailOf
  <2> QED
    BY <2>2, RequestKinds DEF P
<1>3. CASE Granted
  <2>0. conf' = Applied(conf, Head(todo)) /\ todo' = Tail(todo) /\ UNCHANGED <<refused, strayed>>
    BY <1>3 DEF Granted
  <2>1. (~renumbered => Sane(Head(todo).flow)) /\ Dumped(dcms)
    BY <1>0, <1>2 DEF Inv, SaneInv, TypesInv
  <2>2. Orderly => OutsFirst(todo, conf) /\ Closed(conf)
    <3> SUFFICES ASSUME Orderly PROVE OutsFirst(todo, conf) /\ Closed(conf)
      OBVIOUS
    <3>1. OutsFirst(todo, conf)
      BY <1>1 DEF Inv, OrderInv
    <3> DEFINE c == Orderly
    <3>2. Becomes(pending, table, conf, c) /\ pending \in Seq(Changes) /\ c
      BY DEF Inv, HistoryInv, TypesInv
    <3> HIDE DEF c
    <3>3. Closed(conf)
      BY <3>2, ClosedNow
    <3> QED
      BY <3>1, <3>3
  <2>3. Orderly => Closed(Applied(conf, Head(todo))) /\ OutsFirst(Tail(todo), Applied(conf, Head(todo)))
    <3> SUFFICES ASSUME Orderly
        PROVE  Closed(Applied(conf, Head(todo))) /\ OutsFirst(Tail(todo), Applied(conf, Head(todo)))
      OBVIOUS
    <3>1. Sane(Head(todo).flow)
      BY <2>1 DEF Orderly
    <3> QED
      BY <1>0, <1>1, <2>1, <2>2, <3>1, PutKeepsClosed, PutKeepsOutsFirst
  <2>4. /\ TypesInv' /\ HistoryInv'
        /\ ~renumbered => /\ \A f \in conf' : Sane(f)
                          /\ \A r \in Range(pending)' : r.op = "put" => Sane(r.flow)
    BY <1>0, <1>2, <1>3, <2>1, <2>3, GrantKeeps
  <2>5. ScriptInv'
    BY <1>0, <1>1, <1>2, <2>0 DEF Inv, ScriptInv
  <2>6. SaneInv'
    BY <1>0, <1>2, <2>0, <2>4, SaneKept DEF Inv, SaneInv
  <2>7. OrderInv'
    BY <1>0, <1>1, <2>0, <2>3 DEF OrderInv, Orderly
  <2>8. PathsInv'
    <3> SUFFICES ASSUME ~refused, ~renumbered PROVE PathsInv'
      BY <1>0, <2>0 DEF PathsInv
    <3>1. PICK mode : PathsAsked(mode, todo, conf)
      BY <1>1 DEF Inv, PathsInv
    <3>2. PathsAsked(mode, Tail(todo), Applied(conf, Head(todo)))
      BY <1>0, <1>1, <2>1, <3>1, PutKeepsPathsAsked
    <3>3. PICK s : s = todo'
      OBVIOUS
    <3>4. PICK S : S = conf'
      OBVIOUS
    <3>5. PathsAsked(mode, s, S)
      BY <2>0, <3>2, <3>3, <3>4
    <3>6. PathsAsked(mode, s, S)'
      BY <1>0, <3>5, PathsKept
    <3> QED
      BY <3>3, <3>4, <3>6 DEF PathsInv
  <2>9. RemovalInv'
    BY <1>0, <1>1 DEF RemovalInv
  <2> QED
    BY <2>4, <2>5, <2>6, <2>7, <2>8, <2>9 DEF Inv
<1>4. CASE todo' = <<>> /\ refused' = TRUE /\ UNCHANGED <<strayed, conf, pending>>
  <2>1. TypesInv' /\ HistoryInv' /\ PathsInv' /\ RemovalInv'
    BY <1>0, <1>4 DEF Inv, TypesInv, HistoryInv, Orderly, PathsInv, RemovalInv
  <2>2. ScriptInv'
    <3>1. <<>> \in Seq(Puts)
      OBVIOUS
    <3> QED
      BY <1>0, <1>1, <1>4, <3>1 DEF Inv, ScriptInv
  <2>3. SaneInv'
    BY <1>0, <1>4, AskedNone, SaneKept DEF Inv, SaneInv
  <2>4. OrderInv'
    <3>1. OutsFirst(<<>>, conf)
      BY DEF OutsFirst
    <3> QED
      BY <1>0, <1>1, <1>4, <3>1 DEF OrderInv
  <2> QED
    BY <2>1, <2>2, <2>3, <2>4 DEF Inv
<1> QED
  BY <1>3, <1>4 DEF FlowAdd

LEMMA GetsKeepInv == Inv /\ GetInstalledFlows => Inv'
<1> SUFFICES ASSUME Inv, GetInstalledFlows PROVE Inv'
  OBVIOUS
<1>0. /\ todo # <<>> /\ Head(todo).op = "get"
      /\ UNCHANGED <<running, dcms, script, spines, strayed, renumbered, conf, table, pending, scripts>>
  BY DEF GetInstalledFlows, history
<1>1. script = "remove" /\ todo \in Seq(Removals)
  BY <1>0, Working
<1> DEFINE P == Removals
           t == Tail(todo)
           n == Head(todo).node
           id == Head(todo).dcm
<1>2. t \in Seq(P) /\ Range(t) \subseteq Range(todo)
  <2> HIDE DEF P
  <2>1. todo \in Seq(P)
    BY <1>1 DEF P
  <2> QED
    BY <1>0, <2>1, TailOf
<1>3. /\ Deletes(n, id) \in Seq(Deletions)
      /\ Range(Deletes(n, id)) = {Delete(f) : f \in {g \in conf : g.node = n /\ g.dcm = id}}
      /\ InflowsFirst(Deletes(n, id), conf)
  <2>1. Flows(conf)
    BY DEF Inv, TypesInv
  <2> QED
    BY <2>1, DeletesAre
<1>4. PICK d : d = Deletes(n, id)
  OBVIOUS
<1>5. /\ d \in Seq(P) /\ InflowsFirst(d, conf)
      /\ \A f \in conf : f.node = n /\ f.dcm = id => Delete(f) \in Range(d)
      /\ \A r \in Range(d) : r.op # "put"
  <2> DEFINE D == Deletions
  <2>1. d \in Seq(D) /\ D \subseteq P
    BY <1>3, <1>4 DEF Removals
  <2>2. \A r \in Range(d) : r.op # "put"
    BY <1>3, <1>4 DEF Delete
  <2>3. d \in Seq(P)
    <3> HIDE DEF D, P
    <3> QED
      BY <2>1
  <2> QED
    BY <1>3, <1>4, <2>2, <2>3
<1>6. ASSUME NEW s \in Seq(P), InflowsFirst(s, conf), \A r \in Range(s) : r.op # "put",
             todo' = s \o t,
             script = "remove" /\ ~refused' => Remaining(s \o t, conf, Cardinality(running), spines),
             refused' \in BOOLEAN
      PROVE  Inv'
  <2> DEFINE u == s \o t
  <2>1. u \in Seq(P) /\ Range(u) = Range(s) \cup Range(t)
    <3> HIDE DEF P, t
    <3>1. u \in Seq(P)
      BY <1>2, <1>6, ConcatProperties
    <3> QED
      BY <1>2, <1>6, <3>1, RangeOfBoth
  <2>2. todo' = u
    BY <1>6
  <2>3. Orderly => InflowsFirst(u, conf)
    <3> SUFFICES ASSUME Orderly PROVE InflowsFirst(u, conf)
      OBVIOUS
    <3>1. InflowsFirst(todo, conf) /\ Head(todo).op # "delete" /\ todo \in Seq(P)
      BY <1>0, <1>1 DEF Inv, OrderInv
    <3> HIDE DEF P
    <3> QED
      BY <1>0, <1>6, <3>1, GetKeepsInflowsFirst
  <2> HIDE DEF u
  <2>4. TypesInv' /\ HistoryInv' /\ PathsInv'
    BY <1>0, <1>1, <1>6 DEF Inv, TypesInv, HistoryInv, Orderly, PathsInv
  <2>5. ScriptInv'
    BY <1>0, <1>1, <2>1, <2>2 DEF Inv, ScriptInv
  <2>6. SaneInv'
    <3>1. ~renumbered => \A r \in Range(u) : r.op = "put" => Sane(r.flow)
      BY <1>2, <1>6, <2>1 DEF Inv, SaneInv
    <3> QED
      BY <1>0, <2>2, <3>1, SaneKept DEF Inv, SaneInv
  <2>7. OrderInv'
    BY <1>0, <1>1, <2>2, <2>3 DEF OrderInv, Orderly
  <2>8. RemovalInv'
    BY <1>0, <1>6 DEF RemovalInv
  <2> QED
    BY <2>4, <2>5, <2>6, <2>7, <2>8 DEF Inv
<1>7. CASE todo' = Deletes(n, id) \o t /\ UNCHANGED refused
  <2>1. todo' = d \o t
    BY <1>4, <1>7
  <2>2. ASSUME script = "remove", ~refused' PROVE Remaining(d \o t, conf, Cardinality(running), spines)
    <3> DEFINE m == Cardinality(running)
    <3>1. Remaining(todo, conf, m, spines)
      BY <1>7, <2>2 DEF Inv, RemovalInv
    <3>2. Covers(d, conf, Head(todo))
      BY <1>5 DEF Covers
    <3>3. PICK v : v = d \o Tail(todo)
      OBVIOUS
    <3>4. todo \in Seq(Removals) /\ d \in Seq(Removals) /\ todo # <<>> /\ Head(todo).op = "get"
      BY <1>0, <1>1, <1>5
    <3> HIDE DEF m
    <3>5. Remaining(v, conf, m, spines)
      BY <3>1, <3>2, <3>3, <3>4, GetKeepsRemaining
    <3> QED
      BY <3>3, <3>5 DEF m
  <2>3. refused' \in BOOLEAN
    BY <1>7 DEF Inv, TypesInv
  <2> HIDE DEF P, t, n, id
  <2> QED
    BY <1>5, <1>6, <2>1, <2>2, <2>3
<1>8. CASE ~refused /\ todo' = t /\ refused' = TRUE
  <2>1. <<>> \in Seq(P) /\ InflowsFirst(<<>>, conf) /\ (\A r \in Range(<<>>) : r.op # "put")
    BY AskedNone DEF InflowsFirst
  <2>2. todo' = <<>> \o t
    <3> HIDE DEF P, t
    <3> QED
      BY <1>2, <1>8, ConcatEmptySeq
  <2> HIDE DEF P, t, n, id
  <2> QED
    BY <1>6, <1>8, <2>1, <2>2
<1> QED
  BY <1>7, <1>8 DEF GetInstalledFlows

LEMMA DeletesKeepInv == Inv /\ FlowDelete => Inv'
<1> SUFFICES ASSUME Inv, FlowDelete PROVE Inv'
  OBVIOUS
<1>0. /\ todo # <<>> /\ Head(todo).op = "delete"
      /\ UNCHANGED <<running, dcms, script, spines, renumbered, table, scripts>>
  BY DEF FlowDelete
<1>1. script = "remove" /\ todo \in Seq(Removals)
  BY <1>0, Working
<1>2. /\ Head(todo) \in Changes /\ Head(todo) = todo[1] /\ 1 \in DOMAIN todo
      /\ Tail(todo) \in Seq(Removals) /\ Range(Tail(todo)) \subseteq Range(todo)
  <2> DEFINE P == Removals
  <2>1. todo \in Seq(P)
    BY <1>1
  <2> HIDE DEF P
  <2>2. Head(todo) \in P /\ Tail(todo) \in Seq(P) /\ Range(todo) = {Head(todo)} \cup Range(Tail(todo))
        /\ Head(todo) = todo[1] /\ 1 \in DOMAIN todo
    BY <1>0, <2>1, TailOf
  <2> QED
    BY <1>0, <2>2, RequestKinds DEF P
<1>3. CASE Granted
  <2>0. conf' = Applied(conf, Head(todo)) /\ todo' = Tail(todo) /\ UNCHANGED <<refused, strayed>>
    BY <1>3 DEF Granted
  <2>1. Dumped(dcms) /\ (~renumbered => \A f \in conf : Sane(f))
    BY DEF Inv, SaneInv, TypesInv
  <2>2. Orderly => InflowsFirst(todo, conf) /\ Closed(conf)
    <3> SUFFICES ASSUME Orderly PROVE InflowsFirst(todo, conf) /\ Closed(conf)
      OBVIOUS
    <3>1. InflowsFirst(todo, conf)
      BY <1>1 DEF Inv, OrderInv
    <3> DEFINE c == Orderly
    <3>2. Becomes(pending, table, conf, c) /\ pending \in Seq(Changes) /\ c
      BY DEF Inv, HistoryInv, TypesInv
    <3> HIDE DEF c
    <3>3. Closed(conf)
      BY <3>2, ClosedNow
    <3> QED
      BY <3>1, <3>3
  <2>3. Orderly => Closed(Applied(conf, Head(todo)))
    <3> SUFFICES ASSUME Orderly PROVE Closed(Applied(conf, todo[1]))
      BY <1>2
    <3>1. todo[1].op = "delete"
      BY <1>0, <1>2
    <3>2. \A f \in conf : Sane(f)
      BY <2>1 DEF Orderly
    <3> QED
      BY <1>2, <2>1, <2>2, <3>1, <3>2, DeleteKeepsClosed
  <2>4. Orderly => InflowsFirst(Tail(todo), Applied(conf, Head(todo)))
    <3> DEFINE P == Removals
    <3>1. todo \in Seq(P)
      BY <1>1
    <3> HIDE DEF P
    <3> QED
      BY <1>0, <2>2, <3>1, DeleteKeepsInflowsFirst
  <2>5. /\ TypesInv' /\ HistoryInv'
        /\ ~renumbered => /\ \A f \in conf' : Sane(f)
                          /\ \A r \in Range(pending)' : r.op = "put" => Sane(r.flow)
    <3>1. Head(todo).op # "put"
      BY <1>0
    <3> QED
      BY <1>0, <1>2, <1>3, <2>3, <3>1, GrantKeeps
  <2>6. ScriptInv'
    BY <1>0, <1>1, <1>2, <2>0 DEF Inv, ScriptInv
  <2>7. SaneInv'
    BY <1>0, <1>2, <2>0, <2>5, SaneKept DEF Inv, SaneInv
  <2>8. OrderInv'
    BY <1>0, <1>1, <2>0, <2>4 DEF OrderInv, Orderly
  <2>9. PathsInv'
    BY <1>0, <1>1 DEF PathsInv
  <2>10. RemovalInv'
    <3> SUFFICES ASSUME ~refused PROVE Remaining(Tail(todo), Applied(conf, Head(todo)), Cardinality(running), spines)
      BY <1>0, <2>0 DEF RemovalInv
    <3> DEFINE m == Cardinality(running)
    <3>1. Remaining(todo, conf, m, spines)
      BY <1>1 DEF Inv, RemovalInv
    <3> HIDE DEF m
    <3>2. Remaining(Tail(todo), Applied(conf, Head(todo)), m, spines)
      BY <1>0, <1>1, <3>1, DeleteKeepsRemaining
    <3> QED
      BY <3>2 DEF m
  <2> QED
    BY <2>5, <2>6, <2>7, <2>8, <2>9, <2>10 DEF Inv
<1>4. CASE ~refused /\ todo' = Tail(todo) /\ refused' = TRUE /\ strayed' = TRUE /\ UNCHANGED <<conf, pending>>
  <2>1. TypesInv' /\ PathsInv' /\ RemovalInv' /\ OrderInv'
    BY <1>0, <1>4 DEF Inv, TypesInv, PathsInv, RemovalInv, OrderInv, Orderly
  <2>2. HistoryInv'
    <3> DEFINE c == Orderly
    <3>1. Becomes(pending, table, conf, c)
      BY DEF Inv, HistoryInv
    <3> HIDE DEF c
    <3>2. Becomes(pending, table, conf, FALSE)
      BY <3>1, BecomesWeaker
    <3>3. Orderly' = FALSE
      BY <1>4 DEF Orderly
    <3> QED
      BY <1>0, <1>4, <3>2, <3>3 DEF HistoryInv
  <2>3. ScriptInv'
    BY <1>0, <1>1, <1>2, <1>4 DEF Inv, ScriptInv
  <2>4. SaneInv'
    BY <1>0, <1>2, <1>4, SaneKept DEF Inv, SaneInv
  <2> QED
    BY <2>1, <2>2, <2>3, <2>4 DEF Inv
<1> QED
  BY <1>3, <1>4 DEF FlowDelete

LEMMA RemovedRange ==
  ASSUME NEW R, NEW q \in Seq(R), NEW x \in DOMAIN q
  PROVE  Range(RemoveAt(q, x)) \subseteq Range(q) /\ q[x] \in Range(q)
<1> DEFINE p == RemoveAt(q, x)
           n == Len(q)
<1>0. n \in Nat /\ x \in 1 .. n /\ DOMAIN q = 1 .. n
  OBVIOUS
<1>1. /\ p \in Seq(R) /\ Len(p) = n - 1
      /\ \A i \in 1 .. x - 1 : p[i] = q[i]
      /\ \A i \in x .. n - 1 : p[i] = q[i + 1]
  BY RemovedAt
<1>2. DOMAIN p = 1 .. n - 1
  <2> HIDE DEF p
  <2> QED
    BY <1>1
<1> HIDE DEF p, n
<1>3. \A i \in 1 .. n - 1 : \E j \in 1 .. n : p[i] = q[j]
  <2> SUFFICES ASSUME NEW i \in 1 .. n - 1 PROVE \E j \in 1 .. n : p[i] = q[j]
    OBVIOUS
  <2>1. CASE i < x
    BY <1>0, <1>1, <2>1
  <2>2. CASE ~(i < x)
    <3>1. i \in x .. n - 1 /\ i + 1 \in 1 .. n
      BY <1>0, <2>2
    <3> QED
      BY <1>1, <3>1
  <2> QED
    BY <2>1, <2>2
<1> QED
  BY <1>0, <1>2, <1>3 DEF Range, p

LEMMA ApplyKeepsInv == Inv /\ Apply => Inv'
<1> SUFFICES ASSUME Inv, Apply PROVE Inv'
  OBVIOUS
<1>0. UNCHANGED <<running, dcms, script, spines, todo, refused, strayed, renumbered, conf, scripts>>
  BY DEF Apply, history
<1>1. PICK x \in DOMAIN pending :
        /\ \A y \in 1 .. x - 1 : pending[y].flow.node # pending[x].flow.node
        /\ table' = Applied(table, pending[x])
        /\ pending' = RemoveAt(pending, x)
  BY DEF Apply
<1>2. /\ pending' \in Seq(Changes) /\ Len(pending') <= MaxPending
      /\ Range(pending)' \subseteq Range(pending) /\ pending[x] \in Range(pending) /\ pending[x] \in Changes
  <2> DEFINE C == Changes
  <2>1. pending \in Seq(C) /\ Len(pending) <= MaxPending /\ MaxPending \in Nat
    BY BoundsAssumption DEF Inv, TypesInv
  <2> HIDE DEF C
  <2>2. RemoveAt(pending, x) \in Seq(C) /\ Len(RemoveAt(pending, x)) = Len(pending) - 1
    BY <2>1, RemovedAt
  <2>3. Range(RemoveAt(pending, x)) \subseteq Range(pending) /\ pending[x] \in Range(pending)
    BY <2>1, RemovedRange
  <2>4. pending[x] \in C /\ Len(pending) \in Nat
    BY <2>1
  <2> QED
    BY <1>1, <2>1, <2>2, <2>3, <2>4 DEF C
<1>3. Flows(table')
  <2>1. Flows(table)
    BY DEF Inv, TypesInv
  <2> QED
    BY <1>1, <1>2, <2>1, AppliedFlows
<1>4. TypesInv'
  BY <1>0, <1>2, <1>3 DEF Inv, TypesInv
<1>5. HistoryInv'
  <2> DEFINE c == Orderly
  <2>1. Becomes(pending, table, conf, c) /\ pending \in Seq(Changes)
    BY DEF Inv, HistoryInv, TypesInv
  <2> HIDE DEF c
  <2>2. Becomes(RemoveAt(pending, x), Applied(table, pending[x]), conf, c)
    BY <1>1, <2>1, OneLessHappens
  <2> QED
    BY <1>0, <1>1, <2>2 DEF HistoryInv, Orderly, c
<1>6. SaneInv'
  <2>1. ~renumbered => \A f \in table' : Sane(f)
    <3> SUFFICES ASSUME ~renumbered, NEW f \in table' PROVE Sane(f)
      OBVIOUS
    <3>1. f \in table \/ (pending[x].op = "put" /\ f = pending[x].flow)
      BY <1>1, AppliedHas
    <3> QED
      BY <1>2, <3>1 DEF Inv, SaneInv
  <2> QED
    BY <1>0, <1>2, <2>1, SaneKept DEF Inv, SaneInv
<1>7. ScriptInv' /\ OrderInv' /\ RemovalInv'
  BY <1>0 DEF Inv, ScriptInv, OrderInv, Orderly, RemovalInv
<1>8. PathsInv'
  <2> SUFFICES ASSUME script = "distribute", ~refused, ~renumbered PROVE PathsInv'
    BY <1>0 DEF PathsInv
  <2>1. PICK mode, s, S : s = todo /\ S = conf /\ PathsAsked(mode, s, S)
    BY DEF Inv, PathsInv
  <2>2. PathsAsked(mode, s, S)'
    BY <1>0, <2>1, PathsKept
  <2>3. s = todo' /\ S = conf'
    BY <1>0, <2>1
  <2> QED
    BY <2>2, <2>3 DEF PathsInv
<1> QED
  BY <1>4, <1>5, <1>6, <1>7, <1>8 DEF Inv

LEMMA NextKeepsInv == Inv /\ [Next]_vars => Inv'
<1> SUFFICES ASSUME Inv, [Next]_vars PROVE Inv'
  OBVIOUS
<1>1. CASE UNCHANGED vars
  <2>1. UNCHANGED <<running, dcms, script, spines, todo, refused, strayed, renumbered, conf, table, pending, scripts>>
    BY <1>1 DEF vars, history
  <2>2. SaneInv'
    BY <2>1, SaneKept DEF Inv, SaneInv
  <2>3. PathsInv'
    <3> SUFFICES ASSUME script = "distribute", ~refused, ~renumbered PROVE PathsInv'
      BY <2>1 DEF PathsInv
    <3>1. PICK mode, s, S : s = todo /\ S = conf /\ PathsAsked(mode, s, S)
      BY DEF Inv, PathsInv
    <3>2. PathsAsked(mode, s, S)'
      BY <2>1, <3>1, PathsKept
    <3> QED
      BY <2>1, <3>1, <3>2 DEF PathsInv
  <2>4. TypesInv' /\ ScriptInv' /\ OrderInv' /\ HistoryInv' /\ RemovalInv'
    BY <2>1 DEF Inv, TypesInv, ScriptInv, OrderInv, HistoryInv, Orderly, RemovalInv
  <2> QED
    BY <2>2, <2>3, <2>4 DEF Inv
<1>2. CASE DistributeDcms
  BY <1>2, DistributeKeepsInv
<1>3. CASE RemoveDcms
  BY <1>3, RemoveKeepsInv
<1>4. CASE ShowDcms
  BY <1>4, ShowKeepsInv
<1>5. ASSUME NEW p \in Procs, ProcessEnds(p) PROVE Inv'
  BY <1>5, EndsKeepsInv
<1>6. CASE FlowAdd
  BY <1>6, AddKeepsInv
<1>7. CASE GetInstalledFlows
  BY <1>7, GetsKeepInv
<1>8. CASE FlowDelete
  BY <1>8, DeletesKeepInv
<1>9. CASE ScriptEnds
  BY <1>9, ScriptEndKeepsInv
<1>10. CASE Apply
  BY <1>10, ApplyKeepsInv
<1>11. CASE Done
  BY <1>1, <1>11 DEF Done
<1> QED
  BY <1>1, <1>2, <1>3, <1>4, <1>5, <1>6, <1>7, <1>8, <1>9, <1>10, <1>11 DEF Next

\* Whatever the scripts ask for, the controller refuses and the bridges have not heard of
\* yet: flows and requests are those of paths, in an order that leaves a way out of every
\* ring until no way into it is left.  install_path puts the flow out of a ring first, and
\* remove_path deletes the inflows of a DCM before the flows of its rings.
THEOREM InvHolds == Spec => []Inv
<1>1. Init => Inv
  BY InitInv
<1>2. Inv /\ [Next]_vars => Inv'
  BY NextKeepsInv
<1> QED
  BY <1>1, <1>2, PTL DEF Spec

-----------------------------------------------------------------------------
(* A distribution that nothing of others runs into. *)
\* Its flows at end nodes are asked for, and are on their way, after those at last leaves.
OnTheirWay(d, q, S) == \A r \in Range(q) : r.op = "put" /\ LastThere(d, r.flow, S)
LastsInv ==
  /\ late \in BOOLEAN
  /\ script = "distribute" /\ ~late => LastsFirst(dcms, todo, conf) /\ OnTheirWay(dcms, pending, conf)

LEMMA GrantedOnTheirWay ==
  ASSUME NEW d, NEW q \in Seq(Changes), NEW S, NEW r \in Changes, OnTheirWay(d, q, S), r.op = "put",
         LastThere(d, r.flow, S)
  PROVE  OnTheirWay(d, Append(q, r), Applied(S, r))
<1> DEFINE C == Changes
           v == Append(q, r)
<1>1. q \in Seq(C) /\ r \in C
  OBVIOUS
<1> HIDE DEF C
<1>2. Range(v) = Range(q) \cup {r}
  <2>1. Len(v) = Len(q) + 1 /\ Len(q) \in Nat /\ DOMAIN v = 1 .. Len(v) /\ DOMAIN q = 1 .. Len(q)
        /\ v[Len(q) + 1] = r
    BY <1>1
  <2>2. \A x \in 1 .. Len(q) : v[x] = q[x]
    BY <1>1
  <2> HIDE DEF v
  <2>3. \A x \in 1 .. Len(v) : x \in 1 .. Len(q) \/ x = Len(q) + 1
    BY <2>1
  <2>4. Len(q) + 1 \in 1 .. Len(v) /\ 1 .. Len(q) \subseteq 1 .. Len(v)
    BY <2>1
  <2> QED
    BY <2>1, <2>2, <2>3, <2>4 DEF Range
<1> HIDE DEF v
<1>3. ASSUME NEW o \in Range(q) PROVE LastThere(d, o.flow, Applied(S, r))
  <2>1. LastThere(d, o.flow, S)
    BY DEF OnTheirWay
  <2> QED
    BY <2>1, PutKeepsLast
<1>4. LastThere(d, r.flow, Applied(S, r))
  BY PutKeepsLast
<1>5. \A o \in Range(v) : o.op = "put" /\ LastThere(d, o.flow, Applied(S, r))
  BY <1>2, <1>3, <1>4 DEF OnTheirWay
<1> QED
  BY <1>5 DEF OnTheirWay, v

LEMMA NothingAsked ==
  \A d, S : LastsFirst(d, <<>>, S) /\ OnTheirWay(d, <<>>, S)
<1>1. \A d, S : LastsFirst(d, <<>>, S)
  BY DEF LastsFirst
<1>2. \A d, S : OnTheirWay(d, <<>>, S)
  BY AskedNone DEF OnTheirWay
<1> QED
  BY <1>1, <1>2

LEMMA InitLasts == Init => LastsInv
BY DEF Init, LastsInv

LEMMA DistributeKeepsLasts == Inv /\ DistributeDcms => LastsInv'
<1> SUFFICES ASSUME Inv, DistributeDcms PROVE LastsInv'
  OBVIOUS
<1>0. late' = (pending # <<>>) /\ UNCHANGED <<dcms, conf, pending>>
  BY DEF DistributeDcms
<1>1. late' \in BOOLEAN
  BY <1>0
<1>2. ASSUME ~late' PROVE LastsFirst(dcms, todo', conf) /\ OnTheirWay(dcms, pending, conf)
  <2>1. pending = <<>>
    BY <1>0, <1>2
  <2>2. PICK mode \in Modes, l \in SpineLists, order \in SetToSeqs(DOMAIN dcms) :
          todo' = Distribution(order, l, mode)
    BY DEF DistributeDcms, Distribution
  <2>3. PICK s : s = todo'
    OBVIOUS
  <2>4. Dumped(dcms)
    BY DEF Inv, TypesInv
  <2>5. LastsFirst(dcms, s, conf)
    BY <2>2, <2>3, <2>4, DistributionLasts
  <2> QED
    BY <2>1, <2>3, <2>5, NothingAsked
<1> QED
  BY <1>0, <1>1, <1>2 DEF LastsInv

LEMMA AddKeepsLasts == Inv /\ LastsInv /\ FlowAdd => LastsInv'
<1> SUFFICES ASSUME Inv, LastsInv, FlowAdd PROVE LastsInv'
  OBVIOUS
<1>0. todo # <<>> /\ Head(todo).op = "put" /\ UNCHANGED <<dcms, script, late>>
  BY DEF FlowAdd
<1>1. script = "distribute" /\ todo \in Seq(Puts)
  BY <1>0, Working
<1> SUFFICES ASSUME ~late
    PROVE  LastsFirst(dcms, todo', conf') /\ OnTheirWay(dcms, pending', conf')
  BY <1>0 DEF LastsInv
<1>2. LastsFirst(dcms, todo, conf) /\ OnTheirWay(dcms, pending, conf)
  BY <1>1 DEF LastsInv
<1>3. CASE Granted
  <2>1. conf' = Applied(conf, Head(todo)) /\ todo' = Tail(todo) /\ pending' = Append(pending, Head(todo))
    BY <1>3 DEF Granted
  <2>2. LastsFirst(dcms, Tail(todo), Applied(conf, Head(todo))) /\ LastThere(dcms, Head(todo).flow, conf)
    BY <1>0, <1>1, <1>2, PutKeepsLasts
  <2>3. Head(todo) \in Changes
    <3> DEFINE P == Puts
    <3>1. todo \in Seq(P)
      BY <1>1
    <3> HIDE DEF P
    <3>2. Head(todo) \in P
      BY <1>0, <3>1, TailOf
    <3> QED
      BY <3>2, RequestKinds DEF P
  <2>4. pending \in Seq(Changes)
    BY DEF Inv, TypesInv
  <2>5. OnTheirWay(dcms, Append(pending, Head(todo)), Applied(conf, Head(todo)))
    BY <1>0, <1>2, <2>2, <2>3, <2>4, GrantedOnTheirWay
  <2> QED
    BY <2>1, <2>2, <2>5
<1>4. CASE todo' = <<>> /\ UNCHANGED <<conf, pending>>
  BY <1>2, <1>4, NothingAsked
<1> QED
  BY <1>3, <1>4 DEF FlowAdd

LEMMA ApplyKeepsLasts == Inv /\ LastsInv /\ Apply => LastsInv'
<1> SUFFICES ASSUME Inv, LastsInv, Apply PROVE LastsInv'
  OBVIOUS
<1>1. UNCHANGED <<dcms, script, late, todo, conf>>
  BY DEF Apply, history
<1>2. PICK x \in DOMAIN pending : pending' = RemoveAt(pending, x)
  BY DEF Apply
<1>3. Range(pending') \subseteq Range(pending)
  <2> DEFINE C == Changes
  <2>1. pending \in Seq(C)
    BY DEF Inv, TypesInv
  <2> HIDE DEF C
  <2>2. Range(RemoveAt(pending, x)) \subseteq Range(pending)
    BY <2>1, RemovedRange
  <2> QED
    BY <1>2, <2>2
<1> QED
  BY <1>1, <1>3 DEF LastsInv, OnTheirWay

LEMMA NextKeepsLasts == Inv /\ LastsInv /\ [Next]_vars => LastsInv'
<1> SUFFICES ASSUME Inv, LastsInv, [Next]_vars PROVE LastsInv'
  OBVIOUS
<1>1. CASE UNCHANGED vars
  BY <1>1 DEF vars, history, LastsInv
<1>2. CASE DistributeDcms
  BY <1>2, DistributeKeepsLasts
<1>3. CASE RemoveDcms
  BY <1>3 DEF RemoveDcms, history, LastsInv
<1>4. CASE ShowDcms
  BY <1>4 DEF ShowDcms, Idle, LastsInv
<1>5. ASSUME NEW p \in Procs, ProcessEnds(p) PROVE LastsInv'
  BY <1>5 DEF ProcessEnds, Idle, history, LastsInv
<1>6. CASE FlowAdd
  BY <1>6, AddKeepsLasts
<1>7. CASE GetInstalledFlows
  <2>1. script = "remove" /\ UNCHANGED <<script, late>>
    BY <1>7, Working DEF GetInstalledFlows, history
  <2> QED
    BY <2>1 DEF LastsInv
<1>8. CASE FlowDelete
  <2>1. script = "remove" /\ UNCHANGED <<script, late>>
    BY <1>8, Working DEF FlowDelete
  <2> QED
    BY <2>1 DEF LastsInv
<1>9. CASE ScriptEnds
  BY <1>9 DEF ScriptEnds, LastsInv
<1>10. CASE Apply
  BY <1>10, ApplyKeepsLasts
<1>11. CASE Done
  BY <1>1, <1>11 DEF Done
<1> QED
  BY <1>1, <1>2, <1>3, <1>4, <1>5, <1>6, <1>7, <1>8, <1>9, <1>10, <1>11 DEF Next

LEMMA LastsHold == Spec => []LastsInv
<1>1. Init => LastsInv
  BY InitLasts
<1>2. Inv /\ LastsInv /\ [Next]_vars => LastsInv'
  BY NextKeepsLasts
<1> QED
  BY <1>1, <1>2, InvHolds, PTL DEF Spec
-----------------------------------------------------------------------------
(* What the properties say. *)
LEMMA InvTypeOK == Inv /\ LastsInv => TypeOK
<1> SUFFICES ASSUME Inv, LastsInv PROVE TypeOK
  OBVIOUS
<1>1. Range(dcms) \subseteq Procs
  BY DEF Inv, TypesInv, Dumped, Range
<1>2. IF script = "none" THEN spines = <<>> ELSE spines \in SpineLists
  BY DEF Inv, ScriptInv
<1>3. ASSUME NEW r \in Range(todo)
      PROVE  IF r.op = "get" THEN r.node \in Bridges ELSE r.flow \in Flow
  <2>1. todo # <<>>
    BY <1>3, AskedNone
  <2> DEFINE P == Puts
             D == Removals
  <2>2. r \in P \/ r \in D
    <3>1. CASE script = "distribute"
      <4>1. todo \in Seq(P)
        BY <3>1 DEF Inv, ScriptInv
      <4> HIDE DEF P
      <4> QED
        BY <1>3, <4>1 DEF Range
    <3>2. CASE script = "remove"
      <4>1. todo \in Seq(D)
        BY <3>2 DEF Inv, ScriptInv
      <4> HIDE DEF D
      <4> QED
        BY <1>3, <4>1 DEF Range
    <3> QED
      BY <2>1, <3>1, <3>2 DEF Inv, ScriptInv, TypesInv
  <2>3. \A q \in P : q.op # "get" /\ q.flow \in Flow
    BY DEF Puts
  <2>4. \A q \in D : IF q.op = "get" THEN q.node \in Bridges ELSE q.flow \in Flow
    BY DEF Removals, Deletions, Gets
  <2> HIDE DEF P, D
  <2> QED
    BY <2>2, <2>3, <2>4
<1>4. ASSUME NEW S \in {conf, table}
      PROVE  Cardinality({<<f.node, f.dcm, f.k>> : f \in S}) = Cardinality(S)
  <2>1. IsFiniteSet(S) /\ OneEach(S)
    BY DEF Inv, TypesInv, Flows
  <2> QED
    BY <2>1, OneEachCounted
<1>5. /\ running \subseteq Procs /\ script \in {"none", "distribute", "remove"}
      /\ {refused, late, strayed, renumbered} \subseteq BOOLEAN /\ scripts \in 0 .. MaxScripts
      /\ conf \subseteq Flow /\ table \subseteq Flow /\ Len(pending) <= MaxPending
  BY DEF Inv, TypesInv, Flows, LastsInv
<1> QED
  BY <1>1, <1>2, <1>3, <1>4, <1>5 DEF TypeOK

\* The variables have their types, and no bridge has two flows of one id: flow_add stores
\* a flow under the id that install_path counts out, in place of what was there.
THEOREM TypesHold == Spec => []TypeOK
BY InvHolds, LastsHold, InvTypeOK, PTL

\* The table the walks are about is sound.
LEMMA InvLaid == Inv /\ ~renumbered => Laid
BY DEF Inv, TypesInv, SaneInv, SaneTable, Flows, Laid

LEMMA InvSound == Inv /\ Orderly => Sound
<1> SUFFICES ASSUME Inv, Orderly PROVE Sound
  OBVIOUS
<1>1. Laid
  BY InvLaid DEF Orderly
<1>2. Closed(table)
  <2> DEFINE c == Orderly
  <2>1. Becomes(pending, table, conf, c) /\ pending \in Seq(Changes) /\ c
    BY DEF Inv, HistoryInv, TypesInv
  <2> HIDE DEF c
  <2> QED
    BY <2>1, ClosedNow
<1> QED
  BY <1>1, <1>2 DEF Sound

LEMMA InvNeverAstray == Inv => NeverAstray
<1> SUFFICES ASSUME Inv, ~renumbered
             PROVE  \A c \in Conns : \A pos \in Walk(c) :
                      \/ pos = <<Dst[c], <<"taken">>>>
                      \/ /\ pos[2] = <<"dropped">> /\ pos[1] \in Leaves \cup Spines
                         /\ ~strayed => Matching(Leaf(pos[1][2], PodOf[Dst[c]]), c) = {}
  BY DEF NeverAstray
<1>1. Laid /\ (~strayed => Sound)
  BY InvLaid, InvSound DEF Orderly
<1> QED
  BY <1>1, LaidNeverAstray DEF Sound, Orderly

\* In no state of the bridges on the way from one set of flows to another does a packet of
\* a connection go to another DCM or go round, whatever was refused, unless an id of flows
\* that are there has become another DCM's.  As long as flow_delete has not passed over a
\* refused DELETE either, it gets out of every ring it is led into: the order of requests in
\* install_path and remove_path is enough for that.
THEOREM PacketsNeverAstray == Spec => []NeverAstray
BY InvHolds, InvNeverAstray, PTL

LEMMA InvDistributed == Inv => Distributed
<1> SUFFICES ASSUME Inv, script = "distribute", todo = <<>>, ~refused, pending = <<>>, ~renumbered,
                    NEW c \in UNION {Range(Inflows[p]) : p \in Range(dcms)}
             PROVE  Delivered(c)
  BY DEF Distributed
<1>1. PICK p \in Range(dcms) : c \in Range(Inflows[p])
  OBVIOUS
<1>2. PICK id \in DOMAIN dcms : p = dcms[id]
  BY DEF Range
<1>3. table = conf
  <2>1. Becomes(<<>>, table, conf, Orderly)
    BY DEF Inv, HistoryInv
  <2> QED
    BY <2>1, NothingHappens
<1>4. PICK mode : PathsAsked(mode, <<>>, conf)
  BY DEF Inv, PathsInv
<1>5. PICK spine \in Spines : PathFlows(id, spine, mode) \subseteq table
  BY <1>3, <1>4, PathsThere
<1>6. OnPath(id, spine, mode)
  BY <1>5 DEF OnPath, Inv, TypesInv, SaneInv, SaneTable, Flows
<1>7. c \in Range(Inflows[dcms[id]])
  BY <1>1, <1>2
<1> QED
  BY <1>6, <1>7, PathDelivers

\* A run of odl_distribute_dcms that ended without a refusal and has reached the bridges
\* leads every connection to its DCM on the spine install_path was called with, whatever
\* flows were there before, unless they were installed when ids meant other DCMs.
THEOREM DistributionDelivers == Spec => []Distributed
BY InvHolds, InvDistributed, PTL

LEMMA InvRemoves == Inv => RemovesScannedIds
<1> SUFFICES ASSUME Inv, script = "remove", todo = <<>>, ~refused, NEW f \in conf
             PROVE  f.dcm > Cardinality(running) \/ f.node \in Spines \ Range(spines)
  BY DEF RemovesScannedIds
<1>1. Remaining(<<>>, conf, Cardinality(running), spines)
  BY DEF Inv, RemovalInv
<1>2. ~WillGo(f, <<>>)
  BY AskedNone DEF WillGo
<1> QED
  BY <1>1, <1>2 DEF Remaining

\* A run of odl_remove_dcms that ended without a refusal leaves no flow of the ids it
\* scanned on the bridges it saw, however far distributions had come: remove_path finds
\* flows by the parts of their ids, not by the paths that were asked for.
THEOREM RemovalRemoves == Spec => []RemovesScannedIds
BY InvHolds, InvRemoves, PTL
-----------------------------------------------------------------------------
(* Paths are kept. *)
LEMMA OneHappens ==
  ASSUME NEW r, NEW S, NEW T, NEW c, Becomes(<<r>>, S, T, c)
  PROVE  T = Applied(S, r)
<1>1. PICK h : Happens(h, <<r>>, S, T, c)
  BY DEF Becomes
<1>2. Len(<<r>>) = 1 /\ <<r>>[1] = r /\ 1 \in 1 .. 1 /\ 1 - 1 = 0
  OBVIOUS
<1>3. h[0] = S /\ h[1] = T /\ h[1] = Applied(h[1 - 1], r)
  BY <1>1, <1>2 DEF Happens
<1> QED
  BY <1>2, <1>3

\* The one request on its way is all that is missing from the bridges.
LEMMA OneOnItsWay ==
  ASSUME Inv, NEW r, pending = <<r>>
  PROVE  conf = Applied(table, r) /\ r \in Changes
<1>1. r \in Changes
  <2> DEFINE C == Changes
  <2>1. pending \in Seq(C)
    BY DEF Inv, TypesInv
  <2> HIDE DEF C
  <2>2. r \in C
    BY <2>1
  <2> QED
    BY <2>2 DEF C
<1>2. PICK c : Becomes(<<r>>, table, conf, c)
  BY DEF Inv, HistoryInv
<1> QED
  BY <1>1, <1>2, OneHappens

Walked == \A c \in Conns : Delivered(c) <=> Reaches(table, c)
LEMMA SoundWalked == Sound => Walked
BY SoundReaches DEF Walked

LEMMA InvWalked == Inv /\ Orderly => Walked
BY InvSound, SoundWalked

\* When the one request on its way is brought to its bridge, the last leaf has its flow.
LEMMA OneApplied ==
  ASSUME Inv, LastsInv, Apply, script = "distribute", ~late, Len(pending) = 1, ~renumbered,
         NEW c \in Conns, Reaches(table, c)
  PROVE  Reaches(table', c)
<1>1. PICK x \in DOMAIN pending : table' = Applied(table, pending[x])
  BY DEF Apply
<1> DEFINE r == pending[1]
<1>2. x = 1 /\ pending = <<r>> /\ r \in Range(pending)
  <2> DEFINE C == Changes
  <2>1. pending \in Seq(C)
    BY DEF Inv, TypesInv
  <2> HIDE DEF C
  <2>2. x = 1 /\ pending = <<pending[1]>> /\ 1 \in DOMAIN pending
    BY <2>1
  <2> QED
    BY <2>2 DEF Range
<1> HIDE DEF r
<1>3. table' = Applied(table, r)
  BY <1>1, <1>2 DEF r
<1>4. conf = Applied(table, r) /\ r \in Changes
  BY <1>2, OneOnItsWay
<1>5. r.op = "put" /\ LastThere(dcms, r.flow, conf)
  BY <1>2 DEF LastsInv, OnTheirWay
<1>6. r \in Puts
  BY <1>4, <1>5 DEF Changes, Puts, Deletions
<1>7. Dumped(dcms) /\ Sane(r.flow) /\ \A g \in table : Sane(g)
  BY <1>2, <1>5 DEF Inv, TypesInv, SaneInv
<1>8. r.flow.node \in Ends => \E g \in table : IsLastOf(dcms, g, r.flow)
  <2> SUFFICES ASSUME r.flow.node \in Ends PROVE \E g \in table : IsLastOf(dcms, g, r.flow)
    OBVIOUS
  <2>1. PICK g \in conf : IsLastOf(dcms, g, r.flow)
    BY <1>5 DEF LastThere
  <2>2. g.node # r.flow.node
    BY <2>1, Names DEF IsLastOf
  <2>3. g \in table
    BY <1>4, <2>1, <2>2, AppliedElsewhere
  <2> QED
    BY <2>1, <2>3
<1>9. Reaches(Applied(table, r), c)
  <2> PICK S : S = table
    OBVIOUS
  <2>1. \A g \in S : Sane(g)
    BY <1>7
  <2>2. r.flow.node \in Ends => \E g \in S : IsLastOf(dcms, g, r.flow)
    BY <1>8
  <2>3. Reaches(Applied(S, r), c)
    BY <1>6, <1>7, <2>1, <2>2, PutKeepsReach
  <2> QED
    BY <2>3
<1> QED
  BY <1>3, <1>9

LEMMA StepKeepsPaths ==
  Inv /\ LastsInv /\ Inv' /\ [Next]_vars =>
    [ script = "distribute" /\ ~late /\ Len(pending) = 1 /\ ~strayed /\ ~renumbered =>
        \A c \in Conns : Delivered(c) => Delivered(c)' ]_table
<1> SUFFICES ASSUME Inv, LastsInv, Inv', [Next]_vars, table' # table,
                    script = "distribute", ~late, Len(pending) = 1, ~strayed, ~renumbered,
                    NEW c \in Conns, Delivered(c)
             PROVE  Delivered(c)'
  OBVIOUS
<1>1. Apply
  BY DEF Next, vars, history, DistributeDcms, RemoveDcms, ShowDcms, ProcessEnds, FlowAdd, GetInstalledFlows,
         FlowDelete, ScriptEnds, Done
<1>2. Orderly /\ Orderly'
  BY <1>1 DEF Apply, history, Orderly
<1>3. Walked
  BY <1>2, InvWalked
<1>4. Walked'
  BY <1>2, InvWalked, PTL
<1>5. Reaches(table, c)
  BY <1>3 DEF Walked
<1>6. Reaches(table', c)
  BY <1>1, <1>5, OneApplied
<1>7. Reaches(table, c)'
  BY <1>6 DEF Reaches, Enters, HasLast, LastLeaf, Pod
<1> QED
  BY <1>4, <1>7 DEF Walked

\* While the requests of a distribution come to the bridges one by one, none of them takes
\* a connection from its path, as long as ids mean what they meant and no DELETE was passed
\* over: install_path puts the flows of the last leaf before it leads a connection into a
\* plane, so that in every plane a connection enters there is a flow
\* that takes it to its DCM, and any packet that comes there comes home.
THEOREM PathsStay == Spec => PathsAreKept
<1>1. Inv /\ LastsInv /\ Inv' /\ [Next]_vars =>
        [ script = "distribute" /\ ~late /\ Len(pending) = 1 /\ ~strayed /\ ~renumbered =>
            \A c \in Conns : Delivered(c) => Delivered(c)' ]_table
  BY StepKeepsPaths
<1> QED
  BY <1>1, InvHolds, LastsHold, PTL DEF Spec, PathsAreKept
=============================================================================
