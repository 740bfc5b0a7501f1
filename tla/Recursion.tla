---------------------------- MODULE Recursion ----------------------------
(***************************************************************************)
(* Lemmas that other proofs rest on and that mention no state: induction   *)
(* over numbers, functions defined by recursion, and what Selection makes  *)
(* of a sequence.                                                          *)
(*                                                                         *)
(* The induction theorems of the library take a predicate as a parameter.  *)
(* SetInduction has a set T in its place, the numbers for which a claim    *)
(* holds, and follows from the library's theorem that < is well-founded.   *)
(***************************************************************************)
EXTENDS Integers, Selection, SequenceTheorems, WellFoundedInduction, TLAPS

\* A set that has 0 and with each number the next one has all numbers.
LEMMA SetInduction ==
  ASSUME NEW T, 0 \in T, \A n \in Nat : n \in T => n + 1 \in T
  PROVE  Nat \subseteq T
<1> DEFINE bad == {n \in Nat : n \notin T}
           Less == {ss \in Nat \X Nat : ss[1] < ss[2]}
<1> SUFFICES ASSUME bad # {} PROVE FALSE
  OBVIOUS
<1>1. IsWellFoundedOn(Less, Nat)
  <2>1. OpToRel(<, Nat) = Less
    BY Zenon DEF OpToRel
  <2> QED
    BY <2>1, NatLessThanWellFounded
<1>2. PICK x \in bad : \A y \in bad : ~(<<y, x>> \in Less)
  <2> HIDE DEF bad
  <2>1. bad \subseteq Nat
    BY DEF bad
  <2> QED
    BY <1>1, <2>1, WFMin
<1>3. x # 0 /\ x - 1 \in Nat /\ <<x - 1, x>> \in Less
  OBVIOUS
<1>4. x - 1 \in T
  BY <1>2, <1>3
<1> QED
  BY <1>3, <1>4

\* A set of numbers that is not empty has a least one.
LEMMA LeastNumber ==
  ASSUME NEW T, T \subseteq Nat, T # {}
  PROVE  \E m \in T : \A x \in T : m <= x
<1> DEFINE U == {n \in Nat : \A x \in T : n <= x}
<1>1. PICK t \in T : TRUE
  OBVIOUS
<1>2. 0 \in U
  OBVIOUS
<1>3. ~(t + 1 \in U)
  BY <1>1
<1>4. PICK n \in Nat : n \in U /\ n + 1 \notin U
  <2> HIDE DEF U
  <2> SUFFICES ASSUME \A n \in Nat : n \in U => n + 1 \in U PROVE FALSE
    OBVIOUS
  <2>1. Nat \subseteq U
    BY <1>2, SetInduction
  <2>2. t + 1 \in Nat
    BY <1>1
  <2> QED
    BY <1>3, <2>1, <2>2
<1>5. PICK x \in T : ~(n + 1 <= x)
  BY <1>4
<1>6. x = n
  BY <1>4, <1>5
<1> QED
  BY <1>4, <1>6

\* Induction from a number on, up to another.
LEMMA RangeInduction ==
  ASSUME NEW k \in Int, NEW n \in Int, NEW T, k \in T,
         \A x \in k .. n - 1 : x \in T => x + 1 \in T
  PROVE  k .. n \subseteq T
<1> DEFINE U == {d \in Nat : k + d <= n => k + d \in T}
<1>1. 0 \in U
  OBVIOUS
<1>2. ASSUME NEW d \in Nat, d \in U PROVE d + 1 \in U
  <2> SUFFICES ASSUME k + (d + 1) <= n PROVE k + (d + 1) \in T
    OBVIOUS
  <2>1. k + d \in k .. n - 1 /\ k + d \in T /\ k + (d + 1) = k + d + 1
    BY <1>2
  <2> QED
    BY <2>1
<1>3. Nat \subseteq U
  <2> HIDE DEF U
  <2> QED
    BY <1>1, <1>2, SetInduction
<1>4. ASSUME NEW x \in k .. n PROVE x \in T
  <2>1. x - k \in Nat /\ k + (x - k) = x
    OBVIOUS
  <2> QED
    BY <1>3, <2>1
<1> QED
  BY <1>4

\* A function defined by recursion over k .. n: its value at k, and what step
\* gives for each next number.
IsRecursive(f, S, a, k, n, step) ==
  /\ f \in [k .. n -> S] /\ f[k] = a
  /\ \A x \in k + 1 .. n : f[x] = step[x][f[x - 1]]

\* A recursion from k to n has a function that satisfies it.
LEMMA RecursiveFunction ==
  ASSUME NEW S, NEW a \in S, NEW k \in Int, NEW n \in Int, k <= n,
         NEW step \in [k + 1 .. n -> [S -> S]]
  PROVE  \E f : IsRecursive(f, S, a, k, n, step)
<1> DEFINE Def(g, m) == IsRecursive(g, S, a, k, m, step)
           T == {m \in k .. n : \E g : Def(g, m)}
<1>1. k \in T
  <2>1. Def([x \in k .. k |-> a], k)
    BY DEF IsRecursive
  <2>2. k \in k .. n
    OBVIOUS
  <2> HIDE DEF Def
  <2> QED
    BY <2>1, <2>2
<1>2. ASSUME NEW m \in k .. n - 1, m \in T PROVE m + 1 \in T
  <2>1. PICK g : Def(g, m)
    BY <1>2
  <2> DEFINE h == [x \in k .. m + 1 |-> IF x <= m THEN g[x] ELSE step[m + 1][g[m]]]
  <2>2. Def(h, m + 1)
    <3>1. h \in [k .. m + 1 -> S]
      BY <2>1 DEF IsRecursive
    <3>2. h[k] = a
      BY <2>1 DEF IsRecursive
    <3>3. ASSUME NEW x \in k + 1 .. m + 1 PROVE h[x] = step[x][h[x - 1]]
      <4>1. CASE x <= m
        <5>1. h[x] = g[x] /\ h[x - 1] = g[x - 1]
          BY <4>1
        <5> QED
          BY <2>1, <4>1, <5>1 DEF IsRecursive
      <4>2. CASE x = m + 1
        <5>1. h[x] = step[m + 1][g[m]]
          BY <4>2
        <5>2. h[x - 1] = g[m]
          BY <4>2
        <5> QED
          BY <4>2, <5>1, <5>2
      <4> QED
        BY <4>1, <4>2
    <3> HIDE DEF h
    <3> QED
      BY <3>1, <3>2, <3>3 DEF IsRecursive
  <2>3. m + 1 \in k .. n
    OBVIOUS
  <2> HIDE DEF Def, h
  <2> QED
    BY <2>2, <2>3
<1>3. n \in T
  <2> HIDE DEF T
  <2>1. k .. n \subseteq T
    BY <1>1, <1>2, RangeInduction
  <2>2. n \in k .. n
    OBVIOUS
  <2> QED
    BY <2>1, <2>2
<1> QED
  BY <1>3
-----------------------------------------------------------------------------
(* Selection. *)

\* f chooses: f[x] is what the first x elements of s have at the places in P.
Chooses(f, s, P, S) ==
  /\ f \in [0 .. Len(s) -> Seq(S)] /\ f[0] = <<>>
  /\ \A x \in 1 .. Len(s) : f[x] = IF x \in P THEN Append(f[x - 1], s[x]) ELSE f[x - 1]

\* A function that chooses from s is the one Chosen writes down.
LEMMA ChoosesIsRecursion ==
  ASSUME NEW S, NEW s \in Seq(S), NEW P, NEW f
  PROVE  Chooses(f, s, P, S) => f = [x \in 0 .. Len(s) |->
            IF x = 0 THEN <<>> ELSE IF x \in P THEN Append(f[x - 1], s[x]) ELSE f[x - 1]]
<1> SUFFICES ASSUME Chooses(f, s, P, S)
    PROVE f = [x \in 0 .. Len(s) |->
            IF x = 0 THEN <<>> ELSE IF x \in P THEN Append(f[x - 1], s[x]) ELSE f[x - 1]]
  OBVIOUS
<1>1. Len(s) \in Nat
  OBVIOUS
<1>2. \A x \in 0 .. Len(s) : f[x] = IF x = 0 THEN <<>> ELSE IF x \in P THEN Append(f[x - 1], s[x]) ELSE f[x - 1]
  <2> SUFFICES ASSUME NEW x \in 0 .. Len(s)
      PROVE f[x] = IF x = 0 THEN <<>> ELSE IF x \in P THEN Append(f[x - 1], s[x]) ELSE f[x - 1]
    OBVIOUS
  <2>1. CASE x = 0
    BY <2>1 DEF Chooses
  <2>2. CASE x # 0
    <3>1. x \in 1 .. Len(s)
      BY <1>1, <2>2
    <3>2. f[x] = IF x \in P THEN Append(f[x - 1], s[x]) ELSE f[x - 1]
      BY <3>1 DEF Chooses
    <3> QED
      BY <2>2, <3>2
  <2> QED
    BY <2>1, <2>2
<1>3. f = [x \in 0 .. Len(s) |-> f[x]]
  BY DEF Chooses
<1> QED
  BY <1>2, <1>3

\* For each sequence and each set of places there is one.
LEMMA ChooserExists ==
  ASSUME NEW S, NEW s \in Seq(S), NEW P
  PROVE  \E f : Chooses(f, s, P, S)
<1> DEFINE step == [x \in 1 .. Len(s) |-> [t \in Seq(S) |-> IF x \in P THEN Append(t, s[x]) ELSE t]]
<1>1. Len(s) \in Nat /\ 0 \in Int /\ Len(s) \in Int /\ 0 <= Len(s) /\ 0 + 1 = 1
  OBVIOUS
<1>2. \A x \in 1 .. Len(s) : \A t \in Seq(S) : (IF x \in P THEN Append(t, s[x]) ELSE t) \in Seq(S)
  BY ElementOfSeq, AppendProperties
<1>3. step \in [0 + 1 .. Len(s) -> [Seq(S) -> Seq(S)]]
  BY <1>1, <1>2
<1>4. <<>> \in Seq(S)
  OBVIOUS
<1> HIDE DEF step
<1> DEFINE T == Seq(S)
           n == Len(s)
           a == <<>>
           k == 0
<1>a. a \in T /\ k \in Int /\ n \in Int /\ k <= n /\ step \in [k + 1 .. n -> [T -> T]]
  BY <1>1, <1>3, <1>4
<1> HIDE DEF T, n, a, k
<1>b. \E f : IsRecursive(f, T, a, k, n, step)
  BY <1>a, RecursiveFunction
<1>5. PICK f : IsRecursive(f, T, a, k, n, step)
  BY <1>b
<1>6. /\ f \in [0 .. Len(s) -> Seq(S)] /\ f[0] = <<>>
      /\ \A x \in 1 .. Len(s) : f[x] = step[x][f[x - 1]]
  BY <1>5, <1>1 DEF IsRecursive, T, n, a, k
<1>7. ASSUME NEW x \in 1 .. Len(s)
      PROVE  f[x] = IF x \in P THEN Append(f[x - 1], s[x]) ELSE f[x - 1]
  <2>1. f[x - 1] \in Seq(S)
    BY <1>1, <1>6
  <2>2. step[x][f[x - 1]] = IF x \in P THEN Append(f[x - 1], s[x]) ELSE f[x - 1]
    BY <2>1 DEF step
  <2> QED
    BY <1>6, <2>2
<1> QED
  BY <1>6, <1>7 DEF Chooses

\* Any function that the recursion of Chosen describes chooses.
LEMMA RecursionChooses ==
  ASSUME NEW S, NEW s \in Seq(S), NEW P, NEW f,
         f = [x \in 0 .. Len(s) |->
            IF x = 0 THEN <<>> ELSE IF x \in P THEN Append(f[x - 1], s[x]) ELSE f[x - 1]]
  PROVE  Chooses(f, s, P, S)
<1>1. Len(s) \in Nat
  OBVIOUS
<1>2. \A x \in 0 .. Len(s) : f[x] = IF x = 0 THEN <<>> ELSE IF x \in P THEN Append(f[x - 1], s[x]) ELSE f[x - 1]
  BY Zenon
<1>0. f[0] = <<>>
  <2>1. 0 \in 0 .. Len(s)
    BY <1>1
  <2> QED
    BY <1>2, <2>1, Zenon
<1>a. ASSUME NEW x \in 1 .. Len(s) PROVE f[x] = IF x \in P THEN Append(f[x - 1], s[x]) ELSE f[x - 1]
  <2>1. x \in 0 .. Len(s) /\ x # 0
    BY <1>1
  <2>2. f[x] = IF x = 0 THEN <<>> ELSE IF x \in P THEN Append(f[x - 1], s[x]) ELSE f[x - 1]
    BY <1>2, <2>1, Zenon
  <2> QED
    BY <2>1, <2>2, Zenon
<1>3. f[0] = <<>> /\ \A x \in 1 .. Len(s) : f[x] = IF x \in P THEN Append(f[x - 1], s[x]) ELSE f[x - 1]
  BY <1>0, <1>a, Zenon
<1>4. DOMAIN f = 0 .. Len(s) /\ f = [x \in DOMAIN f |-> f[x]]
  BY Zenon
<1> DEFINE T == {x \in 0 .. Len(s) : f[x] \in Seq(S)}
<1>5. 0 \in T
  BY <1>1, <1>3
<1>6. ASSUME NEW x \in 0 .. Len(s) - 1, x \in T PROVE x + 1 \in T
  <2>1. x + 1 \in 1 .. Len(s) /\ x + 1 - 1 = x
    BY <1>1
  <2>2. s[x + 1] \in S
    BY <2>1, ElementOfSeq
  <2>3. f[x + 1] = IF x + 1 \in P THEN Append(f[x], s[x + 1]) ELSE f[x]
    <3> DEFINE y == x + 1
    <3>1. y \in 1 .. Len(s) /\ y - 1 = x
      BY <2>1
    <3> HIDE DEF y
    <3>2. f[y] = IF y \in P THEN Append(f[x], s[y]) ELSE f[x]
      BY <1>a, <3>1
    <3> QED
      BY <3>2 DEF y
  <2>4. f[x] \in Seq(S)
    BY <1>6
  <2>5. Append(f[x], s[x + 1]) \in Seq(S)
    BY <2>2, <2>4, AppendProperties
  <2>6. f[x + 1] \in Seq(S)
    BY <2>3, <2>4, <2>5
  <2> QED
    BY <1>1, <2>1, <2>6
<1>7. 0 .. Len(s) \subseteq T
  <2>1. 0 \in Int /\ Len(s) \in Int
    BY <1>1
  <2> HIDE DEF T
  <2> QED
    BY <1>5, <1>6, <2>1, RangeInduction
<1>8. \A x \in 0 .. Len(s) : f[x] \in Seq(S)
  BY <1>7
<1>9. f \in [0 .. Len(s) -> Seq(S)]
  BY <1>4, <1>8
<1> QED
  BY <1>3, <1>9 DEF Chooses

\* Chosen is the last value of a function that chooses.
LEMMA ChosenBySome ==
  ASSUME NEW S, NEW s \in Seq(S), NEW P
  PROVE  \E f : Chooses(f, s, P, S) /\ Chosen(s, P) = f[Len(s)]
<1> DEFINE Def(f) == f = [x \in 0 .. Len(s) |->
            IF x = 0 THEN <<>> ELSE IF x \in P THEN Append(f[x - 1], s[x]) ELSE f[x - 1]]
           g == CHOOSE f : Def(f)
<1>1. \E f : Def(f)
  <2>1. PICK f : Chooses(f, s, P, S)
    BY ChooserExists
  <2>2. Def(f)
    BY <2>1, ChoosesIsRecursion
  <2> QED
    BY <2>2, Zenon
<1>2. Def(g)
  BY <1>1, Zenon
<1>3. Chosen(s, P) = g[Len(s)]
  BY DEF Chosen
<1>4. Chooses(g, s, P, S)
  BY <1>2, RecursionChooses
<1> QED
  BY <1>3, <1>4

\* What the first elements give depends on them and on their places only.
LEMMA ChoosersAgree ==
  ASSUME NEW S, NEW s \in Seq(S), NEW t \in Seq(S), NEW P, NEW Q, NEW f, NEW g,
         Chooses(f, s, P, S), Chooses(g, t, Q, S),
         NEW n \in Nat, n <= Len(s), n <= Len(t),
         \A x \in 1 .. n : s[x] = t[x] /\ (x \in P <=> x \in Q)
  PROVE  f[n] = g[n]
<1> DEFINE T == {x \in 0 .. n : f[x] = g[x]}
<1>1. 0 \in T
  BY DEF Chooses
<1>2. ASSUME NEW x \in 0 .. n - 1, x \in T PROVE x + 1 \in T
  <2> DEFINE y == x + 1
  <2>1. y \in 1 .. n /\ y \in 1 .. Len(s) /\ y \in 1 .. Len(t) /\ y - 1 = x /\ y \in 0 .. n
    OBVIOUS
  <2>2. f[x] = g[x]
    BY <1>2
  <2> HIDE DEF y
  <2>3. f[y] = IF y \in P THEN Append(f[x], s[y]) ELSE f[x]
    BY <2>1 DEF Chooses
  <2>4. g[y] = IF y \in Q THEN Append(g[x], t[y]) ELSE g[x]
    BY <2>1 DEF Chooses
  <2>5. s[y] = t[y] /\ (y \in P <=> y \in Q)
    BY <2>1
  <2>6. f[y] = g[y]
    BY <2>2, <2>3, <2>4, <2>5, Zenon
  <2> QED
    BY <2>1, <2>6 DEF y
<1>3. 0 .. n \subseteq T
  <2>1. 0 \in Int /\ n \in Int
    OBVIOUS
  <2> HIDE DEF T
  <2> QED
    BY <1>1, <1>2, <2>1, RangeInduction
<1> QED
  BY <1>3

\* Up to a place before which nothing is chosen, nothing is there.
LEMMA NothingChosen ==
  ASSUME NEW S, NEW s \in Seq(S), NEW P, NEW f, Chooses(f, s, P, S),
         NEW n \in Nat, n <= Len(s), \A x \in 1 .. n : x \notin P
  PROVE  f[n] = <<>>
<1> DEFINE T == {x \in 0 .. n : f[x] = <<>>}
<1>1. 0 \in T
  BY DEF Chooses
<1>2. ASSUME NEW x \in 0 .. n - 1, x \in T PROVE x + 1 \in T
  <2> DEFINE y == x + 1
  <2>1. y \in 1 .. n /\ y \in 1 .. Len(s) /\ y - 1 = x /\ y \in 0 .. n
    OBVIOUS
  <2>2. f[x] = <<>>
    BY <1>2
  <2> HIDE DEF y
  <2>3. f[y] = IF y \in P THEN Append(f[x], s[y]) ELSE f[x]
    BY <2>1 DEF Chooses
  <2>4. f[y] = <<>>
    BY <2>1, <2>2, <2>3
  <2> QED
    BY <2>1, <2>4 DEF y
<1>3. 0 .. n \subseteq T
  <2>1. 0 \in Int /\ n \in Int
    OBVIOUS
  <2> HIDE DEF T
  <2> QED
    BY <1>1, <1>2, <2>1, RangeInduction
<1> QED
  BY <1>3

\* Places before others are chosen before them.
LEMMA ChosenInTurn ==
  ASSUME NEW S, NEW s \in Seq(S), NEW P, NEW Q, NEW R,
         \A x \in 1 .. Len(s) : x \in R <=> x \in P \/ x \in Q,
         \A x, y \in 1 .. Len(s) : x \in P /\ y \in Q => x < y
  PROVE  Chosen(s, R) = Chosen(s, P) \o Chosen(s, Q)
<1>1. PICK f : Chooses(f, s, P, S) /\ Chosen(s, P) = f[Len(s)]
  BY ChosenBySome
<1>2. PICK g : Chooses(g, s, Q, S) /\ Chosen(s, Q) = g[Len(s)]
  BY ChosenBySome
<1>3. PICK h : Chooses(h, s, R, S) /\ Chosen(s, R) = h[Len(s)]
  BY ChosenBySome
<1>4. Len(s) \in Nat /\ 0 \in Int /\ Len(s) \in Int
  OBVIOUS
<1> DEFINE n == Len(s)
           T == {x \in 0 .. n : h[x] = f[x] \o g[x]}
<1>5. 0 \in T
  <2>1. h[0] = <<>> /\ f[0] = <<>> /\ g[0] = <<>>
    BY <1>1, <1>2, <1>3 DEF Chooses
  <2>2. <<>> \o <<>> = <<>>
    OBVIOUS
  <2>3. h[0] = f[0] \o g[0]
    BY <2>1, <2>2, Zenon
  <2>4. 0 \in 0 .. n
    BY <1>4
  <2> QED
    BY <2>3, <2>4
<1>6. ASSUME NEW x \in 0 .. n - 1, x \in T PROVE x + 1 \in T
  <2> DEFINE y == x + 1
  <2>1. y \in 1 .. n /\ y - 1 = x /\ y \in 0 .. n /\ x \in 0 .. n /\ x \in Nat
    BY <1>4
  <2>2. h[x] = f[x] \o g[x]
    BY <1>6
  <2> HIDE DEF y
  <2>3. /\ f[y] = IF y \in P THEN Append(f[x], s[y]) ELSE f[x]
        /\ g[y] = IF y \in Q THEN Append(g[x], s[y]) ELSE g[x]
        /\ h[y] = IF y \in R THEN Append(h[x], s[y]) ELSE h[x]
    BY <1>1, <1>2, <1>3, <2>1 DEF Chooses
  <2>4. f[x] \in Seq(S) /\ g[x] \in Seq(S) /\ s[y] \in S
    BY <1>1, <1>2, <2>1, ElementOfSeq DEF Chooses
  <2>5. h[y] = f[y] \o g[y]
    <3>1. CASE y \in P
      <4>1. y \notin Q /\ y \in R
        BY <2>1, <3>1
      <4>2. \A z \in 1 .. x : z \notin Q
        <5> SUFFICES ASSUME NEW z \in 1 .. x, z \in Q PROVE FALSE
          OBVIOUS
        <5>1. z \in 1 .. n
          BY <1>4, <2>1
        <5>2. y < z
          BY <2>1, <3>1, <5>1
        <5> QED
          BY <2>1, <5>2
      <4>3. g[x] = <<>>
        <5>1. x <= Len(s)
          BY <2>1
        <5> QED
          BY <1>2, <2>1, <4>2, <5>1, NothingChosen
      <4>4. h[y] = Append(f[x], s[y]) /\ f[y] = Append(f[x], s[y]) /\ g[y] = <<>>
        BY <2>2, <2>3, <2>4, <3>1, <4>1, <4>3, ConcatEmptySeq
      <4>5. f[y] \in Seq(S)
        BY <2>4, <4>4, AppendProperties
      <4> QED
        BY <4>4, <4>5, ConcatEmptySeq
    <3>2. CASE y \in Q
      <4>1. y \notin P /\ y \in R
        BY <2>1, <3>2
      <4>2. f[x] \o Append(g[x], s[y]) = Append(f[x] \o g[x], s[y])
        <5> DEFINE u == f[x]
                   v == g[x]
                   e == s[y]
        <5>1. u \in Seq(S) /\ v \in Seq(S) /\ e \in S
          BY <2>4
        <5> HIDE DEF u, v, e
        <5>2. u \o Append(v, e) = Append(u \o v, e)
          BY <5>1
        <5> QED
          BY <5>2 DEF u, v, e
      <4> QED
        BY <2>2, <2>3, <3>2, <4>1, <4>2, Zenon
    <3>3. CASE y \notin P /\ y \notin Q
      <4>1. y \notin R
        BY <2>1, <3>3
      <4> QED
        BY <2>2, <2>3, <3>3, <4>1, Zenon
    <3> QED
      BY <3>1, <3>2, <3>3
  <2> QED
    BY <2>1, <2>5 DEF y
<1>7. 0 .. n \subseteq T
  <2>1. 0 \in Int /\ n \in Int
    BY <1>4
  <2> HIDE DEF T, n
  <2> QED
    BY <1>5, <1>6, <2>1, RangeInduction
<1>8. n \in T
  <2>1. n \in 0 .. n
    BY <1>4
  <2> HIDE DEF T, n
  <2> QED
    BY <1>7, <2>1
<1> QED
  BY <1>1, <1>2, <1>3, <1>8

\* Only the places the sequence has matter.
LEMMA ChosenOfSame ==
  ASSUME NEW S, NEW s \in Seq(S), NEW P, NEW Q,
         \A x \in 1 .. Len(s) : x \in P <=> x \in Q
  PROVE  Chosen(s, P) = Chosen(s, Q)
<1>1. PICK f : Chooses(f, s, P, S) /\ Chosen(s, P) = f[Len(s)]
  BY ChosenBySome
<1>2. PICK g : Chooses(g, s, Q, S) /\ Chosen(s, Q) = g[Len(s)]
  BY ChosenBySome
<1>3. Len(s) \in Nat /\ Len(s) <= Len(s)
  OBVIOUS
<1> QED
  BY <1>1, <1>2, <1>3, ChoosersAgree

\* Nothing is chosen from no place.
LEMMA NoneChosen ==
  ASSUME NEW S, NEW s \in Seq(S), NEW P, \A x \in 1 .. Len(s) : x \notin P
  PROVE  Chosen(s, P) = <<>>
<1>1. PICK f : Chooses(f, s, P, S) /\ Chosen(s, P) = f[Len(s)]
  BY ChosenBySome
<1>3. Len(s) \in Nat /\ Len(s) <= Len(s)
  OBVIOUS
<1> QED
  BY <1>1, <1>3, NothingChosen

\* What is chosen is of the same kind.
LEMMA ChosenTyped ==
  ASSUME NEW S, NEW s \in Seq(S), NEW P
  PROVE  Chosen(s, P) \in Seq(S)
<1>1. PICK f : Chooses(f, s, P, S) /\ Chosen(s, P) = f[Len(s)]
  BY ChosenBySome
<1>3. Len(s) \in 0 .. Len(s)
  OBVIOUS
<1> QED
  BY <1>1, <1>3 DEF Chooses

\* Behind the last place chosen nothing is added.
LEMMA NothingMore ==
  ASSUME NEW S, NEW s \in Seq(S), NEW P, NEW f, Chooses(f, s, P, S),
         NEW b \in 0 .. Len(s), \A x \in b + 1 .. Len(s) : x \notin P
  PROVE  f[Len(s)] = f[b]
<1> DEFINE n == Len(s)
           T == {x \in b .. n : f[x] = f[b]}
<1>0. n \in Nat /\ b \in Int /\ n \in Int /\ b <= n /\ 0 <= b
  OBVIOUS
<1>1. b \in T
  BY <1>0
<1>2. ASSUME NEW x \in b .. n - 1, x \in T PROVE x + 1 \in T
  <2> DEFINE y == x + 1
  <2>1. y \in b + 1 .. n /\ y \in 1 .. n /\ y - 1 = x /\ y \in b .. n
    BY <1>0
  <2>2. f[x] = f[b]
    BY <1>2
  <2> HIDE DEF y
  <2>3. f[y] = IF y \in P THEN Append(f[x], s[y]) ELSE f[x]
    BY <2>1 DEF Chooses
  <2>4. f[y] = f[b]
    BY <2>1, <2>2, <2>3
  <2> QED
    BY <2>1, <2>4 DEF y
<1>3. b .. n \subseteq T
  <2> HIDE DEF T, n
  <2> QED
    BY <1>0, <1>1, <1>2, RangeInduction
<1>4. n \in b .. n
  BY <1>0
<1>5. n \in T
  <2> HIDE DEF T, n
  <2> QED
    BY <1>3, <1>4
<1> QED
  BY <1>5

\* A part of a sequence that takes one element more.
LEMMA OneLonger ==
  ASSUME NEW S, NEW s \in Seq(S), NEW a \in 1 .. Len(s), NEW x \in a .. Len(s)
  PROVE  SubSeq(s, a, x) = Append(SubSeq(s, a, x - 1), s[x])
<1>1. SubSeq(s, a, x - 1) \in Seq(S) /\ Len(SubSeq(s, a, x - 1)) = x - a
  OBVIOUS
<1>2. SubSeq(s, a, x) \in Seq(S) /\ Len(SubSeq(s, a, x)) = x - a + 1
  OBVIOUS
<1>3. s[x] \in S
  OBVIOUS
<1> DEFINE u == SubSeq(s, a, x - 1)
           v == SubSeq(s, a, x)
<1>4. ASSUME NEW k \in 1 .. x - a + 1 PROVE v[k] = Append(u, s[x])[k]
  <2>1. v[k] = s[a + k - 1]
    OBVIOUS
  <2>2. CASE k = x - a + 1
    <3>1. Append(u, s[x])[k] = s[x]
      <4> HIDE DEF u
      <4> QED
        BY <1>1, <2>2 DEF u
    <3> QED
      BY <2>1, <2>2, <3>1
  <2>3. CASE k # x - a + 1
    <3>1. k \in 1 .. x - a
      BY <2>3
    <3>2. u[k] = s[a + k - 1]
      BY <3>1
    <3>3. Append(u, s[x])[k] = u[k]
      <4>1. u \in Seq(S) /\ Len(u) = x - a
        BY <1>1
      <4> HIDE DEF u
      <4> QED
        BY <3>1, <4>1
    <3> QED
      BY <2>1, <3>2, <3>3
  <2> QED
    BY <2>2, <2>3
<1>5. u \in Seq(S) /\ Len(u) = x - a /\ v \in Seq(S) /\ Len(v) = x - a + 1
  BY <1>1, <1>2
<1> HIDE DEF u, v
<1>6. Append(u, s[x]) \in Seq(S) /\ Len(Append(u, s[x])) = x - a + 1
  BY <1>3, <1>5
<1>7. v = Append(u, s[x])
  BY <1>4, <1>5, <1>6, SeqEqual
<1> QED
  BY <1>7 DEF u, v

\* Places next to each other give a part of the sequence.
LEMMA RangeChosen ==
  ASSUME NEW S, NEW s \in Seq(S), NEW a \in 1 .. Len(s) + 1, NEW b \in a - 1 .. Len(s)
  PROVE  Chosen(s, a .. b) = SubSeq(s, a, b)
<1>0. PICK f : Chooses(f, s, a .. b, S) /\ Chosen(s, a .. b) = f[Len(s)]
  BY ChosenBySome
<1>1. Len(s) \in Nat /\ a \in Int /\ b \in Int /\ b \in 0 .. Len(s) /\ a - 1 \in Int /\ a - 1 <= b
  OBVIOUS
<1>2. f[Len(s)] = f[b]
  <2>1. \A x \in b + 1 .. Len(s) : x \notin a .. b
    BY <1>1
  <2> QED
    BY <1>0, <1>1, <2>1, NothingMore
<1> DEFINE T == {x \in a - 1 .. b : f[x] = SubSeq(s, a, x)}
<1>3. a - 1 \in T
  <2>1. f[a - 1] = <<>>
    <3>1. a - 1 \in Nat /\ a - 1 <= Len(s) /\ \A x \in 1 .. a - 1 : x \notin a .. b
      OBVIOUS
    <3> QED
      BY <1>0, <3>1, NothingChosen
  <2>2. SubSeq(s, a, a - 1) = <<>>
    OBVIOUS
  <2>3. a - 1 \in a - 1 .. b /\ f[a - 1] = SubSeq(s, a, a - 1)
    BY <1>1, <2>1, <2>2
  <2> QED
    BY <2>3
<1>4. ASSUME NEW x \in a - 1 .. b - 1, x \in T PROVE x + 1 \in T
  <2> DEFINE y == x + 1
  <2>1. y \in 1 .. Len(s) /\ y - 1 = x /\ y \in a .. b /\ y \in a - 1 .. b /\ a \in 1 .. Len(s) /\ y \in a .. Len(s)
    BY <1>1
  <2>2. f[x] = SubSeq(s, a, x)
    BY <1>4
  <2> HIDE DEF y
  <2>3. f[y] = IF y \in a .. b THEN Append(f[x], s[y]) ELSE f[x]
    BY <1>0, <2>1 DEF Chooses
  <2>4. f[y] = Append(SubSeq(s, a, x), s[y])
    BY <2>1, <2>2, <2>3
  <2>5. SubSeq(s, a, y) = Append(SubSeq(s, a, y - 1), s[y])
    BY <2>1, OneLonger
  <2>6. f[y] = SubSeq(s, a, y)
    BY <2>1, <2>4, <2>5
  <2> QED
    BY <2>1, <2>6 DEF y
<1>5. a - 1 .. b \subseteq T
  <2> DEFINE k == a - 1
  <2>1. k \in Int /\ k \in T /\ \A x \in k .. b - 1 : x \in T => x + 1 \in T
    BY <1>1, <1>3, <1>4
  <2> HIDE DEF T, k
  <2>2. k .. b \subseteq T
    BY <1>1, <2>1, RangeInduction
  <2> QED
    BY <2>2 DEF k
<1>6. b \in T
  <2>1. b \in a - 1 .. b
    BY <1>1
  <2> HIDE DEF T
  <2> QED
    BY <1>5, <2>1
<1> QED
  BY <1>0, <1>2, <1>6

\* From place k on, R has the first n places as P has them.
HasFrom(R, k, P, n) == \A x \in 1 .. n : k + x \in R <=> x \in P

\* What is chosen from two sequences in a row.
LEMMA ChosenOfBoth ==
  ASSUME NEW S, NEW s \in Seq(S), NEW t \in Seq(S), NEW P, NEW Q, NEW R,
         HasFrom(R, 0, P, Len(s)), HasFrom(R, Len(s), Q, Len(t))
  PROVE  Chosen(s \o t, R) = Chosen(s, P) \o Chosen(t, Q)
<1> DEFINE st == s \o t
           m == Len(s)
           n == Len(t)
<1>0. /\ st \in Seq(S) /\ Len(st) = m + n /\ m \in Nat /\ n \in Nat
      /\ \A x \in 1 .. m : st[x] = s[x]
      /\ \A x \in 1 .. n : st[m + x] = t[x]
  OBVIOUS
<1> HIDE DEF st
<1>1. PICK f : Chooses(f, s, P, S) /\ Chosen(s, P) = f[Len(s)]
  BY ChosenBySome
<1>2. PICK g : Chooses(g, t, Q, S) /\ Chosen(t, Q) = g[Len(t)]
  BY ChosenBySome
<1>3. PICK h : Chooses(h, st, R, S) /\ Chosen(st, R) = h[Len(st)]
  BY <1>0, ChosenBySome
<1>4. f[m] \in Seq(S)
  <2>1. m \in 0 .. Len(s)
    BY <1>0
  <2> QED
    BY <1>1, <2>1 DEF Chooses
<1>5. h[m] = f[m]
  <2>1. m <= Len(st) /\ m <= Len(s) /\ m \in Nat
    BY <1>0
  <2>2. \A x \in 1 .. m : st[x] = s[x] /\ (x \in R <=> x \in P)
    <3>1. \A x \in 1 .. m : 0 + x = x
      BY <1>0
    <3> QED
      BY <1>0, <3>1 DEF HasFrom
  <2>3. st \in Seq(S)
    BY <1>0
  <2> HIDE DEF m
  <2> QED
    BY <1>1, <1>3, <2>1, <2>2, <2>3, ChoosersAgree
<1> DEFINE T == {x \in 0 .. n : h[m + x] = f[m] \o g[x]}
<1>6. 0 \in T
  <2>1. g[0] = <<>>
    BY <1>2 DEF Chooses
  <2>2. f[m] \o <<>> = f[m]
    BY <1>4, ConcatEmptySeq
  <2>3. m + 0 = m /\ 0 \in 0 .. n
    BY <1>0
  <2>4. h[m + 0] = f[m] \o g[0]
    BY <1>5, <2>1, <2>2, <2>3
  <2> HIDE DEF m, n
  <2> QED
    BY <2>3, <2>4
<1>7. ASSUME NEW x \in 0 .. n - 1, x \in T PROVE x + 1 \in T
  <2> DEFINE y == x + 1
             z == m + y
  <2>1. y \in 1 .. n /\ y - 1 = x /\ y \in 0 .. n /\ x \in 0 .. n /\ z \in 1 .. Len(st) /\ z - 1 = m + x
    BY <1>0
  <2>2. h[m + x] = f[m] \o g[x]
    BY <1>7
  <2>3. st[z] = t[y] /\ (z \in R <=> y \in Q)
    BY <1>0, <2>1 DEF HasFrom
  <2> HIDE DEF y, z
  <2>4. g[y] = IF y \in Q THEN Append(g[x], t[y]) ELSE g[x]
    BY <1>2, <2>1 DEF Chooses
  <2>5. h[z] = IF z \in R THEN Append(h[m + x], st[z]) ELSE h[m + x]
    BY <1>3, <2>1 DEF Chooses
  <2>6. f[m] \o Append(g[x], t[y]) = Append(f[m] \o g[x], t[y])
    <3> DEFINE u == f[m]
               v == g[x]
               e == t[y]
    <3>1. u \in Seq(S) /\ v \in Seq(S) /\ e \in S
      BY <1>2, <1>4, <2>1, ElementOfSeq DEF Chooses
    <3> HIDE DEF u, v, e
    <3>2. u \o Append(v, e) = Append(u \o v, e)
      BY <3>1
    <3> QED
      BY <3>2 DEF u, v, e
  <2>7. h[z] = f[m] \o g[y]
    BY <2>2, <2>3, <2>4, <2>5, <2>6, Zenon
  <2>8. h[m + y] = f[m] \o g[y] /\ y \in 0 .. n
    BY <2>1, <2>7 DEF z
  <2> QED
    BY <2>8 DEF y
<1>8. 0 .. n \subseteq T
  <2>1. 0 \in Int /\ n \in Int
    BY <1>0
  <2> HIDE DEF T, n
  <2> QED
    BY <1>6, <1>7, <2>1, RangeInduction
<1>9. n \in T
  <2>1. n \in 0 .. n
    BY <1>0
  <2> HIDE DEF T, n
  <2> QED
    BY <1>8, <2>1
<1>10. h[Len(st)] = f[m] \o g[n]
  BY <1>0, <1>9
<1> QED
  BY <1>1, <1>2, <1>3, <1>10 DEF st

\* The packets of M in two sequences in a row.
LEMMA AmongOfBoth ==
  ASSUME NEW S, NEW s \in Seq(S), NEW t \in Seq(S), NEW M
  PROVE  Among(s \o t, M) = Among(s, M) \o Among(t, M)
<1> DEFINE P == {x \in 1 .. Len(s) : s[x] \in M}
           Q == {x \in 1 .. Len(t) : t[x] \in M}
           R == {x \in 1 .. Len(s \o t) : (s \o t)[x] \in M}
<1>1. HasFrom(R, 0, P, Len(s))
  BY DEF HasFrom
<1>2. HasFrom(R, Len(s), Q, Len(t))
  BY DEF HasFrom
<1> HIDE DEF P, Q, R
<1>3. Chosen(s \o t, R) = Chosen(s, P) \o Chosen(t, Q)
  BY <1>1, <1>2, ChosenOfBoth
<1> QED
  BY <1>3 DEF Among, P, Q, R

\* A sequence of packets of M only, and one with none of them.
LEMMA AmongOfOwn ==
  ASSUME NEW S, NEW s \in Seq(S), NEW M, \A x \in 1 .. Len(s) : s[x] \in M
  PROVE  Among(s, M) = s
<1>1. {x \in 1 .. Len(s) : s[x] \in M} = 1 .. Len(s)
  OBVIOUS
<1>2. Chosen(s, 1 .. Len(s)) = SubSeq(s, 1, Len(s))
  <2>1. 1 \in 1 .. Len(s) + 1 /\ Len(s) \in 1 - 1 .. Len(s)
    OBVIOUS
  <2> QED
    BY <2>1, RangeChosen
<1> QED
  BY <1>1, <1>2, SubSeqFull DEF Among
LEMMA AmongOfOthers ==
  ASSUME NEW S, NEW s \in Seq(S), NEW M, \A x \in 1 .. Len(s) : s[x] \notin M
  PROVE  Among(s, M) = <<>>
<1>1. \A y \in 1 .. Len(s) : y \notin {x \in 1 .. Len(s) : s[x] \in M}
  OBVIOUS
<1> QED
  BY <1>1, NoneChosen DEF Among

\* Among gives packets of the same kind.
LEMMA AmongTyped ==
  ASSUME NEW S, NEW s \in Seq(S), NEW M
  PROVE  Among(s, M) \in Seq(S)
BY ChosenTyped DEF Among

\* A sequence of one packet.
LEMMA AmongOfOne ==
  ASSUME NEW S, NEW m \in S, NEW M
  PROVE  /\ m \in M => Among(<<m>>, M) = <<m>>
         /\ m \notin M => Among(<<m>>, M) = <<>>
<1> DEFINE one == <<m>>
<1>1. one \in Seq(S) /\ \A x \in 1 .. Len(one) : one[x] = m
  OBVIOUS
<1> HIDE DEF one
<1>2. CASE m \in M
  BY <1>1, <1>2, AmongOfOwn DEF one
<1>3. CASE m \notin M
  BY <1>1, <1>3, AmongOfOthers DEF one
<1> QED
  BY <1>2, <1>3

\* Concatenation, as a name of its own.
Cat(s, t) == s \o t

\* Concatenation keeps the kind, is associative and has an identity.
LEMMA CatTyped ==
  ASSUME NEW S, NEW s \in Seq(S), NEW t \in Seq(S)
  PROVE  Cat(s, t) \in Seq(S)
BY DEF Cat
LEMMA CatAssociative ==
  ASSUME NEW S, NEW s \in Seq(S), NEW t \in Seq(S), NEW u \in Seq(S)
  PROVE  Cat(Cat(s, t), u) = Cat(s, Cat(t, u))
BY ConcatAssociative DEF Cat
LEMMA CatEmpty ==
  ASSUME NEW S, NEW s \in Seq(S)
  PROVE  Cat(s, <<>>) = s /\ Cat(<<>>, s) = s
BY ConcatEmptySeq DEF Cat

\* The first element of two sequences in a row.
LEMMA CatFirst ==
  ASSUME NEW S, NEW s \in Seq(S), s # <<>>, NEW t \in Seq(S)
  PROVE  Cat(s, t) # <<>> /\ Head(Cat(s, t)) = Head(s) /\ Tail(Cat(s, t)) = Cat(Tail(s), t)
<1> DEFINE u == s \o t
           v == Tail(s) \o t
<1>1. /\ u \in Seq(S) /\ Len(u) = Len(s) + Len(t) /\ Len(s) \in Nat \ {0} /\ Len(t) \in Nat
      /\ \A x \in 1 .. Len(u) : u[x] = IF x <= Len(s) THEN s[x] ELSE t[x - Len(s)]
  BY ConcatProperties
<1>2. Tail(s) \in Seq(S) /\ Len(Tail(s)) = Len(s) - 1 /\ \A x \in 1 .. Len(s) - 1 : Tail(s)[x] = s[x + 1]
  OBVIOUS
<1>3. /\ v \in Seq(S) /\ Len(v) = Len(s) - 1 + Len(t)
      /\ \A x \in 1 .. Len(v) : v[x] = IF x <= Len(s) - 1 THEN Tail(s)[x] ELSE t[x - (Len(s) - 1)]
  BY <1>2, ConcatProperties
<1> HIDE DEF u, v
<1>4. u # <<>> /\ Head(u) = s[1] /\ Head(s) = s[1]
  BY <1>1
<1>5. Tail(u) \in Seq(S) /\ Len(Tail(u)) = Len(v) /\ \A x \in 1 .. Len(v) : Tail(u)[x] = u[x + 1]
  BY <1>1, <1>3
<1>6. \A x \in 1 .. Len(v) : v[x] = u[x + 1]
  BY <1>1, <1>2, <1>3
<1>7. Tail(u) = v
  BY <1>3, <1>5, <1>6, SeqEqual
<1> QED
  BY <1>4, <1>7 DEF Cat, u, v

\* A packet is put at the end of a sequence.
Behind(s, m) == Append(s, m)

\* One packet more: Among sees it if it is in M.
LEMMA AmongOfAppend ==
  ASSUME NEW S, NEW s \in Seq(S), NEW m \in S, NEW M
  PROVE  /\ m \in M => Among(Behind(s, m), M) = Behind(Among(s, M), m)
         /\ m \notin M => Among(Behind(s, m), M) = Among(s, M)
<1> DEFINE one == <<m>>
           o == Among(s, M)
<1>1. one \in Seq(S) /\ o \in Seq(S)
  BY AmongTyped
<1>2. Append(s, m) = s \o one
  OBVIOUS
<1>3. o \o one = Append(o, m) /\ o \o <<>> = o
  <2> HIDE DEF o
  <2> QED
    BY <1>1
<1>4. Among(s \o one, M) = o \o Among(one, M)
  <2> HIDE DEF one
  <2> QED
    BY <1>1, AmongOfBoth
<1>5. /\ m \in M => Among(one, M) = one
      /\ m \notin M => Among(one, M) = <<>>
  BY AmongOfOne
<1> QED
  BY <1>2, <1>3, <1>4, <1>5 DEF Behind

\* The first packet of a sequence goes.
LEMMA AmongOfTail ==
  ASSUME NEW S, NEW s \in Seq(S), s # <<>>, NEW M
  PROVE  /\ Head(s) \in M => /\ Among(s, M) # <<>> /\ Head(Among(s, M)) = Head(s)
                             /\ Among(Tail(s), M) = Tail(Among(s, M))
         /\ Head(s) \notin M => Among(Tail(s), M) = Among(s, M)
<1> DEFINE m == Head(s)
           one == <<m>>
           t == Tail(s)
           o == Among(t, M)
<1>1. m \in S /\ t \in Seq(S) /\ one \in Seq(S) /\ s = one \o t
  OBVIOUS
<1>2. o \in Seq(S)
  BY <1>1, AmongTyped
<1> HIDE DEF m, t
<1>3. /\ m \in M => Among(one, M) = one
      /\ m \notin M => Among(one, M) = <<>>
  BY <1>1, AmongOfOne
<1>4. Among(one \o t, M) = Among(one, M) \o o
  <2> HIDE DEF one
  <2> QED
    BY <1>1, AmongOfBoth
<1> HIDE DEF o
<1>5. <<>> \o o = o
  BY <1>2, ConcatEmptySeq
<1>6. one \o o # <<>> /\ Head(one \o o) = m /\ Tail(one \o o) = o
  BY <1>1, <1>2
<1>7. Among(s, M) = Among(one, M) \o o
  BY <1>1, <1>4
<1> QED
  BY <1>3, <1>5, <1>6, <1>7 DEF m, t, o
-----------------------------------------------------------------------------
(* The packets that came in by a port. *)

\* All packets of s came in by port p.
CameIn(s, p) == \A x \in 1 .. Len(s) : s[x].in = p

\* They are a set of packets.
By(S, p) == {m \in S : m.in = p}
LEMMA OfPortIsAmong ==
  ASSUME NEW S, NEW s \in Seq(S), NEW p
  PROVE  OfPort(s, p) = Among(s, By(S, p))
<1>1. \A x \in 1 .. Len(s) : s[x] \in S
  OBVIOUS
<1>2. {x \in 1 .. Len(s) : s[x].in = p} = {x \in 1 .. Len(s) : s[x] \in By(S, p)}
  BY <1>1 DEF By
<1> QED
  BY <1>2 DEF OfPort, Among

\* The packets of port p in two sequences in a row.
LEMMA OfPortOfBoth ==
  ASSUME NEW S, NEW s \in Seq(S), NEW t \in Seq(S), NEW p
  PROVE  OfPort(s \o t, p) = OfPort(s, p) \o OfPort(t, p)
<1>1. s \o t \in Seq(S)
  OBVIOUS
<1>2. Among(s \o t, By(S, p)) = Among(s, By(S, p)) \o Among(t, By(S, p))
  BY AmongOfBoth
<1> QED
  BY <1>1, <1>2, OfPortIsAmong

\* A sequence of packets of one port, asked for this port and for another.
LEMMA OfPortOfOwn ==
  ASSUME NEW S, NEW s \in Seq(S), NEW p, CameIn(s, p)
  PROVE  OfPort(s, p) = s
<1>1. \A x \in 1 .. Len(s) : s[x] \in By(S, p)
  BY DEF CameIn, By
<1> QED
  BY <1>1, AmongOfOwn, OfPortIsAmong
LEMMA OfPortOfOthers ==
  ASSUME NEW S, NEW s \in Seq(S), NEW p, \A x \in 1 .. Len(s) : s[x].in # p
  PROVE  OfPort(s, p) = <<>>
<1>1. \A x \in 1 .. Len(s) : s[x] \notin By(S, p)
  BY DEF By
<1> QED
  BY <1>1, AmongOfOthers, OfPortIsAmong

\* OfPort gives packets of the same kind.
LEMMA OfPortTyped ==
  ASSUME NEW S, NEW s \in Seq(S), NEW p
  PROVE  OfPort(s, p) \in Seq(S)
BY ChosenTyped DEF OfPort

\* One packet more: OfPort sees it if it came in by p.
LEMMA OfPortOfAppend ==
  ASSUME NEW S, NEW s \in Seq(S), NEW m \in S, NEW p
  PROVE  /\ m.in = p => OfPort(Behind(s, m), p) = Behind(OfPort(s, p), m)
         /\ m.in # p => OfPort(Behind(s, m), p) = OfPort(s, p)
<1>1. Behind(s, m) \in Seq(S) /\ (m \in By(S, p) <=> m.in = p)
  BY DEF Behind, By
<1> QED
  BY <1>1, AmongOfAppend, OfPortIsAmong

\* The first packet of a sequence goes.
LEMMA OfPortOfTail ==
  ASSUME NEW S, NEW s \in Seq(S), s # <<>>, NEW p
  PROVE  /\ Head(s).in = p => /\ OfPort(s, p) # <<>> /\ Head(OfPort(s, p)) = Head(s)
                              /\ OfPort(Tail(s), p) = Tail(OfPort(s, p))
         /\ Head(s).in # p => OfPort(Tail(s), p) = OfPort(s, p)
<1> DEFINE t == Tail(s)
           m == Head(s)
           M == By(S, p)
<1>1. t \in Seq(S) /\ (m \in M <=> m.in = p)
  BY DEF By
<1>2. /\ m \in M => Among(s, M) # <<>> /\ Head(Among(s, M)) = m /\ Among(t, M) = Tail(Among(s, M))
      /\ m \notin M => Among(t, M) = Among(s, M)
  BY AmongOfTail
<1> HIDE DEF t, m, M
<1>3. OfPort(t, p) = Among(t, M) /\ OfPort(s, p) = Among(s, M)
  BY <1>1, OfPortIsAmong DEF M
<1>4. /\ m.in = p => OfPort(s, p) # <<>> /\ Head(OfPort(s, p)) = m /\ OfPort(t, p) = Tail(OfPort(s, p))
      /\ m.in # p => OfPort(t, p) = OfPort(s, p)
  BY <1>1, <1>2, <1>3
<1> QED
  BY <1>4 DEF t, m
=============================================================================
