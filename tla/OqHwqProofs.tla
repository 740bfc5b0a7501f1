--------------------------- MODULE OqHwqProofs ---------------------------
(***************************************************************************)
(* Theorems about OqHwq, for every number of lcores and ports, every       *)
(* machine, every table size and list of rules.                            *)
(*                                                                         *)
(* Grouping.  J is the set of packets that are for the same port as the    *)
(* next one.  Along a burst the record of the code stays Counted: pnum has *)
(* the length of each run of packets that is over, and of the one that     *)
(* begins at lp so far.  A four keeps it, for each row of gptbl is the one *)
(* its mask calls for; the correction after the last four makes up for a   *)
(* packet compared with itself; the packets after it are counted singly.   *)
(*                                                                         *)
(* Types.  TypeOK alone is not inductive: what is left of a group fits its *)
(* table only if the group is as long as pnum says, so OqInv tells of each *)
(* lcore where in its burst it is (Good): a group starts where a run does, *)
(* and RunCounted gives its length.                                        *)
(*                                                                         *)
(* The search for an lcore gives up only when it should: it goes round the *)
(* lcores from the one dealt to last, and has found none of those passed   *)
(* on the node of the port; when it is back, only that one is left.        *)
(***************************************************************************)
EXTENDS OqHwq, Recursion, FiniteSetTheorems

-----------------------------------------------------------------------------
(* Groups and runs. *)

GroupRecord == [pnum : [1 .. MaxBurst + 1 -> Int], lp : 1 .. MaxBurst + 1, dlp : Int]

\* J is the set of packets that are for the same port as the next one.
Begins(J, a) == a = 1 \/ a - 1 \notin J
Ends(J, a, b) == a <= b /\ b \notin J /\ \A y \in Nat : a <= y /\ y < b => y \in J

\* The runs of the first m packets are counted in pn, the last of them at lp.
Counted(pn, lp, J, m) ==
  /\ lp <= m /\ Begins(J, lp)
  /\ \A y \in Nat : lp <= y /\ y < m => y \in J
  /\ pn[lp] = m - lp + 1
  /\ \A a, b \in Nat : 1 <= a /\ b < lp /\ Begins(J, a) /\ Ends(J, a, b) => pn[a] = b - a + 1

\* A run that ends before packet m, and not before lp, begins at lp or after packet m.
LEMMA LastRun ==
  ASSUME NEW J, NEW m \in Nat, NEW lp \in Nat, 1 <= lp, lp <= m, Begins(J, lp),
         \A y \in Nat : lp <= y /\ y < m => y \in J,
         NEW a \in Nat, NEW b \in Nat, 1 <= a, Begins(J, a), Ends(J, a, b), lp <= b
  PROVE  m <= b /\ (a = lp \/ m < a)
<1>1. m <= b
  BY DEF Ends
<1>2. ~(a < lp)
  BY DEF Ends, Begins
<1>3. ~(lp < a /\ a <= m)
  <2>1. a - 1 \in Nat
    OBVIOUS
  <2> QED
    BY <2>1 DEF Begins
<1> QED
  BY <1>1, <1>2, <1>3

\* The last run goes on to packet n.
LEMMA LongerRun ==
  ASSUME NEW J, NEW m \in Nat, NEW n \in Nat, m <= n, NEW lp \in Nat, 1 <= lp,
         NEW pn, NEW hp, Counted(pn, lp, J, m),
         \A y \in Nat : m <= y /\ y < n => y \in J,
         pn[lp] \in Int, hp[lp] = pn[lp] + (n - m), \A a \in 1 .. lp - 1 : hp[a] = pn[a]
  PROVE  Counted(hp, lp, J, n)
<1>1. ASSUME NEW a \in Nat, NEW b \in Nat, 1 <= a, b < lp, Begins(J, a), Ends(J, a, b)
      PROVE  hp[a] = b - a + 1
  <2>1. a \in 1 .. lp - 1
    BY <1>1 DEF Ends
  <2> QED
    BY <1>1, <2>1 DEF Counted
<1>2. \A y \in Nat : lp <= y /\ y < n => y \in J
  BY DEF Counted
<1>3. hp[lp] = n - lp + 1
  BY DEF Counted
<1> QED
  BY <1>1, <1>2, <1>3 DEF Counted

\* A new run goes from packet m + 1 to packet n: the one before it is counted to
\* its end.
LEMMA NextRun ==
  ASSUME NEW J, NEW m \in Nat, NEW n \in Nat, m < n, NEW lp \in Nat, 1 <= lp,
         NEW pn, NEW hp, Counted(pn, lp, J, m), m \notin J,
         \A y \in Nat : m < y /\ y < n => y \in J,
         hp[m + 1] = n - m, \A a \in 1 .. m : hp[a] = pn[a]
  PROVE  Counted(hp, m + 1, J, n)
<1>1. ASSUME NEW a \in Nat, NEW b \in Nat, 1 <= a, b < m + 1, Begins(J, a), Ends(J, a, b)
      PROVE  hp[a] = b - a + 1
  <2>1. a \in 1 .. m /\ lp <= m /\ Begins(J, lp) /\ \A y \in Nat : lp <= y /\ y < m => y \in J
    BY <1>1 DEF Ends, Counted
  <2>2. CASE b < lp
    BY <1>1, <2>1, <2>2 DEF Counted
  <2>3. CASE lp <= b
    <3>1. m <= b /\ (a = lp \/ m < a)
      BY <1>1, <2>1, <2>3, LastRun
    <3>2. b = m /\ a = lp
      BY <1>1, <2>1, <3>1
    <3>3. pn[lp] = m - lp + 1
      BY DEF Counted
    <3> QED
      BY <2>1, <3>2, <3>3
  <2> QED
    BY <2>2, <2>3
<1>2. Begins(J, m + 1)
  BY DEF Begins
<1>3. m + 1 <= n /\ hp[m + 1] = n - (m + 1) + 1 /\ \A y \in Nat : m + 1 <= y /\ y < n => y \in J
  OBVIOUS
<1> QED
  BY <1>1, <1>2, <1>3 DEF Counted

BitOf(J, b, x) == IF x \in J THEN b ELSE 0
MaskOf(J, at) == BitOf(J, 1, at) + BitOf(J, 2, at + 1) + BitOf(J, 4, at + 2) + BitOf(J, 8, at + 3)

\* A row of gptbl for the four packets from at on: for each of them how many
\* packets of its run come before at + 5, and where the last run begins.
IsRowFor(J, at, f, idx, lpv) ==
  /\ lpv = IF at \notin J THEN 0 ELSE IF at + 1 \notin J THEN 1
           ELSE IF at + 2 \notin J THEN 2 ELSE IF at + 3 \notin J THEN 3 ELSE 4
  /\ idx = IF at + 3 \notin J THEN 4 ELSE IF at + 2 \notin J THEN 3
           ELSE IF at + 1 \notin J THEN 2 ELSE IF at \notin J THEN 1 ELSE 0
  /\ f[1] = 1 + lpv
  /\ f[2] = IF at + 1 \notin J THEN 1 ELSE IF at + 2 \notin J THEN 2
            ELSE IF at + 3 \notin J THEN 3 ELSE 4
  /\ f[3] = IF at + 2 \notin J THEN 1 ELSE IF at + 3 \notin J THEN 2 ELSE 3
  /\ f[4] = IF at + 3 \notin J THEN 1 ELSE 2

\* The shape of the rows of gptbl.
LEMMA RowShape == \A r \in 1 .. 16 : gptbl[r] \in [pnum : [1 .. 4 -> Int], idx : 0 .. 4, lpv : 0 .. 4]
<1> SUFFICES ASSUME NEW r \in 1 .. 16
             PROVE  gptbl[r] \in [pnum : [1 .. 4 -> Int], idx : 0 .. 4, lpv : 0 .. 4]
  OBVIOUS
<1>1. CASE r \in 1 .. 4
  BY <1>1 DEF gptbl
<1>2. CASE r \in 5 .. 8
  BY <1>2 DEF gptbl
<1>3. CASE r \in 9 .. 12
  BY <1>3 DEF gptbl
<1>4. CASE r \in 13 .. 16
  BY <1>4 DEF gptbl
<1> QED
  BY <1>1, <1>2, <1>3, <1>4

\* Each row of gptbl is the one its mask calls for.
LEMMA RowOfMask ==
  ASSUME NEW J, NEW at \in Nat
  PROVE  LET v == MaskOf(J, at)
             e == gptbl[v + 1] IN
         /\ v \in 0 .. 15
         /\ v = 15 <=> at \in J /\ at + 1 \in J /\ at + 2 \in J /\ at + 3 \in J
         /\ IsRowFor(J, at, e.pnum, e.idx, e.lpv)
<1> USE DEF MaskOf, BitOf, gptbl, IsRowFor
<1>1. CASE at \in J
  <2>1. CASE at + 1 \in J
    BY <1>1, <2>1
  <2>2. CASE at + 1 \notin J
    BY <1>1, <2>2
  <2> QED
    BY <2>1, <2>2
<1>2. CASE at \notin J
  <2>1. CASE at + 1 \in J
    BY <1>2, <2>1
  <2>2. CASE at + 1 \notin J
    BY <1>2, <2>2
  <2> QED
    BY <2>1, <2>2
<1> QED
  BY <1>1, <1>2

\* The same with the parts of the row as variables.
LEMMA PrebuiltValues ==
  ASSUME NEW J, NEW at \in Nat
  PROVE  LET v == MaskOf(J, at) IN
         /\ v \in 0 .. 15
         /\ v = 15 <=> at \in J /\ at + 1 \in J /\ at + 2 \in J /\ at + 3 \in J
         /\ \E lpv \in 0 .. 4, idx \in 0 .. 4, f \in [1 .. 4 -> Int] :
              gptbl[v + 1] = [pnum |-> f, idx |-> idx, lpv |-> lpv] /\ IsRowFor(J, at, f, idx, lpv)
<1> DEFINE v == MaskOf(J, at)
           e == gptbl[v + 1]
<1>1. /\ v \in 0 .. 15 /\ (v = 15 <=> at \in J /\ at + 1 \in J /\ at + 2 \in J /\ at + 3 \in J)
      /\ IsRowFor(J, at, e.pnum, e.idx, e.lpv)
  BY RowOfMask
<1>2. e \in [pnum : [1 .. 4 -> Int], idx : 0 .. 4, lpv : 0 .. 4]
  <2>1. v + 1 \in 1 .. 16
    BY <1>1
  <2> QED
    BY <2>1, RowShape
<1> HIDE DEF e
<1>3. e = [pnum |-> e.pnum, idx |-> e.idx, lpv |-> e.lpv]
      /\ e.pnum \in [1 .. 4 -> Int] /\ e.idx \in 0 .. 4 /\ e.lpv \in 0 .. 4
  BY <1>2
<1> QED
  BY <1>1, <1>3, Zenon DEF e

\* One entry counted on.
LEMMA CountedOn ==
  ASSUME NEW N \in Nat, NEW pn \in [1 .. N -> Int], NEW lp \in 1 .. N, NEW d \in Int
  PROVE  LET hp == [pn EXCEPT ![lp] = @ + d]
         IN  /\ hp \in [1 .. N -> Int] /\ hp[lp] = pn[lp] + d
             /\ \A a \in 1 .. N : a # lp => hp[a] = pn[a]
OBVIOUS

\* Four entries written from at on, and perhaps one more.
WrittenAt(pn, at, f, k) ==
  [x \in DOMAIN pn |->
     CASE x \in at .. at + 3 -> f[x - at + 1]
       [] x = at + k /\ k = 4 -> 1
       [] OTHER -> pn[x]]

\* What is where after four entries have been written.
LEMMA Written ==
  ASSUME NEW N \in Nat, NEW pn \in [1 .. N -> Int], NEW at \in Nat, 1 <= at, at + 4 <= N,
         NEW f \in [1 .. 4 -> Int], NEW k \in 0 .. 4
  PROVE  LET hp == WrittenAt(pn, at, f, k)
         IN  /\ hp \in [1 .. N -> Int]
             /\ \A a \in 1 .. at - 1 : hp[a] = pn[a]
             /\ \A y \in 0 .. 3 : hp[at + y] = f[y + 1]
             /\ (k = 4 => hp[at + 4] = 1)
<1> DEFINE hp == WrittenAt(pn, at, f, k)
<1>1. /\ \A x \in at .. at + 3 : hp[x] = f[x - at + 1]
      /\ \A x \in 1 .. at - 1 : hp[x] = pn[x]
      /\ k = 4 => hp[at + 4] = 1
  <2>1. ASSUME NEW x \in at .. at + 3 PROVE hp[x] = f[x - at + 1]
    BY DEF WrittenAt
  <2>2. ASSUME NEW x \in 1 .. at - 1 PROVE hp[x] = pn[x]
    BY DEF WrittenAt
  <2>3. ASSUME k = 4 PROVE hp[at + 4] = 1
    BY <2>3 DEF WrittenAt
  <2> QED
    BY <2>1, <2>2, <2>3
<1>2. DOMAIN hp = 1 .. N
  BY DEF WrittenAt
<1>3. \A x \in at .. at + 3 : f[x - at + 1] \in Int
  <2> SUFFICES ASSUME NEW x \in at .. at + 3 PROVE f[x - at + 1] \in Int
    OBVIOUS
  <2>1. x - at + 1 \in {1, 2, 3, 4}
    OBVIOUS
  <2> QED
    BY <2>1
<1>4. hp \in [1 .. N -> Int]
  BY <1>3 DEF WrittenAt
<1>5. \A a \in 1 .. at - 1 : hp[a] = pn[a]
  BY <1>1
<1>6. \A y \in 0 .. 3 : hp[at + y] = f[y + 1]
  <2> SUFFICES ASSUME NEW y \in 0 .. 3 PROVE hp[at + y] = f[y + 1]
    OBVIOUS
  <2> DEFINE x == at + y
  <2>1. x \in at .. at + 3 /\ x \in 1 .. N /\ x - at + 1 = y + 1
    OBVIOUS
  <2> HIDE DEF x
  <2>2. hp[x] = f[x - at + 1]
    BY <1>1, <2>1
  <2> QED
    BY <2>1, <2>2 DEF x
<1>7. k = 4 => hp[at + 4] = 1
  BY <1>1
<1> HIDE DEF hp
<1> QED
  BY <1>4, <1>5, <1>6, <1>7 DEF hp

\* hp is pn with the row written from at on and the run at lp counted on.
IsWritten(hp, pn, lp, at, f, idx, lpv) ==
  /\ \A a \in 1 .. at - 1 : hp[a] = IF a = lp THEN pn[a] + lpv ELSE pn[a]
  /\ hp[at] = f[1] /\ hp[at + 1] = f[2] /\ hp[at + 2] = f[3] /\ hp[at + 3] = f[4]
  /\ (idx = 4 => hp[at + 4] = 1)

\* What PortGroupX4 writes for a mask that is not full.
LEMMA FourWritten ==
  ASSUME NEW N \in Nat, NEW pn \in [1 .. N -> Int], NEW lp \in 1 .. N, NEW at \in Nat, 1 <= at, at + 4 <= N,
         NEW f \in [1 .. 4 -> Int], NEW idx \in 0 .. 4, NEW lpv \in 0 .. 4
  PROVE  LET hp == WrittenAt([pn EXCEPT ![lp] = @ + lpv], at, f, idx)
         IN  hp \in [1 .. N -> Int] /\ IsWritten(hp, pn, lp, at, f, idx, lpv)
<1> DEFINE counted == [pn EXCEPT ![lp] = @ + lpv]
           hp == WrittenAt(counted, at, f, idx)
<1>1. /\ counted \in [1 .. N -> Int] /\ counted[lp] = pn[lp] + lpv
      /\ \A a \in 1 .. N : a # lp => counted[a] = pn[a]
  OBVIOUS
<1> HIDE DEF counted
<1>2. /\ hp \in [1 .. N -> Int]
      /\ \A a \in 1 .. at - 1 : hp[a] = counted[a]
      /\ \A y \in 0 .. 3 : hp[at + y] = f[y + 1]
      /\ (idx = 4 => hp[at + 4] = 1)
  BY <1>1, Written
<1> HIDE DEF hp
<1>3. \A a \in 1 .. at - 1 : hp[a] = IF a = lp THEN pn[a] + lpv ELSE pn[a]
  <2> SUFFICES ASSUME NEW a \in 1 .. at - 1 PROVE hp[a] = IF a = lp THEN pn[a] + lpv ELSE pn[a]
    OBVIOUS
  <2>1. a \in 1 .. N /\ hp[a] = counted[a]
    BY <1>2
  <2> QED
    BY <1>1, <2>1
<1>4. hp[at] = f[1] /\ hp[at + 1] = f[2] /\ hp[at + 2] = f[3] /\ hp[at + 3] = f[4]
  <2>1. hp[at + 0] = f[0 + 1] /\ hp[at + 1] = f[1 + 1] /\ hp[at + 2] = f[2 + 1] /\ hp[at + 3] = f[3 + 1]
    BY <1>2
  <2> QED
    BY <2>1
<1> QED
  BY <1>2, <1>3, <1>4 DEF counted, hp, IsWritten

\* The numbers up to three places on.
LEMMA UpToThree ==
  ASSUME NEW at \in Nat, NEW d \in 0 .. 3, NEW y \in Nat, at <= y, y < at + d
  PROVE  y = at \/ (y = at + 1 /\ d >= 2) \/ (y = at + 2 /\ d = 3)
OBVIOUS

\* A number between two of four places.
LEMMA Between ==
  ASSUME NEW at \in Nat, NEW d \in 0 .. 3, NEW e \in 1 .. 4, NEW y \in Nat, at + d < y, y < at + e
  PROVE  \E x \in 1 .. 3 : y = at + x /\ d < x /\ x < e
<1>1. y - at \in 1 .. 3 /\ y = at + (y - at) /\ d < y - at /\ y - at < e
  OBVIOUS
<1> QED
  BY <1>1

\* What it writes counts the runs of four more packets.
LEMMA FourCounted ==
  ASSUME NEW J, NEW N \in Nat, NEW pn \in [1 .. N -> Int], NEW lp \in Nat, 1 <= lp,
         NEW at \in Nat, 1 <= at, at + 4 <= N, Counted(pn, lp, J, at),
         NEW f \in [1 .. 4 -> Int], NEW idx \in 1 .. 4, NEW lpv \in 0 .. 3,
         IsRowFor(J, at, f, idx, lpv),
         NEW hp \in [1 .. N -> Int],
         IsWritten(hp, pn, lp, at, f, idx, lpv)
  PROVE  Counted(hp, at + idx, J, at + 4)
<1>1. lp <= at /\ pn[lp] = at - lp + 1 /\ lp \in 1 .. N /\ pn[lp] \in Int
  BY DEF Counted
<1>2. hp[lp] = pn[lp] + lpv /\ \A a \in 1 .. lp - 1 : hp[a] = pn[a]
  <2>1. \A a \in 1 .. lp - 1 : a \in 1 .. at - 1 /\ a # lp
    BY <1>1
  <2>2. CASE lp = at
    BY <1>1, <2>1, <2>2 DEF IsRowFor, IsWritten
  <2>3. CASE lp # at
    <3>1. lp \in 1 .. at - 1
      BY <1>1, <2>3
    <3>2. \A a \in 1 .. at - 1 : hp[a] = IF a = lp THEN pn[a] + lpv ELSE pn[a]
      BY DEF IsWritten
    <3> QED
      BY <2>1, <3>1, <3>2
  <2> QED
    BY <2>2, <2>3
<1> DEFINE Known(n) == \E r \in Nat \ {0} : r <= n /\ Counted(hp, r, J, n)
<1>3. ASSUME NEW n \in Nat, n = at + lpv PROVE Counted(hp, lp, J, n)
  <2>1. at <= n /\ \A y \in Nat : at <= y /\ y < n => y \in J
    <3> SUFFICES ASSUME NEW y \in Nat, at <= y, y < n PROVE y \in J
      BY <1>3
    <3>1. y = at \/ (y = at + 1 /\ lpv >= 2) \/ (y = at + 2 /\ lpv = 3)
      BY <1>3, UpToThree
    <3>2. CASE y = at
      BY <1>3, <3>2 DEF IsRowFor
    <3>3. CASE y = at + 1 /\ lpv >= 2
      BY <3>3 DEF IsRowFor
    <3>4. CASE y = at + 2 /\ lpv = 3
      BY <3>4 DEF IsRowFor
    <3> QED
      BY <3>1, <3>2, <3>3, <3>4
  <2>2. hp[lp] = pn[lp] + (n - at)
    BY <1>2, <1>3
  <2> QED
    BY <1>1, <1>2, <2>1, <2>2, LongerRun
<1>4. ASSUME NEW m \in Nat, NEW n \in Nat, m < n, at <= m, m \notin J, Known(m),
             \A y \in Nat : m < y /\ y < n => y \in J, hp[m + 1] = n - m
      PROVE  Counted(hp, m + 1, J, n)
  <2>1. PICK r \in Nat \ {0} : Counted(hp, r, J, m)
    BY <1>4
  <2>2. 1 <= r /\ r \in Nat /\ \A a \in 1 .. m : hp[a] = hp[a]
    OBVIOUS
  <2> HIDE DEF Known
  <2> QED
    BY <1>4, <2>1, <2>2, NextRun
<1> HIDE DEF Known
<1>5. ASSUME NEW n \in Nat, n = at + lpv PROVE Known(n)
  <2>1. Counted(hp, lp, J, n)
    BY <1>3, <1>5
  <2>2. lp \in Nat \ {0} /\ lp <= n
    <3>1. at <= n
      BY <1>5
    <3> QED
      BY <1>1, <3>1
  <2> QED
    BY <2>1, <2>2 DEF Known
<1>6. ASSUME NEW d \in 0 .. 3, NEW e \in 1 .. 4, d < e, at + d \notin J, Known(at + d),
             \A x \in 1 .. 3 : d < x /\ x < e => at + x \in J, hp[at + d + 1] = e - d
      PROVE  Counted(hp, at + d + 1, J, at + e) /\ Known(at + e)
  <2> DEFINE m == at + d
             n == at + e
  <2>1. m \in Nat /\ n \in Nat /\ m < n /\ at <= m /\ hp[m + 1] = n - m /\ m \notin J /\ Known(m)
    BY <1>6
  <2>2. \A y \in Nat : m < y /\ y < n => y \in J
    <3> SUFFICES ASSUME NEW y \in Nat, m < y, y < n PROVE y \in J
      OBVIOUS
    <3>1. PICK x \in 1 .. 3 : y = at + x /\ d < x /\ x < e
      BY Between
    <3> QED
      BY <1>6, <3>1
  <2>3. at + d + 1 = m + 1 /\ at + e = n /\ m + 1 \in Nat \ {0} /\ m + 1 <= n
    BY <2>1
  <2> HIDE DEF m, n
  <2>4. Counted(hp, m + 1, J, n)
    BY <1>4, <2>1, <2>2
  <2> QED
    BY <2>3, <2>4 DEF Known
<1>7. at \notin J => Known(at)
  <2> SUFFICES ASSUME at \notin J PROVE Known(at)
    OBVIOUS
  <2>1. at = at + lpv
    BY DEF IsRowFor
  <2> QED
    BY <1>5, <2>1
<1>8. at + 1 \notin J => Known(at + 1)
  <2> SUFFICES ASSUME at + 1 \notin J PROVE Known(at + 1)
    OBVIOUS
  <2>1. CASE at \in J
    <3>1. at + 1 = at + lpv
      BY <2>1 DEF IsRowFor
    <3> QED
      BY <1>5, <3>1
  <2>2. CASE at \notin J
    <3>1. at + 0 \notin J /\ Known(at + 0) /\ hp[at + 0 + 1] = 1 - 0
      BY <1>7, <2>2 DEF IsRowFor, IsWritten
    <3> QED
      BY <1>6, <3>1
  <2> QED
    BY <2>1, <2>2
<1>9. at + 2 \notin J => Known(at + 2)
  <2> SUFFICES ASSUME at + 2 \notin J PROVE Known(at + 2)
    OBVIOUS
  <2>1. CASE at \in J /\ at + 1 \in J
    <3>1. at + 2 = at + lpv
      BY <2>1 DEF IsRowFor
    <3> QED
      BY <1>5, <3>1
  <2>2. CASE at \notin J /\ at + 1 \in J
    <3>1. /\ at + 0 \notin J /\ Known(at + 0) /\ hp[at + 0 + 1] = 2 - 0
          /\ \A x \in 1 .. 3 : 0 < x /\ x < 2 => at + x \in J
      BY <1>7, <2>2 DEF IsRowFor, IsWritten
    <3> QED
      BY <1>6, <3>1
  <2>3. CASE at + 1 \notin J
    <3>1. hp[at + 1 + 1] = 2 - 1 /\ \A x \in 1 .. 3 : 1 < x /\ x < 2 => at + x \in J
      BY DEF IsRowFor, IsWritten
    <3> QED
      BY <1>6, <1>8, <2>3, <3>1
  <2> QED
    BY <2>1, <2>2, <2>3
<1>10. at + 3 \notin J => Known(at + 3)
  <2> SUFFICES ASSUME at + 3 \notin J PROVE Known(at + 3)
    OBVIOUS
  <2>1. CASE at \in J /\ at + 1 \in J /\ at + 2 \in J
    <3>1. at + 3 = at + lpv
      BY <2>1 DEF IsRowFor
    <3> QED
      BY <1>5, <3>1
  <2>2. CASE at \notin J /\ at + 1 \in J /\ at + 2 \in J
    <3>1. /\ at + 0 \notin J /\ Known(at + 0) /\ hp[at + 0 + 1] = 3 - 0
          /\ \A x \in 1 .. 3 : 0 < x /\ x < 3 => at + x \in J
      BY <1>7, <2>2 DEF IsRowFor, IsWritten
    <3> QED
      BY <1>6, <3>1
  <2>3. CASE at + 1 \notin J /\ at + 2 \in J
    <3>1. hp[at + 1 + 1] = 3 - 1 /\ \A x \in 1 .. 3 : 1 < x /\ x < 3 => at + x \in J
      BY <2>3 DEF IsRowFor, IsWritten
    <3> QED
      BY <1>6, <1>8, <2>3, <3>1
  <2>4. CASE at + 2 \notin J
    <3>1. hp[at + 2 + 1] = 3 - 2 /\ \A x \in 1 .. 3 : 2 < x /\ x < 3 => at + x \in J
      BY DEF IsRowFor, IsWritten
    <3> QED
      BY <1>6, <1>9, <2>4, <3>1
  <2> QED
    BY <2>1, <2>2, <2>3, <2>4
<1>11. CASE idx = 4
  <2>1. at + 3 \notin J /\ hp[at + 3 + 1] = 4 - 3 /\ \A x \in 1 .. 3 : 3 < x /\ x < 4 => at + x \in J
    BY <1>11 DEF IsRowFor, IsWritten
  <2> QED
    BY <1>6, <1>10, <1>11, <2>1
<1>12. CASE idx = 3
  <2>1. at + 2 \notin J /\ hp[at + 2 + 1] = 4 - 2 /\ \A x \in 1 .. 3 : 2 < x /\ x < 4 => at + x \in J
    BY <1>12 DEF IsRowFor, IsWritten
  <2> QED
    BY <1>6, <1>9, <1>12, <2>1
<1>13. CASE idx = 2
  <2>1. at + 1 \notin J /\ hp[at + 1 + 1] = 4 - 1 /\ \A x \in 1 .. 3 : 1 < x /\ x < 4 => at + x \in J
    BY <1>13 DEF IsRowFor, IsWritten
  <2> QED
    BY <1>6, <1>8, <1>13, <2>1
<1>14. CASE idx = 1
  <2>1. at \notin J /\ hp[at + 0 + 1] = 4 - 0 /\ \A x \in 1 .. 3 : 0 < x /\ x < 4 => at + x \in J
    BY <1>14 DEF IsRowFor, IsWritten
  <2>2. at + 0 \notin J /\ Known(at + 0)
    BY <1>7, <2>1
  <2> QED
    BY <1>6, <1>14, <2>1, <2>2
<1> QED
  BY <1>11, <1>12, <1>13, <1>14

\* PortGroupX4 counts four more packets.
LEMMA FourMore ==
  ASSUME NEW J, NEW pn \in [1 .. MaxBurst + 1 -> Int], NEW lp \in Nat, 1 <= lp, NEW dlp \in Int,
         NEW at \in Nat, 1 <= at, at + 3 <= MaxBurst, Counted(pn, lp, J, at)
  PROVE  LET h == PortGroupX4([pnum |-> pn, lp |-> lp, dlp |-> dlp], at, MaskOf(J, at))
         IN  h \in GroupRecord /\ Counted(h.pnum, h.lp, J, at + 4)
<1> DEFINE v == MaskOf(J, at)
           h == PortGroupX4([pnum |-> pn, lp |-> lp, dlp |-> dlp], at, v)
<1>0. v \in 0 .. 15 /\ (v = 15 <=> at \in J /\ at + 1 \in J /\ at + 2 \in J /\ at + 3 \in J)
  BY PrebuiltValues
<1>1. PICK lpv \in 0 .. 4, idx \in 0 .. 4, f \in [1 .. 4 -> Int] :
        gptbl[v + 1] = [pnum |-> f, idx |-> idx, lpv |-> lpv] /\ IsRowFor(J, at, f, idx, lpv)
  BY PrebuiltValues
<1> HIDE DEF v, h
<1>2. /\ lp \in 1 .. MaxBurst + 1 /\ MaxBurst \in Nat /\ MaxBurst + 1 \in Nat /\ lp <= at
      /\ pn[lp] = at - lp + 1 /\ pn[lp] \in Int
  BY SizesAssumption DEF Counted
<1>3. CASE v = 15
  <2> DEFINE g == [pnum |-> pn, lp |-> lp, dlp |-> dlp]
             hp == [pn EXCEPT ![lp] = @ + 4]
             n == at + 4
  <2>1. h = [pnum |-> hp, lp |-> lp, dlp |-> dlp]
    <3> HIDE DEF g
    <3>1. gptbl[v + 1].lpv = 4
      BY <1>0, <1>1, <1>3 DEF IsRowFor
    <3>2. h = [g EXCEPT !.pnum = [g.pnum EXCEPT ![g.lp] = @ + 4]]
      BY <1>3, <3>1 DEF PortGroupX4, GrpMsk, h, g
    <3> QED
      BY <3>2 DEF g
  <2>2. /\ hp \in [1 .. MaxBurst + 1 -> Int] /\ hp[lp] = pn[lp] + 4
        /\ \A a \in 1 .. MaxBurst + 1 : a # lp => hp[a] = pn[a]
    BY <1>2, CountedOn
  <2> HIDE DEF hp
  <2>3. h \in GroupRecord
    BY <1>2, <2>1, <2>2 DEF GroupRecord
  <2>4. at <= n /\ n \in Nat /\ \A y \in Nat : at <= y /\ y < n => y \in J
    BY <1>0, <1>3
  <2>5. hp[lp] = pn[lp] + (n - at) /\ \A a \in 1 .. lp - 1 : hp[a] = pn[a]
    BY <1>2, <2>2
  <2> HIDE DEF n
  <2>6. Counted(hp, lp, J, n)
    BY <1>2, <2>4, <2>5, LongerRun
  <2> QED
    BY <2>1, <2>3, <2>6 DEF h, v, n
<1>4. CASE v # 15
  <2>1. idx \in 1 .. 4 /\ lpv \in 0 .. 3
    BY <1>0, <1>1, <1>4 DEF IsRowFor
  <2> DEFINE g == [pnum |-> pn, lp |-> lp, dlp |-> dlp]
             hp == WrittenAt([pn EXCEPT ![lp] = @ + lpv], at, f, idx)
  <2>2. h = [pnum |-> hp, lp |-> at + idx, dlp |-> dlp]
    <3> DEFINE gp == WrittenAt([g.pnum EXCEPT ![g.lp] = @ + lpv], at, f, idx)
    <3> HIDE DEF g
    <3>1. h = [g EXCEPT !.pnum = gp, !.lp = at + idx]
      BY <1>1, <1>4 DEF PortGroupX4, GrpMsk, h, g, WrittenAt
    <3>2. gp = hp
      BY DEF g
    <3> HIDE DEF hp, gp
    <3> QED
      BY <3>1, <3>2 DEF g
  <2> DEFINE N == MaxBurst + 1
  <2>3. N \in Nat /\ at + 4 <= N /\ pn \in [1 .. N -> Int] /\ lp \in 1 .. N
    BY <1>2
  <2> HIDE DEF N
  <2>4. hp \in [1 .. N -> Int] /\ IsWritten(hp, pn, lp, at, f, idx, lpv)
    BY <2>3, FourWritten
  <2> HIDE DEF hp
  <2>5. Counted(hp, at + idx, J, at + 4)
    BY <1>1, <2>1, <2>3, <2>4, FourCounted
  <2>6. h \in GroupRecord
    <3>1. at + idx \in 1 .. MaxBurst + 1
      BY <1>2, <2>1
    <3> QED
      BY <2>2, <2>4, <3>1 DEF GroupRecord, N
  <2> QED
    BY <2>2, <2>5, <2>6 DEF h, v
<1> QED
  BY <1>3, <1>4

\* A group record is its parts.
LEMMA PartsOfGroup ==
  ASSUME NEW g \in GroupRecord
  PROVE  \E pn \in [1 .. MaxBurst + 1 -> Int], lp \in 1 .. MaxBurst + 1, dlp \in Int :
           g = [pnum |-> pn, lp |-> lp, dlp |-> dlp]
<1>1. /\ g = [pnum |-> g.pnum, lp |-> g.lp, dlp |-> g.dlp]
      /\ g.pnum \in [1 .. MaxBurst + 1 -> Int] /\ g.lp \in 1 .. MaxBurst + 1 /\ g.dlp \in Int
  BY DEF GroupRecord
<1> QED
  BY <1>1, Zenon

\* The size of a burst is a number.
LEMMA BurstIsANumber == MaxBurst \in Nat
BY SizesAssumption

\* A step of port_groupx4 gives a group record.
LEMMA FourTyped ==
  ASSUME NEW pn \in [1 .. MaxBurst + 1 -> Int], NEW lp \in 1 .. MaxBurst + 1, NEW dlp \in Int,
         NEW at \in Nat, 1 <= at, at + 3 <= MaxBurst, NEW v \in 0 .. 15
  PROVE  PortGroupX4([pnum |-> pn, lp |-> lp, dlp |-> dlp], at, v) \in GroupRecord
<1> DEFINE g == [pnum |-> pn, lp |-> lp, dlp |-> dlp]
           h == PortGroupX4(g, at, v)
           e == gptbl[v + 1]
           N == MaxBurst + 1
<1>1. e \in [pnum : [1 .. 4 -> Int], idx : 0 .. 4, lpv : 0 .. 4]
  <2>1. v + 1 \in 1 .. 16
    OBVIOUS
  <2> QED
    BY <2>1, RowShape
<1>2. N \in Nat /\ at + 4 <= N
  BY SizesAssumption
<1> HIDE DEF e
<1>3. PICK f \in [1 .. 4 -> Int], idx \in 0 .. 4, lpv \in 0 .. 4 : e.pnum = f /\ e.idx = idx /\ e.lpv = lpv
  BY <1>1
<1> DEFINE counted == [pn EXCEPT ![lp] = @ + lpv]
           hp == WrittenAt(counted, at, f, idx)
<1>4. h = IF v = 15 THEN [pnum |-> counted, lp |-> lp, dlp |-> dlp]
          ELSE [pnum |-> hp, lp |-> at + idx, dlp |-> dlp]
  <2> DEFINE cn == [g.pnum EXCEPT ![g.lp] = @ + lpv]
             gp == WrittenAt(cn, at, f, idx)
  <2> HIDE DEF g
  <2>1. h = IF v = 15 THEN [g EXCEPT !.pnum = cn] ELSE [g EXCEPT !.pnum = gp, !.lp = at + idx]
    BY <1>3 DEF PortGroupX4, GrpMsk, e, WrittenAt
  <2>2. cn = counted /\ gp = hp
    BY DEF g
  <2> HIDE DEF cn, gp, counted, hp, h
  <2>3. CASE v = 15
    <3>1. h = [g EXCEPT !.pnum = counted]
      BY <2>1, <2>2, <2>3
    <3> QED
      BY <2>3, <3>1 DEF g
  <2>4. CASE v # 15
    <3>1. h = [g EXCEPT !.pnum = hp, !.lp = at + idx]
      BY <2>1, <2>2, <2>4
    <3>2. g = [pnum |-> pn, lp |-> lp, dlp |-> dlp]
      BY DEF g
    <3>3. h = [pnum |-> hp, lp |-> at + idx, dlp |-> dlp]
      BY <3>1, <3>2
    <3> QED
      BY <2>4, <3>3
  <2> QED
    BY <2>3, <2>4
<1>5. counted \in [1 .. N -> Int] /\ hp \in [1 .. N -> Int]
  <2>1. counted \in [1 .. N -> Int]
    OBVIOUS
  <2> HIDE DEF N
  <2>2. hp \in [1 .. N -> Int]
    BY <1>2, FourWritten DEF N
  <2> QED
    BY <2>1, <2>2
<1>6. at + idx \in 1 .. N
  BY <1>2
<1> HIDE DEF counted, hp, h
<1>7. h \in GroupRecord
  BY <1>4, <1>5, <1>6 DEF GroupRecord, N
<1> QED
  BY <1>7 DEF h, g

\* Which packets are for the same port as the next one: of the whole burst, and
\* of the fours as port_groupx4 sees them.
Joined(dst) == {x \in 1 .. Len(dst) - 1 : dst[x] = dst[x + 1]}
JoinedFours(dst, k) == {x \in 1 .. k : dst[x] = dst[Lesser(x + 1, k)]}

\* The mask of the code tells which packets are for the port of the next.
LEMMA MaskIsOfJoined ==
  ASSUME NEW dst, NEW k \in Nat, NEW at \in Nat, 1 <= at, at + 3 <= k
  PROVE  Mask(dst, at, k) = MaskOf(JoinedFours(dst, k), at)
<1> DEFINE Jk == JoinedFours(dst, k)
<1>1. \A x \in 1 .. k : x \in Jk <=> dst[x] = dst[Lesser(x + 1, k)]
  BY DEF JoinedFours
<1>2. \A x \in 1 .. k, b \in Nat : Bit(b, dst, x, k) = BitOf(Jk, b, x)
  <2> HIDE DEF Jk
  <2> QED
    BY <1>1 DEF Bit, BitOf
<1>3. at \in 1 .. k /\ at + 1 \in 1 .. k /\ at + 2 \in 1 .. k /\ at + 3 \in 1 .. k
  OBVIOUS
<1> HIDE DEF Jk
<1>4. Mask(dst, at, k) = MaskOf(Jk, at)
  BY <1>2, <1>3 DEF Mask, MaskOf
<1> QED
  BY <1>4 DEF Jk

\* What the fours of a burst make of the group record they start from.
Four(dst, k, q, g) ==
  LET at == FwdStep * (q - 1) + 1 IN PortGroupX4(g, at, Mask(dst, at, k))
IsFours(f, dst, n4, k, first) ==
  f = [q \in 0 .. n4 |-> IF q = 0 THEN first ELSE Four(dst, k, q, f[q - 1])]

\* One four of a burst.
LEMMA FourOfBurst ==
  ASSUME NEW dst, NEW n4 \in Nat, NEW k \in Nat, k = FwdStep * n4, k <= MaxBurst,
         NEW q \in 1 .. n4, NEW g \in GroupRecord
  PROVE  /\ Four(dst, k, q, g) \in GroupRecord
         /\ g.lp <= FwdStep * (q - 1) + 1
            /\ Counted(g.pnum, g.lp, JoinedFours(dst, k), FwdStep * (q - 1) + 1)
            => LET h == Four(dst, k, q, g)
               IN  Counted(h.pnum, h.lp, JoinedFours(dst, k), FwdStep * q + 1)
<1> DEFINE at == FwdStep * (q - 1) + 1
           v == MaskOf(JoinedFours(dst, k), at)
           h == Four(dst, k, q, g)
<1>1. at \in Nat /\ 1 <= at /\ at + 3 <= k /\ at + 3 <= MaxBurst /\ at + 4 = FwdStep * q + 1
  BY BurstIsANumber DEF FwdStep
<1>2. h = PortGroupX4(g, at, Mask(dst, at, k))
  BY DEF Four
<1> HIDE DEF at, h
<1>3. Mask(dst, at, k) = v /\ v \in 0 .. 15
  BY <1>1, MaskIsOfJoined, PrebuiltValues
<1> HIDE DEF v
<1>4. PICK pn \in [1 .. MaxBurst + 1 -> Int], lp \in 1 .. MaxBurst + 1, dlp \in Int :
        g = [pnum |-> pn, lp |-> lp, dlp |-> dlp]
  BY PartsOfGroup
<1>5. h = PortGroupX4([pnum |-> pn, lp |-> lp, dlp |-> dlp], at, v)
  BY <1>2, <1>3, <1>4
<1>6. h \in GroupRecord
  BY <1>1, <1>3, <1>5, FourTyped
<1>7. ASSUME Counted(g.pnum, g.lp, JoinedFours(dst, k), at)
      PROVE  Counted(h.pnum, h.lp, JoinedFours(dst, k), at + 4)
  <2>1. Counted(pn, lp, JoinedFours(dst, k), at) /\ lp \in Nat /\ 1 <= lp
    BY <1>4, <1>7, BurstIsANumber
  <2> QED
    BY <1>1, <1>5, <2>1, FourMore DEF v
<1> QED
  BY <1>1, <1>6, <1>7 DEF at, h

\* The recursion over the fours has a function.
LEMMA FoursExist ==
  ASSUME NEW dst, NEW n4 \in Nat, NEW k \in Nat, k = FwdStep * n4, k <= MaxBurst,
         NEW first \in GroupRecord
  PROVE  \E f : IsFours(f, dst, n4, k, first)
<1> DEFINE step == [q \in 0 + 1 .. n4 |-> [g \in GroupRecord |-> Four(dst, k, q, g)]]
<1>1. step \in [0 + 1 .. n4 -> [GroupRecord -> GroupRecord]]
  BY FourOfBurst
<1>2. PICK f : IsRecursive(f, GroupRecord, first, 0, n4, step)
  <2> HIDE DEF step
  <2>1. 0 \in Int /\ n4 \in Int /\ 0 <= n4
    OBVIOUS
  <2> QED
    BY <1>1, <2>1, RecursiveFunction
<1> DEFINE ff == [q \in 0 .. n4 |-> f[q]]
<1>3. \A q \in 0 .. n4 : ff[q] = IF q = 0 THEN first ELSE Four(dst, k, q, ff[q - 1])
  <2> SUFFICES ASSUME NEW q \in 0 .. n4
               PROVE  ff[q] = IF q = 0 THEN first ELSE Four(dst, k, q, ff[q - 1])
    OBVIOUS
  <2>1. CASE q = 0
    BY <1>2, <2>1 DEF IsRecursive
  <2>2. CASE q # 0
    <3>1. q \in 0 + 1 .. n4 /\ f[q - 1] \in GroupRecord /\ ff[q - 1] = f[q - 1] /\ ff[q] = f[q]
      BY <1>2, <2>2 DEF IsRecursive
    <3>2. f[q] = step[q][f[q - 1]]
      BY <1>2, <3>1 DEF IsRecursive
    <3> QED
      BY <2>2, <3>1, <3>2
  <2> QED
    BY <2>1, <2>2
<1>4. IsFours(ff, dst, n4, k, first)
  BY <1>3 DEF IsFours
<1> QED
  BY <1>4, Zenon

\* Once the fours are counted, the runs of their packets are.
LEMMA FoursCounted ==
  ASSUME NEW dst, NEW n4 \in Nat, NEW k \in Nat, k = FwdStep * n4, k <= MaxBurst,
         NEW first \in GroupRecord, first.lp = 1, first.pnum[1] = 1,
         NEW fours, IsFours(fours, dst, n4, k, first)
  PROVE  /\ fours[n4] \in GroupRecord
         /\ Counted(fours[n4].pnum, fours[n4].lp, JoinedFours(dst, k), k + 1)
<1> DEFINE Jk == JoinedFours(dst, k)
           Good(g, q) == g \in GroupRecord /\ Counted(g.pnum, g.lp, Jk, FwdStep * q + 1)
           T == {q \in 0 .. n4 : Good(fours[q], q)}
<1>1. fours[0] = first /\ \A q \in 1 .. n4 : fours[q] = Four(dst, k, q, fours[q - 1])
  BY DEF IsFours
<1> HIDE DEF Jk
<1>2. 0 \in T
  <2>1. Counted(first.pnum, first.lp, Jk, FwdStep * 0 + 1)
    BY DEF Counted, Begins, Ends, FwdStep
  <2> QED
    BY <1>1, <2>1
<1>3. ASSUME NEW q \in 0 .. n4 - 1, q \in T PROVE q + 1 \in T
  <2>1. q + 1 \in 1 .. n4 /\ q + 1 \in 0 .. n4 /\ q + 1 - 1 = q
    OBVIOUS
  <2>2. fours[q] \in GroupRecord /\ Counted(fours[q].pnum, fours[q].lp, Jk, FwdStep * (q + 1 - 1) + 1)
    BY <1>3, <2>1
  <2>3. fours[q + 1] = Four(dst, k, q + 1, fours[q])
    BY <1>1, <2>1
  <2>4. fours[q].lp <= FwdStep * (q + 1 - 1) + 1
    BY <2>2 DEF Counted
  <2>5. Good(fours[q + 1], q + 1)
    BY <2>1, <2>2, <2>3, <2>4, FourOfBurst DEF Jk
  <2> HIDE DEF Good
  <2> QED
    BY <2>1, <2>5
<1>4. Good(fours[n4], n4)
  <2> HIDE DEF Good
  <2>1. 0 .. n4 \subseteq T
    <3> HIDE DEF T
    <3> QED
      BY <1>2, <1>3, RangeInduction
  <2>2. n4 \in 0 .. n4
    OBVIOUS
  <2> QED
    BY <2>1, <2>2
<1> QED
  BY <1>4 DEF Jk

\* The correction after the last four: its last packet was compared with itself.
LEMMA Corrected ==
  ASSUME NEW dst, Len(dst) \in Nat, NEW k \in Nat, 1 <= k, k <= Len(dst),
         NEW pn, NEW lp \in Nat, 1 <= lp, Counted(pn, lp, JoinedFours(dst, k), k + 1),
         NEW hp, hp[lp] = pn[lp] - 1, \A a \in 1 .. lp - 1 : hp[a] = pn[a]
  PROVE  Counted(hp, lp, Joined(dst), k)
<1> DEFINE Jk == JoinedFours(dst, k)
           J == Joined(dst)
<1>1. k \in Jk /\ \A y \in Nat : 1 <= y /\ y < k => (y \in Jk <=> y \in J)
  BY DEF JoinedFours, Joined, Lesser
<1> HIDE DEF Jk, J
<1>2. /\ lp <= k + 1 /\ Begins(Jk, lp) /\ pn[lp] = k + 1 - lp + 1
      /\ \A y \in Nat : lp <= y /\ y < k + 1 => y \in Jk
      /\ \A a, b \in Nat : 1 <= a /\ b < lp /\ Begins(Jk, a) /\ Ends(Jk, a, b) => pn[a] = b - a + 1
  BY DEF Counted, Jk
<1>3. lp <= k
  <2>1. lp # k + 1
    <3> SUFFICES ASSUME lp = k + 1 PROVE FALSE
      OBVIOUS
    <3> QED
      BY <1>1, <1>2 DEF Begins
  <2> QED
    BY <1>2, <2>1
<1>4. Begins(J, lp)
  <2>1. CASE lp = 1
    BY <2>1 DEF Begins
  <2>2. CASE lp # 1
    <3>1. lp - 1 \in Nat /\ 1 <= lp - 1 /\ lp - 1 < k
      BY <1>3, <2>2
    <3> QED
      BY <1>1, <1>2, <2>2, <3>1 DEF Begins
  <2> QED
    BY <2>1, <2>2
<1>5. \A y \in Nat : lp <= y /\ y < k => y \in J
  BY <1>1, <1>2
<1>6. hp[lp] = k - lp + 1
  BY <1>2
<1>7. ASSUME NEW a \in Nat, NEW b \in Nat, 1 <= a, b < lp, Begins(J, a), Ends(J, a, b)
      PROVE  hp[a] = b - a + 1
  <2>1. a <= b /\ b < k /\ 1 <= b /\ a \in 1 .. lp - 1
    BY <1>3, <1>7 DEF Ends
  <2>2. Begins(Jk, a)
    <3>1. CASE a = 1
      BY <3>1 DEF Begins
    <3>2. CASE a # 1
      <4>1. a - 1 \in Nat /\ 1 <= a - 1 /\ a - 1 < k
        BY <2>1, <3>2
      <4> QED
        BY <1>1, <1>7, <3>2, <4>1 DEF Begins
    <3> QED
      BY <3>1, <3>2
  <2>3. Ends(Jk, a, b)
    <3>1. b \notin Jk
      BY <1>1, <1>7, <2>1 DEF Ends
    <3>2. ASSUME NEW y \in Nat, a <= y, y < b PROVE y \in Jk
      <4>1. 1 <= y /\ y < k /\ y \in J
        BY <1>7, <2>1, <3>2 DEF Ends
      <4> QED
        BY <1>1, <4>1
    <3> QED
      BY <2>1, <3>1, <3>2 DEF Ends
  <2>4. pn[a] = b - a + 1
    BY <1>2, <1>7, <2>2, <2>3
  <2> QED
    BY <2>1, <2>4
<1>8. Counted(hp, lp, J, k)
  BY <1>3, <1>4, <1>5, <1>6, <1>7 DEF Counted
<1> QED
  BY <1>8 DEF J

\* What holds of the group record when x packets have been looked at.
Grouped(g, dst, x) ==
  g \in GroupRecord /\ g.dlp = dst[x] /\ Counted(g.pnum, g.lp, Joined(dst), x)

\* A step for a single packet gives a group record.
LEMMA StepTyped ==
  ASSUME NEW dst, NEW x \in 1 .. MaxBurst, dst[x] \in Int, NEW g \in GroupRecord
  PROVE  GroupPortStep(g, dst, x) \in GroupRecord
<1>1. PICK pn \in [1 .. MaxBurst + 1 -> Int], lp \in 1 .. MaxBurst + 1, dlp \in Int :
        g = [pnum |-> pn, lp |-> lp, dlp |-> dlp]
  BY PartsOfGroup
<1>2. x \in 1 .. MaxBurst + 1
  BY BurstIsANumber
<1> DEFINE hp == [pn EXCEPT ![lp] = @ + 1]
           rp == [pn EXCEPT ![x] = 1]
<1>3. hp \in [1 .. MaxBurst + 1 -> Int] /\ rp \in [1 .. MaxBurst + 1 -> Int]
  BY <1>2
<1>4. GroupPortStep(g, dst, x) = IF dlp = dst[x] THEN [pnum |-> hp, lp |-> lp, dlp |-> dlp]
                                 ELSE [pnum |-> rp, lp |-> x, dlp |-> dst[x]]
  BY <1>1 DEF GroupPortStep
<1> HIDE DEF hp, rp
<1> QED
  BY <1>2, <1>3, <1>4 DEF GroupRecord

\* GROUP_PORT_STEP counts one more packet.
LEMMA OneMore ==
  ASSUME NEW dst, Len(dst) \in Nat, NEW x \in Nat, 1 <= x, x < Len(dst), x < MaxBurst,
         dst[x] \in Int, dst[x + 1] \in Int, NEW g, Grouped(g, dst, x)
  PROVE  Grouped(GroupPortStep(g, dst, x + 1), dst, x + 1)
<1> DEFINE J == Joined(dst)
           n == x + 1
           h == GroupPortStep(g, dst, n)
<1>1. PICK pn \in [1 .. MaxBurst + 1 -> Int], lp \in 1 .. MaxBurst + 1, dlp \in Int :
        g = [pnum |-> pn, lp |-> lp, dlp |-> dlp]
  BY PartsOfGroup DEF Grouped
<1>2. Counted(pn, lp, J, x) /\ dlp = dst[x] /\ lp \in Nat /\ 1 <= lp /\ lp <= x
  BY <1>1, BurstIsANumber DEF Grouped, Counted
<1>3. x \in J <=> dst[x] = dst[n]
  BY DEF Joined
<1>4. n \in Nat /\ x < n /\ x <= n /\ n - x = 1 /\ n \in 1 .. MaxBurst /\ n \in 1 .. MaxBurst + 1
  BY BurstIsANumber
<1>5. h \in GroupRecord
  BY <1>4, StepTyped DEF Grouped
<1> DEFINE hp == [pn EXCEPT ![lp] = @ + 1]
           rp == [pn EXCEPT ![n] = 1]
<1> HIDE DEF n
<1>6. h = IF dlp = dst[n] THEN [pnum |-> hp, lp |-> lp, dlp |-> dlp]
          ELSE [pnum |-> rp, lp |-> n, dlp |-> dst[n]]
  BY <1>1 DEF GroupPortStep
<1> HIDE DEF h, J
<1>7. CASE dlp = dst[n]
  <2>1. hp[lp] = pn[lp] + (n - x) /\ pn[lp] \in Int /\ \A a \in 1 .. lp - 1 : hp[a] = pn[a]
    BY <1>2, <1>4
  <2> HIDE DEF hp
  <2>2. \A y \in Nat : x <= y /\ y < n => y \in J
    <3>1. \A y \in Nat : x <= y /\ y < n => y = x
      BY <1>4
    <3> QED
      BY <1>2, <1>3, <1>7, <3>1
  <2>3. Counted(hp, lp, J, n)
    BY <1>2, <1>4, <2>1, <2>2, LongerRun
  <2>4. h.dlp = dst[n] /\ h.pnum = hp /\ h.lp = lp
    BY <1>6, <1>7
  <2> QED
    BY <1>5, <2>3, <2>4 DEF Grouped, h, n, J
<1>8. CASE dlp # dst[n]
  <2>1. rp[n] = 1 /\ \A a \in 1 .. x : rp[a] = pn[a]
    <3>1. \A a \in 1 .. x : a # n /\ a \in 1 .. MaxBurst + 1
      BY <1>4, BurstIsANumber
    <3> QED
      BY <1>4, <3>1
  <2> HIDE DEF rp
  <2>2. x \notin J /\ (\A y \in Nat : x < y /\ y < n => y \in J) /\ n = x + 1 /\ rp[x + 1] = n - x
    BY <1>2, <1>3, <1>8, <2>1, <1>4 DEF n
  <2>3. Counted(rp, x + 1, J, n)
    BY <1>2, <1>4, <2>1, <2>2, NextRun
  <2>4. h.dlp = dst[n] /\ h.pnum = rp /\ h.lp = x + 1
    BY <1>6, <1>8, <2>2
  <2> QED
    BY <1>5, <2>3, <2>4 DEF Grouped, h, n, J
<1> QED
  BY <1>7, <1>8

\* The first packet of a burst of fewer than four.
LEMMA FirstOne ==
  ASSUME NEW dst, dst[1] \in Nat, NEW g \in GroupRecord, g.dlp = -1, 1 <= MaxBurst
  PROVE  Grouped(GroupPortStep(g, dst, 1), dst, 1)
<1> DEFINE h == GroupPortStep(g, dst, 1)
<1>1. 1 \in 1 .. MaxBurst /\ 1 \in 1 .. MaxBurst + 1
  BY BurstIsANumber
<1>2. h \in GroupRecord
  BY <1>1, StepTyped
<1>3. h = [pnum |-> [g.pnum EXCEPT ![1] = 1], lp |-> 1, dlp |-> dst[1]]
  BY DEF GroupPortStep
<1>4. g.pnum \in [1 .. MaxBurst + 1 -> Int]
  BY DEF GroupRecord
<1> HIDE DEF h
<1>5. h.pnum[1] = 1 /\ h.lp = 1 /\ h.dlp = dst[1]
  BY <1>1, <1>3, <1>4
<1>6. Counted(h.pnum, 1, Joined(dst), 1)
  BY <1>5 DEF Counted, Begins, Ends
<1> QED
  BY <1>2, <1>5, <1>6 DEF Grouped, h

\* The packets after the fours, one by one.
IsTail(f, dst, k, n, grouped) ==
  f = [x \in k .. n |-> IF x = k THEN grouped ELSE GroupPortStep(f[x - 1], dst, x)]

\* The recursion over the last packets has a function.
LEMMA TailExists ==
  ASSUME NEW dst \in Seq(Nat), NEW k \in Nat, NEW n \in Nat, k <= n, n = Len(dst), n <= MaxBurst,
         NEW grouped \in GroupRecord
  PROVE  \E f : IsTail(f, dst, k, n, grouped)
<1> DEFINE step == [x \in k + 1 .. n |-> [g \in GroupRecord |-> GroupPortStep(g, dst, x)]]
<1>1. step \in [k + 1 .. n -> [GroupRecord -> GroupRecord]]
  <2>1. \A x \in k + 1 .. n : x \in 1 .. MaxBurst /\ dst[x] \in Int
    BY BurstIsANumber
  <2> QED
    BY <2>1, StepTyped
<1>2. PICK f : IsRecursive(f, GroupRecord, grouped, k, n, step)
  <2> HIDE DEF step
  <2>1. k \in Int /\ n \in Int
    OBVIOUS
  <2> QED
    BY <1>1, <2>1, RecursiveFunction
<1> DEFINE ff == [x \in k .. n |-> f[x]]
<1>3. \A x \in k .. n : ff[x] = IF x = k THEN grouped ELSE GroupPortStep(ff[x - 1], dst, x)
  <2> SUFFICES ASSUME NEW x \in k .. n
               PROVE  ff[x] = IF x = k THEN grouped ELSE GroupPortStep(ff[x - 1], dst, x)
    OBVIOUS
  <2>1. CASE x = k
    BY <1>2, <2>1 DEF IsRecursive
  <2>2. CASE x # k
    <3>1. x \in k + 1 .. n /\ f[x - 1] \in GroupRecord /\ ff[x - 1] = f[x - 1] /\ ff[x] = f[x]
      BY <1>2, <2>2 DEF IsRecursive
    <3>2. f[x] = step[x][f[x - 1]]
      BY <1>2, <3>1 DEF IsRecursive
    <3> QED
      BY <2>2, <3>1, <3>2
  <2> QED
    BY <2>1, <2>2
<1>4. IsTail(ff, dst, k, n, grouped)
  BY <1>3 DEF IsTail
<1> QED
  BY <1>4, Zenon

\* Once all packets have been through it, the whole burst is counted.
LEMMA TailCounted ==
  ASSUME NEW dst \in Seq(Nat), NEW k \in Nat, NEW n \in Nat, k <= n, n = Len(dst), n <= MaxBurst, 1 <= n,
         NEW grouped \in GroupRecord,
         IF k = 0 THEN grouped.dlp = -1 ELSE Grouped(grouped, dst, k),
         NEW tail, IsTail(tail, dst, k, n, grouped)
  PROVE  Grouped(tail[n], dst, n)
<1> DEFINE T == {x \in k .. n : x # 0 => Grouped(tail[x], dst, x)}
<1>1. \A x \in k .. n : tail[x] = IF x = k THEN grouped ELSE GroupPortStep(tail[x - 1], dst, x)
  BY DEF IsTail
<1>2. k \in T
  BY <1>1
<1>3. ASSUME NEW x \in k .. n - 1, x \in T PROVE x + 1 \in T
  <2>1. x + 1 \in k .. n /\ x + 1 # k /\ x + 1 - 1 = x /\ x \in Nat /\ x < Len(dst) /\ x < MaxBurst
    BY BurstIsANumber
  <2>2. tail[x + 1] = GroupPortStep(tail[x], dst, x + 1)
    BY <1>1, <2>1
  <2>3. CASE x = 0
    <3>1. tail[0] = grouped /\ grouped.dlp = -1
      BY <1>1, <2>3
    <3>2. dst[1] \in Nat /\ 1 <= MaxBurst
      BY BurstIsANumber
    <3>3. Grouped(GroupPortStep(grouped, dst, 1), dst, 1)
      BY <3>1, <3>2, FirstOne
    <3> QED
      BY <2>1, <2>2, <2>3, <3>1, <3>3
  <2>4. CASE x # 0
    <3>1. Grouped(tail[x], dst, x) /\ 1 <= x /\ dst[x] \in Int /\ dst[x + 1] \in Int /\ Len(dst) \in Nat
      BY <1>3, <2>1, <2>4
    <3>2. Grouped(GroupPortStep(tail[x], dst, x + 1), dst, x + 1)
      BY <2>1, <3>1, OneMore
    <3> QED
      BY <2>1, <2>2, <3>2
  <2> QED
    BY <2>3, <2>4
<1>4. n \in T
  <2> HIDE DEF T
  <2>0. k \in Int /\ n \in Int
    OBVIOUS
  <2>1. k .. n \subseteq T
    BY <1>2, <1>3, <2>0, RangeInduction
  <2>2. n \in k .. n
    OBVIOUS
  <2> QED
    BY <2>1, <2>2
<1> QED
  BY <1>4

\* The values of pnum count the runs of a burst.
LEMMA PNumCounts ==
  ASSUME NEW dst \in Seq(Nat), Len(dst) \in 1 .. MaxBurst
  PROVE  /\ PNum(dst) \in [1 .. MaxBurst + 1 -> Int]
         /\ \E lp \in Nat \ {0} : Counted(PNum(dst), lp, Joined(dst), Len(dst))
<1> DEFINE nb == Len(dst)
           k == nb - (nb % FwdStep)
           n4 == nb \div FwdStep
           empty == [x \in 1 .. MaxBurst + 1 |-> Stale]
           first == [pnum |-> [empty EXCEPT ![1] = 1], lp |-> 1, dlp |-> -1]
           fours == CHOOSE f : IsFours(f, dst, n4, k, first)
           last == fours[n4]
           grouped == IF k = 0 THEN [pnum |-> empty, lp |-> MaxBurst + 1, dlp |-> -1]
                      ELSE [last EXCEPT !.pnum[last.lp] = @ - 1, !.dlp = dst[k]]
           tail == CHOOSE f : IsTail(f, dst, k, nb, grouped)
<1>1. PNum(dst) = tail[nb].pnum
  BY DEF PNum, IsFours, IsTail, Four
<1>2. nb \in Nat /\ 1 <= nb /\ nb <= MaxBurst /\ n4 \in Nat /\ k \in Nat /\ k = FwdStep * n4 /\ k <= nb
  BY DEF FwdStep
<1> HIDE DEF nb, k, n4
<1>3. empty \in [1 .. MaxBurst + 1 -> Int] /\ MaxBurst + 1 \in 1 .. MaxBurst + 1 /\ 1 \in 1 .. MaxBurst + 1
  BY <1>2, BurstIsANumber DEF Stale
<1> HIDE DEF empty
<1>4. first \in GroupRecord /\ first.lp = 1 /\ first.pnum[1] = 1
  BY <1>3 DEF GroupRecord
<1> HIDE DEF first
<1>5. k <= MaxBurst
  BY <1>2, BurstIsANumber
<1>6. IsFours(fours, dst, n4, k, first)
  BY <1>2, <1>4, <1>5, FoursExist, Zenon
<1> HIDE DEF fours
<1>7. grouped \in GroupRecord /\ IF k = 0 THEN grouped.dlp = -1 ELSE Grouped(grouped, dst, k)
  <2>1. CASE k = 0
    <3>1. grouped = [pnum |-> empty, lp |-> MaxBurst + 1, dlp |-> -1]
      BY <2>1
    <3> HIDE DEF grouped
    <3> QED
      BY <1>3, <2>1, <3>1 DEF GroupRecord
  <2>2. CASE k # 0
    <3>1. n4 >= 1 /\ 1 <= k /\ dst[k] \in Int
      BY <1>2, <2>2 DEF FwdStep, nb
    <3>2. last \in GroupRecord /\ Counted(last.pnum, last.lp, JoinedFours(dst, k), k + 1)
      BY <1>2, <1>4, <1>5, <1>6, <3>1, FoursCounted
    <3> HIDE DEF last
    <3>3. PICK pn \in [1 .. MaxBurst + 1 -> Int], lp \in 1 .. MaxBurst + 1, dlp \in Int :
            last = [pnum |-> pn, lp |-> lp, dlp |-> dlp]
      BY <3>2, PartsOfGroup
    <3> DEFINE hp == [pn EXCEPT ![lp] = @ - 1]
    <3>4. hp \in [1 .. MaxBurst + 1 -> Int] /\ hp[lp] = pn[lp] - 1 /\ \A a \in 1 .. lp - 1 : hp[a] = pn[a]
      BY BurstIsANumber
    <3>5. grouped = [pnum |-> hp, lp |-> lp, dlp |-> dst[k]]
      BY <2>2, <3>3
    <3> HIDE DEF hp, grouped
    <3>6. lp \in Nat /\ 1 <= lp /\ Len(dst) \in Nat /\ k <= Len(dst)
      BY <1>2, BurstIsANumber DEF nb
    <3>7. Counted(hp, lp, Joined(dst), k)
      BY <1>2, <3>1, <3>2, <3>3, <3>4, <3>6, Corrected
    <3> QED
      BY <2>2, <3>1, <3>4, <3>5, <3>7 DEF Grouped, GroupRecord
  <2> QED
    BY <2>1, <2>2
<1> HIDE DEF grouped, last
<1>8. IsTail(tail, dst, k, nb, grouped)
  <2>1. \E f : IsTail(f, dst, k, nb, grouped)
    BY <1>2, <1>7, TailExists DEF nb
  <2> QED
    BY <2>1, Zenon
<1> HIDE DEF tail
<1>9. Grouped(tail[nb], dst, nb)
  BY <1>2, <1>7, <1>8, TailCounted DEF nb
<1> DEFINE g == tail[nb]
<1>10. g \in GroupRecord /\ Counted(g.pnum, g.lp, Joined(dst), nb)
  BY <1>9 DEF Grouped
<1> HIDE DEF g
<1>11. g.pnum \in [1 .. MaxBurst + 1 -> Int] /\ g.lp \in Nat \ {0}
  BY <1>10, BurstIsANumber DEF GroupRecord
<1> QED
  BY <1>1, <1>10, <1>11 DEF g, nb

StartsRun(dst, a) == a > 1 => dst[a - 1] # dst[a]

\* What it is to be in Joined.
LEMMA JoinedMeans ==
  ASSUME NEW dst, Len(dst) \in Nat, NEW y \in Nat, 1 <= y, y < Len(dst)
  PROVE  y \in Joined(dst) <=> dst[y] = dst[y + 1]
BY DEF Joined

\* pnum holds the length of a run at its first packet.
LEMMA RunCounted ==
  ASSUME NEW dst \in Seq(Nat), Len(dst) \in 1 .. MaxBurst,
         NEW a \in 1 .. Len(dst), NEW b \in 1 .. Len(dst), IsRun(dst, a, b)
  PROVE  PNum(dst)[a] = b - a + 1
<1> DEFINE J == Joined(dst)
           n == Len(dst)
           pn == PNum(dst)
<1>1. PICK lp \in Nat \ {0} : Counted(pn, lp, J, n)
  BY PNumCounts
<1>2. a <= b /\ a \in Nat /\ b \in Nat /\ n \in Nat /\ 1 <= a /\ b <= n
  BY DEF IsRun
<1>3. Begins(J, a)
  <2>1. CASE a = 1
    BY <2>1 DEF Begins
  <2>2. CASE a # 1
    <3>1. a - 1 \in Nat /\ 1 <= a - 1 /\ a - 1 < n /\ a - 1 + 1 = a /\ dst[a - 1] # dst[a]
      BY <1>2, <2>2 DEF IsRun
    <3> QED
      BY <3>1, JoinedMeans DEF Begins
  <2> QED
    BY <2>1, <2>2
<1>4. Ends(J, a, b)
  <2>1. b \notin J
    <3>1. CASE b = n
      BY <3>1 DEF Joined
    <3>2. CASE b # n
      BY <1>2, <3>2, JoinedMeans DEF IsRun
    <3> QED
      BY <3>1, <3>2
  <2>2. ASSUME NEW y \in Nat, a <= y, y < b PROVE y \in J
    <3>1. y \in a .. b /\ y + 1 \in a .. b /\ 1 <= y /\ y < n
      BY <1>2, <2>2
    <3>2. dst[y] = dst[y + 1]
      BY <3>1 DEF IsRun
    <3> QED
      BY <1>2, <3>1, <3>2, JoinedMeans
  <2> QED
    BY <1>2, <2>1, <2>2 DEF Ends
<1> HIDE DEF J, n, pn
<1>5. /\ lp <= n /\ Begins(J, lp) /\ \A y \in Nat : lp <= y /\ y < n => y \in J
      /\ pn[lp] = n - lp + 1
  BY <1>1 DEF Counted
<1>6. CASE b < lp
  <2>1. pn[a] = b - a + 1
    BY <1>1, <1>2, <1>3, <1>4, <1>6 DEF Counted
  <2> QED
    BY <2>1 DEF pn
<1>7. CASE lp <= b
  <2>0. lp \in Nat /\ 1 <= lp
    OBVIOUS
  <2>1. n <= b /\ (a = lp \/ n < a)
    BY <1>2, <1>3, <1>4, <1>5, <1>7, <2>0, LastRun
  <2>2. a = lp /\ b = n
    BY <1>2, <2>1
  <2> QED
    BY <1>5, <2>2 DEF pn
<1> QED
  BY <1>2, <1>6, <1>7

\* From each packet that starts a run there is one.
LEMMA RunFrom ==
  ASSUME NEW dst \in Seq(Nat), NEW a \in 1 .. Len(dst), StartsRun(dst, a)
  PROVE  \E b \in a .. Len(dst) : IsRun(dst, a, b) /\ (b < Len(dst) => StartsRun(dst, b + 1))
<1> DEFINE T == {x \in a .. Len(dst) : x < Len(dst) => dst[x + 1] # dst[x]}
<1>1. Len(dst) \in T /\ T \subseteq Nat
  OBVIOUS
<1>2. PICK b \in T : \A x \in T : b <= x
  <2> HIDE DEF T
  <2> QED
    BY <1>1, LeastNumber
<1>3. \A x \in a .. b - 1 : dst[x + 1] = dst[x]
  BY <1>2
<1> DEFINE U == {x \in a .. b : dst[x] = dst[a]}
<1>4. a .. b \subseteq U
  <2>1. a \in U
    BY <1>2
  <2>2. \A x \in a .. b - 1 : x \in U => x + 1 \in U
    BY <1>2, <1>3
  <2>3. a \in Int /\ b \in Int
    BY <1>2
  <2> HIDE DEF U
  <2> QED
    BY <2>1, <2>2, <2>3, RangeInduction
<1>5. IsRun(dst, a, b)
  BY <1>2, <1>4 DEF IsRun, StartsRun
<1>6. b < Len(dst) => StartsRun(dst, b + 1)
  BY <1>2 DEF StartsRun
<1> QED
  BY <1>2, <1>5, <1>6

\* No two runs share a packet.
LEMMA RunsApart ==
  ASSUME NEW dst \in Seq(Nat), NEW a \in 1 .. Len(dst), NEW b \in 1 .. Len(dst), IsRun(dst, a, b),
         NEW c \in 1 .. Len(dst), NEW d \in 1 .. Len(dst), IsRun(dst, c, d), a <= c, c <= b
  PROVE  c = a /\ d = b
<1>1. c = a
  <2> SUFFICES ASSUME c # a PROVE FALSE
    OBVIOUS
  <2>1. c - 1 \in a .. b /\ c \in a .. b /\ c > 1
    OBVIOUS
  <2> QED
    BY <2>1 DEF IsRun
<1>2. ~(d < b)
  <2> SUFFICES ASSUME d < b PROVE FALSE
    OBVIOUS
  <2>1. d \in a .. b /\ d + 1 \in a .. b /\ d < Len(dst)
    BY <1>1 DEF IsRun
  <2> QED
    BY <2>1 DEF IsRun
<1>3. ~(b < d)
  <2> SUFFICES ASSUME b < d PROVE FALSE
    OBVIOUS
  <2>1. b \in c .. d /\ b + 1 \in c .. d /\ b < Len(dst)
    BY <1>1 DEF IsRun
  <2> QED
    BY <2>1 DEF IsRun
<1> QED
  BY <1>1, <1>2, <1>3

\* What pnum says from packet x on, given what it says from later packets on.
GroupsFrom(f, dst, x) ==
  LET pn == PNum(dst)
  IN  IF x > Len(dst) THEN {}
      ELSE IF pn[x] \in 1 .. Len(dst) + 1 - x THEN {<<x, x + pn[x] - 1>>} \cup f[x + pn[x]]
      ELSE {<<x, pn[x]>>}
IsGroups(f, dst) == f = [x \in 1 .. Len(dst) + 1 |-> GroupsFrom(f, dst, x)]

\* Only what is said of later packets matters.
LEMMA GroupsFromLater ==
  ASSUME NEW dst, Len(dst) \in Nat, NEW x \in 1 .. Len(dst) + 1, NEW f, NEW g,
         \A y \in x + 1 .. Len(dst) + 1 : f[y] = g[y]
  PROVE  GroupsFrom(f, dst, x) = GroupsFrom(g, dst, x)
<1> DEFINE p == PNum(dst)[x]
<1>1. p \in 1 .. Len(dst) + 1 - x => x + p \in x + 1 .. Len(dst) + 1
  OBVIOUS
<1> HIDE DEF p
<1>2. p \in 1 .. Len(dst) + 1 - x => f[x + p] = g[x + p]
  BY <1>1
<1> QED
  BY <1>2 DEF GroupsFrom, p

\* The recursion over the groups has a function.
LEMMA GroupsExist ==
  ASSUME NEW dst, Len(dst) \in Nat
  PROVE  \E f : IsGroups(f, dst)
<1> DEFINE L == Len(dst) + 1
           Def(f, d) == \A x \in 1 .. L : x >= L - d => f[x] = GroupsFrom(f, dst, x)
           T == {d \in Nat : \E f : Def(f, d)}
<1>1. 0 \in T
  <2> DEFINE f == [x \in 1 .. L |-> {}]
  <2>1. \A x \in 1 .. L : x >= L - 0 => x > Len(dst)
    OBVIOUS
  <2>2. Def(f, 0)
    BY <2>1 DEF GroupsFrom
  <2> HIDE DEF Def, f
  <2> QED
    BY <2>2
<1>2. ASSUME NEW d \in Nat, d \in T PROVE d + 1 \in T
  <2>1. PICK f : Def(f, d)
    BY <1>2
  <2> DEFINE g == [x \in 1 .. L |-> IF x >= L - d THEN f[x] ELSE GroupsFrom(f, dst, x)]
  <2>2. \A y \in 1 .. L : y >= L - d => g[y] = f[y]
    OBVIOUS
  <2>3. ASSUME NEW x \in 1 .. L, x >= L - (d + 1) PROVE g[x] = GroupsFrom(g, dst, x)
    <3>1. \A y \in x + 1 .. L : g[y] = f[y]
      BY <2>2, <2>3
    <3>2. GroupsFrom(g, dst, x) = GroupsFrom(f, dst, x)
      BY <3>1, GroupsFromLater
    <3>3. g[x] = GroupsFrom(f, dst, x)
      BY <2>1
    <3> QED
      BY <3>2, <3>3
  <2>4. Def(g, d + 1)
    BY <2>3
  <2> HIDE DEF Def, g
  <2> QED
    BY <2>4
<1>3. PICK f : Def(f, L)
  <2> HIDE DEF T
  <2>1. L \in T
    BY <1>1, <1>2, SetInduction
  <2> QED
    BY <2>1 DEF T
<1> DEFINE g == [x \in 1 .. L |-> f[x]]
<1>4. ASSUME NEW x \in 1 .. L PROVE g[x] = GroupsFrom(g, dst, x)
  <2>1. GroupsFrom(g, dst, x) = GroupsFrom(f, dst, x)
    <3>1. \A y \in x + 1 .. Len(dst) + 1 : g[y] = f[y]
      OBVIOUS
    <3> HIDE DEF g
    <3> QED
      BY <3>1, GroupsFromLater
  <2> QED
    BY <1>3, <2>1
<1>5. IsGroups(g, dst)
  BY <1>4 DEF IsGroups
<1> HIDE DEF g
<1> QED
  BY <1>5

\* From each packet that starts a run, the groups are the runs of the rest.
LEMMA GroupsAreRuns ==
  ASSUME NEW dst \in Seq(Nat), Len(dst) \in 1 .. MaxBurst, NEW f, IsGroups(f, dst),
         NEW x \in 1 .. Len(dst), StartsRun(dst, x)
  PROVE  f[x] = {r \in Runs(dst) : r[1] >= x}
<1> DEFINE n == Len(dst)
           Rest(y) == {r \in Runs(dst) : r[1] >= y}
           Good(y) == (y <= n => StartsRun(dst, y)) => f[y] = Rest(y)
           T == {d \in Nat : \A y \in 1 .. n + 1 : y >= n + 1 - d => Good(y)}
<1>1. \A y \in 1 .. n + 1 : f[y] = GroupsFrom(f, dst, y)
  BY DEF IsGroups
<1>2. 0 \in T
  <2>1. f[n + 1] = {}
    <3>1. n + 1 \in 1 .. n + 1 /\ n + 1 > Len(dst)
      OBVIOUS
    <3>2. f[n + 1] = GroupsFrom(f, dst, n + 1)
      BY <1>1, <3>1
    <3> QED
      BY <3>1, <3>2 DEF GroupsFrom
  <2>2. Rest(n + 1) = {}
    BY DEF Runs
  <2>3. \A y \in 1 .. n + 1 : y >= n + 1 - 0 => y = n + 1
    OBVIOUS
  <2> QED
    BY <2>1, <2>2, <2>3
<1>3. ASSUME NEW d \in Nat, d \in T PROVE d + 1 \in T
  <2> SUFFICES ASSUME NEW y \in 1 .. n + 1, y >= n + 1 - (d + 1), y < n + 1 - d, StartsRun(dst, y)
               PROVE  f[y] = Rest(y)
    BY <1>3
  <2>1. y \in 1 .. n
    OBVIOUS
  <2>2. PICK b \in y .. n : IsRun(dst, y, b) /\ (b < n => StartsRun(dst, b + 1))
    BY <2>1, RunFrom
  <2>3. PNum(dst)[y] = b - y + 1
    BY <2>1, <2>2, RunCounted
  <2>4. f[y] = {<<y, b>>} \cup f[b + 1]
    <3>1. PNum(dst)[y] \in 1 .. n + 1 - y /\ y + PNum(dst)[y] = b + 1 /\ y + PNum(dst)[y] - 1 = b
      BY <2>1, <2>2, <2>3
    <3>2. f[y] = GroupsFrom(f, dst, y) /\ ~(y > n)
      BY <1>1, <2>1
    <3> QED
      BY <3>1, <3>2 DEF GroupsFrom
  <2>5. f[b + 1] = Rest(b + 1)
    <3>1. b + 1 \in 1 .. n + 1 /\ b + 1 >= n + 1 - d /\ (b + 1 <= n => b < n)
      BY <2>1, <2>2
    <3> QED
      BY <1>3, <2>2, <3>1
  <2>6. Rest(y) = {<<y, b>>} \cup Rest(b + 1)
    <3>1. <<y, b>> \in Rest(y)
      BY <2>1, <2>2 DEF Runs
    <3>2. Rest(b + 1) \subseteq Rest(y)
      BY <2>1, <2>2 DEF Runs
    <3>3. ASSUME NEW r \in Rest(y), r \notin Rest(b + 1) PROVE r = <<y, b>>
      <4>1. PICK c \in 1 .. n, e \in 1 .. n : r = <<c, e>> /\ IsRun(dst, c, e) /\ c >= y
        <5>1. /\ r = <<r[1], r[2]>> /\ r[1] \in 1 .. n /\ r[2] \in 1 .. n
              /\ IsRun(dst, r[1], r[2]) /\ r[1] >= y
          BY DEF Runs
        <5> QED
          BY <5>1, Zenon
      <4>2. c <= b
        BY <3>3, <4>1, <2>2 DEF Runs
      <4>3. c = y /\ e = b
        BY <2>1, <2>2, <4>1, <4>2, RunsApart
      <4> QED
        BY <4>1, <4>3
    <3> HIDE DEF Rest
    <3> QED
      BY <3>1, <3>2, <3>3
  <2> QED
    BY <2>4, <2>5, <2>6
<1>4. n + 1 \in T
  <2> HIDE DEF T
  <2>1. Nat \subseteq T
    BY <1>2, <1>3, SetInduction
  <2>2. n + 1 \in Nat
    OBVIOUS
  <2> QED
    BY <2>1, <2>2
<1>5. Good(x)
  <2> HIDE DEF Good
  <2> QED
    BY <1>4
<1> QED
  BY <1>5

\* For every burst the groups that port_groupx4 and GROUP_PORT_STEP give are the
\* runs of packets for one port, each as long as can be.
THEOREM GroupsOfBurst ==
  ASSUME NEW dst \in Seq(Nat), Len(dst) \in 1 .. MaxBurst
  PROVE  Groups(dst) = Runs(dst)
<1> DEFINE from == CHOOSE f : IsGroups(f, dst)
<1>1. Groups(dst) = from[1]
  BY DEF Groups, IsGroups, GroupsFrom
<1>2. IsGroups(from, dst)
  <2>1. \E f : IsGroups(f, dst)
    BY GroupsExist
  <2> QED
    BY <2>1, Zenon
<1> HIDE DEF from
<1>3. from[1] = {r \in Runs(dst) : r[1] >= 1}
  BY <1>2, GroupsAreRuns DEF StartsRun
<1>4. \A r \in Runs(dst) : r[1] >= 1
  BY DEF Runs
<1> QED
  BY <1>1, <1>3, <1>4

\* The same as the run checks it: for the bursts in DstPorts, in each state.
THEOREM GroupingHolds == Spec => []GroupingIsRight
<1>1. GroupingIsRight
  <2>1. \A dst \in DstPorts : dst \in Seq(Nat) /\ Len(dst) \in 1 .. MaxBurst
    BY BurstsAssumption
  <2> QED
    BY <2>1, GroupsOfBurst DEF GroupingIsRight
<1> QED
  BY <1>1, PTL

-----------------------------------------------------------------------------
(* Types. *)

\* The types of the variables, by what they belong to; all ports have an lcore
\* when dealing is over, and an rx queue holds what came in by its port.
SetUpOK ==
  /\ machine \in Machines
  /\ phase \in {"deal", "queues", "run", "failed", "dead"}
  /\ lcoreid \in Slaves /\ prev_lcoreid \in Slaves /\ numa_ok \in BOOLEAN
  /\ lcore_params \in Seq(Slaves) /\ Len(lcore_params) <= NbPorts
  /\ rx_queue_list \in [Slaves -> Seq(Ports)] /\ next \in 0 .. NbPorts
  /\ \A l \in Slaves : Len(rx_queue_list[l]) <= MaxRxQueue
  /\ phase # "deal" => Len(lcore_params) = NbPorts
LpmOK == lpm \in [Sockets -> 0 .. Len(Rules)]
CardOK ==
  /\ arrived \in [Ports -> Nat]
  /\ rxq \in [Ports -> Seq(Packet)] /\ wire \in [Ports -> Seq(Packet)]
  /\ txq \in [EthPorts -> [Slaves -> Seq(Packet)]]
  /\ \A p \in Ports : \A l \in Slaves : Len(txq[p][l]) <= TxRing
  /\ \A p \in Ports : CameIn(rxq[p], p)
LoopOK ==
  /\ pc \in [Slaves -> {"top", "drain", "draining", "poll", "lookup", "groups", "sending"}]
  /\ elapsed \in [Slaves -> 0 .. DrainTsc] /\ i \in [Slaves -> Nat \ {0}]
FoundOK ==
  /\ burst \in [Slaves -> Seq(Packet)] /\ dst_port \in [Slaves -> Seq(EthPorts)]
  /\ pnum \in [Slaves -> {PNum(d) : d \in Seq(EthPorts)} \cup {<<>>}]
  /\ j \in [Slaves -> 1 .. MaxBurst + 1]
TxOK ==
  /\ tx_mbufs \in [Slaves -> [EthPorts -> Seq(Packet)]]
  /\ \A l \in Slaves : \A p \in EthPorts : Len(tx_mbufs[l][p]) < MaxBurst
  /\ tosend \in [Slaves -> Seq(Packet)] /\ to_port \in [Slaves -> EthPorts]
  /\ rest \in [Slaves -> 0 .. MaxBurst]

\* The state of an lcore: where its loop is (c, at the queue ii of its list), the
\* burst and what was found out about it, its tables and what it sends.
Working == {"lookup", "groups", "sending"}
Grouping == {"groups", "sending"}
Sending == {"draining", "sending"}
Good(c, ii, list, b, d, pn, jj, tables, ts, tp, r) ==
  /\ c \notin Working => b = <<>> /\ d = <<>> /\ jj = 1
  /\ c \in Working => ii \in 1 .. Len(list) /\ Len(b) \in 1 .. MaxBurst
                      /\ CameIn(b, list[ii])
  /\ c = "lookup" => Len(d) <= Len(b) /\ jj = 1
  /\ c \in Grouping => /\ Len(d) = Len(b) /\ pn = PNum(d) /\ jj + r <= Len(d) + 1
                       /\ jj + r <= Len(d) => StartsRun(d, jj + r)
  /\ c \notin Sending => ts = <<>>
  /\ c \in Sending => tables[tp] = <<>>
  /\ c # "sending" => r = 0
  /\ r < MaxBurst /\ \A y \in jj .. jj + r - 1 : d[y] = tp
GoodLcore(l) ==
  Good(pc[l], i[l], rx_queue_list[l], burst[l], dst_port[l], pnum[l], j[l], tx_mbufs[l],
       tosend[l], to_port[l], rest[l])

OqInv == SetUpOK /\ LpmOK /\ CardOK /\ LoopOK /\ FoundOK /\ TxOK /\ \A l \in Slaves : GoodLcore(l)

\* The sizes are numbers.
LEMMA Numbers ==
  /\ NbSlaves \in Nat \ {0} /\ NbPorts \in Nat \ {0} /\ MaxRxQueue \in Nat \ {0}
  /\ MaxBurst \in Nat \ {0} /\ TxRing \in Nat \ {0} /\ DrainTsc \in Nat /\ MaxTick \in Nat \ {0}
  /\ MaxEthPorts \in Nat /\ NbPorts <= MaxEthPorts
BY SizesAssumption

\* A port of the switch has a port number.
LEMMA PortsAreNumbered == Ports \subseteq EthPorts /\ 0 \in EthPorts /\ EthPorts \subseteq Nat
BY Numbers DEF Ports, EthPorts

\* A sequence over a smaller set.
LEMMA SeqOfMore ==
  ASSUME NEW S, NEW T, S \subseteq T, NEW s \in Seq(S)
  PROVE  s \in Seq(T)
<1>1. s \in [1 .. Len(s) -> S] /\ Len(s) \in Nat
  BY LenProperties
<1>2. s \in [1 .. Len(s) -> T]
  BY <1>1
<1> QED
  BY <1>1, <1>2, SeqDef

\* OqInv holds at first, and it has the types.
LEMMA OqInvInit == Init => OqInv
<1> SUFFICES ASSUME Init PROVE OqInv
  OBVIOUS
<1> USE Numbers
<1>1. SetUpOK
  BY DEF Init, SetUpOK, Slaves
<1>2. LpmOK
  <2>1. Len(Rules) \in Nat
    BY RulesAssumption
  <2> QED
    BY <2>1 DEF Init, LpmOK
<1>3. CardOK
  BY PortsAreNumbered DEF Init, CardOK, CameIn
<1>4. LoopOK
  BY DEF Init, LoopOK
<1>5. FoundOK
  BY DEF Init, FoundOK
<1>6. TxOK
  BY PortsAreNumbered DEF Init, TxOK
<1>7. ASSUME NEW l \in Slaves PROVE GoodLcore(l)
  BY DEF Init, GoodLcore, Good, Working, Grouping, Sending
<1> QED
  BY <1>1, <1>2, <1>3, <1>4, <1>5, <1>6, <1>7 DEF OqInv

\* The invariant gives the types.
LEMMA OqInvTypes == OqInv => TypeOK
<1> SUFFICES ASSUME OqInv PROVE TypeOK
  OBVIOUS
<1> QED
  BY DEF OqInv, SetUpOK, LpmOK, CardOK, LoopOK, FoundOK, TxOK, TypeOK

\* A part of the invariant whose variables are left alone holds on.
LEMMA SetUpSame == ASSUME SetUpOK, UNCHANGED setup PROVE SetUpOK'
BY DEF SetUpOK, setup
LEMMA LpmSame == ASSUME LpmOK, UNCHANGED <<setup, lpm>> PROVE LpmOK'
BY DEF LpmOK, setup, Sockets
LEMMA CardSame == ASSUME CardOK, UNCHANGED queues PROVE CardOK'
BY DEF CardOK, queues
LEMMA LoopSame == ASSUME LoopOK, UNCHANGED loop PROVE LoopOK'
BY DEF LoopOK, loop
LEMMA FoundSame == ASSUME FoundOK, UNCHANGED found PROVE FoundOK'
BY DEF FoundOK, found
LEMMA TxSame == ASSUME TxOK, UNCHANGED tx PROVE TxOK'
BY DEF TxOK, tx
LEMMA GoodSame ==
  ASSUME NEW l, GoodLcore(l), rx_queue_list'[l] = rx_queue_list[l], pc'[l] = pc[l], i'[l] = i[l], burst'[l] = burst[l],
    dst_port'[l] = dst_port[l], pnum'[l] = pnum[l], j'[l] = j[l], tx_mbufs'[l] = tx_mbufs[l],
    tosend'[l] = tosend[l], to_port'[l] = to_port[l], rest'[l] = rest[l]
  PROVE GoodLcore(l)'
BY DEF GoodLcore

\* All but the set-up is left alone.
LEMMA RestSame ==
  ASSUME OqInv, SetUpOK', UNCHANGED <<machine, lpm, queues, lcore_conf>>,
         \A l \in Slaves : rx_queue_list'[l] = rx_queue_list[l]
  PROVE  OqInv'
<1>1. LpmOK'
  BY DEF OqInv, LpmOK, Sockets
<1>2. CardOK' /\ LoopOK' /\ FoundOK' /\ TxOK'
  BY CardSame, LoopSame, FoundSame, TxSame DEF OqInv, lcore_conf
<1>3. ASSUME NEW l \in Slaves PROVE GoodLcore(l)'
  BY GoodSame DEF OqInv, lcore_conf, loop, found, tx
<1> QED
  BY <1>1, <1>2, <1>3 DEF OqInv

\* The set-up and the end of the process, which move no packet.
LEMMA DealingKeepsInv ==
  ASSUME OqInv, SearchLcore \/ DealPort \/ AllDealt \/ Launch \/ Failed \/ Dead \/ \E l \in Slaves : NoSuchPort(l)
  PROVE  OqInv'
<1> USE Numbers
<1>1. UNCHANGED <<machine, lpm, queues, lcore_conf, rx_queue_list, next>>
  BY DEF SearchLcore, DealPort, AllDealt, Launch, Failed, Dead, NoSuchPort, vars, setup
<1>2. SetUpOK
  BY DEF OqInv
<1>3. SetUpOK'
  <2>1. CASE SearchLcore
    BY <1>1, <1>2, <2>1 DEF SearchLcore, SetUpOK, NextLcore, Slaves
  <2>2. CASE DealPort
    BY <1>1, <1>2, <2>2 DEF DealPort, SetUpOK, NextLcore, Slaves, portid
  <2>3. CASE AllDealt
    BY <1>1, <1>2, <2>3 DEF AllDealt, SetUpOK, portid
  <2>4. CASE Launch
    BY <1>1, <1>2, <2>4 DEF Launch, SetUpOK
  <2>5. CASE Failed \/ Dead
    BY <1>1, <1>2, <2>5, SetUpSame DEF Failed, Dead, vars
  <2>6. CASE \E l \in Slaves : NoSuchPort(l)
    BY <1>1, <1>2, <2>6 DEF NoSuchPort, SetUpOK
  <2> QED
    BY <2>1, <2>2, <2>3, <2>4, <2>5, <2>6
<1> QED
  BY <1>1, <1>3, RestSame

\* A list that grows at its end does not trouble an lcore.
LEMMA GoodLonger ==
  ASSUME NEW c, NEW ii, NEW S, NEW list \in Seq(S), NEW p \in S, NEW b, NEW d, NEW pn, NEW jj,
         NEW tables, NEW ts, NEW tp, NEW r, Good(c, ii, list, b, d, pn, jj, tables, ts, tp, r)
  PROVE  Good(c, ii, Append(list, p), b, d, pn, jj, tables, ts, tp, r)
<1>1. ii \in 1 .. Len(list) => ii \in 1 .. Len(Append(list, p)) /\ Append(list, p)[ii] = list[ii]
  OBVIOUS
<1> QED
  BY <1>1 DEF Good

\* A port is put at the end of a list.
LEMMA ConfigureKeepsInv ==
  ASSUME OqInv, ConfigureRxQueue
  PROVE  OqInv'
<1> USE Numbers
<1> DEFINE l == lcore_params[next + 1]
<1>1. /\ phase = "queues" /\ next < NbPorts
      /\ UNCHANGED <<machine, lcoreid, prev_lcoreid, numa_ok, lcore_params, lpm, queues, lcore_conf>>
  BY DEF ConfigureRxQueue
<1>2. l \in Slaves
  <2>1. next + 1 \in 1 .. Len(lcore_params)
    BY <1>1 DEF OqInv, SetUpOK
  <2> QED
    BY <2>1 DEF OqInv, SetUpOK
<1>3. CASE NoRoom(l)
  <2>1. phase' = "failed" /\ UNCHANGED <<rx_queue_list, next>>
    BY <1>3 DEF ConfigureRxQueue
  <2>2. SetUpOK'
    BY <1>1, <2>1 DEF OqInv, SetUpOK
  <2> QED
    BY <1>1, <2>1, <2>2, RestSame
<1>4. CASE ~NoRoom(l)
  <2>1. /\ rx_queue_list' = [rx_queue_list EXCEPT ![l] = Append(@, next)]
        /\ next' = next + 1 /\ UNCHANGED phase
    BY <1>4 DEF ConfigureRxQueue
  <2>2. next \in Ports /\ rx_queue_list[l] \in Seq(Ports) /\ Len(rx_queue_list[l]) < MaxRxQueue
    BY <1>1, <1>2, <1>4 DEF OqInv, SetUpOK, Ports, NoRoom
  <2> HIDE DEF l
  <2>3. rx_queue_list' \in [Slaves -> Seq(Ports)] /\ \A k \in Slaves : Len(rx_queue_list'[k]) <= MaxRxQueue
    <3>1. Append(rx_queue_list[l], next) \in Seq(Ports) /\ Len(Append(rx_queue_list[l], next)) <= MaxRxQueue
      BY <2>2
    <3> QED
      BY <1>2, <2>1, <3>1 DEF OqInv, SetUpOK
  <2>4. SetUpOK'
    BY <1>1, <2>1, <2>3 DEF OqInv, SetUpOK
  <2>5. LpmOK' /\ CardOK' /\ LoopOK' /\ FoundOK' /\ TxOK'
    BY <1>1, CardSame, LoopSame, FoundSame, TxSame DEF OqInv, LpmOK, Sockets, lcore_conf
  <2>6. ASSUME NEW k \in Slaves PROVE GoodLcore(k)'
    <3>1. GoodLcore(k)
      BY DEF OqInv
    <3>2. UNCHANGED <<pc, i, burst, dst_port, pnum, j, tx_mbufs, tosend, to_port, rest>>
      BY <1>1 DEF lcore_conf, loop, found, tx
    <3>3. CASE k = l
      <4>1. rx_queue_list'[k] = Append(rx_queue_list[k], next)
        BY <1>2, <2>1, <3>3 DEF OqInv, SetUpOK
      <4> QED
        BY <2>2, <3>1, <3>2, <3>3, <4>1, GoodLonger DEF GoodLcore
    <3>4. CASE k # l
      <4>1. rx_queue_list'[k] = rx_queue_list[k]
        BY <1>2, <2>1, <3>4 DEF OqInv, SetUpOK
      <4> QED
        BY <3>1, <3>2, <4>1, GoodSame
    <3> QED
      BY <3>3, <3>4
  <2> QED
    BY <2>4, <2>5, <2>6 DEF OqInv
<1> QED
  BY <1>3, <1>4

\* A rule is added.
LEMMA RuleKeepsInv ==
  ASSUME OqInv, NEW s \in Sockets, AddRule(s)
  PROVE  OqInv'
<1> USE Numbers
<1>1. /\ lpm[s] < Len(Rules) /\ lpm' = [lpm EXCEPT ![s] = @ + 1]
      /\ UNCHANGED <<setup, queues, lcore_conf>>
  BY DEF AddRule
<1>2. LpmOK'
  <2>1. Len(Rules) \in Nat
    BY RulesAssumption
  <2> QED
    BY <1>1, <2>1 DEF OqInv, LpmOK, Sockets, setup
<1>3. SetUpOK' /\ CardOK' /\ LoopOK' /\ FoundOK' /\ TxOK'
  BY <1>1, SetUpSame, CardSame, LoopSame, FoundSame, TxSame DEF OqInv, lcore_conf
<1>4. ASSUME NEW l \in Slaves PROVE GoodLcore(l)'
  BY <1>1, GoodSame DEF OqInv, lcore_conf, loop, found, tx, setup
<1> QED
  BY <1>2, <1>3, <1>4 DEF OqInv

\* Only the card's queues change.
LEMMA CardKeepsInv ==
  ASSUME OqInv, CardOK', UNCHANGED <<setup, lpm, lcore_conf>>
  PROVE  OqInv'
<1>1. SetUpOK' /\ LpmOK' /\ LoopOK' /\ FoundOK' /\ TxOK'
  BY SetUpSame, LpmSame, LoopSame, FoundSame, TxSame DEF OqInv, lcore_conf
<1>2. ASSUME NEW l \in Slaves PROVE GoodLcore(l)'
  BY GoodSame DEF OqInv, lcore_conf, loop, found, tx, setup
<1> QED
  BY <1>1, <1>2 DEF OqInv

\* What arrives at a port.
Train(p, n, ips, late, k) == [x \in 1 .. k |-> [in |-> p, n |-> n + x, ip |-> ips[x], late |-> late]]

\* The packets that come in at a time.
LEMMA TrainTyped ==
  ASSUME NEW p \in Ports, NEW n \in Nat, NEW k \in Nat, NEW ips \in [1 .. k -> Address], NEW late \in BOOLEAN
  PROVE  /\ Train(p, n, ips, late, k) \in Seq(Packet) /\ Len(Train(p, n, ips, late, k)) = k
         /\ CameIn(Train(p, n, ips, late, k), p)
<1>1. \A x \in 1 .. k : [in |-> p, n |-> n + x, ip |-> ips[x], late |-> late] \in Packet
  BY DEF Packet
<1> QED
  BY <1>1 DEF Train, CameIn

\* The steps of the card.
LEMMA ArriveKeepsInv ==
  ASSUME OqInv, NEW p \in Ports, Arrive(p)
  PROVE  OqInv'
<1> USE Numbers
<1>1. UNCHANGED <<setup, lpm, txq, wire, lcore_conf>>
  BY DEF Arrive
<1>a. PICK k \in Trains : \E ips \in [1 .. k -> Address] :
        /\ arrived' = [arrived EXCEPT ![p] = @ + k]
        /\ rxq' = [rxq EXCEPT ![p] = @ \o Train(p, arrived[p], ips, AllInstalled, k)]
  BY DEF Arrive, Train
<1>2. PICK ips \in [1 .. k -> Address] :
        /\ arrived' = [arrived EXCEPT ![p] = @ + k]
        /\ rxq' = [rxq EXCEPT ![p] = @ \o Train(p, arrived[p], ips, AllInstalled, k)]
  BY <1>a
<1>3. k \in Nat /\ arrived[p] \in Nat /\ rxq[p] \in Seq(Packet) /\ CameIn(rxq[p], p)
  BY SizesAssumption DEF OqInv, CardOK
<1>4. /\ Train(p, arrived[p], ips, AllInstalled, k) \in Seq(Packet)
      /\ CameIn(Train(p, arrived[p], ips, AllInstalled, k), p)
  <2>1. AllInstalled \in BOOLEAN
    BY Zenon DEF AllInstalled
  <2> QED
    BY <1>3, <2>1, TrainTyped
<1> DEFINE t == Train(p, arrived[p], ips, AllInstalled, k)
<1>5. rxq[p] \o t \in Seq(Packet) /\ CameIn(rxq[p] \o t, p)
  <2> HIDE DEF t
  <2>1. t \in Seq(Packet) /\ CameIn(t, p)
    BY <1>4 DEF t
  <2> DEFINE s == rxq[p]
  <2>2. s \in Seq(Packet) /\ CameIn(s, p)
    BY <1>3
  <2> HIDE DEF s
  <2>3. s \o t \in Seq(Packet) /\ CameIn(s \o t, p)
    BY <2>1, <2>2 DEF CameIn
  <2> QED
    BY <2>3 DEF s
<1> HIDE DEF t
<1>6. CardOK'
  BY <1>1, <1>2, <1>3, <1>5 DEF OqInv, CardOK, t
<1> QED
  BY <1>1, <1>6, CardKeepsInv

\* A packet leaves by a port.
LEMMA TransmitKeepsInv ==
  ASSUME OqInv, NEW p \in Ports, NEW l \in Slaves, Transmit(p, l)
  PROVE  OqInv'
<1> USE Numbers
<1>1. /\ txq[p][l] # <<>> /\ wire' = [wire EXCEPT ![p] = Append(@, Head(txq[p][l]))]
      /\ txq' = [txq EXCEPT ![p][l] = Tail(@)]
      /\ UNCHANGED <<setup, lpm, arrived, rxq, lcore_conf>>
  BY DEF Transmit
<1> DEFINE s == txq[p][l]
           w == wire[p]
<1>2. s \in Seq(Packet) /\ Len(s) <= TxRing /\ w \in Seq(Packet) /\ p \in EthPorts
  BY PortsAreNumbered DEF OqInv, CardOK
<1>3. Tail(s) \in Seq(Packet) /\ Len(Tail(s)) <= TxRing /\ Append(w, Head(s)) \in Seq(Packet)
  <2> HIDE DEF s, w
  <2>1. s # <<>>
    BY <1>1 DEF s
  <2> QED
    BY <1>2, <2>1
<1>4. CardOK'
  BY <1>1, <1>2, <1>3 DEF OqInv, CardOK
<1> QED
  BY <1>1, <1>4, CardKeepsInv

\* Lcore l takes a step, the others do not.
OthersSame(l) ==
  \A k \in Slaves \ {l} :
    /\ pc'[k] = pc[k] /\ i'[k] = i[k] /\ burst'[k] = burst[k] /\ dst_port'[k] = dst_port[k]
    /\ pnum'[k] = pnum[k] /\ j'[k] = j[k] /\ tx_mbufs'[k] = tx_mbufs[k]
    /\ tosend'[k] = tosend[k] /\ to_port'[k] = to_port[k] /\ rest'[k] = rest[k]

\* A step of lcore l leaves the others as they were.
LEMMA StepKeepsInv ==
  ASSUME OqInv, NEW l \in Slaves, UNCHANGED <<setup, lpm>>, CardOK', LoopOK', FoundOK', TxOK',
         OthersSame(l), GoodLcore(l)'
  PROVE  OqInv'
<1>1. SetUpOK' /\ LpmOK'
  BY SetUpSame, LpmSame DEF OqInv
<1>2. ASSUME NEW k \in Slaves PROVE GoodLcore(k)'
  <2>1. CASE k = l
    BY <2>1
  <2>2. CASE k # l
    <3>1. GoodLcore(k) /\ rx_queue_list'[k] = rx_queue_list[k]
      BY DEF OqInv, setup
    <3> QED
      BY <2>2, <3>1, GoodSame DEF OthersSame
  <2> QED
    BY <2>1, <2>2
<1> QED
  BY <1>1, <1>2 DEF OqInv

\* A step outside of bursts and sending.
LEMMA GoodIdle ==
  ASSUME NEW c \in {"top", "drain", "poll"}, NEW c2 \in {"top", "drain", "poll"}, NEW ii, NEW i2, NEW list,
         NEW b, NEW d, NEW pn, NEW jj, NEW tables, NEW ts, NEW tp, NEW r,
         Good(c, ii, list, b, d, pn, jj, tables, ts, tp, r)
  PROVE  Good(c2, i2, list, b, d, pn, jj, tables, ts, tp, r)
BY DEF Good, Working, Grouping, Sending

\* Only where the loop is changes, between its rounds.
LEMMA IdleKeepsInv ==
  ASSUME OqInv, NEW l \in Slaves, UNCHANGED <<setup, lpm, queues, found, tx>>,
         NEW c, NEW c2, c \in {"top", "drain", "poll"}, c2 \in {"top", "drain", "poll"},
         pc[l] = c, pc' = [pc EXCEPT ![l] = c2],
         elapsed' \in [Slaves -> 0 .. DrainTsc],
         NEW i2 \in Nat \ {0}, i' = [i EXCEPT ![l] = i2]
  PROVE  OqInv'
<1>1. CardOK' /\ FoundOK' /\ TxOK'
  BY CardSame, FoundSame, TxSame DEF OqInv
<1>2. LoopOK'
  BY DEF OqInv, LoopOK
<1>3. OthersSame(l)
  BY DEF OthersSame, found, tx, OqInv, LoopOK
<1>4. GoodLcore(l)'
  <2>1. pc'[l] = c2 /\ i'[l] = i2
    BY DEF OqInv, LoopOK
  <2>2. Good(c, i[l], rx_queue_list[l], burst[l], dst_port[l], pnum[l], j[l], tx_mbufs[l],
             tosend[l], to_port[l], rest[l])
    BY DEF OqInv, GoodLcore
  <2>3. Good(c2, i2, rx_queue_list[l], burst[l], dst_port[l], pnum[l], j[l], tx_mbufs[l],
             tosend[l], to_port[l], rest[l])
    BY <2>2, GoodIdle
  <2> QED
    BY <2>1, <2>3 DEF GoodLcore, setup, found, tx
<1> QED
  BY <1>1, <1>2, <1>3, <1>4, StepKeepsInv

\* The steps of main_loop, in the order of the module.
LEMMA TopKeepsInv ==
  ASSUME OqInv, NEW l \in Slaves, Top(l)
  PROVE  OqInv'
<1> USE Numbers
<1>1. PICK d \in 1 .. MaxTick :
        IF elapsed[l] + d > DrainTsc
        THEN Goto(l, "drain") /\ elapsed' = [elapsed EXCEPT ![l] = 0]
        ELSE Goto(l, "poll") /\ elapsed' = [elapsed EXCEPT ![l] = @ + d]
  BY DEF Top
<1>2. pc[l] = "top" /\ i' = [i EXCEPT ![l] = 1] /\ UNCHANGED <<setup, lpm, queues, found, tx>>
  BY DEF Top, At
<1>3. elapsed \in [Slaves -> 0 .. DrainTsc] /\ elapsed[l] \in 0 .. DrainTsc
  BY DEF OqInv, LoopOK
<1>4. elapsed' \in [Slaves -> 0 .. DrainTsc]
  <2>1. CASE elapsed[l] + d > DrainTsc
    BY <1>1, <1>3, <2>1
  <2>2. CASE ~(elapsed[l] + d > DrainTsc)
    <3>1. elapsed[l] + d \in 0 .. DrainTsc
      BY <1>3, <2>2
    <3> QED
      BY <1>1, <1>3, <2>2, <3>1
  <2> QED
    BY <2>1, <2>2
<1>5. PICK c2 \in {"top", "drain", "poll"} : pc' = [pc EXCEPT ![l] = c2]
  BY <1>1 DEF Goto
<1>6. 1 \in Nat \ {0} /\ "top" \in {"top", "drain", "poll"}
  OBVIOUS
<1>7. OqInv
  OBVIOUS
<1> QED
  BY <1>2, <1>4, <1>5, <1>6, <1>7, IdleKeepsInv, Zenon

LEMMA DrainedKeepsInv ==
  ASSUME OqInv, NEW l \in Slaves, Drained(l) \/ AllPolled(l)
  PROVE  OqInv'
<1>1. pc[l] \in {"drain", "poll"} /\ UNCHANGED <<setup, lpm, queues, elapsed, i, found, tx>>
  BY DEF Drained, AllPolled, At
<1>2. \E c2 \in {"top", "drain", "poll"} : pc' = [pc EXCEPT ![l] = c2]
  BY DEF Drained, AllPolled, Goto
<1>3. i \in [Slaves -> Nat \ {0}] /\ elapsed' \in [Slaves -> 0 .. DrainTsc] /\ i' = [i EXCEPT ![l] = i[l]]
  BY <1>1 DEF OqInv, LoopOK
<1> QED
  BY <1>1, <1>2, <1>3, IdleKeepsInv

\* The first table that is not empty.
LEMMA FirstTable ==
  ASSUME NEW T, T \subseteq EthPorts, T # {}
  PROVE  (CHOOSE p \in T : \A q \in T : p <= q) \in T
<1>1. T \subseteq Nat
  BY PortsAreNumbered
<1>2. \E p \in T : \A q \in T : p <= q
  BY <1>1, LeastNumber
<1> QED
  BY <1>2

\* A table is sent whole.
LEMMA DrainKeepsInv ==
  ASSUME OqInv, NEW l \in Slaves, Drain(l)
  PROVE  OqInv'
<1> USE Numbers
<1>1. PICK p \in EthPorts :
        /\ Send(l, p, tx_mbufs[l][p]) /\ tx_mbufs' = [tx_mbufs EXCEPT ![l][p] = <<>>]
  <2>1. NotEmpty(l) \subseteq EthPorts /\ NotEmpty(l) # {}
    BY DEF Drain, NotEmpty
  <2>2. (CHOOSE p \in NotEmpty(l) : \A q \in NotEmpty(l) : p <= q) \in EthPorts
    BY <2>1, FirstTable
  <2> QED
    BY <2>2 DEF Drain
<1>2. /\ pc[l] = "drain" /\ pc' = [pc EXCEPT ![l] = "draining"]
      /\ UNCHANGED <<setup, lpm, queues, elapsed, i, found, rest>>
  BY DEF Drain, At, Goto
<1>3. /\ to_port' = [to_port EXCEPT ![l] = p] /\ tosend' = [tosend EXCEPT ![l] = tx_mbufs[l][p]]
  BY <1>1 DEF Send
<1>4. CardOK' /\ FoundOK'
  BY <1>2, CardSame, FoundSame DEF OqInv
<1>5. LoopOK'
  BY <1>2 DEF OqInv, LoopOK
<1>6. TxOK'
  BY <1>1, <1>2, <1>3 DEF OqInv, TxOK
<1>7. OthersSame(l)
  BY <1>1, <1>2, <1>3 DEF OthersSame, found, OqInv, LoopOK, TxOK
<1>8. GoodLcore(l)'
  <2>1. /\ pc'[l] = "draining" /\ tosend'[l] = tx_mbufs[l][p] /\ to_port'[l] = p /\ tx_mbufs'[l][p] = <<>>
        /\ UNCHANGED <<i, rx_queue_list, burst, dst_port, pnum, j, rest>>
    BY <1>1, <1>2, <1>3 DEF found, setup, OqInv, LoopOK, TxOK
  <2>2. Good("drain", i[l], rx_queue_list[l], burst[l], dst_port[l], pnum[l], j[l], tx_mbufs[l],
             tosend[l], to_port[l], rest[l])
    BY <1>2 DEF OqInv, GoodLcore
  <2>3. burst[l] = <<>> /\ dst_port[l] = <<>> /\ j[l] = 1 /\ rest[l] = 0
    BY <2>2 DEF Good, Working
  <2> QED
    BY <2>1, <2>3 DEF GoodLcore, Good, Working, Grouping, Sending
<1> QED
  BY <1>2, <1>4, <1>5, <1>6, <1>7, <1>8, StepKeepsInv

\* A sequence is divided at a place.
LEMMA TakenOff ==
  ASSUME NEW S, NEW s \in Seq(S), NEW n \in 0 .. Len(s)
  PROVE  /\ First(s, n) \in Seq(S) /\ Len(First(s, n)) = n
         /\ From(s, n) \in Seq(S) /\ Len(From(s, n)) = Len(s) - n
         /\ First(s, n) \o From(s, n) = s
         /\ \A x \in 1 .. n : First(s, n)[x] = s[x]
         /\ \A x \in 1 .. Len(s) - n : From(s, n)[x] = s[n + x]
<1>1. First(s, n) \in Seq(S) /\ Len(First(s, n)) = n /\ \A x \in 1 .. n : First(s, n)[x] = s[x]
  BY DEF First
<1>2. /\ From(s, n) \in Seq(S) /\ Len(From(s, n)) = Len(s) - n
      /\ \A x \in 1 .. Len(s) - n : From(s, n)[x] = s[n + x]
  BY DEF From
<1>3. First(s, n) \o From(s, n) = s
  <2>1. SubSeq(s, 1, n) \o SubSeq(s, n + 1, Len(s)) = SubSeq(s, 1, Len(s))
    <3>1. 1 \in 1 .. Len(s) + 1 /\ n \in 1 - 1 .. Len(s) /\ Len(s) \in n .. Len(s)
      OBVIOUS
    <3> QED
      BY <3>1, ConcatAdjacentSubSeq
  <2>2. SubSeq(s, 1, Len(s)) = s
    BY SubSeqFull
  <2> QED
    BY <2>1, <2>2 DEF First, From
<1> QED
  BY <1>1, <1>2, <1>3

\* The card takes some of the packets.
LEMMA TxBurstKeepsInv ==
  ASSUME OqInv, NEW l \in Slaves, TxBurst(l)
  PROVE  OqInv'
<1> USE Numbers
<1> DEFINE p == to_port[l]
           s == tosend[l]
           t == txq[p][l]
<1>1. PICK n \in 1 .. Lesser(Len(s), TxRing - Len(t)) :
        /\ txq' = [txq EXCEPT ![p][l] = @ \o First(s, n)]
        /\ tosend' = [tosend EXCEPT ![l] = From(@, n)]
  BY DEF TxBurst
<1>2. /\ s # <<>> /\ UNCHANGED <<setup, lpm, arrived, rxq, wire, loop, found, tx_mbufs, to_port, rest>>
  BY DEF TxBurst
<1>a. p \in Ports /\ p \in EthPorts
  BY PortsAreNumbered DEF TxBurst
<1>3. p \in Ports /\ p \in EthPorts /\ s \in Seq(Packet) /\ t \in Seq(Packet) /\ Len(t) <= TxRing
  <2> HIDE DEF p
  <2>1. txq[p] \in [Slaves -> Seq(Packet)] /\ t \in Seq(Packet) /\ Len(t) <= TxRing
    BY <1>a DEF OqInv, CardOK
  <2> QED
    BY <1>a, <2>1 DEF OqInv, TxOK
<1>4. n \in 0 .. Len(s) /\ n <= TxRing - Len(t)
  <2> HIDE DEF s, t
  <2> QED
    BY <1>3 DEF Lesser
<1>5. /\ First(s, n) \in Seq(Packet) /\ Len(First(s, n)) = n /\ From(s, n) \in Seq(Packet)
      /\ t \o First(s, n) \in Seq(Packet) /\ Len(t \o First(s, n)) <= TxRing
  <2> HIDE DEF s, t
  <2>1. First(s, n) \in Seq(Packet) /\ Len(First(s, n)) = n /\ From(s, n) \in Seq(Packet)
    BY <1>3, <1>4, TakenOff
  <2> DEFINE f == First(s, n)
  <2> HIDE DEF f
  <2>2. t \o f \in Seq(Packet) /\ Len(t \o f) <= TxRing
    BY <1>3, <1>4, <2>1 DEF f
  <2> QED
    BY <2>1, <2>2 DEF f
<1> HIDE DEF s
<1>6. CardOK'
  <2> HIDE DEF p
  <2> DEFINE more == t \o First(s, n)
  <2>1. txq' = [txq EXCEPT ![p][l] = more] /\ more \in Seq(Packet) /\ Len(more) <= TxRing
    BY <1>1, <1>5
  <2> HIDE DEF more
  <2>2. txq' \in [EthPorts -> [Slaves -> Seq(Packet)]]
    BY <1>3, <2>1 DEF OqInv, CardOK
  <2>3. ASSUME NEW q \in Ports, NEW k \in Slaves PROVE Len(txq'[q][k]) <= TxRing
    <3>1. q \in EthPorts /\ Len(txq[q][k]) <= TxRing
      BY PortsAreNumbered DEF OqInv, CardOK
    <3>2. txq'[q][k] = more \/ txq'[q][k] = txq[q][k]
      BY <1>3, <2>1, <3>1 DEF OqInv, CardOK
    <3> QED
      BY <2>1, <3>1, <3>2
  <2> QED
    BY <1>2, <2>2, <2>3 DEF OqInv, CardOK
<1>7. LoopOK' /\ FoundOK'
  BY <1>2, LoopSame, FoundSame DEF OqInv
<1>8. TxOK'
  BY <1>1, <1>2, <1>5 DEF OqInv, TxOK, s
<1>9. OthersSame(l)
  BY <1>1, <1>2 DEF OthersSame, loop, found, OqInv, TxOK
<1>10. GoodLcore(l)'
  <2>1. /\ tosend'[l] = From(s, n)
        /\ UNCHANGED <<pc, i, rx_queue_list, burst, dst_port, pnum, j, tx_mbufs, to_port, rest>>
    BY <1>1, <1>2 DEF loop, found, setup, OqInv, TxOK, s
  <2>2. GoodLcore(l)
    BY DEF OqInv
  <2>3. pc[l] \in Sending
    BY <1>2, <2>2 DEF GoodLcore, Good, s
  <2> QED
    BY <2>1, <2>2, <2>3 DEF GoodLcore, Good
<1> QED
  BY <1>2, <1>6, <1>7, <1>8, <1>9, <1>10, StepKeepsInv

\* Parts of a sequence of packets of one port.
LEMMA CameInParts ==
  ASSUME NEW S, NEW s \in Seq(S), NEW n \in 0 .. Len(s), NEW p, CameIn(s, p)
  PROVE  CameIn(First(s, n), p) /\ CameIn(From(s, n), p)
<1> DEFINE f == First(s, n)
           g == From(s, n)
<1>1. /\ Len(f) = n /\ Len(g) = Len(s) - n
      /\ \A x \in 1 .. n : f[x] = s[x]
      /\ \A y \in 1 .. Len(s) - n : g[y] = s[n + y]
  BY TakenOff
<1> HIDE DEF f, g
<1>2. Len(s) \in Nat
  OBVIOUS
<1>3. \A x \in 1 .. Len(s) : s[x].in = p
  BY DEF CameIn
<1>4. \A x \in 1 .. Len(f) : f[x].in = p
  BY <1>1, <1>2, <1>3
<1>5. \A x \in 1 .. Len(g) : g[x].in = p
  <2> SUFFICES ASSUME NEW x \in 1 .. Len(g) PROVE g[x].in = p
    OBVIOUS
  <2>1. x \in 1 .. Len(s) - n /\ n + x \in 1 .. Len(s)
    BY <1>1, <1>2
  <2>2. g[x] = s[n + x]
    BY <1>1, <2>1
  <2> QED
    BY <1>3, <2>1, <2>2
<1> QED
  BY <1>4, <1>5 DEF CameIn, f, g

\* A group that was sent, with what was left of it.
LEMMA GoodSent ==
  ASSUME NEW ii, NEW list, NEW b, NEW d, NEW pn, NEW jj \in Nat,
         NEW tables, NEW tables2, NEW ts, NEW ts2, NEW tp, NEW tp2, NEW r \in Nat,
         Good("sending", ii, list, b, d, pn, jj, tables, ts, tp, r), ts2 = <<>>
  PROVE  Good("groups", ii, list, b, d, pn, jj + r, tables2, ts2, tp2, 0)
<1>1. jj + r + 0 = jj + r /\ \A y \in jj + r .. jj + r + 0 - 1 : FALSE
  OBVIOUS
<1>2. MaxBurst > 0
  BY Numbers
<1> QED
  BY <1>1, <1>2 DEF Good, Working, Grouping, Sending

\* All packets were sent.
LEMMA SentKeepsInv ==
  ASSUME OqInv, NEW l \in Slaves, Sent(l)
  PROVE  OqInv'
<1> USE Numbers
<1> DEFINE p == to_port[l]
           b == burst[l]
           jj == j[l]
           r == rest[l]
           left == SubSeq(b, jj, jj + r - 1)
           c2 == IF pc[l] = "draining" THEN "drain" ELSE "groups"
<1>1. /\ pc[l] \in {"draining", "sending"} /\ tosend[l] = <<>> /\ pc' = [pc EXCEPT ![l] = c2]
      /\ tx_mbufs' = [tx_mbufs EXCEPT ![l][p] = left]
      /\ j' = [j EXCEPT ![l] = jj + r] /\ rest' = [rest EXCEPT ![l] = 0]
      /\ to_port' = [to_port EXCEPT ![l] = 0]
      /\ UNCHANGED <<setup, lpm, queues, elapsed, i, burst, dst_port, pnum, tosend>>
  BY DEF Sent, Goto
<1>2. p \in EthPorts /\ b \in Seq(Packet) /\ jj \in 1 .. MaxBurst + 1 /\ r \in 0 .. MaxBurst
  BY DEF OqInv, TxOK, FoundOK
<1>3. Good(pc[l], i[l], rx_queue_list[l], b, dst_port[l], pnum[l], jj, tx_mbufs[l], tosend[l], p, r)
  BY DEF OqInv, GoodLcore
<1>4. /\ r < MaxBurst /\ jj + r <= Len(b) + 1 /\ (pc[l] = "draining" => jj = 1 /\ r = 0)
      /\ Len(b) <= MaxBurst
  <2> HIDE DEF p, b, jj, r
  <2>1. CASE pc[l] = "draining"
    BY <1>2, <1>3, <2>1 DEF Good, Working
  <2>2. CASE pc[l] = "sending"
    BY <1>2, <1>3, <2>2 DEF Good, Working, Grouping
  <2> QED
    BY <1>1, <2>1, <2>2
<1>5. left \in Seq(Packet) /\ Len(left) = r
  <2> HIDE DEF b, jj, r
  <2>1. \A x \in jj .. jj + r - 1 : b[x] \in Packet
    BY <1>2, <1>4
  <2> QED
    BY <1>2, <1>4, <2>1, SubSeqProperties
<1> HIDE DEF left
<1>6. CardOK'
  BY <1>1, CardSame DEF OqInv
<1>7. LoopOK'
  BY <1>1 DEF OqInv, LoopOK
<1>8. FoundOK'
  <2> HIDE DEF p, b, jj, r
  <2>1. jj + r \in 1 .. MaxBurst + 1
    BY <1>2, <1>4
  <2> QED
    BY <1>1, <2>1 DEF OqInv, FoundOK
<1>9. TxOK'
  <2>1. 0 \in EthPorts
    BY PortsAreNumbered
  <2> QED
    BY <1>1, <1>2, <1>4, <1>5, <2>1 DEF OqInv, TxOK
<1>10. OthersSame(l)
  BY <1>1 DEF OthersSame, OqInv, LoopOK, TxOK, FoundOK
<1>11. GoodLcore(l)'
  <2>1. /\ pc'[l] = c2 /\ j'[l] = jj + r /\ rest'[l] = 0
        /\ UNCHANGED <<i, rx_queue_list, burst, dst_port, pnum, tosend>>
    BY <1>1 DEF setup, OqInv, LoopOK, TxOK, FoundOK
  <2>2. Good(c2, i[l], rx_queue_list[l], b, dst_port[l], pnum[l], jj + r, tx_mbufs'[l], tosend[l], to_port'[l], 0)
    <3> HIDE DEF p, b, jj, r
    <3>1. CASE pc[l] = "draining"
      BY <1>1, <1>2, <1>3, <1>4, <3>1 DEF Good, Working, Grouping, Sending
    <3>2. CASE pc[l] = "sending"
      <4>1. c2 = "groups" /\ jj \in Nat /\ r \in Nat
        BY <1>2, <3>2
      <4> QED
        BY <1>1, <1>3, <3>2, <4>1, GoodSent
    <3> QED
      BY <1>1, <3>1, <3>2
  <2> QED
    BY <2>1, <2>2 DEF GoodLcore
<1> QED
  BY <1>1, <1>6, <1>7, <1>8, <1>9, <1>10, <1>11, StepKeepsInv

\* A burst is read, or nothing.
LEMMA RxBurstKeepsInv ==
  ASSUME OqInv, NEW l \in Slaves, RxBurst(l)
  PROVE  OqInv'
<1> USE Numbers
<1> DEFINE p == Polled(l)
           q == rxq[p]
           nb == Lesser(Len(q), MaxBurst)
<1>1. /\ pc[l] = "poll" /\ i[l] <= Len(rx_queue_list[l])
      /\ UNCHANGED <<setup, lpm, arrived, txq, wire, elapsed, dst_port, pnum, j, tx>>
  BY DEF RxBurst, At
<1>2. p \in Ports
  BY <1>1 DEF OqInv, SetUpOK, LoopOK, Polled
<1>3. q \in Seq(Packet) /\ nb \in 0 .. Len(q) /\ nb <= MaxBurst
  <2>1. q \in Seq(Packet)
    BY <1>2 DEF OqInv, CardOK
  <2> HIDE DEF q
  <2> QED
    BY <2>1 DEF Lesser
<1>4. CASE nb = 0
  <2>1. i' = [i EXCEPT ![l] = i[l] + 1] /\ UNCHANGED <<rxq, burst, pc>>
    BY <1>4 DEF RxBurst
  <2>2. i[l] + 1 \in Nat \ {0} /\ elapsed' \in [Slaves -> 0 .. DrainTsc] /\ pc' = [pc EXCEPT ![l] = "poll"]
    BY <1>1, <2>1 DEF OqInv, LoopOK
  <2>3. UNCHANGED <<setup, lpm, queues, found, tx>>
    BY <1>1, <2>1 DEF queues, found
  <2>4. "poll" \in {"top", "drain", "poll"} /\ OqInv
    OBVIOUS
  <2> QED
    BY <1>1, <2>1, <2>2, <2>3, <2>4, IdleKeepsInv, Zenon
<1>5. CASE nb # 0
  <2> DEFINE f == First(q, nb)
             g == From(q, nb)
  <2>1. /\ burst' = [burst EXCEPT ![l] = f] /\ rxq' = [rxq EXCEPT ![p] = g]
        /\ pc' = [pc EXCEPT ![l] = "lookup"] /\ UNCHANGED i
    BY <1>5 DEF RxBurst, Goto
  <2>2. /\ f \in Seq(Packet) /\ Len(f) = nb /\ g \in Seq(Packet) /\ Len(g) = Len(q) - nb
    <3> HIDE DEF q, nb
    <3> QED
      BY <1>3, TakenOff
  <2>3. CameIn(q, p)
    BY <1>2 DEF OqInv, CardOK
  <2>9. CameIn(f, p) /\ CameIn(g, p)
    <3> HIDE DEF q, nb
    <3> QED
      BY <1>3, <2>3, CameInParts
  <2> HIDE DEF f, g
  <2>4. CardOK'
    BY <1>1, <1>2, <2>1, <2>2, <2>9 DEF OqInv, CardOK
  <2>5. LoopOK' /\ FoundOK'
    BY <1>1, <2>1, <2>2 DEF OqInv, LoopOK, FoundOK
  <2>6. TxOK'
    BY <1>1, TxSame DEF OqInv
  <2>7. OthersSame(l)
    BY <1>1, <2>1 DEF OthersSame, tx, OqInv, LoopOK, FoundOK
  <2>8. GoodLcore(l)'
    <3>1. /\ pc'[l] = "lookup" /\ burst'[l] = f
          /\ UNCHANGED <<i, rx_queue_list, dst_port, pnum, j, tx_mbufs, tosend, to_port, rest>>
      BY <1>1, <2>1 DEF tx, setup, OqInv, LoopOK, FoundOK
    <3>2. Good("poll", i[l], rx_queue_list[l], burst[l], dst_port[l], pnum[l], j[l], tx_mbufs[l],
               tosend[l], to_port[l], rest[l])
      BY <1>1 DEF OqInv, GoodLcore
    <3>3. i[l] \in 1 .. Len(rx_queue_list[l]) /\ Len(f) \in 1 .. MaxBurst
      <4>1. i[l] \in Nat \ {0} /\ rx_queue_list[l] \in Seq(Ports)
        BY DEF OqInv, LoopOK, SetUpOK
      <4> HIDE DEF nb, q
      <4>2. Len(f) \in 1 .. MaxBurst
        BY <1>3, <1>5, <2>2
      <4> QED
        BY <1>1, <4>1, <4>2
    <3>4. CameIn(f, rx_queue_list[l][i[l]])
      BY <2>9 DEF Polled
    <3>5. Good("lookup", i[l], rx_queue_list[l], f, dst_port[l], pnum[l], j[l], tx_mbufs[l],
               tosend[l], to_port[l], rest[l])
      BY <3>2, <3>3, <3>4 DEF Good, Working, Grouping, Sending
    <3> QED
      BY <3>1, <3>5 DEF GoodLcore
  <2> QED
    BY <1>1, <2>4, <2>5, <2>6, <2>7, <2>8, StepKeepsInv
<1> QED
  BY <1>4, <1>5

\* A rule that matches is one of those installed, and names a port.
LEMMA RulePort ==
  ASSUME NEW m, NEW k \in 0 .. Len(Rules), NEW hit, hit = Rule(m.ip, k), hit # {}
  PROVE  /\ (CHOOSE r \in hit : TRUE) \in Rule(m.ip, Len(Rules))
         /\ Rules[CHOOSE r \in hit : TRUE].port \in EthPorts
<1>1. (CHOOSE r \in hit : TRUE) \in hit
  OBVIOUS
<1>2. hit \subseteq 1 .. Len(Rules) /\ hit \subseteq Rule(m.ip, Len(Rules))
  <2>1. Len(Rules) \in Nat
    BY RulesAssumption
  <2> QED
    BY <2>1 DEF Rule
<1>3. \A r \in 1 .. Len(Rules) : Rules[r].port \in EthPorts
  <2>1. Rules \in Seq([ip : Address, port : EthPorts])
    BY RulesAssumption
  <2>2. \A r \in 1 .. Len(Rules) : Rules[r] \in [ip : Address, port : EthPorts]
    BY <2>1, ElementOfSeq
  <2> QED
    BY <2>2
<1> QED
  BY <1>1, <1>2, <1>3

\* A packet is given the number of a port.
LEMMA DstPortIsPort ==
  ASSUME OqInv, NEW l \in Slaves, i[l] \in 1 .. Len(rx_queue_list[l]), NEW m
  PROVE  DstPort(l, m) \in EthPorts /\ Polled(l) \in Ports
<1>1. Polled(l) \in Ports
  BY DEF Polled, OqInv, SetUpOK
<1>5. Polled(l) \in EthPorts
  BY <1>1, PortsAreNumbered
<1>2. lpm[machine.lcore[l]] \in 0 .. Len(Rules)
  <2>1. l \in Lcores
    BY Numbers DEF Slaves, Lcores
  <2>2. machine.lcore[l] \in Sockets
    BY <2>1 DEF Sockets
  <2> QED
    BY <2>2 DEF OqInv, LpmOK
<1> DEFINE k == lpm[machine.lcore[l]]
           hit == Rule(m.ip, k)
<1>3. CASE hit = {}
  BY <1>1, <1>3, <1>5 DEF DstPort
<1>4. CASE hit # {}
  <2>1. DstPort(l, m) = Rules[CHOOSE r \in hit : TRUE].port
    BY <1>4 DEF DstPort
  <2>2. Rules[CHOOSE r \in hit : TRUE].port \in EthPorts
    <3> HIDE DEF k
    <3> QED
      BY <1>2, <1>4, RulePort DEF k
  <2> QED
    BY <1>1, <2>1, <2>2
<1> QED
  BY <1>3, <1>4

\* One packet of a burst is looked up.
LEMMA LookupKeepsInv ==
  ASSUME OqInv, NEW l \in Slaves, Lookup(l)
  PROVE  OqInv'
<1> DEFINE d == dst_port[l]
           q == DstPort(l, burst[l][Len(d) + 1])
<1>1. /\ pc[l] = "lookup" /\ Len(d) < Len(burst[l])
      /\ dst_port' = [dst_port EXCEPT ![l] = Append(d, q)]
      /\ UNCHANGED <<setup, lpm, queues, loop, burst, pnum, j, tx>>
  BY DEF Lookup, At
<1>2. Good("lookup", i[l], rx_queue_list[l], burst[l], d, pnum[l], j[l], tx_mbufs[l], tosend[l],
           to_port[l], rest[l])
  BY <1>1 DEF OqInv, GoodLcore
<1>3. q \in EthPorts
  BY <1>2, DstPortIsPort DEF Good, Working
<1>4. d \in Seq(EthPorts) /\ burst[l] \in Seq(Packet)
  BY DEF OqInv, FoundOK
<1> HIDE DEF q
<1>5. Append(d, q) \in Seq(EthPorts) /\ Len(Append(d, q)) = Len(d) + 1
  BY <1>3, <1>4
<1>6. CardOK' /\ LoopOK' /\ TxOK'
  BY <1>1, CardSame, LoopSame, TxSame DEF OqInv
<1>7. FoundOK'
  BY <1>1, <1>5 DEF OqInv, FoundOK
<1>8. OthersSame(l)
  BY <1>1 DEF OthersSame, loop, tx, OqInv, FoundOK
<1>9. GoodLcore(l)'
  <2>1. /\ pc'[l] = "lookup" /\ dst_port'[l] = Append(d, q)
        /\ UNCHANGED <<i, rx_queue_list, burst, pnum, j, tx_mbufs, tosend, to_port, rest>>
    BY <1>1 DEF tx, setup, loop, OqInv, FoundOK
  <2>2. rest[l] = 0 /\ j[l] = 1
    BY <1>2 DEF Good
  <2>3. Good("lookup", i[l], rx_queue_list[l], burst[l], Append(d, q), pnum[l], j[l], tx_mbufs[l],
             tosend[l], to_port[l], rest[l])
    <3>1. Len(Append(d, q)) <= Len(burst[l])
      BY <1>1, <1>4, <1>5
    <3>2. \A y \in j[l] .. j[l] + rest[l] - 1 : FALSE
      BY <2>2
    <3> QED
      BY <1>2, <3>1, <3>2 DEF Good, Working, Grouping, Sending
  <2> QED
    BY <2>1, <2>3 DEF GoodLcore
<1> QED
  BY <1>1, <1>6, <1>7, <1>8, <1>9, StepKeepsInv

\* A burst is divided into groups.
LEMMA GroupKeepsInv ==
  ASSUME OqInv, NEW l \in Slaves, Group(l)
  PROVE  OqInv'
<1> DEFINE d == dst_port[l]
           pn == PNum(d)
<1>1. /\ pc[l] = "lookup" /\ Len(d) = Len(burst[l]) /\ pnum' = [pnum EXCEPT ![l] = pn]
      /\ pc' = [pc EXCEPT ![l] = "groups"]
      /\ UNCHANGED <<setup, lpm, queues, elapsed, i, burst, dst_port, j, tx>>
  BY DEF Group, At, Goto
<1>2. Good("lookup", i[l], rx_queue_list[l], burst[l], d, pnum[l], j[l], tx_mbufs[l], tosend[l],
           to_port[l], rest[l])
  BY <1>1 DEF OqInv, GoodLcore
<1>3. d \in Seq(EthPorts) /\ pn \in {PNum(e) : e \in Seq(EthPorts)}
  BY DEF OqInv, FoundOK
<1> HIDE DEF pn
<1>4. CardOK' /\ TxOK'
  BY <1>1, CardSame, TxSame DEF OqInv
<1>5. LoopOK' /\ FoundOK'
  BY <1>1, <1>3 DEF OqInv, LoopOK, FoundOK
<1>6. OthersSame(l)
  BY <1>1 DEF OthersSame, tx, OqInv, LoopOK, FoundOK
<1>7. GoodLcore(l)'
  <2>1. /\ pc'[l] = "groups" /\ pnum'[l] = pn
        /\ UNCHANGED <<i, rx_queue_list, burst, dst_port, j, tx_mbufs, tosend, to_port, rest>>
    BY <1>1 DEF tx, setup, OqInv, LoopOK, FoundOK
  <2>2. rest[l] = 0 /\ j[l] = 1 /\ j[l] + rest[l] = 1 /\ Len(d) \in Nat /\ Len(d) >= 1
    BY <1>1, <1>2 DEF Good, Working
  <2>3. StartsRun(d, 1)
    BY DEF StartsRun
  <2>4. Good("groups", i[l], rx_queue_list[l], burst[l], d, pn, j[l], tx_mbufs[l],
             tosend[l], to_port[l], rest[l])
    BY <1>1, <1>2, <2>2, <2>3 DEF Good, Working, Grouping, Sending, pn
  <2> QED
    BY <2>1, <2>4 DEF GoodLcore
<1> QED
  BY <1>1, <1>4, <1>5, <1>6, <1>7, StepKeepsInv

\* All groups of a burst were sent.
LEMMA GroupsSentKeepsInv ==
  ASSUME OqInv, NEW l \in Slaves, GroupsSent(l)
  PROVE  OqInv'
<1> USE Numbers
<1>1. /\ pc[l] = "groups"
      /\ burst' = [burst EXCEPT ![l] = <<>>] /\ dst_port' = [dst_port EXCEPT ![l] = <<>>]
      /\ pnum' = [pnum EXCEPT ![l] = <<>>] /\ j' = [j EXCEPT ![l] = 1]
      /\ i' = [i EXCEPT ![l] = i[l] + 1] /\ pc' = [pc EXCEPT ![l] = "poll"]
      /\ UNCHANGED <<setup, lpm, queues, elapsed, tx>>
  BY DEF GroupsSent, At, Goto
<1>2. Good("groups", i[l], rx_queue_list[l], burst[l], dst_port[l], pnum[l], j[l], tx_mbufs[l], tosend[l],
           to_port[l], rest[l])
  BY <1>1 DEF OqInv, GoodLcore
<1>3. CardOK' /\ TxOK'
  BY <1>1, CardSame, TxSame DEF OqInv
<1>4. LoopOK'
  BY <1>1 DEF OqInv, LoopOK
<1>5. FoundOK'
  BY <1>1 DEF OqInv, FoundOK
<1>6. OthersSame(l)
  BY <1>1 DEF OthersSame, tx, OqInv, LoopOK, FoundOK
<1>7. GoodLcore(l)'
  <2>1. /\ pc'[l] = "poll" /\ burst'[l] = <<>> /\ dst_port'[l] = <<>> /\ j'[l] = 1
        /\ UNCHANGED <<tx_mbufs, tosend, to_port, rest>>
    BY <1>1 DEF tx, OqInv, LoopOK, FoundOK
  <2>2. rest[l] = 0 /\ tosend[l] = <<>>
    BY <1>2 DEF Good, Sending
  <2>3. \A y \in 1 .. 1 + 0 - 1 : FALSE
    OBVIOUS
  <2> QED
    BY <2>1, <2>2, <2>3 DEF GoodLcore, Good, Working, Grouping, Sending
<1> QED
  BY <1>1, <1>3, <1>4, <1>5, <1>6, <1>7, StepKeepsInv

\* The next group is a run of the burst.
LEMMA GroupIsRun ==
  ASSUME NEW b, NEW d \in Seq(Nat), NEW jj \in 1 .. Len(d), NEW r, NEW ii, NEW list, NEW pn, NEW tables,
         NEW ts, NEW tp, Good("groups", ii, list, b, d, pn, jj, tables, ts, tp, r)
  PROVE  /\ r = 0 /\ pn[jj] \in Nat \ {0} /\ jj + pn[jj] <= Len(d) + 1
         /\ jj + pn[jj] <= Len(d) => StartsRun(d, jj + pn[jj])
         /\ \A y \in jj .. jj + pn[jj] - 1 : d[y] = d[jj]
<1>1. r = 0 /\ pn = PNum(d) /\ Len(d) \in 1 .. MaxBurst
  BY DEF Good, Working, Grouping
<1>2. StartsRun(d, jj)
  <2>1. jj + r = jj
    BY <1>1
  <2> QED
    BY <2>1 DEF Good, Grouping
<1>3. PICK e \in jj .. Len(d) : IsRun(d, jj, e) /\ (e < Len(d) => StartsRun(d, e + 1))
  BY <1>2, RunFrom
<1>4. pn[jj] = e - jj + 1
  <2>1. e \in 1 .. Len(d)
    OBVIOUS
  <2> QED
    BY <1>1, <1>3, <2>1, RunCounted
<1>5. pn[jj] \in Nat \ {0} /\ jj + pn[jj] = e + 1
  BY <1>4
<1>6. \A y \in jj .. e : d[y] = d[jj]
  BY <1>3 DEF IsRun
<1> QED
  BY <1>1, <1>3, <1>5, <1>6

\* What of a group a table takes.
LEMMA FitsTable ==
  ASSUME NEW num \in Nat \ {0}, NEW len \in Nat, len < MaxBurst
  PROVE  /\ ThatFit(num, len) \in 1 .. num /\ len + ThatFit(num, len) <= MaxBurst
         /\ len + ThatFit(num, len) # MaxBurst => ThatFit(num, len) = num
         /\ num <= MaxBurst => num - ThatFit(num, len) < MaxBurst
BY Numbers DEF ThatFit

\* A group is handed on: k packets of it, after those of its table, to the card (ts)
\* and to the table.
GroupPort(l) == dst_port[l][j[l]]
GroupLen(l) == pnum[l][j[l]]
Handing(l, k, c2, ts2, tp2, table2) ==
  /\ pc' = [pc EXCEPT ![l] = c2] /\ j' = [j EXCEPT ![l] = j[l] + k]
  /\ rest' = [rest EXCEPT ![l] = GroupLen(l) - k]
  /\ tx_mbufs' = [tx_mbufs EXCEPT ![l][GroupPort(l)] = table2] /\ Len(table2) < MaxBurst
  /\ to_port' = [to_port EXCEPT ![l] = tp2] /\ tosend' = [tosend EXCEPT ![l] = ts2]
  /\ c2 = "groups" => ts2 = <<>> /\ k = GroupLen(l)
  /\ c2 = "sending" => table2 = <<>> /\ tp2 = GroupPort(l)
  /\ ts2 \o table2 = tx_mbufs[l][GroupPort(l)] \o SubSeq(burst[l], j[l], j[l] + k - 1)
SendingGroup(l) ==
  /\ pc[l] = "groups" /\ j[l] \in 1 .. Len(dst_port[l])
  /\ UNCHANGED <<setup, lpm, queues, elapsed, i, burst, dst_port, pnum>>
  /\ dst_port[l] \in Seq(Nat) /\ GroupPort(l) \in EthPorts /\ GroupLen(l) \in Nat \ {0}
  /\ GroupLen(l) <= MaxBurst /\ j[l] + GroupLen(l) <= Len(dst_port[l]) + 1
  /\ tosend[l] = <<>>
  /\ \E k \in 1 .. GroupLen(l), c2 \in {"groups", "sending"}, ts2 \in Seq(Packet), tp2 \in EthPorts,
         table2 \in Seq(Packet) : GroupLen(l) - k < MaxBurst /\ Handing(l, k, c2, ts2, tp2, table2)

\* What SendGroup does with the next group, by case.
LEMMA GroupHandedOn ==
  ASSUME OqInv, NEW l \in Slaves, SendGroup(l)
  PROVE  SendingGroup(l)
<1> USE Numbers
<1> DEFINE b == burst[l]
           d == dst_port[l]
           jj == j[l]
           port == d[jj]
           num == pnum[l][jj]
           m == SubSeq(b, jj, jj + num - 1)
           table == tx_mbufs[l][port]
           n == ThatFit(num, Len(table))
<1>1. /\ pc[l] = "groups" /\ jj <= Len(b)
      /\ UNCHANGED <<setup, lpm, queues, elapsed, i, burst, dst_port, pnum>>
  BY DEF SendGroup, At
<1>2. Good("groups", i[l], rx_queue_list[l], b, d, pnum[l], jj, tx_mbufs[l], tosend[l], to_port[l], rest[l])
  BY <1>1 DEF OqInv, GoodLcore
<1>3. /\ d \in Seq(EthPorts) /\ d \in Seq(Nat) /\ b \in Seq(Packet) /\ Len(d) = Len(b) /\ Len(b) \in 1 .. MaxBurst
      /\ jj \in 1 .. Len(d)
  <2>1. d \in Seq(EthPorts) /\ b \in Seq(Packet) /\ jj \in 1 .. MaxBurst + 1
    BY DEF OqInv, FoundOK
  <2>2. EthPorts \subseteq Nat
    BY PortsAreNumbered
  <2>3. Len(d) = Len(b) /\ Len(b) \in 1 .. MaxBurst
    BY <1>2 DEF Good, Grouping, Working
  <2> HIDE DEF b, d, jj
  <2>4. d \in Seq(Nat)
    BY <2>1, <2>2, SeqOfMore
  <2> QED
    BY <1>1, <2>1, <2>3, <2>4
<1>4. /\ rest[l] = 0 /\ num \in Nat \ {0} /\ jj + num <= Len(d) + 1
      /\ tosend[l] = <<>>
  <2>1. tosend[l] = <<>>
    BY <1>2 DEF Good, Sending
  <2> DEFINE pn == pnum[l]
  <2>2. num = pn[jj]
    OBVIOUS
  <2> DEFINE ii == i[l]
             list == rx_queue_list[l]
             tables == tx_mbufs[l]
             ts == tosend[l]
             tp == to_port[l]
             r == rest[l]
  <2>3. Good("groups", ii, list, b, d, pn, jj, tables, ts, tp, r)
    BY <1>2
  <2> HIDE DEF b, d, jj, pn, num, ii, list, tables, ts, tp, r
  <2>4. r = 0 /\ pn[jj] \in Nat \ {0} /\ jj + pn[jj] <= Len(d) + 1
    BY <1>3, <2>3, GroupIsRun
  <2> QED
    BY <2>1, <2>2, <2>4 DEF r
<1>5. port \in EthPorts
  <2> HIDE DEF d, jj
  <2> QED
    BY <1>3
<1>6. table \in Seq(Packet) /\ Len(table) < MaxBurst
  <2> HIDE DEF port
  <2> QED
    BY <1>5 DEF OqInv, TxOK
<1>7. num <= MaxBurst /\ m \in Seq(Packet) /\ Len(m) = num
  <2> HIDE DEF b, d, jj, num
  <2>1. num <= MaxBurst
    BY <1>3, <1>4
  <2>2. \A x \in jj .. jj + num - 1 : b[x] \in Packet
    BY <1>3, <1>4
  <2> QED
    BY <1>3, <1>4, <2>1, <2>2, SubSeqProperties
<1>8. /\ n \in 1 .. num /\ Len(table) + n <= MaxBurst
      /\ Len(table) + n # MaxBurst => n = num
      /\ num - n < MaxBurst
  <2> HIDE DEF table, num
  <2> QED
    BY <1>4, <1>6, <1>7, FitsTable
<1> HIDE DEF table, m, n
<1> DEFINE taken(k) == SubSeq(b, jj, jj + k - 1)
<1>9. \E k \in {num, n}, c2 \in {"groups", "sending"}, ts2 \in Seq(Packet), tp2 \in EthPorts,
         table2 \in Seq(Packet) :
        /\ pc' = [pc EXCEPT ![l] = c2] /\ j' = [j EXCEPT ![l] = jj + k]
        /\ rest' = [rest EXCEPT ![l] = num - k]
        /\ tx_mbufs' = [tx_mbufs EXCEPT ![l][port] = table2] /\ Len(table2) < MaxBurst
        /\ to_port' = [to_port EXCEPT ![l] = tp2] /\ tosend' = [tosend EXCEPT ![l] = ts2]
        /\ c2 = "groups" => ts2 = <<>> /\ k = num
        /\ c2 = "sending" => table2 = <<>> /\ tp2 = port
        /\ ts2 \o table2 = table \o taken(k)
  <2>a. taken(num) = m
    BY DEF m
  <2>b. taken(n) = First(m, n)
    <3> HIDE DEF b, jj, num
    <3>1. jj \in 1 .. Len(b) /\ jj + num - 1 \in 1 .. Len(b) /\ (jj + num - 1) - jj + 1 = num
      BY <1>3, <1>4
    <3>2. 1 \in 1 .. num /\ n \in 1 .. num
      BY <1>4, <1>8
    <3>3. SubSeq(SubSeq(b, jj, jj + num - 1), 1, n) = SubSeq(b, jj + 1 - 1, jj + n - 1)
      <4> DEFINE e == jj + num - 1
      <4>1. e - jj + 1 = num /\ e \in 1 .. Len(b)
        BY <3>1
      <4> HIDE DEF e
      <4>2. SubSeq(SubSeq(b, jj, e), 1, n) = SubSeq(b, jj + 1 - 1, jj + n - 1)
        BY <1>3, <3>1, <3>2, <4>1, SubSeqOfSubSeq
      <4> QED
        BY <4>2 DEF e
    <3>4. jj + 1 - 1 = jj
      BY <3>1
    <3> QED
      BY <3>3, <3>4 DEF First, m
  <2> HIDE DEF taken
  <2>0. /\ pc \in [Slaves -> {"top", "drain", "draining", "poll", "lookup", "groups", "sending"}]
        /\ tx_mbufs \in [Slaves -> [EthPorts -> Seq(Packet)]] /\ rest \in [Slaves -> 0 .. MaxBurst]
        /\ to_port \in [Slaves -> EthPorts] /\ tosend \in [Slaves -> Seq(Packet)]
    BY DEF OqInv, TxOK, LoopOK
  <2>1. CASE StraightAway(num, Len(table))
    <3>1. /\ to_port' = [to_port EXCEPT ![l] = port] /\ tosend' = [tosend EXCEPT ![l] = m]
          /\ pc' = [pc EXCEPT ![l] = "sending"] /\ j' = [j EXCEPT ![l] = jj + num]
          /\ UNCHANGED <<tx_mbufs, rest>>
      BY <2>1 DEF SendGroup, Send, Goto, m, table, n
    <3>2. table = <<>>
      <4> HIDE DEF num
      <4> QED
        BY <1>6, <2>1 DEF StraightAway
    <3> HIDE DEF num, port
    <3>3. tx_mbufs' = [tx_mbufs EXCEPT ![l][port] = <<>>] /\ rest' = [rest EXCEPT ![l] = num - num]
      <4>1. num - num = 0
        BY <1>4
      <4>2. tx_mbufs[l][port] = <<>>
        BY <3>2 DEF table
      <4> QED
        BY <1>4, <1>5, <2>0, <3>1, <4>1, <4>2
    <3>4. Len(<<>>) < MaxBurst /\ <<>> \in Seq(Packet)
      OBVIOUS
    <3>5. m \o <<>> = table \o taken(num)
      BY <1>7, <2>a, <3>2, ConcatEmptySeq
    <3> QED
      BY <1>5, <1>7, <3>1, <3>3, <3>4, <3>5
  <2>2. CASE ~StraightAway(num, Len(table)) /\ Len(table) + n # MaxBurst
    <3>1. /\ tx_mbufs' = [tx_mbufs EXCEPT ![l][port] = table \o m]
          /\ j' = [j EXCEPT ![l] = jj + num]
          /\ UNCHANGED <<pc, tosend, to_port, rest>>
      BY <2>2 DEF SendGroup, m, table, n
    <3> HIDE DEF num, port
    <3>2. table \o m \in Seq(Packet) /\ Len(table \o m) < MaxBurst
      BY <1>6, <1>7, <1>8, <2>2
    <3>3. /\ pc' = [pc EXCEPT ![l] = "groups"] /\ rest' = [rest EXCEPT ![l] = num - num]
          /\ to_port' = [to_port EXCEPT ![l] = to_port[l]] /\ tosend' = [tosend EXCEPT ![l] = <<>>]
      <4>1. num - num = 0
        BY <1>4
      <4> QED
        BY <1>1, <1>4, <2>0, <3>1, <4>1
    <3>4. to_port[l] \in EthPorts /\ <<>> \in Seq(Packet)
      BY <2>0
    <3>5. <<>> \o (table \o m) = table \o taken(num)
      BY <2>a, <3>2, ConcatEmptySeq
    <3> DEFINE longer == table \o m
               old == to_port[l]
    <3>6. longer \in Seq(Packet) /\ Len(longer) < MaxBurst /\ <<>> \o longer = table \o taken(num)
          /\ tx_mbufs' = [tx_mbufs EXCEPT ![l][port] = longer] /\ old \in EthPorts
      BY <3>1, <3>2, <3>4, <3>5
    <3> HIDE DEF longer, old
    <3> QED
      BY <3>1, <3>3, <3>4, <3>6 DEF old
  <2>3. CASE ~StraightAway(num, Len(table)) /\ Len(table) + n = MaxBurst
    <3>1. /\ to_port' = [to_port EXCEPT ![l] = port] /\ tosend' = [tosend EXCEPT ![l] = table \o First(m, n)]
          /\ pc' = [pc EXCEPT ![l] = "sending"] /\ j' = [j EXCEPT ![l] = jj + n]
          /\ tx_mbufs' = [tx_mbufs EXCEPT ![l][port] = <<>>] /\ rest' = [rest EXCEPT ![l] = num - n]
      BY <2>3 DEF SendGroup, Send, Goto, m, table, n
    <3> HIDE DEF num, port
    <3>2. First(m, n) \in Seq(Packet)
      BY <1>7, <1>8, TakenOff
    <3>3. table \o First(m, n) \in Seq(Packet)
      BY <1>6, <3>2
    <3>4. Len(<<>>) < MaxBurst /\ <<>> \in Seq(Packet)
      OBVIOUS
    <3>5. (table \o First(m, n)) \o <<>> = table \o taken(n)
      BY <2>b, <3>3, ConcatEmptySeq
    <3> QED
      BY <1>5, <3>1, <3>3, <3>4, <3>5
  <2> QED
    BY <2>1, <2>2, <2>3 DEF SendGroup, m, table, n
<1>10. PICK k \in {num, n}, c2 \in {"groups", "sending"}, ts2 \in Seq(Packet), tp2 \in EthPorts,
            table2 \in Seq(Packet) :
        /\ pc' = [pc EXCEPT ![l] = c2] /\ j' = [j EXCEPT ![l] = jj + k]
        /\ rest' = [rest EXCEPT ![l] = num - k]
        /\ tx_mbufs' = [tx_mbufs EXCEPT ![l][port] = table2] /\ Len(table2) < MaxBurst
        /\ to_port' = [to_port EXCEPT ![l] = tp2] /\ tosend' = [tosend EXCEPT ![l] = ts2]
        /\ c2 = "groups" => ts2 = <<>> /\ k = num
        /\ c2 = "sending" => table2 = <<>> /\ tp2 = port
        /\ ts2 \o table2 = table \o taken(k)
  BY <1>9, Zenon
<1>11. k \in 1 .. num /\ num - k < MaxBurst
  <2> HIDE DEF num
  <2> QED
    BY <1>4, <1>7, <1>8
<1>12. Handing(l, k, c2, ts2, tp2, table2)
  BY <1>10 DEF Handing, GroupLen, GroupPort, table
<1>13. num = GroupLen(l) /\ port = GroupPort(l)
  BY DEF GroupLen, GroupPort
<1> QED
  BY <1>1, <1>3, <1>4, <1>5, <1>7, <1>11, <1>12, <1>13 DEF SendingGroup

\* The next group is sent or put into its table.
LEMMA SendGroupKeepsInv ==
  ASSUME OqInv, NEW l \in Slaves, SendGroup(l)
  PROVE  OqInv'
<1> USE Numbers
<1> DEFINE b == burst[l]
           d == dst_port[l]
           jj == j[l]
           port == GroupPort(l)
           num == GroupLen(l)
<1>0. SendingGroup(l)
  BY GroupHandedOn
<1>1. /\ pc[l] = "groups"
      /\ UNCHANGED <<setup, lpm, queues, elapsed, i, burst, dst_port, pnum>>
  BY <1>0 DEF SendingGroup
<1>2. Good("groups", i[l], rx_queue_list[l], b, d, pnum[l], jj, tx_mbufs[l], tosend[l], to_port[l], rest[l])
  BY <1>1 DEF OqInv, GoodLcore
<1>3. /\ d \in Seq(Nat) /\ jj \in 1 .. Len(d) /\ Len(d) \in 1 .. MaxBurst
  BY <1>0, <1>2 DEF SendingGroup, Good, Grouping, Working
<1>4. num \in Nat \ {0} /\ jj + num <= Len(d) + 1
  BY <1>0 DEF SendingGroup
<1>5. port \in EthPorts
  BY <1>0 DEF SendingGroup
<1>10. PICK k \in 1 .. num, c2 \in {"groups", "sending"}, ts2 \in Seq(Packet), tp2 \in EthPorts,
         table2 \in Seq(Packet) : num - k < MaxBurst /\ Handing(l, k, c2, ts2, tp2, table2)
  BY <1>0, Zenon DEF SendingGroup
<1>6. /\ c2 = "groups" => ts2 = <<>> /\ k = num
      /\ c2 = "sending" => table2 = <<>> /\ tp2 = port
      /\ rest' = [rest EXCEPT ![l] = num - k]
      /\ tx_mbufs' = [tx_mbufs EXCEPT ![l][port] = table2] /\ Len(table2) < MaxBurst
      /\ to_port' = [to_port EXCEPT ![l] = tp2] /\ tosend' = [tosend EXCEPT ![l] = ts2]
  BY <1>10 DEF Handing
<1>11. k \in 0 .. num /\ num - k < MaxBurst /\ num - k >= 0 /\ jj + k \in 1 .. MaxBurst + 1
  <2> HIDE DEF num, d, b, jj
  <2> QED
    BY <1>3, <1>4, <1>10
<1>12. CardOK'
  BY <1>1, CardSame DEF OqInv
<1>13. LoopOK' /\ FoundOK'
  BY <1>1, <1>10, <1>11 DEF OqInv, LoopOK, FoundOK, Handing
<1>14. TxOK'
  <2> HIDE DEF num, port
  <2>1. num - k \in 0 .. MaxBurst
    BY <1>4, <1>11
  <2> QED
    BY <1>1, <1>5, <1>6, <2>1 DEF OqInv, TxOK
<1>15. OthersSame(l)
  BY <1>1, <1>5, <1>10 DEF OthersSame, OqInv, LoopOK, FoundOK, TxOK, Handing
<1>16. GoodLcore(l)'
  <2>1. /\ pc'[l] = c2 /\ j'[l] = jj + k /\ rest'[l] = num - k /\ tosend'[l] = ts2 /\ to_port'[l] = tp2
        /\ UNCHANGED <<i, rx_queue_list, burst, dst_port, pnum>>
        /\ c2 = "sending" => tx_mbufs'[l][tp2] = <<>> /\ tp2 = port
    BY <1>1, <1>5, <1>10 DEF setup, OqInv, LoopOK, FoundOK, TxOK, Handing
  <2>2. Good(c2, i[l], rx_queue_list[l], b, d, pnum[l], jj + k, tx_mbufs'[l], ts2, tp2, num - k)
    <3> DEFINE pn == pnum[l]
    <3>1. num = pn[jj] /\ port = d[jj]
      BY DEF GroupLen, GroupPort
    <3> HIDE DEF b, d, jj, num, port
    <3> DEFINE ii == i[l]
               list == rx_queue_list[l]
               tables == tx_mbufs[l]
               ts == tosend[l]
               tp == to_port[l]
               r == rest[l]
               tables2 == tx_mbufs'[l]
    <3>2. Good("groups", ii, list, b, d, pn, jj, tables, ts, tp, r)
      BY <1>2
    <3>3. c2 = "sending" => tables2[tp2] = <<>> /\ tp2 = d[jj]
      BY <2>1, <3>1
    <3> HIDE DEF pn, tables2, ii, list, tables, ts, tp, r
    <3>4. /\ r = 0 /\ num + jj <= Len(d) + 1 /\ jj + num \in Nat
          /\ jj + num <= Len(d) => StartsRun(d, jj + num)
          /\ \A y \in jj .. jj + num - 1 : d[y] = d[jj]
      BY <1>3, <1>4, <3>1, <3>2, GroupIsRun
    <3>5. jj + k + (num - k) = jj + num
      BY <1>3, <1>4, <1>11
    <3>6. \A y \in jj + k .. jj + k + (num - k) - 1 : d[y] = tp2
      <4>1. CASE c2 = "sending"
        BY <1>3, <1>4, <1>11, <3>3, <3>4, <4>1
      <4>2. CASE c2 = "groups"
        BY <1>3, <1>4, <1>6, <3>4, <4>2
      <4> QED
        BY <4>1, <4>2
    <3>7. c2 = "groups" => ts2 = <<>> /\ num - k = 0
      BY <1>4, <1>6
    <3>8. Good(c2, ii, list, b, d, pn, jj + k, tables2, ts2, tp2, num - k)
      <4>1. /\ ii \in 1 .. Len(list) /\ Len(b) \in 1 .. MaxBurst /\ CameIn(b, list[ii])
            /\ Len(d) = Len(b) /\ pn = PNum(d)
        BY <3>2 DEF Good, Working, Grouping
      <4>2. c2 = "groups" \/ c2 = "sending"
        OBVIOUS
      <4>3. jj + k + (num - k) <= Len(d) + 1 /\ (jj + k + (num - k) <= Len(d) => StartsRun(d, jj + k + (num - k)))
        BY <1>3, <1>4, <3>4, <3>5
      <4> DEFINE rr == num - k
                 j2 == jj + k
      <4>4. rr < MaxBurst /\ \A y \in j2 .. j2 + rr - 1 : d[y] = tp2
        BY <1>11, <3>6
      <4>5. /\ j2 + rr <= Len(d) + 1
            /\ j2 + rr <= Len(d) => StartsRun(d, j2 + rr)
        BY <4>3
      <4>6. c2 = "groups" => ts2 = <<>> /\ rr = 0
        BY <3>7
      <4> HIDE DEF rr, j2
      <4>7. Good(c2, ii, list, b, d, pn, j2, tables2, ts2, tp2, rr)
        BY <3>3, <4>1, <4>2, <4>4, <4>5, <4>6 DEF Good, Working, Grouping, Sending
      <4> QED
        BY <4>7 DEF rr, j2
    <3> QED
      BY <3>8 DEF pn, tables2, ii, list
  <2> QED
    BY <2>1, <2>2 DEF GoodLcore
<1> QED
  BY <1>1, <1>12, <1>13, <1>14, <1>15, <1>16, StepKeepsInv

\* OqInv is inductive.
LEMMA OqInvStep ==
  ASSUME OqInv, [Next]_vars
  PROVE  OqInv'
<1>1. CASE SearchLcore \/ DealPort \/ AllDealt \/ Launch \/ Failed \/ Dead
  BY <1>1, DealingKeepsInv
<1>2. CASE ConfigureRxQueue
  BY <1>2, ConfigureKeepsInv
<1>3. CASE \E s \in Sockets : AddRule(s)
  BY <1>3, RuleKeepsInv
<1>4. CASE \E p \in Ports : Arrive(p) \/ \E l \in Slaves : Transmit(p, l)
  BY <1>4, ArriveKeepsInv, TransmitKeepsInv
<1>5. ASSUME NEW l \in Slaves, MainLoop(l) PROVE OqInv'
  BY <1>5, TopKeepsInv, DrainKeepsInv, DrainedKeepsInv, TxBurstKeepsInv, DealingKeepsInv, SentKeepsInv, RxBurstKeepsInv,
     LookupKeepsInv, GroupKeepsInv, SendGroupKeepsInv, GroupsSentKeepsInv DEF MainLoop
<1>6. CASE UNCHANGED vars
  BY <1>6, SetUpSame, RestSame DEF vars, setup, OqInv
<1> QED
  BY <1>1, <1>2, <1>3, <1>4, <1>5, <1>6 DEF Next, SetUp

\* The variables keep their types, no table is full when an lcore goes on and no
\* tx queue holds more than its descriptors (main_loop, send_packetsx4).
THEOREM TypesHold == Spec => []TypeOK
<1>1. Init => OqInv
  BY OqInvInit
<1>2. OqInv /\ [Next]_vars => OqInv'
  BY OqInvStep
<1>3. OqInv => TypeOK
  BY OqInvTypes
<1> QED
  BY <1>1, <1>2, <1>3, PTL DEF Spec

\* No list of rx queues is longer than its array, on every machine and however
\* many of its ports are near one lcore (configure_lcore_rx_queues).
THEOREM ListsHold == Spec => []ListsFit
<1>1. Init => OqInv
  BY OqInvInit
<1>2. OqInv /\ [Next]_vars => OqInv'
  BY OqInvStep
<1>3. OqInv => ListsFit
  BY DEF OqInv, SetUpOK, ListsFit
<1> QED
  BY <1>1, <1>2, <1>3, PTL DEF Spec

-----------------------------------------------------------------------------
(* The search for an lcore (configure_lcore_params). *)

\* What the search relies on.
SetUpTypes ==
  /\ machine \in Machines
  /\ lcoreid \in Slaves /\ prev_lcoreid \in Slaves /\ numa_ok \in BOOLEAN
  /\ lcore_params \in Seq(Slaves) /\ Len(lcore_params) <= NbPorts

\* The lcores the search has passed, once it has left the one dealt to last.
Passed(k) ==
  IF lcoreid > prev_lcoreid THEN k > prev_lcoreid /\ k < lcoreid
  ELSE k > prev_lcoreid \/ k < lcoreid

PassedAreFar ==
  numa_ok /\ lcoreid # prev_lcoreid =>
    \A k \in Slaves : Passed(k) => ~Near(k, portid)

DealtAreNear ==
  numa_ok => \A x \in DOMAIN lcore_params : Near(lcore_params[x], x - 1)

GaveUp == ~numa_ok => \E p \in Ports : Cardinality(NearLcores(p)) <= 1

SearchInv == SetUpTypes /\ PassedAreFar /\ DealtAreNear /\ GaveUp

\* A set within a singleton has at most one member.
LEMMA AtMostOne ==
  ASSUME NEW S, NEW a, S \subseteq {a}
  PROVE  Cardinality(S) <= 1
<1>1. S = {} \/ S = {a}
  OBVIOUS
<1>2. Cardinality({}) = 0
  BY FS_EmptySet
<1>3. Cardinality({a}) = 1
  BY FS_Singleton
<1> QED
  BY <1>1, <1>2, <1>3

\* Outside the search nothing that SearchInv is about changes.
LEMMA SearchUnchanged ==
  ASSUME SearchInv,
         UNCHANGED <<machine, lcoreid, prev_lcoreid, numa_ok, lcore_params>>
  PROVE  SearchInv'
BY DEF SearchInv, SetUpTypes, PassedAreFar, Passed, DealtAreNear, GaveUp, NearLcores, Near, portid

LEMMA SearchStep ==
  ASSUME SearchInv, SearchLcore
  PROVE  SearchInv'
<1> USE SizesAssumption DEF Slaves
<1>1. /\ portid \in Ports /\ ~Near(lcoreid, portid) /\ numa_ok
      /\ lcoreid' = NextLcore(lcoreid) /\ numa_ok' = (lcoreid' # prev_lcoreid)
      /\ UNCHANGED <<machine, prev_lcoreid, lcore_params>>
  BY DEF SearchInv, SetUpTypes, SearchLcore, portid, Ports
<1>2. SetUpTypes'
  BY <1>1 DEF SearchInv, SetUpTypes, NextLcore
<1>3. PassedAreFar'
  BY <1>1 DEF SearchInv, SetUpTypes, PassedAreFar, Passed, Near, portid, NextLcore
<1>4. DealtAreNear'
  BY <1>1 DEF SearchInv, DealtAreNear, Near
<1>5. GaveUp'
  <2> SUFFICES ASSUME ~numa_ok' PROVE Cardinality(NearLcores(portid)) <= 1
    BY <1>1 DEF GaveUp, NearLcores, Near
  <2>1. NextLcore(lcoreid) = prev_lcoreid
    BY <1>1
  <2>2. NearLcores(portid) \subseteq {prev_lcoreid}
    BY <1>1, <2>1 DEF SearchInv, SetUpTypes, PassedAreFar, Passed, NearLcores, NextLcore
  <2> QED
    BY <2>2, AtMostOne
<1> QED
  BY <1>2, <1>3, <1>4, <1>5 DEF SearchInv

LEMMA DealStep ==
  ASSUME SearchInv, DealPort
  PROVE  SearchInv'
<1> USE SizesAssumption DEF Slaves
<1>1. /\ portid < NbPorts /\ (Near(lcoreid, portid) \/ ~numa_ok)
      /\ lcore_params' = Append(lcore_params, lcoreid)
      /\ prev_lcoreid' = lcoreid /\ lcoreid' = NextLcore(lcoreid)
      /\ UNCHANGED <<machine, numa_ok>>
  BY DEF DealPort
<1>2. SetUpTypes'
  BY <1>1 DEF SearchInv, SetUpTypes, NextLcore, portid
<1>3. PassedAreFar'
  BY <1>1 DEF SearchInv, SetUpTypes, PassedAreFar, Passed, NextLcore
<1>4. DealtAreNear'
  BY <1>1 DEF SearchInv, SetUpTypes, DealtAreNear, Near, portid
<1>5. GaveUp'
  BY <1>1 DEF SearchInv, GaveUp, NearLcores, Near
<1> QED
  BY <1>2, <1>3, <1>4, <1>5 DEF SearchInv

LEMMA SearchInvStep ==
  ASSUME SearchInv, [Next]_vars
  PROVE  SearchInv'
<1>1. CASE SearchLcore
  BY <1>1, SearchStep
<1>2. CASE DealPort
  BY <1>2, DealStep
<1>3. CASE AllDealt \/ ConfigureRxQueue \/ Launch
  BY <1>3, SearchUnchanged DEF AllDealt, ConfigureRxQueue, Launch
<1>4. CASE \E s \in Sockets : AddRule(s)
  BY <1>4, SearchUnchanged DEF AddRule, setup
<1>5. CASE \E p \in Ports : Arrive(p) \/ \E l \in Slaves : Transmit(p, l)
  BY <1>5, SearchUnchanged DEF Arrive, Transmit, setup
<1>6. CASE \E l \in Slaves : MainLoop(l)
  <2>1. UNCHANGED <<machine, lcoreid, prev_lcoreid, numa_ok, lcore_params>>
    BY <1>6 DEF MainLoop, Top, Drain, Drained, TxBurst, NoSuchPort, Sent, RxBurst, AllPolled, Lookup,
      Group, SendGroup, GroupsSent, setup
  <2> QED
    BY <2>1, SearchUnchanged
<1>7. CASE Failed \/ Dead \/ UNCHANGED vars
  BY <1>7, SearchUnchanged DEF Failed, Dead, vars, setup
<1> QED
  BY <1>1, <1>2, <1>3, <1>4, <1>5, <1>6, <1>7 DEF Next, SetUp

LEMMA SearchInvInit == Init => SearchInv
BY SizesAssumption
   DEF Init, SearchInv, SetUpTypes, PassedAreFar, Passed, DealtAreNear, GaveUp, Slaves

\* A port is dealt to an lcore of another node only on a machine that has a
\* port with at most one lcore on its node (configure_lcore_params).
THEOREM RemoteOnly == Spec => []RemoteOnlyWhenShort
<1>1. Init => SearchInv
  BY SearchInvInit
<1>2. SearchInv /\ [Next]_vars => SearchInv'
  BY SearchInvStep
<1>3. SearchInv => RemoteOnlyWhenShort
  BY DEF SearchInv, DealtAreNear, GaveUp, RemoteOnlyWhenShort
<1> QED
  BY <1>1, <1>2, <1>3, PTL DEF Spec
=============================================================================
