------------------------- MODULE LcoreInitProofs -------------------------
(***************************************************************************)
(* Theorems about LcoreInit, for every machine: any number of lcores and   *)
(* ports, any NUMA nodes, and any limit of ports per lcore.  The second    *)
(* part is about how the ports are shared out: the start fails only when   *)
(* there is too little room, and on one node no lcore gets two ports more  *)
(* than another of its type.                                               *)
(***************************************************************************)
EXTENDS LcoreInit, TLAPS, SequenceTheorems, WellFoundedInduction, FiniteSetTheorems, FunctionTheorems

-----------------------------------------------------------------------------
(***************************************************************************)
(* The search for an lcore.                                                *)
(***************************************************************************)

\* A set of naturals that is not empty has a least element.
LEMMA LeastNatural ==
  ASSUME NEW S, S \subseteq Nat, S # {}
  PROVE  \E m \in S : \A n \in S : m <= n
<1>1. PICK m \in S : \A n \in S : <<n, m>> \notin OpToRel(<, Nat)
  BY NatLessThanWellFounded, WFMin, Zenon
<1>2. \A n \in S : ~(n < m)
  BY <1>1 DEF OpToRel
<1> QED BY <1>2

\* When there is a candidate, get_next_lcore returns the first one after prev.
LEMMA NextLcoreIsCandidate ==
  ASSUME TypeOK, NEW t \in Data, NEW p \in Ports, ~NoLcore(t, p)
  PROVE  /\ GetNextLcore(t, p) \in Candidates(t, p)
         /\ \A k \in Candidates(t, p) : Distance(GetNextLcore(t, p)) <= Distance(k)
<1> DEFINE C == Candidates(t, p)
           D == {Distance(l) : l \in C}
<1>1. C # {} /\ C \subseteq Lcores
  BY DEF NoLcore, Candidates, OnNode, HasRoom, OfType
<1>2. nb_lcores \in Nat \ {0} /\ prev \in Nat /\ \A l \in C : l \in Int
  BY <1>1 DEF TypeOK, Lcores
<1>3. \A a \in Int, b \in Nat \ {0} : a % b \in Nat
  OBVIOUS
<1>4. \A l \in C : Distance(l) \in Nat
  BY <1>2, <1>3 DEF Distance
<1>5. D \subseteq Nat /\ D # {}
  BY <1>1, <1>4
<1>6. PICK m \in D : \A n \in D : m <= n
  BY <1>5, LeastNatural, Zenon
<1>7. \E l \in C : \A k \in C : Distance(l) <= Distance(k)
  BY <1>6
<1> HIDE DEF C, D
<1> QED BY <1>7, Zenon DEF GetNextLcore, C

\* What the lcore found is like: of the type, with room, and on the port's
\* node unless no lcore there has room.
LEMMA NextLcoreProperties ==
  ASSUME TypeOK, NEW t \in Data, NEW p \in Ports, ~NoLcore(t, p)
  PROVE  LET l == GetNextLcore(t, p)
         IN  /\ l \in OfType(t) /\ l \in Lcores
             /\ Len(port_list[l]) < LcorePortMax
             /\ lcore_socket[l] = port_numa[p] \/ OnNode(HasRoom(t), p) = {}
<1> DEFINE l == GetNextLcore(t, p)
<1>1. l \in Candidates(t, p)
  BY NextLcoreIsCandidate
<1>2. l \in HasRoom(t)
  BY <1>1 DEF Candidates, OnNode
<1>3. lcore_socket[l] = port_numa[p] \/ OnNode(HasRoom(t), p) = {}
  BY <1>1 DEF Candidates, OnNode
<1> HIDE DEF l
<1>4. l \in OfType(t) /\ l \in Lcores /\ Len(port_list[l]) < LcorePortMax
  BY <1>2 DEF HasRoom, OfType
<1> QED BY <1>3, <1>4 DEF l

\* Dealing a port adds it to the list of one lcore with room for it, and to
\* no other; the lcore is off the port's node only if that one is full.
LEMMA DealServes ==
  ASSUME TypeOK, NEW t \in Data, DealPort(t)
  PROVE  /\ port_id \in Ports
         /\ \E l \in OfType(t) :
              /\ l \in Lcores /\ Len(port_list[l]) < LcorePortMax
              /\ lcore_socket[l] = port_numa[port_id] \/ OnNode(HasRoom(t), port_id) = {}
              /\ port_list' = [port_list EXCEPT ![l] = Append(@, port_id)] /\ prev' = l
              /\ Len(port_list'[l]) = Len(port_list[l]) + 1
              /\ \A k \in Lcores : k # l => port_list'[k] = port_list[k]
              /\ \A k \in Lcores, p \in Ports :
                   Serves(k, p)' <=> Serves(k, p) \/ (k = l /\ p = port_id)
<1>1. port_id \in Ports /\ ~NoLcore(t, port_id)
  BY DEF DealPort, TypeOK, Ports
<1>2. PICK l : l = GetNextLcore(t, port_id)
  OBVIOUS
<1>3. /\ l \in OfType(t) /\ l \in Lcores /\ Len(port_list[l]) < LcorePortMax
      /\ lcore_socket[l] = port_numa[port_id] \/ OnNode(HasRoom(t), port_id) = {}
  BY <1>1, <1>2, NextLcoreProperties
<1>4. port_list' = [port_list EXCEPT ![l] = Append(@, port_id)] /\ prev' = l
  BY <1>2 DEF DealPort
<1>5. port_list[l] \in Seq(Ports) /\ port_list'[l] = Append(port_list[l], port_id)
  BY <1>3, <1>4 DEF TypeOK
<1>6. /\ Len(port_list'[l]) = Len(port_list[l]) + 1
      /\ \A n \in 1 .. Len(port_list[l]) : port_list'[l][n] = port_list[l][n]
      /\ port_list'[l][Len(port_list[l]) + 1] = port_id
      /\ Len(port_list[l]) \in Nat
      /\ DOMAIN port_list[l] = 1 .. Len(port_list[l])
      /\ DOMAIN port_list'[l] = 1 .. Len(port_list[l]) + 1
  BY <1>1, <1>5, AppendProperties, LenProperties
<1>7. \A k \in Lcores : k # l => port_list'[k] = port_list[k]
  BY <1>4 DEF TypeOK
<1>8. \A p \in Ports : Serves(l, p)' <=> Serves(l, p) \/ p = port_id
  <2> TAKE p \in Ports
  <2>1. Serves(l, p)' <=> \E n \in 1 .. Len(port_list[l]) + 1 : port_list'[l][n] = p
    BY <1>6 DEF Serves
  <2>2. Serves(l, p) <=> \E n \in 1 .. Len(port_list[l]) : port_list[l][n] = p
    BY <1>6 DEF Serves
  <2> QED BY <1>6, <2>1, <2>2
<1>9. \A k \in Lcores, p \in Ports : k # l => (Serves(k, p)' <=> Serves(k, p))
  BY <1>7 DEF Serves
<1>10. \A k \in Lcores, p \in Ports :
         Serves(k, p)' <=> Serves(k, p) \/ (k = l /\ p = port_id)
  BY <1>3, <1>8, <1>9
<1> QED BY <1>1, <1>3, <1>4, <1>6, <1>7, <1>10
-----------------------------------------------------------------------------
(***************************************************************************)
(* The inductive invariant: while types are being set no port has been     *)
(* dealt, and everything that has been dealt is where it should be.        *)
(***************************************************************************)
NothingDealt == pc = "types" => \A l \in Lcores : port_list[l] = <<>>
InitInv == TypeOK /\ NothingDealt /\ ServedByOne /\ RemoteOnlyWhenFull

\* With empty lists nobody serves a port.
LEMMA EmptyServesNone ==
  ASSUME NEW l \in Lcores, port_list[l] = <<>>, NEW p
  PROVE  ~Serves(l, p)
BY DEF Serves

LEMMA InitHolds ==
  ASSUME Init
  PROVE  InitInv
<1>1. nb_lcores \in Nat /\ nb_ports \in Nat \ {0}
  BY InitAssumption DEF Init
<1>2. TypeOK
  BY <1>1, InitAssumption DEF Init, TypeOK, Lcores, Ports
<1>3. \A l \in Lcores : port_list[l] = <<>>
  BY DEF Init
<1>4. \A t \in Data : \A l \in OfType(t) : \A p \in Ports : ~Serves(l, p)
  BY <1>3, EmptyServesNone DEF OfType
<1>5. \A t \in Data : pc # "panic" => Dealt(t) = {}
  BY DEF Init, Dealt, Data
<1> QED BY <1>2, <1>3, <1>4, <1>5 DEF InitInv, NothingDealt, ServedByOne, RemoteOnlyWhenFull

LEMMA SetTypesKeeps ==
  ASSUME InitInv, SetTypes
  PROVE  InitInv'
<1>1. UNCHANGED <<nb_lcores, lcore_socket, nb_ports, port_numa, port_list, pc, port_id, prev>>
  BY DEF SetTypes, machine
<1>2. pc = "types" /\ \A l \in Lcores : port_list[l] = <<>>
  BY DEF InitInv, NothingDealt, SetTypes
<1>3. i' \in Nat /\ type' \in [Lcores -> {"unused", "default", "rx", "tx"}]
  BY DEF InitInv, TypeOK, SetTypes
<1>4. TypeOK'
  BY <1>1, <1>3 DEF InitInv, TypeOK, Lcores, Ports
<1>5. \A l \in Lcores' : port_list'[l] = <<>>
  BY <1>1, <1>2 DEF Lcores
<1>6. \A t \in Data : \A l \in OfType(t)' : \A p \in Ports' : ~Serves(l, p)'
  BY <1>5 DEF Serves, OfType
<1>7. \A t \in Data : Dealt(t)' = {}
  BY <1>1, <1>2 DEF Dealt, Data
<1> QED BY <1>4, <1>5, <1>6, <1>7 DEF InitInv, NothingDealt, ServedByOne, RemoteOnlyWhenFull

LEMMA TypesSetKeeps ==
  ASSUME InitInv, TypesSet
  PROVE  InitInv'
<1>1. UNCHANGED <<nb_lcores, lcore_socket, nb_ports, port_numa, type, port_list, i>>
  BY DEF TypesSet, machine
<1>2. pc = "types" /\ pc' = "rx" /\ port_id' = 0 /\ prev' = 0
  BY DEF TypesSet
<1>3. TypeOK'
  BY <1>1, <1>2 DEF InitInv, TypeOK, Lcores, Ports
<1>4. \A l \in Lcores' : port_list'[l] = <<>>
  BY <1>1, <1>2 DEF Lcores, InitInv, NothingDealt
<1>5. \A t \in Data : \A l \in OfType(t)' : \A p \in Ports' : ~Serves(l, p)'
  BY <1>4 DEF Serves, OfType
<1>6. \A t \in Data : Dealt(t)' = {}
  BY <1>2 DEF Dealt, Data
<1> QED BY <1>2, <1>3, <1>5, <1>6 DEF InitInv, NothingDealt, ServedByOne, RemoteOnlyWhenFull

LEMMA DealPortKeeps ==
  ASSUME InitInv, NEW t \in Data, DealPort(t)
  PROVE  InitInv'
<1>1. /\ UNCHANGED <<nb_lcores, lcore_socket, nb_ports, port_numa, type, pc, i>>
      /\ pc = t /\ port_id' = port_id + 1
  BY DEF DealPort, machine
<1>2. TypeOK /\ port_id \in Ports /\ port_id < nb_ports /\ nb_ports \in Nat
  BY DealServes DEF InitInv, TypeOK, DealPort
<1>3. PICK l \in OfType(t) :
        /\ l \in Lcores /\ Len(port_list[l]) < LcorePortMax
        /\ lcore_socket[l] = port_numa[port_id] \/ OnNode(HasRoom(t), port_id) = {}
        /\ port_list' = [port_list EXCEPT ![l] = Append(@, port_id)] /\ prev' = l
        /\ Len(port_list'[l]) = Len(port_list[l]) + 1
        /\ \A k \in Lcores : k # l => port_list'[k] = port_list[k]
        /\ \A k \in Lcores, p \in Ports :
             Serves(k, p)' <=> Serves(k, p) \/ (k = l /\ p = port_id)
  BY <1>2, DealServes
<1>4. Lcores' = Lcores /\ Ports' = Ports /\ \A s \in Data : OfType(s)' = OfType(s)
  BY <1>1 DEF Lcores, Ports, OfType
<1>5. \A k \in Lcores : Len(port_list[k]) \in Nat /\ Len(port_list[k]) <= LcorePortMax
  BY <1>2, LenProperties DEF TypeOK
<1>6. \A k \in Lcores : Len(port_list'[k]) <= LcorePortMax /\ Len(port_list[k]) <= Len(port_list'[k])
  BY <1>3, <1>5, InitAssumption
<1>7. TypeOK'
  <2>1. port_list' \in [Lcores -> Seq(Ports)]
    <3>1. Append(port_list[l], port_id) \in Seq(Ports)
      BY <1>2, <1>3, AppendProperties DEF TypeOK
    <3> QED BY <1>2, <1>3, <3>1 DEF TypeOK
  <2>2. port_id' \in 0 .. nb_ports' /\ prev' \in Nat
    BY <1>1, <1>2, <1>3 DEF Ports, Lcores, TypeOK
  <2> QED BY <1>1, <1>2, <1>4, <1>6, <2>1, <2>2 DEF TypeOK
<1>8. NothingDealt'
  BY <1>1 DEF NothingDealt, Data
<1>9. \A s \in Data : Dealt(s)' = IF s = t THEN Dealt(s) \cup {port_id} ELSE Dealt(s)
  <2>1. 0 .. (port_id + 1) - 1 = (0 .. port_id - 1) \cup {port_id}
    BY <1>2 DEF Ports
  <2> QED BY <1>1, <1>4, <2>1 DEF Dealt, Data
<1>10. ServedByOne'
  <2>1. ServedByOne /\ pc # "panic"
    BY <1>1 DEF InitInv, Data
  <2>2. port_id \notin Dealt(t)
    BY <1>1, <1>2 DEF Dealt, Data, Ports
  <2> SUFFICES ASSUME NEW s \in Data, NEW p \in Ports
               PROVE  IF p \in Dealt(s)'
                      THEN \E k \in OfType(s) :
                             Serves(k, p)' /\ \A m \in OfType(s) : Serves(m, p)' => m = k
                      ELSE \A k \in OfType(s) : ~Serves(k, p)'
    BY <1>4 DEF ServedByOne
  <2>3. IF p \in Dealt(s)
        THEN \E k \in OfType(s) : Serves(k, p) /\ \A m \in OfType(s) : Serves(m, p) => m = k
        ELSE \A k \in OfType(s) : ~Serves(k, p)
    BY <2>1 DEF ServedByOne
  <2>4. \A k \in OfType(s) : k \in Lcores
    BY DEF OfType
  <2>5. CASE s = t /\ p = port_id
    BY <1>3, <1>9, <2>2, <2>3, <2>4, <2>5
  <2>6. CASE s = t /\ p # port_id
    BY <1>3, <1>9, <2>3, <2>4, <2>6
  <2>7. CASE s # t
    <3>1. \A k \in OfType(s) : k # l
      BY <1>3, <2>7 DEF OfType
    <3> QED BY <1>3, <1>9, <2>3, <2>4, <2>7, <3>1
  <2> QED BY <2>5, <2>6, <2>7
<1>11. RemoteOnlyWhenFull'
  <2> SUFFICES ASSUME NEW s \in Data, NEW k \in OfType(s), NEW p \in Ports,
                      Serves(k, p)', lcore_socket[k] # port_numa[p]
               PROVE  OnNode(HasRoom(s), p)' = {}
    BY <1>1, <1>4 DEF RemoteOnlyWhenFull
  <2>1. OnNode(HasRoom(s), p)' \subseteq OnNode(HasRoom(s), p)
    BY <1>1, <1>4, <1>5, <1>6, InitAssumption DEF OnNode, HasRoom, OfType
  <2>2. k \in Lcores
    BY DEF OfType
  <2>3. CASE Serves(k, p)
    BY <2>1, <2>3 DEF InitInv, RemoteOnlyWhenFull
  <2>4. CASE ~Serves(k, p)
    <3>1. k = l /\ p = port_id
      BY <1>3, <2>2, <2>4
    <3>2. s = t
      BY <1>3, <3>1 DEF OfType
    <3> QED BY <1>3, <2>1, <3>1, <3>2
  <2> QED BY <2>3, <2>4
<1> QED BY <1>7, <1>8, <1>10, <1>11 DEF InitInv

LEMMA NoLcoreLeftKeeps ==
  ASSUME InitInv, NEW t \in Data, NoLcoreLeft(t)
  PROVE  InitInv'
<1>1. /\ UNCHANGED <<nb_lcores, lcore_socket, nb_ports, port_numa, type, port_list, i, port_id, prev>>
      /\ pc' = "panic"
  BY DEF NoLcoreLeft, machine
<1>2. TypeOK'
  BY <1>1 DEF InitInv, TypeOK, Lcores, Ports
<1>3. RemoteOnlyWhenFull'
  BY <1>1 DEF InitInv, RemoteOnlyWhenFull, OfType, Lcores, Ports, Serves, OnNode, HasRoom
<1> QED BY <1>1, <1>2, <1>3 DEF InitInv, NothingDealt, ServedByOne

LEMMA AllDealtKeeps ==
  ASSUME InitInv, NEW t \in Data, AllDealt(t)
  PROVE  InitInv'
<1>1. /\ UNCHANGED <<nb_lcores, lcore_socket, nb_ports, port_numa, type, port_list, i>>
      /\ pc = t /\ port_id >= nb_ports /\ port_id' = 0 /\ prev' = 0
      /\ pc' = IF t = "rx" THEN "tx" ELSE "done"
  BY DEF AllDealt, machine
<1>2. TypeOK'
  BY <1>1 DEF InitInv, TypeOK, Lcores, Ports, Data
<1>3. RemoteOnlyWhenFull'
  BY <1>1 DEF InitInv, RemoteOnlyWhenFull, OfType, Lcores, Ports, Serves, OnNode, HasRoom
<1>4. \A s \in Data : Dealt(s)' = Dealt(s)
  <2>1. port_id \in 0 .. nb_ports /\ nb_ports \in Nat
    BY DEF InitInv, TypeOK
  <2>2. 0 .. port_id - 1 = Ports /\ 0 .. port_id' - 1 = {}
    BY <1>1, <2>1 DEF Ports
  <2>3. Ports' = Ports
    BY <1>1 DEF Ports
  <2> QED BY <1>1, <2>2, <2>3 DEF Dealt, Data
<1>5. ServedByOne'
  <2>1. pc # "panic" /\ pc' \notin {"panic", "types"}
    BY <1>1 DEF Data
  <2>2. Lcores' = Lcores /\ Ports' = Ports
    BY <1>1 DEF Lcores, Ports
  <2>3. \A s \in Data : OfType(s)' = OfType(s)
    BY <1>1, <2>2 DEF OfType
  <2>4. \A k, p : Serves(k, p)' <=> Serves(k, p)
    BY <1>1 DEF Serves
  <2> QED BY <1>4, <2>1, <2>2, <2>3, <2>4 DEF InitInv, ServedByOne
<1>6. NothingDealt'
  BY <1>1 DEF NothingDealt, Data
<1> QED BY <1>2, <1>3, <1>5, <1>6 DEF InitInv

\* A step that changes nothing.
LEMMA StutterKeeps ==
  ASSUME InitInv, UNCHANGED vars
  PROVE  InitInv'
<1>1. UNCHANGED <<nb_lcores, lcore_socket, nb_ports, port_numa, type, port_list, pc, i, port_id, prev>>
  BY DEF vars, machine
<1>2. Lcores' = Lcores /\ Ports' = Ports
  BY <1>1 DEF Lcores, Ports
<1>3. /\ \A t \in Data : OfType(t)' = OfType(t) /\ Dealt(t)' = Dealt(t)
      /\ \A l, p : Serves(l, p)' <=> Serves(l, p)
  BY <1>1, <1>2 DEF OfType, Dealt, Serves
<1>4. TypeOK' /\ NothingDealt'
  BY <1>1, <1>2 DEF InitInv, TypeOK, NothingDealt
<1>5. ServedByOne'
  BY <1>1, <1>2, <1>3 DEF InitInv, ServedByOne
<1>6. RemoteOnlyWhenFull'
  BY <1>1, <1>2, <1>3 DEF InitInv, RemoteOnlyWhenFull, OnNode, HasRoom
<1> QED BY <1>4, <1>5, <1>6 DEF InitInv

LEMMA InitInvInductive == Spec => []InitInv
<1>1. Init => InitInv
  BY InitHolds
<1>2. InitInv /\ [Next]_vars => InitInv'
  <2> SUFFICES ASSUME InitInv, [Next]_vars
               PROVE  InitInv'
    OBVIOUS
  <2>1. CASE SetTypes
    BY <2>1, SetTypesKeeps
  <2>2. CASE TypesSet
    BY <2>2, TypesSetKeeps
  <2>3. ASSUME NEW t \in Data, DealPort(t)
        PROVE  InitInv'
    BY <2>3, DealPortKeeps
  <2>4. ASSUME NEW t \in Data, NoLcoreLeft(t)
        PROVE  InitInv'
    BY <2>4, NoLcoreLeftKeeps
  <2>5. ASSUME NEW t \in Data, AllDealt(t)
        PROVE  InitInv'
    BY <2>5, AllDealtKeeps
  <2>6. CASE Ended
    BY <2>6, StutterKeeps DEF Ended
  <2>7. CASE UNCHANGED vars
    BY <2>7, StutterKeeps
  <2> QED BY <2>1, <2>2, <2>3, <2>4, <2>5, <2>6, <2>7 DEF Next
<1> QED BY <1>1, <1>2, PTL DEF Spec
-----------------------------------------------------------------------------
\* Start-up keeps its types, and no lcore gets more ports than its array holds
\* (init_lcores_data_rx, init_lcores_data_tx), on every machine.
THEOREM StartTypes == Spec => []TypeOK
<1>1. InitInv => TypeOK
  BY DEF InitInv
<1> QED BY <1>1, InitInvInductive, PTL

\* A port that has been dealt is served by one lcore of each type: each ring
\* has the single consumer it is created for (init_rings, RING_F_SC_DEQ).
THEOREM OneServer == Spec => []ServedByOne
<1>1. InitInv => ServedByOne
  BY DEF InitInv
<1> QED BY <1>1, InitInvInductive, PTL

\* get_next_lcore takes an lcore of another node only when those of the port's
\* node are full.
THEOREM RemoteOnlyFull == Spec => []RemoteOnlyWhenFull
<1>1. InitInv => RemoteOnlyWhenFull
  BY DEF InitInv
<1> QED BY <1>1, InitInvInductive, PTL

-----------------------------------------------------------------------------
(* How the ports are shared out. *)

-----------------------------------------------------------------------------
(***************************************************************************)
(* Room.  When no lcore of a type is left their lists are full, and the    *)
(* ports in them are different ones: there is at least one more port than  *)
(* all the lists can hold.                                                 *)
(***************************************************************************)

\* No port is twice in a list.
NoRepeats ==
  \A l \in Lcores : \A x, y \in 1 .. Len(port_list[l]) :
    port_list[l][x] = port_list[l][y] => x = y

LEMMA OfTypeFinite ==
  ASSUME TypeOK, NEW t
  PROVE  IsFiniteSet(OfType(t)) /\ Cardinality(OfType(t)) \in Nat
<1>1. IsFiniteSet(Lcores)
  BY FS_Interval DEF Lcores, TypeOK
<1>2. OfType(t) \in SUBSET Lcores
  BY DEF OfType
<1>3. IsFiniteSet(OfType(t))
  BY <1>1, <1>2, FS_Subset
<1> QED BY <1>3, FS_CardinalityType

\* A place in a list tells which port it is, and a port its place.
LEMMA FullIsShort ==
  ASSUME InitInv, NoRepeats, NEW t \in Data, NoLcoreLeft(t)
  PROVE  nb_ports > LcorePortMax * Cardinality(OfType(t))
<1> DEFINE Places == OfType(t) \X (1 .. LcorePortMax)
           Given == 0 .. port_id - 1
           PortAt == [s \in Places |-> port_list[s[1]][s[2]]]
<1>1. /\ TypeOK /\ pc = t /\ port_id < nb_ports /\ port_id \in Nat /\ nb_ports \in Nat
      /\ ServedByOne /\ pc # "panic" /\ Dealt(t) = Given
  BY DEF InitInv, NoLcoreLeft, TypeOK, Data, Dealt
<1>2. HasRoom(t) = {}
  BY DEF NoLcoreLeft, NoLcore, Candidates
<1>3. \A l \in OfType(t) :
        /\ l \in Lcores /\ Len(port_list[l]) = LcorePortMax
        /\ port_list[l] \in Seq(Ports) /\ DOMAIN port_list[l] = 1 .. LcorePortMax
  <2> TAKE l \in OfType(t)
  <2>1. l \in Lcores /\ port_list[l] \in Seq(Ports) /\ Len(port_list[l]) <= LcorePortMax
    BY <1>1 DEF OfType, TypeOK
  <2>2. Len(port_list[l]) \in Nat /\ DOMAIN port_list[l] = 1 .. Len(port_list[l])
    BY <2>1, LenProperties
  <2>3. ~(Len(port_list[l]) < LcorePortMax)
    BY <1>2 DEF HasRoom
  <2> QED BY <2>1, <2>2, <2>3, InitAssumption
<1>4. \A l \in OfType(t), n \in 1 .. LcorePortMax :
        port_list[l][n] \in Ports /\ Serves(l, port_list[l][n])
  <2> TAKE l \in OfType(t), n \in 1 .. LcorePortMax
  <2>1. n \in DOMAIN port_list[l] /\ port_list[l] \in Seq(Ports)
    BY <1>3
  <2>2. port_list[l][n] \in Ports
    BY <2>1, ElementOfSeq, <1>3
  <2> QED BY <2>1, <2>2 DEF Serves
<1>5. \A l \in OfType(t), n \in 1 .. LcorePortMax : port_list[l][n] \in Given
  BY <1>1, <1>4 DEF ServedByOne
<1>6. \A k, l \in OfType(t), m, n \in 1 .. LcorePortMax :
        port_list[k][m] = port_list[l][n] => k = l /\ m = n
  <2> SUFFICES ASSUME NEW k \in OfType(t), NEW l \in OfType(t),
                      NEW m \in 1 .. LcorePortMax, NEW n \in 1 .. LcorePortMax,
                      port_list[k][m] = port_list[l][n]
               PROVE  k = l /\ m = n
    OBVIOUS
  <2>1. Serves(k, port_list[l][n]) /\ Serves(l, port_list[l][n]) /\ port_list[l][n] \in Given
        /\ port_list[l][n] \in Ports
    BY <1>4, <1>5
  <2>2. k = l
    BY <1>1, <2>1 DEF ServedByOne
  <2> QED BY <1>3, <2>2 DEF NoRepeats
<1>7. PortAt \in Injection(Places, Given)
  <2>1. PortAt \in [Places -> Given]
    BY <1>5
  <2>2. \A a, b \in Places : PortAt[a] = PortAt[b] => a = b
    BY <1>6
  <2> QED BY <2>1, <2>2, Fun_IsInj
<1>8. IsFiniteSet(Given) /\ Cardinality(Given) = port_id
  BY <1>1, FS_Interval
<1>9. Cardinality(Places) <= port_id
  BY <1>7, <1>8, FS_Injection
<1>10. Cardinality(Places) = Cardinality(OfType(t)) * LcorePortMax
  <2>1. IsFiniteSet(1 .. LcorePortMax) /\ Cardinality(1 .. LcorePortMax) = LcorePortMax
    BY InitAssumption, FS_Interval
  <2> QED BY <1>1, <2>1, OfTypeFinite, FS_Product
<1> HIDE DEF Places, Given, PortAt
<1>11. LcorePortMax * Cardinality(OfType(t)) = Cardinality(OfType(t)) * LcorePortMax
  BY <1>1, OfTypeFinite, InitAssumption
<1> QED BY <1>1, <1>9, <1>10, <1>11, OfTypeFinite, InitAssumption

RoomInv == InitInv /\ NoRepeats /\ FailsOnlyWhenShort

LEMMA NoRepeatsKept ==
  ASSUME InitInv, NoRepeats, NEW t \in Data, DealPort(t)
  PROVE  NoRepeats'
<1>1. /\ Lcores' = Lcores /\ pc = t /\ pc # "panic" /\ TypeOK /\ ServedByOne
      /\ port_id \notin Dealt(t)
  BY DEF DealPort, machine, Lcores, Data, InitInv, Dealt, TypeOK
<1>2. port_id \in Ports
  BY <1>1, DealServes
<1>3. PICK l \in OfType(t) :
        /\ l \in Lcores
        /\ port_list' = [port_list EXCEPT ![l] = Append(@, port_id)]
        /\ \A k \in Lcores : k # l => port_list'[k] = port_list[k]
  BY <1>1, DealServes
<1>4. ~Serves(l, port_id)
  BY <1>1, <1>2, <1>3 DEF ServedByOne
<1>5. port_list[l] \in Seq(Ports) /\ port_list'[l] = Append(port_list[l], port_id)
  BY <1>1, <1>3 DEF TypeOK
<1>6. /\ Len(port_list'[l]) = Len(port_list[l]) + 1
      /\ \A n \in 1 .. Len(port_list[l]) : port_list'[l][n] = port_list[l][n]
      /\ port_list'[l][Len(port_list[l]) + 1] = port_id
      /\ Len(port_list[l]) \in Nat
      /\ DOMAIN port_list[l] = 1 .. Len(port_list[l])
  BY <1>2, <1>5, AppendProperties, LenProperties
<1>7. \A n \in 1 .. Len(port_list[l]) : port_list[l][n] # port_id
  BY <1>4, <1>6 DEF Serves
<1>8. \A x, y \in 1 .. Len(port_list'[l]) : port_list'[l][x] = port_list'[l][y] => x = y
  <2> SUFFICES ASSUME NEW x \in 1 .. Len(port_list[l]) + 1, NEW y \in 1 .. Len(port_list[l]) + 1,
                      port_list'[l][x] = port_list'[l][y]
               PROVE  x = y
    BY <1>6
  <2>1. CASE x \in 1 .. Len(port_list[l]) /\ y \in 1 .. Len(port_list[l])
    BY <1>3, <1>6, <2>1 DEF NoRepeats
  <2>2. CASE x \notin 1 .. Len(port_list[l]) \/ y \notin 1 .. Len(port_list[l])
    BY <1>6, <1>7, <2>2
  <2> QED BY <2>1, <2>2
<1> QED BY <1>1, <1>3, <1>8 DEF NoRepeats

\* A step that deals no port and does not fail.
LEMMA RoomFrame ==
  ASSUME RoomInv, UNCHANGED <<machine, port_list>>,
         pc' = "panic" => pc = "panic" /\ UNCHANGED type
  PROVE  NoRepeats' /\ FailsOnlyWhenShort'
<1>1. UNCHANGED <<nb_lcores, nb_ports, port_list>>
  BY DEF machine
<1>2. NoRepeats'
  BY <1>1 DEF RoomInv, NoRepeats, Lcores
<1>3. FailsOnlyWhenShort'
  BY <1>1 DEF RoomInv, FailsOnlyWhenShort, OfType, Lcores
<1> QED BY <1>2, <1>3

\* The start fails only with fewer than three lcores, or with more ports than
\* the lcores of a type have room for: get_next_lcore overlooks no lcore.
THEOREM NoNeedlessFailure == Spec => []FailsOnlyWhenShort
<1>1. Init => RoomInv
  <2> SUFFICES ASSUME Init PROVE RoomInv
    OBVIOUS
  <2>1. \A l \in Lcores : Len(port_list[l]) = 0
    BY DEF Init
  <2> QED BY <2>1, InitHolds DEF RoomInv, NoRepeats, FailsOnlyWhenShort, Init
<1>2. RoomInv /\ InitInv' /\ [Next]_vars => RoomInv'
  <2> SUFFICES ASSUME RoomInv, [Next]_vars
               PROVE  NoRepeats' /\ FailsOnlyWhenShort'
    BY DEF RoomInv
  <2>1. CASE SetTypes
    <3>1. pc' # "panic" /\ UNCHANGED <<machine, port_list>>
      BY <2>1 DEF SetTypes
    <3> QED BY <3>1, RoomFrame
  <2>2. CASE TypesSet
    <3>1. pc' # "panic" /\ UNCHANGED <<machine, port_list>>
      BY <2>2 DEF TypesSet
    <3> QED BY <3>1, RoomFrame
  <2>3. ASSUME NEW t \in Data, DealPort(t)
        PROVE  NoRepeats' /\ FailsOnlyWhenShort'
    <3>1. pc' # "panic"
      BY <2>3 DEF DealPort, Data
    <3> QED BY <2>3, <3>1, NoRepeatsKept DEF RoomInv, FailsOnlyWhenShort
  <2>4. ASSUME NEW t \in Data, NoLcoreLeft(t)
        PROVE  NoRepeats' /\ FailsOnlyWhenShort'
    <3>1. UNCHANGED <<nb_lcores, nb_ports, port_list, type>>
      BY <2>4 DEF NoLcoreLeft, machine
    <3>2. nb_ports > LcorePortMax * Cardinality(OfType(t))
      BY <2>4, FullIsShort DEF RoomInv
    <3>3. NoRepeats'
      BY <3>1 DEF RoomInv, NoRepeats, Lcores
    <3>4. FailsOnlyWhenShort'
      BY <3>1, <3>2 DEF FailsOnlyWhenShort, OfType, Lcores
    <3> QED BY <3>3, <3>4
  <2>5. ASSUME NEW t \in Data, AllDealt(t)
        PROVE  NoRepeats' /\ FailsOnlyWhenShort'
    <3>1. pc' # "panic" /\ UNCHANGED <<machine, port_list>>
      BY <2>5 DEF AllDealt, Data
    <3> QED BY <3>1, RoomFrame
  <2>6. CASE Ended \/ UNCHANGED vars
    <3>1. UNCHANGED <<machine, type, port_list, pc>>
      BY <2>6 DEF Ended, vars
    <3> QED BY <3>1, RoomFrame
  <2> QED BY <2>1, <2>2, <2>3, <2>4, <2>5, <2>6 DEF Next
<1>3. RoomInv => FailsOnlyWhenShort
  BY DEF RoomInv
<1> QED BY <1>1, <1>2, <1>3, InitInvInductive, PTL DEF Spec
-----------------------------------------------------------------------------
(***************************************************************************)
(* Evenness.  On one node the ports go round: the lcores of a type up to   *)
(* prev have had their turn in this round, those after it have not.        *)
(***************************************************************************)
RoundRobin(t) ==
  \A k, l \in OfType(t) :
    /\ (k <= prev <=> l <= prev) => Len(port_list[k]) = Len(port_list[l])
    /\ k <= prev /\ l > prev => Len(port_list[k]) = Len(port_list[l]) + 1

\* The % of get_next_lcore's search: on upwards, then round.
LEMMA GoRound ==
  ASSUME NEW n \in Nat \ {0}, NEW a \in Int
  PROVE  /\ 0 <= a /\ a < n => a % n = a
         /\ -n <= a /\ a < 0 => a % n = a + n
OBVIOUS

\* Lcores after prev come before those up to prev, and the nearer ones first.
LEMMA SearchOrder ==
  ASSUME TypeOK, prev \in Lcores, NEW k \in Lcores, NEW l \in Lcores,
         Distance(l) <= Distance(k)
  PROVE  /\ k > prev => l > prev /\ l <= k
         /\ k <= prev /\ l <= prev => l <= k
<1>1. nb_lcores \in Nat \ {0} /\ prev \in 0 .. nb_lcores - 1
      /\ k \in 0 .. nb_lcores - 1 /\ l \in 0 .. nb_lcores - 1
  BY DEF TypeOK, Lcores
<1>2. \A j \in {k, l} : /\ j > prev => Distance(j) = j - prev - 1
                        /\ j <= prev => Distance(j) = j - prev - 1 + nb_lcores
  <2> TAKE j \in {k, l}
  <2>1. j - prev - 1 \in Int /\ j \in Int /\ prev \in Int
    BY <1>1
  <2>2. CASE j > prev
    <3>1. 0 <= j - prev - 1 /\ j - prev - 1 < nb_lcores
      BY <1>1, <2>2
    <3>2. (j - prev - 1) % nb_lcores = j - prev - 1
      BY <1>1, <2>1, <3>1, GoRound
    <3> QED BY <2>1, <2>2, <3>2 DEF Distance
  <2>3. CASE j <= prev
    <3>1. -nb_lcores <= j - prev - 1 /\ j - prev - 1 < 0
      BY <1>1, <2>3
    <3>2. (j - prev - 1) % nb_lcores = j - prev - 1 + nb_lcores
      BY <1>1, <2>1, <3>1, GoRound
    <3> QED BY <2>1, <2>3, <3>2 DEF Distance
  <2> QED BY <2>1, <2>2, <2>3
<1> QED BY <1>1, <1>2

\* With one node each lcore is on each port's node.
LEMMA SameNode ==
  ASSUME TypeOK, OneNode
  PROVE  \A l \in Lcores, p \in Ports : lcore_socket[l] = port_numa[p]
<1> DEFINE L == {lcore_socket[l] : l \in Lcores}
           P == {port_numa[p] : p \in Ports}
<1>1. IsFiniteSet(Lcores) /\ IsFiniteSet(Ports)
  BY FS_Interval DEF Lcores, Ports, TypeOK
<1>2. lcore_socket \in Surjection(Lcores, L) /\ port_numa \in Surjection(Ports, P)
  <2>1. lcore_socket \in [Lcores -> L] /\ port_numa \in [Ports -> P]
    BY DEF TypeOK
  <2> QED BY <2>1, Fun_IsSurj
<1>3. IsFiniteSet(L) /\ IsFiniteSet(P)
  BY <1>1, <1>2, FS_Surjection
<1>4. IsFiniteSet(L \cup P) /\ Cardinality(L \cup P) = 1
  BY <1>3, FS_Union DEF OneNode
<1>5. \E x : L \cup P = {x}
  BY <1>4, FS_Singleton
<1> QED BY <1>5

\* On one node the lcore found goes on with the round, or starts a new one.
LEMMA DealGoesRound ==
  ASSUME InitInv, OneNode, NEW t \in Data, DealPort(t), prev \in Lcores, RoundRobin(t)
  PROVE  prev' \in Lcores /\ RoundRobin(t)'
<1> DEFINE l == GetNextLcore(t, port_id)
<1>1. /\ TypeOK /\ port_id \in Ports /\ ~NoLcore(t, port_id)
      /\ UNCHANGED <<nb_lcores, lcore_socket, nb_ports, port_numa, type>>
  BY DealServes DEF InitInv, DealPort, machine
<1>2. /\ prev' = l
      /\ port_list' = [port_list EXCEPT ![l] = Append(@, port_id)]
  BY DEF DealPort
<1>3. l \in OfType(t) /\ l \in Lcores /\ Len(port_list[l]) < LcorePortMax
  BY <1>1, NextLcoreProperties
<1>4. OnNode(HasRoom(t), port_id) = HasRoom(t)
  BY <1>1, SameNode DEF OnNode, HasRoom, OfType
<1>5. Candidates(t, port_id) = HasRoom(t)
  BY <1>4 DEF Candidates
<1>6. \A k \in HasRoom(t) : Distance(l) <= Distance(k)
  BY <1>1, <1>5, NextLcoreIsCandidate
<1> HIDE DEF l
<1>7. \A k \in OfType(t) : k \in Lcores /\ k \in Int /\ Len(port_list[k]) \in Nat
  BY <1>1, LenProperties DEF OfType, TypeOK, Lcores
<1>8. prev \in Int /\ l \in Int /\ LcorePortMax \in Nat
  BY <1>3, <1>7, InitAssumption DEF Lcores, TypeOK
<1>9. \A k \in OfType(t) : k > prev => k \in HasRoom(t)
  <2> SUFFICES ASSUME NEW k \in OfType(t), k > prev PROVE Len(port_list[k]) < LcorePortMax
    BY DEF HasRoom
  <2>1. Len(port_list[k]) <= Len(port_list[l])
    BY <1>3, <1>7, <1>8 DEF RoundRobin
  <2> QED BY <1>3, <1>7, <1>8, <2>1
<1>10. /\ Len(port_list'[l]) = Len(port_list[l]) + 1
       /\ \A k \in OfType(t) : k # l => port_list'[k] = port_list[k]
  <2>1. port_list[l] \in Seq(Ports) /\ port_list'[l] = Append(port_list[l], port_id)
    BY <1>1, <1>2, <1>3 DEF TypeOK
  <2>2. Len(port_list'[l]) = Len(port_list[l]) + 1
    BY <1>1, <2>1, AppendProperties
  <2>3. \A k \in OfType(t) : k # l => port_list'[k] = port_list[k]
    BY <1>1, <1>2, <1>7 DEF TypeOK
  <2> QED BY <2>2, <2>3
<1>11. Lcores' = Lcores /\ OfType(t)' = OfType(t)
  BY <1>1 DEF Lcores, OfType
<1> SUFFICES ASSUME NEW a \in OfType(t), NEW b \in OfType(t)
             PROVE  /\ (a <= l <=> b <= l) => Len(port_list'[a]) = Len(port_list'[b])
                    /\ a <= l /\ b > l => Len(port_list'[a]) = Len(port_list'[b]) + 1
  BY <1>2, <1>3, <1>11 DEF RoundRobin
<1>12. /\ (a <= prev <=> b <= prev) => Len(port_list[a]) = Len(port_list[b])
       /\ a <= prev /\ b > prev => Len(port_list[a]) = Len(port_list[b]) + 1
       /\ b <= prev /\ a > prev => Len(port_list[b]) = Len(port_list[a]) + 1
       /\ (a <= prev <=> l <= prev) => Len(port_list[a]) = Len(port_list[l])
       /\ (b <= prev <=> l <= prev) => Len(port_list[b]) = Len(port_list[l])
       /\ a <= prev /\ l > prev => Len(port_list[a]) = Len(port_list[l]) + 1
       /\ b <= prev /\ l > prev => Len(port_list[b]) = Len(port_list[l]) + 1
  BY <1>3 DEF RoundRobin
<1>13. /\ a = l => Len(port_list'[a]) = Len(port_list[a]) + 1
       /\ a # l => Len(port_list'[a]) = Len(port_list[a])
       /\ b = l => Len(port_list'[b]) = Len(port_list[b]) + 1
       /\ b # l => Len(port_list'[b]) = Len(port_list[b])
  BY <1>10
<1>14. CASE l > prev
  <2>1. \A k \in OfType(t) : k > prev => l <= k
    BY <1>1, <1>3, <1>6, <1>7, <1>9, SearchOrder
  <2>2. \A k \in OfType(t) : k <= l <=> k <= prev \/ k = l
    BY <1>7, <1>8, <1>14, <2>1
  <2>3. /\ a <= l <=> a <= prev \/ a = l
        /\ b <= l <=> b <= prev \/ b = l
    BY <2>2
  <2>4. /\ a \in Int /\ b \in Int
        /\ Len(port_list[a]) \in Nat /\ Len(port_list[b]) \in Nat /\ Len(port_list[l]) \in Nat
    BY <1>3, <1>7
  <2> QED BY <1>8, <1>12, <1>13, <1>14, <2>3, <2>4
<1>15. CASE l <= prev
  <2>1. \A k \in OfType(t) : k <= prev
    BY <1>1, <1>3, <1>6, <1>7, <1>8, <1>9, <1>15, SearchOrder
  <2>2. \A k \in OfType(t) : Len(port_list[k]) = Len(port_list[l])
    BY <1>3, <1>15, <2>1 DEF RoundRobin
  <2>3. \A k \in OfType(t) : k \in HasRoom(t)
    BY <1>3, <2>2 DEF HasRoom
  <2>4. \A k \in OfType(t) : l <= k
    BY <1>1, <1>3, <1>6, <1>7, <1>15, <2>1, <2>3, SearchOrder
  <2>5. \A k \in OfType(t) : k <= l <=> k = l
    BY <1>7, <1>8, <2>4
  <2>6. /\ a <= l <=> a = l
        /\ b <= l <=> b = l
        /\ Len(port_list[a]) = Len(port_list[l]) /\ Len(port_list[b]) = Len(port_list[l])
        /\ a \in Int /\ b \in Int /\ Len(port_list[l]) \in Nat
    BY <1>3, <1>7, <2>2, <2>5
  <2> QED BY <1>8, <1>13, <2>6
<1> QED BY <1>7, <1>8, <1>14, <1>15

\* The round of the type being dealt to, and what it left of the others.
Even(t) == \A k, l \in OfType(t) : Len(port_list[k]) <= Len(port_list[l]) + 1
EvenInv ==
  /\ InitInv
  /\ pc # "panic" => type[0] = "default" /\ prev \in Lcores
  /\ OneNode => \A t \in Data : IF pc = t THEN RoundRobin(t) ELSE Even(t)

\* While nothing is dealt to lcores of a type their lists are empty.
LEMMA NothingDealtIsEmpty ==
  ASSUME TypeOK, ServedByOne, pc # "panic", NEW t \in Data, Dealt(t) = {}
  PROVE  \A l \in OfType(t) : Len(port_list[l]) = 0
<1> SUFFICES ASSUME NEW l \in OfType(t), Len(port_list[l]) # 0
             PROVE  FALSE
  OBVIOUS
<1>1. l \in Lcores /\ port_list[l] \in Seq(Ports)
  BY DEF OfType, TypeOK
<1>2. 1 \in DOMAIN port_list[l] /\ port_list[l][1] \in Ports
  BY <1>1, LenProperties, ElementOfSeq
<1> QED BY <1>2 DEF ServedByOne, Serves

\* What a round leaves behind is even.
LEMMA RoundIsEven ==
  ASSUME TypeOK, NEW t \in Data, RoundRobin(t), prev \in Lcores
  PROVE  Even(t)
<1> SUFFICES ASSUME NEW k \in OfType(t), NEW l \in OfType(t)
             PROVE  Len(port_list[k]) <= Len(port_list[l]) + 1
  BY DEF Even
<1>1. k \in Int /\ l \in Int /\ prev \in Int
      /\ Len(port_list[k]) \in Nat /\ Len(port_list[l]) \in Nat
  BY LenProperties DEF OfType, TypeOK, Lcores
<1>2. /\ (k <= prev <=> l <= prev) => Len(port_list[k]) = Len(port_list[l])
      /\ k <= prev /\ l > prev => Len(port_list[k]) = Len(port_list[l]) + 1
      /\ l <= prev /\ k > prev => Len(port_list[l]) = Len(port_list[k]) + 1
  BY DEF RoundRobin
<1> QED BY <1>1, <1>2

LEMMA AllEven ==
  ASSUME EvenInv, OneNode, NEW t \in Data
  PROVE  Even(t)
<1>1. CASE pc = t
  <2>1. RoundRobin(t) /\ prev \in Lcores /\ TypeOK
    BY <1>1 DEF EvenInv, InitInv, Data
  <2> QED BY <2>1, RoundIsEven
<1>2. CASE pc # t
  BY <1>2 DEF EvenInv
<1> QED BY <1>1, <1>2

LEMMA SetTypesEven ==
  ASSUME EvenInv, InitInv', SetTypes
  PROVE  EvenInv'
<1>1. /\ UNCHANGED <<nb_lcores, lcore_socket, nb_ports, port_numa, port_list, pc, prev>>
      /\ pc = "types" /\ pc' = "types"
  BY DEF SetTypes, machine
<1>2. TypeOK /\ type[0] = "default" /\ prev \in Lcores /\ i \in Nat
  BY <1>1 DEF EvenInv, InitInv, TypeOK
<1>3. type'[0] = "default"
  <2>1. 0 \in Lcores /\ i + 1 # 0
    BY <1>2 DEF Lcores, TypeOK
  <2>2. CASE UNCHANGED type
    BY <1>2, <2>2
  <2>3. CASE /\ type[i] = "unused"
             /\ type' = [l \in Lcores |-> CASE l = i -> "rx"
                                     [] l = i + 1 -> "tx"
                                     [] OTHER -> type[l]]
    <3>1. i # 0
      BY <1>2, <2>3
    <3> QED BY <1>2, <2>1, <2>3, <3>1
  <2> QED BY <2>2, <2>3 DEF SetTypes
<1>4. \A l \in Lcores' : port_list'[l] = <<>>
  BY <1>1 DEF EvenInv, InitInv, NothingDealt, Lcores
<1>5. \A t \in Data : Even(t)'
  <2>1. Len(<<>>) = 0
    OBVIOUS
  <2> QED BY <1>4, <2>1 DEF Even, OfType
<1>6. Lcores' = Lcores
  BY <1>1 DEF Lcores
<1> QED BY <1>1, <1>2, <1>3, <1>5, <1>6 DEF EvenInv, Data

\* A phase begins with empty lists and the search at lcore 0.
LEMMA PhaseEven ==
  ASSUME EvenInv, InitInv', TypesSet \/ \E t \in Data : AllDealt(t)
  PROVE  EvenInv'
<1>1. /\ UNCHANGED <<nb_lcores, lcore_socket, nb_ports, port_numa, type, port_list>>
      /\ pc # "panic" /\ pc' # "panic" /\ prev' = 0
  BY DEF TypesSet, AllDealt, machine, Data
<1>2. /\ type'[0] = "default" /\ prev' \in Lcores' /\ Lcores' = Lcores
      /\ TypeOK /\ ServedByOne /\ type[0] = "default"
  BY <1>1 DEF EvenInv, InitInv, TypeOK, Lcores
<1>3. OneNode' <=> OneNode
  BY <1>1 DEF OneNode, Lcores, Ports
<1>4. ASSUME NEW t \in Data, pc' = t
      PROVE  RoundRobin(t)'
  <2>1. Dealt(t) = {}
    BY <1>4 DEF Dealt, Data, TypesSet, AllDealt
  <2>2. \A l \in OfType(t) : Len(port_list[l]) = 0
    BY <1>1, <1>2, <2>1, NothingDealtIsEmpty
  <2>3. \A l \in OfType(t) : l \in Nat /\ l # 0
    BY <1>2 DEF OfType, Lcores, TypeOK, Data
  <2>4. OfType(t)' = OfType(t)
    BY <1>1, <1>2 DEF OfType
  <2> QED BY <1>1, <2>2, <2>3, <2>4 DEF RoundRobin
<1>5. ASSUME OneNode, NEW t \in Data
      PROVE  Even(t)'
  <2>1. Even(t)
    BY <1>5, AllEven
  <2> QED BY <1>1, <1>2, <2>1 DEF Even, OfType
<1> QED BY <1>1, <1>2, <1>3, <1>4, <1>5 DEF EvenInv

LEMMA DealPortEven ==
  ASSUME EvenInv, InitInv', NEW t \in Data, DealPort(t)
  PROVE  EvenInv'
<1>1. /\ UNCHANGED <<nb_lcores, lcore_socket, nb_ports, port_numa, type, pc>>
      /\ pc = t /\ pc # "panic" /\ TypeOK
  BY DEF DealPort, machine, Data, EvenInv, InitInv
<1>2. /\ OneNode' <=> OneNode
      /\ Lcores' = Lcores /\ \A s \in Data : OfType(s)' = OfType(s)
  BY <1>1 DEF OneNode, Lcores, Ports, OfType
<1>3. PICK l \in OfType(t) : /\ l \in Lcores /\ prev' = l
                             /\ \A k \in Lcores : k # l => port_list'[k] = port_list[k]
  BY <1>1, DealServes
<1>4. type'[0] = "default" /\ prev' \in Lcores' /\ prev \in Lcores
  BY <1>1, <1>2, <1>3 DEF EvenInv
<1>5. ASSUME OneNode
      PROVE  RoundRobin(t)'
  BY <1>1, <1>4, <1>5, DealGoesRound DEF EvenInv
<1>6. ASSUME OneNode, NEW s \in Data, s # t
      PROVE  Even(s)'
  <2>1. \A k \in OfType(s) : port_list'[k] = port_list[k]
    BY <1>3, <1>6 DEF OfType
  <2>2. Even(s)
    BY <1>6, AllEven
  <2> QED BY <1>2, <2>1, <2>2 DEF Even
<1> QED BY <1>1, <1>2, <1>4, <1>5, <1>6 DEF EvenInv

\* On a machine of one node the search starts each time after the lcore it
\* found last, so that no lcore gets two ports more than another of its type
\* (get_next_lcore, init_lcores_data_rx and init_lcores_data_tx).
THEOREM EvenShares == Spec => []EvenOnOneNode
<1>1. Init => EvenInv
  <2> SUFFICES ASSUME Init PROVE EvenInv
    OBVIOUS
  <2>1. InitInv
    BY InitHolds
  <2>2. \A t \in Data : Even(t)
    <3>1. Len(<<>>) = 0
      OBVIOUS
    <3> QED BY <3>1 DEF Init, Even, OfType
  <2>3. pc # "panic" => pc = "types" /\ type[0] = "default" /\ prev \in Lcores
    BY <2>1 DEF Init, Lcores, InitInv, TypeOK
  <2>4. \A t \in Data : pc # t
    BY DEF Init, Data
  <2> QED BY <2>1, <2>2, <2>3, <2>4 DEF EvenInv
<1>2. EvenInv /\ InitInv' /\ [Next]_vars => EvenInv'
  <2> SUFFICES ASSUME EvenInv, InitInv', [Next]_vars PROVE EvenInv'
    OBVIOUS
  <2>1. CASE SetTypes
    BY <2>1, SetTypesEven
  <2>2. CASE TypesSet
    BY <2>2, PhaseEven
  <2>3. ASSUME NEW t \in Data, DealPort(t)
        PROVE  EvenInv'
    BY <2>3, DealPortEven
  <2>4. ASSUME NEW t \in Data, NoLcoreLeft(t)
        PROVE  EvenInv'
    <3>1. /\ UNCHANGED <<nb_lcores, lcore_socket, nb_ports, port_numa, type, port_list>>
          /\ pc' = "panic"
      BY <2>4 DEF NoLcoreLeft, machine
    <3>2. OneNode' <=> OneNode
      BY <3>1 DEF OneNode, Lcores, Ports
    <3>3. ASSUME OneNode, NEW s \in Data
          PROVE  Even(s)'
      <4>1. Even(s)
        BY <3>3, AllEven
      <4> QED BY <3>1, <4>1 DEF Even, OfType, Lcores
    <3> QED BY <3>1, <3>2, <3>3 DEF EvenInv, Data
  <2>5. ASSUME NEW t \in Data, AllDealt(t)
        PROVE  EvenInv'
    BY <2>5, PhaseEven
  <2>6. CASE Ended \/ UNCHANGED vars
    <3>1. UNCHANGED <<nb_lcores, lcore_socket, nb_ports, port_numa, type, port_list, pc, prev>>
      BY <2>6 DEF Ended, vars, machine
    <3>2. (OneNode' <=> OneNode) /\ Lcores' = Lcores
      BY <3>1 DEF OneNode, Lcores, Ports
    <3>3. \A t \in Data : (RoundRobin(t)' <=> RoundRobin(t)) /\ (Even(t)' <=> Even(t))
      BY <3>1, <3>2 DEF RoundRobin, Even, OfType
    <3> QED BY <3>1, <3>2, <3>3 DEF EvenInv
  <2> QED BY <2>1, <2>2, <2>3, <2>4, <2>5, <2>6 DEF Next
<1>3. EvenInv => EvenOnOneNode
  BY AllEven DEF EvenOnOneNode, Even
<1> QED BY <1>1, <1>2, <1>3, InitInvInductive, PTL DEF Spec
=============================================================================
