------------------------------ MODULE OdlPaths ------------------------------
(***************************************************************************)
(* The paths of data collectors (DCMs) through the OpenFlow bridges of the *)
(* network: what odl_utils/of.py and the scripts odl_show_dcms,            *)
(* odl_distribute_dcms and odl_remove_dcms do with the flows in the        *)
(* controller, request by request, and where packets go meanwhile.         *)
(*                                                                         *)
(* End nodes hang on a leaf bridge of their pod in each plane, the leaves  *)
(* of a plane on its spines.  Default flows take a packet along one path.  *)
(* A DCM gets a flow of higher priority for each of its TCP connections    *)
(* (inflow_k) on each bridge of a path through one spine; with daqrings    *)
(* the inflows lead into a ring of the bridge, and one more flow           *)
(* (outdaqringflow) leads out of it.                                       *)
(*                                                                         *)
(* The controller answers a request when it has stored it, and brings it   *)
(* to the bridge later: those of a bridge in their order, those of         *)
(* different bridges in any order.  It may refuse any request; as a bound, *)
(* one of each run of a script.                                            *)
(*                                                                         *)
(* Abstractions.  A connection stands for the match on its addresses and   *)
(* ports.  A flow leads to a neighbour: parallel links are one.  The       *)
(* default flows are in place and stay.                                    *)
(***************************************************************************)
EXTENDS Naturals, FiniteSets, SequencesExt

CONSTANTS
  NPods, NPlanes,   \* plane-X-pod-Y
  Spines,           \* <<"spine", X, Y>>: plane-X-spine-Y
  SpineLists,       \* get_spines of a script: those listed, in the order of a dict
  BridgeLists,      \* get_bridges of a script, in the order of a dict
  EndNodes,         \* get_endnodes, in the same order
  PodOf,            \* the pod in the name of an end node
  DefaultPlane, DefaultSpine,   \* default_port, as an uplink and as a number of a spine
  Procs, NodeOf,    \* DCM processes and their end nodes
  Inflows,          \* the connections of a process, in the order they are found
  Src,              \* the end node that a connection comes from
  Modes,            \* usedaqring and at_dcm_pod_only: "none", "pod", "all"
  MaxScripts,       \* bound: distributions and removals
  Ending,           \* bound: the processes that may end
  MaxPending        \* bound: requests that have not reached their bridge

Pods == 1 .. NPods
Planes == 1 .. NPlanes
Leaf(x, i) == <<"pod", x, i>>
Leaves == {Leaf(x, i) : x \in Planes, i \in Pods}
Ends == Range(EndNodes)
Bridges == Ends \cup Leaves \cup Spines
Conns == UNION {Range(Inflows[p]) : p \in Procs}
Dst == [c \in Conns |-> NodeOf[CHOOSE p \in Procs : c \in Range(Inflows[p])]]

\* The first part of a name says what it is the name of.  get_pod_endnodes looks for
\* the number of the pod anywhere behind "pod-": with ten pods, pod 1 has more than its own.
ASSUME TopologyAssumption ==
  /\ NPods \in 1 .. 9 /\ NPlanes \in Nat \ {0}
  /\ EndNodes \in Seq(Ends) /\ \A e \in Ends : e[1] = "end" /\ PodOf[e] \in Pods
  /\ \A s \in Spines : s[1] = "spine" /\ s[2] \in Planes
  /\ DefaultPlane \in Planes /\ \A x \in Planes : <<"spine", x, DefaultSpine>> \in Spines
  /\ SpineLists \subseteq Seq(Spines) \ {<<>>} /\ BridgeLists \subseteq Seq(Bridges)
\* A connection belongs to one process, and comes from another end node.
ASSUME DcmAssumption ==
  /\ IsFiniteSet(Procs)
  /\ \A p \in Procs : NodeOf[p] \in Ends /\ Inflows[p] \in Seq(Conns)
  /\ \A p, o \in Procs : p # o => Range(Inflows[p]) \cap Range(Inflows[o]) = {}
  /\ \A c \in Conns : c[1] = "conn" /\ Src[c] \in Ends \ {Dst[c]}
ASSUME BoundsAssumption == MaxScripts \in Nat /\ MaxPending \in Nat

VARIABLES
  running,     \* the DCM processes
  dcms,        \* the dump: process by id
  script,      \* the script that runs
  spines,      \* its topology: the spines that the controller listed
  todo,        \* the requests it still has to make
  refused,     \* the controller refused one of its requests
  late,        \* it is a distribution that began with requests of others on their way
  strayed,     \* a DELETE was refused, now or earlier
  renumbered,  \* a dump has given an id to another DCM while there were flows of the id
  conf,        \* the controller's flows
  table,       \* the bridges' flows
  pending,     \* requests on their way to a bridge
  scripts      \* distributions and removals so far

history == <<late, strayed, renumbered>>
vars == <<running, dcms, script, spines, todo, refused, history, conf, table, pending, scripts>>

\* daqring_id of a DCM: a port of each bridge.
Ring(id) == <<"ring", id + 100>>
Rings == {Ring(id) : id \in 1 .. Cardinality(Procs)}

\* A flow: bridge, the DCM of its id, number of the inflow or 0 for outdaqringflow,
\* what it matches (a connection, or a ring as in-port), and where it leads.
Flow == [node : Bridges, dcm : 1 .. Cardinality(Procs), k : Nat,
         match : Conns \cup Rings, to : Bridges \cup Rings]
SameId(f, g) == f.node = g.node /\ f.dcm = g.dcm /\ f.k = g.k

Put(f) == [op |-> "put", flow |-> f]
Delete(f) == [op |-> "delete", flow |-> f]
Get(n, id) == [op |-> "get", node |-> n, dcm |-> id]

\* scan_dcms: ids count the processes host by host, on a host by their load.
Scanned ==
  {s \in SetToSeqs(running) :
     \A i, j \in DOMAIN s : i < j =>
       \A x, y \in DOMAIN EndNodes :
         EndNodes[x] = NodeOf[s[i]] /\ EndNodes[y] = NodeOf[s[j]] => x <= y}

Init ==
  /\ running = Procs /\ dcms \in Scanned
  /\ script = "none" /\ spines = <<>> /\ todo = <<>>
  /\ refused = FALSE /\ late = FALSE /\ strayed = FALSE /\ renumbered = FALSE
  /\ conf = {} /\ table = {} /\ pending = <<>>
  /\ scripts = 0
-----------------------------------------------------------------------------
(* The requests of a path. *)

\* __install_subpath: the flow out of the ring, then those that lead into it.
RingOfAll(id) == Ring(1)                       \* fault: daqring_id is left as it is
RingOf(id) == Ring(id)
InstallSubpath(id, at, to, usedaqring) ==
  LET in == Inflows[dcms[id]]
      flow(k, m, t) == Put([node |-> at, dcm |-> id, k |-> k, match |-> m, to |-> t])
  IN  (IF usedaqring THEN <<flow(0, RingOf(id), to)>> ELSE <<>>) \o
      [k \in DOMAIN in |-> flow(k, in[k], IF usedaqring THEN RingOf(id) ELSE to)]

\* install_path: first at the DCM's leaf, then at the spine, then pod by pod.
FromPodsOneMore == 1 .. NPods + 1              \* fault
FromPodsOneLess == 1 .. NPods - 1              \* fault
FromPods == 1 .. NPods
SourcesFirst(leaf, spine, pods) == pods \o spine \o leaf     \* fault
DcmFirst(leaf, spine, pods) == leaf \o spine \o pods
InstallPath(id, spine, mode) ==
  LET node == NodeOf[dcms[id]]
      leaf(i) == Leaf(spine[2], i)
      pod(i) ==
        (IF i = PodOf[node] THEN <<>> ELSE InstallSubpath(id, leaf(i), spine, mode = "all")) \o
        FlattenSeq([x \in DOMAIN EndNodes |->
          IF PodOf[EndNodes[x]] = i /\ EndNodes[x] # node
          THEN InstallSubpath(id, EndNodes[x], leaf(i), FALSE) ELSE <<>>])
  IN  DcmFirst(InstallSubpath(id, leaf(PodOf[node]), node, mode # "none"),
               InstallSubpath(id, spine, leaf(PodOf[node]), mode = "all"),
               FlattenSeq([i \in FromPods |-> pod(i)]))

Idle == script = "none" /\ scripts < MaxScripts

\* odl_distribute_dcms: the DCMs of the dump in the order of a dict, spines in turn.
DistributeDcms ==
  /\ Idle
  /\ \E mode \in Modes, l \in SpineLists, order \in SetToSeqs(DOMAIN dcms) :
       /\ spines' = l
       /\ todo' = FlattenSeq([k \in DOMAIN order |->
            InstallPath(order[k], l[((k - 1) % Len(l)) + 1], mode)])
  /\ script' = "distribute" /\ scripts' = scripts + 1 /\ late' = (pending # <<>>)
  /\ UNCHANGED <<running, dcms, refused, strayed, renumbered, conf, table, pending>>

\* odl_remove_dcms: scans anew, and looks for the flows of each id on each bridge.
RemoveDcms ==
  /\ Idle
  /\ \E s \in Scanned, l \in SpineLists, nodes \in BridgeLists :
       /\ Range(nodes) = Ends \cup Leaves \cup Range(l) /\ spines' = l
       /\ \E order \in SetToSeqs(DOMAIN s) :
            todo' = FlattenSeq([k \in DOMAIN order |->
              [n \in DOMAIN nodes |-> Get(nodes[n], order[k])]])
  /\ script' = "remove" /\ scripts' = scripts + 1
  /\ UNCHANGED <<running, dcms, refused, history, conf, table, pending>>

\* odl_show_dcms: scans and dumps, whatever flows are there or on their way; their ids may
\* mean other DCMs then.
Known == conf \cup table \cup {r.flow : r \in Range(pending)}
ShowDcms ==
  /\ Idle
  /\ dcms' \in Scanned \ {dcms}
  /\ renumbered' = (/\ Known # {}
                    /\ \/ renumbered
                       \/ \E f \in Known : f.dcm \notin DOMAIN dcms' \/ dcms'[f.dcm] # dcms[f.dcm])
  /\ UNCHANGED <<running, script, spines, todo, refused, late, strayed, conf, table, pending, scripts>>

\* A script looks at the processes only when it starts: after the last it is too late.
ProcessEnds(p) ==
  /\ Idle /\ p \in running \cap Ending
  /\ running' = running \ {p}
  /\ UNCHANGED <<dcms, script, spines, todo, refused, history, conf, table, pending, scripts>>
-----------------------------------------------------------------------------
(* The requests at the controller. *)

Applied(flows, r) ==
  {f \in flows : ~SameId(f, r.flow)} \cup (IF r.op = "put" THEN {r.flow} ELSE {})

Granted ==
  /\ Len(pending) < MaxPending
  /\ conf' = Applied(conf, Head(todo))
  /\ pending' = Append(pending, Head(todo))
  /\ todo' = Tail(todo) /\ UNCHANGED <<refused, strayed>>

\* flow_add: a refusal ends the script.
FlowAdd ==
  /\ todo # <<>> /\ Head(todo).op = "put"
  /\ \/ Granted
     \/ todo' = <<>> /\ refused' = TRUE /\ UNCHANGED <<strayed, conf, pending>>
  /\ UNCHANGED <<running, dcms, script, spines, late, renumbered, table, scripts>>

\* __get_installed_flows and the two loops of remove_path; a refusal reads as no flows.
FlowsOf(n, id, out) ==
  SetToSeq({Delete(f) : f \in {g \in conf : g.node = n /\ g.dcm = id /\ (g.k = 0) = out}})
DeletesInflowsOnly(n, id) == FlowsOf(n, id, FALSE)                           \* fault
Deletes(n, id) == FlowsOf(n, id, FALSE) \o FlowsOf(n, id, TRUE)
GetInstalledFlows ==
  /\ todo # <<>> /\ Head(todo).op = "get"
  /\ \/ todo' = Deletes(Head(todo).node, Head(todo).dcm) \o Tail(todo) /\ UNCHANGED refused
     \/ ~refused /\ todo' = Tail(todo) /\ refused' = TRUE
  /\ UNCHANGED <<running, dcms, script, spines, history, conf, table, pending, scripts>>

\* flow_delete: a refusal is passed over.
FlowDelete ==
  /\ todo # <<>> /\ Head(todo).op = "delete"
  /\ \/ Granted
     \/ /\ ~refused /\ todo' = Tail(todo) /\ refused' = TRUE /\ strayed' = TRUE
        /\ UNCHANGED <<conf, pending>>
  /\ UNCHANGED <<running, dcms, script, spines, late, renumbered, table, scripts>>

ScriptEnds ==
  /\ script # "none" /\ todo = <<>>
  /\ script' = "none" /\ spines' = <<>> /\ refused' = FALSE /\ late' = FALSE
  /\ UNCHANGED <<running, dcms, todo, strayed, renumbered, conf, table, pending, scripts>>

\* The controller brings the oldest request of a bridge to it.
Apply ==
  /\ \E x \in DOMAIN pending :
       /\ \A y \in 1 .. x - 1 : pending[y].flow.node # pending[x].flow.node
       /\ table' = Applied(table, pending[x])
       /\ pending' = RemoveAt(pending, x)
  /\ UNCHANGED <<running, dcms, script, spines, todo, refused, history, conf, scripts>>

Done == script = "none" /\ scripts = MaxScripts /\ pending = <<>> /\ UNCHANGED vars

Next ==
  \/ DistributeDcms \/ RemoveDcms \/ ShowDcms \/ \E p \in Procs : ProcessEnds(p)
  \/ FlowAdd \/ GetInstalledFlows \/ FlowDelete \/ ScriptEnds \/ Apply \/ Done

Spec == Init /\ [][Next]_vars
-----------------------------------------------------------------------------
(* Where a packet goes. *)

Local == <<"local">>
\* set_default_flows.  A leaf has a flow for each end node of its pod and one for the
\* whole network, of the same priority: for a packet to its own pod either may be taken.
Defaults(n, from, dst) ==
  IF n \in Ends THEN {IF from = Local THEN Leaf(DefaultPlane, PodOf[n]) ELSE Local}
  ELSE IF n \in Spines THEN {Leaf(n[2], PodOf[dst])}
  ELSE {<<"spine", n[2], DefaultSpine>>} \cup (IF PodOf[dst] = n[3] THEN {dst} ELSE {})

Matching(n, m) == {f.to : f \in {g \in table : g.node = n /\ g.match = m}}
NextHops(n, from, c) ==
  LET inport == Matching(n, from)
      conn == Matching(n, c)
  IN  IF inport # {} THEN inport ELSE IF conn # {} THEN conn ELSE Defaults(n, from, Dst[c])

\* A packet at a bridge, by the port it came in; it is never sent back by that port.
Hop(pos, c) ==
  LET n == pos[1]
      from == pos[2]
  IN  IF from \in {<<"dropped">>, <<"taken">>} THEN {pos}
      ELSE {IF to = Local THEN <<n, <<"taken">>>>
            ELSE IF to = from THEN <<n, <<"dropped">>>>
            ELSE IF to \in Rings THEN <<n, to>>
            ELSE <<to, n>> : to \in NextHops(n, from, c)}

\* The longest way: to the default spine of a plane and back again, with rings.
MaxHops == 12
Walk(c) ==
  LET after[k \in 0 .. MaxHops] ==
        IF k = 0 THEN {<<Src[c], Local>>} ELSE UNION {Hop(pos, c) : pos \in after[k - 1]}
  IN  after[MaxHops]

Delivered(c) == Walk(c) = {<<Dst[c], <<"taken">>>>}
-----------------------------------------------------------------------------
\* The types of the variables; no two flows of a bridge have one id.
TypeOK ==
  /\ running \subseteq Procs /\ Range(dcms) \subseteq Procs
  /\ script \in {"none", "distribute", "remove"}
  /\ IF script = "none" THEN spines = <<>> ELSE spines \in SpineLists
  /\ {refused, late, strayed, renumbered} \subseteq BOOLEAN /\ scripts \in 0 .. MaxScripts
  /\ conf \subseteq Flow /\ table \subseteq Flow /\ Len(pending) <= MaxPending
  /\ \A r \in Range(todo) : IF r.op = "get" THEN r.node \in Bridges ELSE r.flow \in Flow
  /\ \A S \in {conf, table} : Cardinality({<<f.node, f.dcm, f.k>> : f \in S}) = Cardinality(S)

\* Whatever part of a script's requests has reached whichever bridges, a packet of a
\* connection ends at the end node of its DCM, or is dropped: it never goes to another
\* DCM or goes round.  It is dropped only in a plane where the leaf next to the DCM has
\* only default flows for it, unless a DELETE was refused: the flow out of a ring is
\* deleted then although a flow into it stays, and the bridge drops what the ring gives
\* back.  All this takes ids that mean what they meant when flows were installed: once
\* odl_show_dcms has given the id of a flow that is there to another DCM, install_path
\* replaces the flow out of a ring by one for that DCM.
NeverAstray ==
  ~renumbered =>
    \A c \in Conns : \A pos \in Walk(c) :
      \/ pos = <<Dst[c], <<"taken">>>>
      \/ /\ pos[2] = <<"dropped">> /\ pos[1] \in Leaves \cup Spines
         /\ ~strayed => Matching(Leaf(pos[1][2], PodOf[Dst[c]]), c) = {}

\* When a distribution has ended, none of its requests was refused and all have
\* reached the bridges, every connection has its path, whatever earlier scripts that
\* broke off or used other spines have left behind, unless an id of flows that are there
\* has become another DCM's.
Distributed ==
  script = "distribute" /\ todo = <<>> /\ ~refused /\ pending = <<>> /\ ~renumbered =>
    \A c \in UNION {Range(Inflows[p]) : p \in Range(dcms)} : Delivered(c)

\* While no other request is under way, none of a distribution takes from a
\* connection the path it has: the flows nearer to the DCM come first.  A request of an
\* earlier script that is still on its way may do so, as the flows nearer to the DCM
\* may have been removed since; so may one for an id that was another DCM's.
PathsAreKept ==
  [][ script = "distribute" /\ ~late /\ Len(pending) = 1 /\ ~strayed /\ ~renumbered =>
        \A c \in Conns : Delivered(c) => Delivered(c)' ]_table

\* When odl_remove_dcms has ended and none of its requests was refused, the bridges that
\* the controller listed have no flow left of as many ids as there were DCMs to be found,
\* in whatever order, and however far distributions had come.
RemovesScannedIds ==
  script = "remove" /\ todo = <<>> /\ ~refused =>
    \A f \in conf : f.dcm > Cardinality(running) \/ f.node \in Spines \ Range(spines)
=============================================================================
