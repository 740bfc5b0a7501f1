------------------------- MODULE OutputQueuedSwitch -------------------------
(***************************************************************************)
(* What the datapaths with hardware queues promise: a switch with a queue  *)
(* for each pair of an input and an output port.                           *)
(*                                                                         *)
(* The packets of an input port are given an output port one after the     *)
(* other, each one of those its destination allows, and leave in this      *)
(* order.  Nothing is lost, duplicated, changed or sent elsewhere.         *)
(* Nothing is promised about packets of different input ports, or about    *)
(* packets of one input port for different output ports.  A packet may be  *)
(* given an output that is no port: it waits there for ever.               *)
(***************************************************************************)
EXTENDS Naturals, Sequences

CONSTANTS
  Ports,
  Outputs,    \* the ports, and what a rule may name besides them
  Allowed(_)  \* the output ports a packet may be given

VARIABLES
  input,   \* packets that came in and have no output port yet
  queue,   \* packets by input and output port
  out      \* history: what left, by output port

Init ==
  /\ input = [p \in Ports |-> <<>>]
  /\ queue = [p \in Ports |-> [q \in Outputs |-> <<>>]]
  /\ out = [q \in Ports |-> <<>>]

Accept(p) ==
  /\ Len(input'[p]) > Len(input[p])
  /\ input' = [input EXCEPT ![p] = @ \o SubSeq(input'[p], Len(@) + 1, Len(input'[p]))]
  /\ UNCHANGED <<queue, out>>

Route(p, q) ==
  /\ input[p] # <<>> /\ q \in Allowed(Head(input[p]))
  /\ UNCHANGED out
  /\ input' = [input EXCEPT ![p] = Tail(@)]
  /\ queue' = [queue EXCEPT ![p][q] = Append(@, Head(input[p]))]

Deliver(p, q) ==
  /\ queue[p][q] # <<>>
  /\ out' = [out EXCEPT ![q] = Append(@, Head(queue[p][q]))]
  /\ queue' = [queue EXCEPT ![p][q] = Tail(@)]
  /\ UNCHANGED input

Next == \E p \in Ports :
          \/ Accept(p)
          \/ \E q \in Outputs : Route(p, q)
          \/ \E q \in Ports : Deliver(p, q)

Spec == Init /\ [][Next]_<<input, queue, out>>
=============================================================================
