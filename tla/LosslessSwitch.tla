--------------------------- MODULE LosslessSwitch ---------------------------
(***************************************************************************)
(* What the voq_swq datapath promises of the packets of a connection,      *)
(* whatever lcores, queues and rings they pass through.                    *)
(*                                                                         *)
(* Each direction of a connection (a key) has a channel per path: the      *)
(* default path and one path per ring.  A packet takes one path when it    *)
(* comes in.  Each channel is a queue: nothing is lost, duplicated or      *)
(* overtaken on it, only the default path may free the oldest packet.      *)
(* Nothing is promised between two channels: a packet may overtake one of  *)
(* the same connection that took another path.                             *)
(***************************************************************************)
EXTENDS Naturals, Sequences

CONSTANTS Keys, Paths, DefaultPath

VARIABLES
  accepted,  \* packets that came in, by key; also the number of the last one
  chan,      \* numbers of the packets inside, by key and path
  out        \* history: what left, by key

Init ==
  /\ accepted = [k \in Keys |-> 0]
  /\ chan = [k \in Keys |-> [t \in Paths |-> <<>>]]
  /\ out = [k \in Keys |-> <<>>]

Accept(k, t) ==
  /\ accepted' = [accepted EXCEPT ![k] = @ + 1]
  /\ chan' = [chan EXCEPT ![k][t] = Append(@, accepted[k] + 1)]
  /\ UNCHANGED out

Deliver(k, t) ==
  /\ chan[k][t] # <<>>
  /\ out' = [out EXCEPT ![k] = Append(@, [n |-> Head(chan[k][t]), path |-> t])]
  /\ UNCHANGED accepted
  /\ chan' = [chan EXCEPT ![k][t] = Tail(@)]

Free(k) ==
  /\ chan[k][DefaultPath] # <<>>
  /\ UNCHANGED <<accepted, out>>
  /\ chan' = [chan EXCEPT ![k][DefaultPath] = Tail(@)]

Next == \E k \in Keys : (\E t \in Paths : Accept(k, t) \/ Deliver(k, t)) \/ Free(k)

Spec == Init /\ [][Next]_<<accepted, chan, out>>
=============================================================================
