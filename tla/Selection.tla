----------------------------- MODULE Selection -----------------------------
(***************************************************************************)
(* The part of a sequence of packets that lies at some of its places, in   *)
(* its order: the refinement mappings of the datapaths say with it which   *)
(* packets of a queue are of one pair of ports.                            *)
(***************************************************************************)
EXTENDS Naturals, Sequences

\* What s has at the places in P.
Chosen(s, P) ==
  LET f[x \in 0 .. Len(s)] ==
        IF x = 0 THEN <<>>
        ELSE IF x \in P THEN Append(f[x - 1], s[x]) ELSE f[x - 1]
  IN  f[Len(s)]

\* The packets of s that are in M.
Among(s, M) == Chosen(s, {x \in 1 .. Len(s) : s[x] \in M})

\* The packets of s that came in by port p.
OfPort(s, p) == Chosen(s, {x \in 1 .. Len(s) : s[x].in = p})
=============================================================================
