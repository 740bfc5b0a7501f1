----------------------------- MODULE MCDaqRing -----------------------------
(***************************************************************************)
(* DaqRing for TLC.                                                        *)
(***************************************************************************)
EXTENDS DaqRing, TLC

\* A thread on each node.
OneEach == "t" :> 0 @@ "u" :> 1

\* A limit, and a negative one that two packets, not one, take beyond
\* the least int.
Bursts == {-3, 2}

\* Mbufs are alike.
Alike == Permutations(Mbufs)
=============================================================================
